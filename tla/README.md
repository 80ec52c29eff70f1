# A verification project for mlflow-oidc-auth

`mlflow-oidc-auth` puts OpenID Connect logins, permissions, workspaces and storage
quotas in front of an MLflow server. This directory holds TLA+ models of its stateful
parts, TLC configurations that check them, and proofs that TLAPS checks. Paths below
are relative to `mlflow_oidc_auth/`.

1. [Inventory](#inventory): the parts, their state, what is hard, what makes them correct
2. [Modules](#modules): what is modelled, and how it corresponds to the code
3. [Runs](#runs): what each configuration asks and what it shows
4. [Proofs](#proofs)
5. [What the code does not keep](#what-the-code-does-not-keep): findings and experiments
6. [Not modelled](#not-modelled)
7. [Plan](#plan)

To check a configuration: `tlc -workers 2 -config MCQuota_all.cfg MCQuota`.
To check the proofs of a module: `tlapm Quota_proofs.tla` (a minute or two; `ReadAccess_proofs` takes up to ten).

## Inventory

The plugin is a FastAPI application (`app.py`) that mounts MLflow's Flask application.
A request passes Session, WorkspaceContext, Auth, ProxyHeaders and Permission
middleware, in this order; then either a router of the plugin serves it, or MLflow
does, between the Flask hooks of `hooks/before_request.py` and
`hooks/after_request.py`. Many requests run at a time, on the threads of one process
and on several replicas; what they share is the plugin's database, MLflow's database,
the permission caches, and a cookie that holds the whole session of a browser.
Nothing spans several of these in one transaction, and that is where most of what
can go wrong comes from.

| part | state it keeps | operations | meets |
|---|---|---|---|
| Permission resolution (`utils/permissions.py`, `cache/`) | a TTL cache per replica, or one in Redis | resolve, flush after a write, expire | every authorised request; every write of a permission |
| Permission sources (`repository/`, `routers/user_permissions.py`, `routers/group_permissions.py`, `utils/batch_permissions.py`) | rows and patterns of users and groups for seven kinds of resource; membership | create, change, delete rows and patterns; replace groups; list pages | read by the resolution; groups written by logins |
| Search filtering (`hooks/after_request.py`) | only within a request: page, token, memo | filter a page, refill, set the token | resolution, workspaces, MLflow's stores |
| Quota (`utils/quota.py`, `repository/quota.py`, `scheduler.py`) | a row per user: limit, used bytes, block, mail time; a cache of experiment sizes | check and charge an upload, reconcile, set limits | the before-request hook, the scheduler, trash, permissions (ownership) |
| Sessions (`routers/auth.py`, `middleware/auth_middleware.py`) | the signed cookie: user, expiry, refresh token, OAuth state | login, callback, logout, check, refresh | the IdP; users and groups |
| Ownership (hooks, `dependencies.py`) | the rows of the sources, keyed by name | grant to a creator, move at a rename, wipe at a deletion, hand over at a transfer | MLflow, which has done its part before the hook runs |
| Workspaces (`utils/workspace_cache.py`, `routers/workspace_*`) | permissions and patterns of workspaces; a TTL cache | resolve, invalidate, flush | fallback of the resolution; search filtering |
| Request authorisation (`hooks/before_request.py`, `validators/`, `dependencies.py`, `middleware/`, `bridge/`) | only within a request: user, admin flag, what it names | authenticate, read the flag, find out what the request is about, ask for each permission, act | resolution; directory; MLflow's stores |
| GraphQL (`graphql/`) | a memo per query | check each field, narrow searches to what is readable | resolution |
| Directory (`repository/user.py`, `routers/users.py`) | users, their admin flag, their token and its expiry | create, change, delete; rotate a token; authenticate | request authorisation; sessions; resolution (a cache that does not see a deletion) |
| Trash (`routers/trash.py`, `scheduler.py`) | none of its own: MLflow's lifecycle stages | list, restore, delete for good | quota, permissions |
| Signing keys (`auth.py`) | a TTL cache of one entry, with a lock | validate a token, refetch | bearer authentication |
| Configuration (`config.py`, `config_providers/`) | values, read once at the start | look up along a chain | everything |
| Webhooks, audit, health, UI, proxy headers, migrations | none that changes at run time | | |

What is hard, and what makes each part correct:

- **Resolution.** A lookup reads its sources in one transaction each, and stores what
  it found when the rows may have changed; a write commits first and clears later, one
  replica and, with Redis, one batch at a time; some writes clear nothing. *Correct:* a cached
  result is what a lookup returns now, unless one of a few known causes says why not,
  and in the end it is.
- **Sources.** Five permissions whose numeric order is not the order of their rights;
  four sources that may contradict each other; tables shared between kinds and guards
  borrowed from others; a second implementation of the resolution for the pages.
  *Correct:* rows of groups reach members, a stronger permission takes nothing away,
  nobody grants what nobody manages, pages and requests agree.
- **Search filtering.** A page is cut, filtered and refilled from a listing that changes,
  in offsets. *Correct:* nothing unreadable is shown; nothing readable is skipped or
  shown twice; every search is answered.
- **Quota.** Checks, charges, measurements and cached sizes interleave, calls of MLflow
  and the mail server fail. *Correct:* the overshoot is bounded, one warning per
  crossing, usage and blocks converge to the truth, and live experiments keep
  their permissions.
- **Sessions.** Each response replaces the whole cookie; tabs race; a refresh token
  works once. *Correct:* a logout sticks, a session is refreshed by its own token, no visible
  login without need, a grant that the IdP ends takes its sessions with it, changes at the IdP arrive.
- **Ownership.** A hook that fails after MLflow has acted; names used again; transfers that overlap.
  *Correct:* rights follow the resource and never the name; a creator keeps MANAGE; an experiment
  that is handed over keeps an owner.
- **Workspaces.** A second cache in front of four sources, with invalidations of one
  entry, of all, or of none, depending on the write; whoever it calls a manager writes
  rows and deletes the workspace; logins create workspaces past the hooks. *Correct:* an
  entry is what a lookup finds, or a known cause says why not; who acts as a manager is one;
  the next workspace of a name inherits no rights.
- **Trash.** A cleanup lists, checks, deletes artifacts and deletes rows in separate calls, while
  users delete, administrators restore, and the scheduler of each host sweeps. *Correct:* only what
  is in the trash, and old enough, is destroyed; artifacts go with their run; the trash is emptied
  in the end; a cleanup keeps to what it was asked for.
- **Request authorisation, GraphQL, Directory.** A request reads credentials, the flag, names and permissions in
  transactions of their own, and MLflow acts later, while rights, names, accounts and tokens change. *Correct:*
  what a request touches its sender was entitled to since it was sent; a token lives for the term it was asked for with.
- **Signing keys.** Validations fetch outside the lock and store in any order, while the IdP rotates and may answer
  rubbish. *Correct:* a rotation refuses a good token only for the named causes, withdrawn keys go out of use, the cache comes back to the
  IdP's keys.

## Modules

```
PermissionCache  <- MCPermissionCache, PermissionCache_proofs
PermissionSources <- MCPermissionSources, ReadAccess_proofs
SearchFilter     <- MCSearchFilter, ReadAccess_proofs   refines PagedListing
Quota            <- MCQuota, Quota_proofs
Session          <- MCSession, Authentication_proofs
Ownership        <- MCOwnership, Ownership_proofs
WorkspaceAccess  <- MCWorkspaceAccess, WorkspaceAccess_proofs
Trash            <- MCTrash, Trash_proofs
RequestAccess    <- MCRequestAccess, RequestAccess_proofs
SigningKeys      <- MCSigningKeys, Authentication_proofs
```

An MC module holds the values, definitions and symmetry its configurations use;
a `_proofs` module the lemmas and theorems (two of them about two components each, which share
no state: what users may read and what a search shows of it; tokens and sessions). Some
definitions next to an action (`CacheKeyWithoutUser` next to `CacheKey`) are what the
code would be with a plausible bug in it; no action uses them. They serve to test
that each property notices such a bug.

**PermissionCache.** `db` is what each source answers for a user and a resource, so that
the rows, patterns and groups behind an answer are data here (they are the subject of
PermissionSources). A request (`req`) is a thread inside `resolve_permission`: `Begin`
looks into the cache, `SourceAnswers` and `SourceHasNoRow` are one transaction each,
`SourcesExhausted` and `ReadWorkspace` the fallback, `Store` the write of the cache. A
writer (`wr`) is a thread inside a method wrapped by `_wrap_with_cache_flush`:
`CommitCovered`, then `ClearBatch` for each replica the backend reaches (its own, or the shared Redis by
batches of `SCAN`). `WipeUserRows`, `WipeGroupRows`, `DeleteUser`, `RenameUser` and
`SetWorkspaceAnswer` are the writes that clear late or never. `Settled`
is a bound: the users that make requests and are granted rows. `Expire` is the TTL, and
eviction. `SlotOf` says what the cache key keeps of a resource. Two history variables, `overtaken`
and `unreached`, name the causes a stale entry may have.

**PermissionSources.** `rows`, `patterns` and `members` are the tables; each route of the two
permission routers is an action with the guard of its dependency, and `Resolve`,
`BatchResolve` and `Shown` are `resolve_permission`, the batch resolution and the pages. A
regular expression is an element of `Patterns`, with the names it `Matches`; a `Broken` one
does not compile. Entries of equal priority come in no particular order, so the match of a
regex source is a set. `family` picks the kinds that share tables or guards; other kinds cannot affect them.
`prompts` carries the prompt flag of a group's row. One write is one step: each is one
transaction, and the resolution's interleaving with them is PermissionCache's subject.

**SearchFilter** and **PagedListing.** `listing` is what MLflow lists; `req` a handler inside one of the four
paginated filters (`OffsetSearch` three of them, `LoggedModelSearch` the one with tokens of
its own); `client` follows the tokens. `Create`, `Delete`, `Grant` and `Revoke` happen
between any two steps. PagedListing is the promise: each page continues where the last ended
and holds exactly the readable items it passed over, in order, as long as nothing has changed
(`disturbed`). What a filter keeps of a page is `Keep`, a selection defined by places, so that it can be reasoned
about without induction; TLC compares it with the library's `SelectSeq` (`KeepSelects`). The refinement maps a client's token to the cursor, and counts an item of a
blocked workspace as readable once the lookup of that workspace has failed, since the code lets it through (`Judge`).

**Quota.** One user. `row` is the row of `user_quotas`, `size`/`stage`/`owned` what MLflow
and the permissions hold of experiments and registered models, `sizes` the cache of the experiments' sizes. Uploads are
`AdmitUpload` (the check), `ChargeUpload`, `StoreUpload`; a reconciliation goes
through `_reconcile_user` one call of a store at a time: `ListOwned`, then `LookUpSize`, `MeasureExperiment` and `MeasureModel`, `WipeOrphan`,
and the writes of the row. A model is measured by its versions' files. Those that lie in the tree of an experiment
(`Inside`) are counted with the model as well as with the experiment, which the docstring of `_calculate_used_bytes` accepts; `size` of a model is
what its versions hold elsewhere. Administration, deletion,
restoration, transfer of ownership, a day going by and every failing call are steps.
`base` and `warnings` are history: what was last measured, and the mails since the last crossing.

**Session.** One browser with several tabs. `cookie` is the session in the browser; each request works on the copy
it was sent with and its response replaces the cookie. `CheckSession`, `Refresh`, the
callback (exchange, groups, admin flag, groups written) and `Logout` are steps of their own; the IdP revokes
tokens and changes roles (`role`) at any time. `/login` and `/callback` go straight to their handlers, every other path
through `CheckSession` first (`FirstPhase`), `/logout` too: one with a session that has expired and cannot be refreshed never reaches its handler.
`owner`, `live`, `ended` are the refresh tokens at the IdP. `Asks` and `MaxEvents` are bounds: the paths each request may be for, and one budget for
what happens outside and what fails. The histories name the causes a property allows: `stragglers` and
`floor`, the requests under way when a logout was answered and the states given out by then; `shared`, the refresh tokens that two requests
under way were sent with; `inherited`, those that a login without a token of its own took over from the user before; `endedAt`, when the IdP ended a
user's grant.

**Ownership.** A request is authorised, served by MLflow, and its hook brings the rows of users and
groups up to date, one transaction each (`HookStep`). Every row records, as history, for which
resource it was granted; `excused` holds the names whose rows are wrong for a known
reason (a failed hook, a rename that raised half way, overlapping requests), `handed` those whose creator's row someone has changed
by request. `kind` is one of the four kinds of named resource, or an experiment, whose rows go by an id and whose owner can be
exchanged: `AskTransfer` reads the row of the new owner, `Demote` takes MANAGE from whoever has it, and `Promote` writes the new
row or, where there was none, `Insert` adds it, one transaction each (`routers/quota.py`). `Overlapping` is a bound: the
operations that may overlap each other.

**WorkspaceAccess.** `exists` is MLflow's table of workspaces; `rows`, `patterns` and `members` are the
plugin's. `Begin` looks into the cache, `AskUserRow` to `AskGroupPatterns` are the sources, each
a transaction (the patterns of groups two), `Store` the write of the cache and `Decide` the check of MANAGE or READ. The routes of
`routers/workspace_permissions.py` and `routers/workspace_regex_permissions.py` follow from there, and the hooks around
MLflow's workspace API: `CreateWorkspace` and `GrantCreator`, `DeleteWorkspace`, `WipeUsers` and
`WipeGroups`. `Remove` is the invalidation or the flush that comes last. `SetGroups`, `LoginAssigns` and `DeleteUser` change the
tables and remove nothing. The histories `doubtful`, `unreached` and `left` name the causes a wrong decision, a stale entry and a
left-over row may have. `SetWorkspaceAnswer` of PermissionCache is what all of this looks like from the resource permissions.

**Trash.** `stage` is MLflow's lifecycle stage of each experiment and run (`gone` once the row is), `aged` what has been
in the trash for longer than the time limit, `artifacts` what is in the artifact repository. `job` is a cleanup on its way:
an administrator's (`RequestCleanup`, `ListRuns`, `FetchExperiment` or `SearchExperiments`, `CheckRun`) or a host's daily one
(`Sweep`); both then go through `hard_delete_run` and `hard_delete_experiment_with_runs` one call of a store at a time. `moved` records
what was deleted or restored since a job read it. The store answers as MLflow's SQL store does; stores that cannot delete for good
are refused before anything happens and are left out, as are the sweep's passes per workspace and its
reconciliation of owners (the subject of Quota).

**RequestAccess.** `req` is a request on its way: `Authenticate`, `ReadAdmin`, then for the hooks, the FastAPI
middleware and GraphQL one of the `LookUp...` actions (what the validator must find out first) and `Check` for each thing it
names, until `Act`, in which MLflow looks references up again; or, for the plugin's own routers, `DependOnManaged` or
`DependOnAdmin`, and the steps of `create_user`, `delete_user` and `create_access_token`. An operation (`Asked`) says how a route is guarded, so the table of
routes is data. `right` is the effective permission, as the resolution answers it, from the cache or not: how far that
may be from the rows is PermissionCache's subject. `acct` is the table of users; `via` the token a request was sent with. `had` and `did` are history.

**SigningKeys.** `cache` is the TTL cache of one entry, `val` a thread inside `validate_token`: `LookUp` and `StoreKeys` are
under the lock, `FetchKeys` (the discovery document and the keys) is between them; `Retry` is the forced refresh after a bad signature. An unusable
answer is a copy that is `NoKeys`. `Candidate` is the key that `jwt.decode` takes from the set: the one the token names or, for a token that names
none, the only one there is. Without a candidate it raises an error other than a bad signature (for an unnamed token and a set of several, a
`ValueError`), and `Reject` follows without a retry. `since` is how long ago each key was published or withdrawn,
`was` the IdP's keys when a copy was stored, so that a copy may be told `Late`: out of date already when it came into the cache.

`PROJECT.json` maps every definition to the lines it stands for.

## Runs

| run | configuration | properties |
|---|---|---|
| cache | MCPermissionCache_all | TypeOK, Coherent, WalkHolds, EventuallyCoherent |
| sources | MCPermissionSources_all | GroupRowsReachMembers, ListingTellsTheTruth, OnlyGroupPatternsRaise, PromotionRaises, OnlyManagersWrite |
| sources_gateway_groups | MCPermissionSources_gateway_groups | GatewayGroupsReachMembers, *violated* |
| search | MCSearchFilter_all | OnlyReadableShown, NothingSkipped, NothingTwice, KeepsPromise, SearchAnswered |
| quota | MCQuota_all | OvershootBounded, WarnedOncePerCrossing, LimitOutlivesReconciliation, OnlyOrphansWipedWithoutFault, EventuallyAccurate, EventuallyEnforced |
| session_tabs | MCSession_tabs | LogoutSticks, OwnRefreshToken, SilentRefresh, GrantEndsSession |
| ownership | MCOwnership_all | RightsFollow, CreatorKept, OwnerRemains |
| workspace | MCWorkspaceAccess_all | EntriesCurrent, ManagersManage, NothingLeftBehind, EventuallyCurrent |
| access | MCRequestAccess_all | TypeOK, ActsWithinRights, TokensKeepTheirTerm |
| signing_keys | MCSigningKeys_all | RotationHandled, WithdrawnKeysGoOut, EventuallyCurrent |
| trash | MCTrash_all | OnlyTrashDestroyed, ArtifactsGoWithRun, EventuallyEmptied |
| trash_selected | MCTrash_selected | OnlySelectedDestroyed, *violated* |

- **cache**: the cache has no stale entry without cause, a lookup that no
  write overtook stores the truth, and once nothing is written the TTL repairs what is stale. A user, and a name the user
  may be renamed to; one resource, asked for within a workspace and without (the key names no workspace); two replicas, each
  with a cache of its own; a lookup, a writer, a write that clears and one that does not. Enough for a lookup overtaken
  by a commit, a clear between a commit and a store, an entry resolved in another workspace, and a replica no clear
  reaches. The run's keys are of one resource; the proof is for any sharing of keys.
- **sources**: three writes are enough for a row, a pattern and a change of groups, or for two rows of two groups and one
  promotion; two priorities order patterns or leave them tied; READ, MANAGE and NO_PERMISSIONS are a weak, a
  strong and a denying permission, the last one with the largest number. With and without an
  administrator. Users whose groups disagree about a name are left out of
  ListingTellsTheTruth, since a page keeps any one of their rows where the request takes
  the strongest.
- **search**: five items, four of them there at first, one in a blocked workspace, pages of two: pages that end at a
  boundary, pages refilled more than once, a last page with nothing readable. Two changes and one failing workspace
  lookup. Until something changes the promise is kept to the letter. With the listing moving, this is
  left of it: nothing unreadable is shown; items that stay are not skipped while none
  before them vanish, nor repeated while none are inserted. Every search is answered.
- **quota**: two uploads race each other and one reconciliation; an experiment, and a model with one version in the experiment's tree and others
  outside; limits 0 and 2 bytes, three uploads of one byte, two events (four of both together) and one fault. Beyond the limit (or what was used when it was last set or measured) each
  thread can charge one upload; one warning per crossing; a limit and the permissions of existing experiments
  survive reconciliations but for two named causes. Once nothing changes any more, used_bytes is what the active
  experiments and the models occupy, with the versions inside of experiments counted twice, and the user is blocked exactly if the limit is reached.
- **session_tabs**: two tabs whose requests overlap at every step. One logs in and shows pages, the other shows pages and logs out. Two users, two logins, a rotating IdP
  that may leave out the refresh token, tokens that expire after a tick, one event or fault. Enough for a page or a refresh that is under way when
  a logout is answered, a login from before a logout whose callback comes after it, two refreshes with one token, a session that takes over the token of another user,
  and a grant that ends during a refresh. A logout lasts until the next login unless a straggler undoes it; a session holds its own user's token or an
  inherited one; a refresh is turned down only for a revoked or a shared token; a session ends with the grant. Two callbacks that overlap are beyond `Asks`
  here and left to the theorems.
- **ownership**: for each of four kinds, two names, three creations (so names are used again), a write by request and one
  fault, one request at a time. Administrators, a creator with MANAGE, a
  group with a member. For experiments three transfers, two of them at a time: in the end somebody owns the experiment,
  and it may be two. Two writes have been checked for two creations (in two and a half minutes).
- **workspace**: two requests on one cache, a user with a group, one workspace, a pattern that grants MANAGE, two writes and a
  failing source. Enough for a lookup overtaken by a write, a second one answered by what the first stored, a
  write by someone who has just lost the right to it, a workspace deleted and created again.
- **trash**: one cleanup and one host's sweep, two experiments and two runs in the first, pages of one (so that the
  listings are cut), selections of nothing, a run, an experiment or both, two moves and one fault.
- **access**: two requests of any kinds, of a user and of an administrator who may lose the account, on two things, a name and
  a child; two tokens, one tick and one change from outside. The requests that write accounts are each other's interference:
  rotations, deletions and re-creations of one account overlap. Three requests at a time are left to the theorems.
- **signing_keys**: two validations, of tokens that name their key or do not, two keys of which the IdP publishes one or both, one rotation, one fault, a TTL of two ticks:
  a fetch overtaken by the rotation and stored later, a forced refresh that drops what the other has just stored, a set of two keys and a
  token that names neither. What refuses a token whose key is published throughout is one of these: it names no key while the set has several;
  it names one that was published less than a TTL ago, or that the cached copy had missed already when it was stored. The callers of `validate_token` are coroutines of one event loop, so
  validations that overlap are more than the application does with one worker, and its properties hold for more than it needs.

The type invariant is checked where the table says so; for the other modules it is proved
(`...TypeCorrect`), which leaves the runs to the properties that a type does not imply.

Bounds are constants (`Max...`) in guards; a bound stops the environment (writes, events,
faults, creations), never a handler that is on its way. `CHECK_DEADLOCK FALSE` stands in the
configurations of PermissionSources, Ownership and RequestAccess, where a behaviour stops
when its writes or requests are used up; in the others some step is always possible.
Symmetry is used for sets of model values that no constant tells apart, never with a
liveness property. Users and groups are symmetric in PermissionSources although group names could equal user
names: the instances keep them apart.

**Fairness.** `PermissionCache!FairSpec`: a lookup under way goes on (a thread is not
suspended for ever), a clear goes on, an entry with a TTL expires. `Quota!FairSpec`: an admitted
upload is charged and stored or fails, reconciliations are started again
and finish (the scheduler's interval job), an entry of the size cache expires.
`SearchFilter!FairSpec`: the handler goes on; that a client comes back, or a store call
succeeds in the end, is not assumed. `WorkspaceAccess!FairSpec`: a request under way goes on, an entry expires.
`Trash!FairSpec`: an experiment in the trash grows old, the scheduler starts the daily sweep again and a sweep under way goes on;
failing calls and crashes are finitely many, by their bound. `SigningKeys!FairSpec`: the clock does not stop and a
validation under way goes on (the code sets no timeout on its requests to the IdP; a fetch that hangs for ever is
left out by this assumption). No property assumes that an administrator, the IdP or
a user acts.

## Proofs

TLC explores the instances above. For every value of the constants, TLAPS proves:

| theorem | states |
|---|---|
| PermissionCache_proofs!TypeCorrect | `Spec => []TypeOK` |
| PermissionCache_proofs!CacheCoherent | `Spec => []Coherent` |
| PermissionCache_proofs!LookupsReadCurrent | `Spec => []WalkHolds` |
| ReadAccess_proofs!TypeCorrect | `Spec => []TypeOK` |
| ReadAccess_proofs!OnlyManagersSpreadRights | `Spec => OnlyManagersWrite` |
| ReadAccess_proofs!PatternsRaiseForMembersOnly | `Spec => []OnlyGroupPatternsRaise` |
| ReadAccess_proofs!GroupRowsDecide | `Spec => []GroupRowsReachMembers` |
| ReadAccess_proofs!PromotionsRaise | `Spec => PromotionRaises` |
| ReadAccess_proofs!PagesTellTheTruth | `Spec => []ListingTellsTheTruth` |
| ReadAccess_proofs!SearchTypeCorrect | `SearchSpec => []SearchTypeOK` |
| ReadAccess_proofs!OnlyReadableIsShown | `SearchSpec => []OnlyReadableShown` |
| ReadAccess_proofs!NothingIsShownTwice | `SearchSpec => []NothingTwice` |
| ReadAccess_proofs!NothingIsSkipped | `SearchSpec => []NothingSkipped` |
| ReadAccess_proofs!SearchKeepsPromise | `SearchSpec => KeepsPromise`, that is, SearchFilter implements PagedListing |
| Quota_proofs!TypeCorrect | `Spec => []TypeOK` |
| Quota_proofs!OvershootIsBounded | `Spec => []OvershootBounded` |
| Quota_proofs!OneWarningEach | `Spec => []WarnedOncePerCrossing` |
| Quota_proofs!LimitsOutlive | `Spec => LimitOutlivesReconciliation` |
| Quota_proofs!OrphansOnly | `Spec => OnlyOrphansWipedWithoutFault` |
| Trash_proofs!TypeCorrect | `Spec => []TypeOK` |
| Trash_proofs!TrashOnlyIsDestroyed | `Spec => OnlyTrashDestroyed` |
| Trash_proofs!ArtifactsFollowTheirRun | `Spec => ArtifactsGoWithRun` |
| WorkspaceAccess_proofs!TypeCorrect | `Spec => []TypeOK` |
| WorkspaceAccess_proofs!EntriesAreCurrent | `Spec => []EntriesCurrent` |
| WorkspaceAccess_proofs!RequestsKeepTheirRight | `Spec => []ManagersManage` |
| WorkspaceAccess_proofs!DeletionLeavesNothing | `Spec => []NothingLeftBehind` |
| Ownership_proofs!TypeCorrect | `Spec => []TypeOK` |
| Ownership_proofs!RightsFollowResources | `Spec => []RightsFollow` |
| Ownership_proofs!CreatorsKeep | `Spec => []CreatorKept` |
| Ownership_proofs!OwnersRemain | `Spec => []OwnerRemains` |
| RequestAccess_proofs!TypeCorrect | `Spec => []TypeOK` |
| RequestAccess_proofs!RequestsStayWithinRights | `Spec => []ActsWithinRights` |
| RequestAccess_proofs!TermsAreKept | `Spec => []TokensKeepTheirTerm` |
| Authentication_proofs!KeysTypeCorrect | `KeysSpec => []KeysTypeOK` |
| Authentication_proofs!RotationIsHandled | `KeysSpec => []RotationHandled` |
| Authentication_proofs!WithdrawnKeysAreOut | `KeysSpec => []WithdrawnKeysGoOut` |
| Authentication_proofs!SessionTypeCorrect | `Spec => []TypeOK` |
| Authentication_proofs!SessionsHoldTheirOwnTokens | `Spec => []OwnRefreshToken` |
| Authentication_proofs!LogoutLasts | `Spec => []LogoutSticks` |
| Authentication_proofs!RefreshesAreSilent | `Spec => SilentRefresh` |
| Authentication_proofs!SessionsEndWithTheGrant | `Spec => GrantEndsSession` |

- **PermissionCache.** The invariant is `TypeOK /\ WalkHolds /\ Coherent`. Coherent alone
  is not inductive: `Store` puts into the cache what a lookup has read earlier, and only WalkHolds
  says it still holds unless a write overtook it. Each write either leaves the
  rows an entry depends on (`ResolvesDependsOn`), or has its clear ahead, or is recorded in
  `unreached`. Assumed: `ConstantsAssumption` (the order of the sources is a sequence of them, the default is a
  permission, a key is a function of the resource). Any number of users, resources, replicas and threads.
- **PermissionSources.** `NextStep` reduces the routes to two kinds of step: one row
  changes while an administrator or a manager of the governing resource acts, or one subject's patterns do.
  OnlyManagersWrite follows from the guards. For
  OnlyGroupPatternsRaise the invariant is `TypeOK /\ BrokenOnlyThere`: a pattern that does not
  compile is of a group and of a kind whose repository does not validate it; the walk
  raises only through a match, since rows are typed. GroupRowsReachMembers follows from TypeOK by what
  the walk computes (`WalkStopsAt`, `StrongestRowWins`). PromotionsRaise compares two tables: each source is
  monotonic (`StrongestUp`, `MatchUp`), and so is the walk, as the source that decides stays the same (`WalkUp`). PagesTellTheTruth
  compares two walks over one table (`WalkWithin`, `BatchAgrees`). Assumed: `SourcesAssumption`
  (MANAGE is a permission; no administrator is an ordinary user; answers are told
  apart from permissions).
- **Quota.** The invariant is `TypeOK /\ SmallUploads /\ OvershootBounded`. Pending charges are
  counted by a set of threads, so each may be at most `MaxUpload` bytes, which is SmallUploads; each
  charge removes its thread from `Pending` and adds at most that much. The set is finite (`PendingFinite`)
  by an assumption on the constants. For the warnings and the wipes this is strengthened to `Strong`: as long as the row tells of no mail,
  every warning sent has a reconciliation about to note it; after that only those that saw the row before can still warn (`WarningsCounted`);
  and while no call has failed, what a pass missed is gone for good (`OrphansKnown`). LimitsOutlive follows from TypeOK: the repository's
  methods write one column each (`LimitKept`). Assumed: `ConstantsAssumption` (the threads are finitely many, a row is not `NoRow`).

- **Trash.** The invariant is `TypeOK` and, for every job, `Aimed /\ Informed /\ Complete`: what the job's place in
  the code supposes; that whatever it has chosen to destroy is gone, has moved since it was read (`moved`), or is in the trash and
  old enough (`Known`); and that the trashed runs of the experiment it is destroying are in its batch unless the batch
  was cut. The two action properties need it because what is destroyed in a step was read several steps
  before. `Undisturbed` says what other jobs, users and time leave of it. `FirstPageHoldsAll` is the one counting argument: the place of
  an element among the listed ones never exceeds their number. Assumed: `TrashAssumption` (the two listings are without
  repetitions, requests and hosts are told apart).

- **WorkspaceAccess.** The invariant is `TypeOK /\ EntriesCurrent` and, for every request, `Placed /\ Sound`: what its
  place in the code supposes, and that what it has found so far (no earlier source answers, the groups it read are the user's,
  the answer it will store or act on) still holds unless it is `doubtful`. EntriesCurrent needs Sound because `Store`
  writes what was read before, and ManagersManage is what Sound says of a request about to act. `WriteStep` and `LoginStep` are the two kinds
  of write: a key outside `Affected` is looked up as before (`SameAnswers`), one inside has its removal ahead (`Due`) or is
  recorded. NothingLeftBehind is not inductive, since it counts a deletion that is wiping groups as if it would still wipe
  the users' rows; `Wiped` asks for a request that will wipe the very row. Assumed: `WorkspaceAssumption` (the levels are those of
  `permissions.py`, patterns and the order are well formed, the administrator is not an ordinary user, users are not groups).

- **Ownership.** What the rows are like while a hook is on its way is in the phase of its request, so the invariant is
  `TypeOK /\ Numbered` and, for the named kinds, `ByName`: requests that share a name excuse its resources (`Apart`), a request by id
  means the resource it read the name of (`Meant`), rows of a name no request is at are those of the resource that has it
  (`NamesRight`), and each phase of an undisturbed request finds what it needs (`RequestsInOrder`: at the hook of a deletion the
  first table is wiped already, at that of a renaming the moved rows are the resource's). For experiments it is `ByOwner`: somebody
  manages, or a request is about to write a manager's row and nothing is in its way. The proof holds for every set `Overlapping`,
  so for every pattern of concurrent requests. Assumed: `ConstantsAssumption` (values and model values are told apart).

- **RequestAccess.** The invariant is `TypeOK /\ RequestsSound /\ UntoldLasts /\ TokensKeepTheirTerm`. RequestsSound says of each phase what
  the sender was already entitled to (`had`): whatever the checks have let pass, the flag as it was read, the token it came with. Since `had` only
  grows (`Witnessed`), no other request disturbs it, and `Act` touches only what was checked, unless a name was looked up twice. An account
  nobody was told a token of has no term (`UntoldLasts`), which `Rotate` without a term relies on. Assumed: `ConstantsAssumption`,
  `OperationsAssumption` (an operation names what its guard looks at).

- **SigningKeys.** The invariant is `KeysTypeOK`, `EntryAge` (a key that has changed since the entry was stored did so within the entry's age)
  and, for every validation, `KeyKnown` and `CopyKnown`: what `keyWas` and `long` say of its key, and that the copy in hand is its own fetch, made since it
  began, or the cache's, stored less than a TTL before; either way `Shows` says that the IdP's keys of that moment had or lacked the key as it was from the beginning.
  A copy that disagrees is then late. The age of an entry and the time since a change grow together with each tick, hence the bound by
  the TTL. Nothing is assumed of how validations overlap. Assumed: `KeysAssumption` (the TTL is positive, `NoKeys` is neither a set of keys nor an entry).

- **Session.** The steps of a request are of five kinds, whatever its path: it moves on with nothing else changed, gives out a state, obtains a
  token at a login, persists the session, or refreshes it (`Quiet`, `Starts`, `SignsIn`, `Persists`, `Renews`, reduced to by `Steps`); each invariant is
  carried over these, a sending and a response. No theorem has a hypothesis on how requests overlap or on what the IdP issues. `TInv` adds to TypeOK that whoever is being signed in is known (`WhoKnown`).
  For OwnRefreshToken it is strengthened to `OwnInv`: the cookie and every copy a request works on hold a token issued to their user or an inherited one
  (`Own`), and a login on its way has been given its own (`Brought`); once issued or inherited, a token is so for ever (`TokensKept`).
  `CleanInv`, for LogoutSticks: since a logout the cookie and every session in the hands of a request that is no straggler are `Clean`, without
  a user and without a state from before; it needs `CameWith`, since the response of a logout deletes the cookie only if the request came with one. A
  state from before cannot complete a login, as the state must be the session's. `TokenInv`, for SilentRefresh: a token a request was not sent with is
  in no one else's hands (`Alone`), and what anybody holds is live, ended or shared (`Known`), unless the one request that was sent
  with it has just traded it for another. `GrantInv`, for GrantEndsSession: once the grant has ended no live token is the user's, and every session of theirs
  (`Timely`) or about to be (`BringsTimely`) expires a lifetime later at most; it includes OwnInv, since only another user's token could still renew it. For any
  number of users, tabs, tokens, logins and expiries, with rotation or without. Assumed: `ConstantsAssumption` (`None` is told apart
  from users, times and accounts; the bounds are numbers).

- **SearchFilter.** The steps of the two algorithms are of three kinds, whatever their guards: the page is filtered, a batch is fetched, some of a
  batch is added (`FilterStep`, `FetchStep`, `AddStep`); each invariant is carried over these. `FilterInv` holds the types and what the memo may know: it
  grants only what was readable at some moment of the request, and whatever is steady and was asked about. `OnceInv`, while nothing has
  been inserted: what was shown, is on the page or has been fetched lies `Before` the token that goes with it, so that what comes
  next is new. `CoverInv`, while nothing has been removed: up to the token every steady item is in hand, and likewise with each
  beginning of a fetched batch, since the page may be full in the middle of one. Deletions only move items towards the token, insertions only away from it,
  which is why the two properties each exclude one of them. `PromiseInv`, for the refinement: while nothing has changed, the page is exactly what passes the
  checks of the stretch of the listing between the client's token and its own, in order, and the memo is that stretch too;
  `Respond` is then a `Page` of PagedListing and every other step a stutter, a `Restart`, a `Judge` or `Disturbed`.
  The lemmas this rests on (what `Keep` returns and where it comes from, `KeepHasPlaces`; slices,
  insertion, concatenation) count places: the rank of a kept place is an injection into `1 .. m`, and so a
  bijection (`Ranks`), which stands in for an induction over the sequence. Assumed: `SearchAssumption` (the listing starts
  without repetitions, pages hold at least one item, the empty token is no offset).

Checked by TLC only: liveness (EventuallyCoherent, EventuallyAccurate, EventuallyEnforced,
SearchAnswered, EventuallyCurrent of two modules, EventuallyEmptied), as ENABLED and fairness are out of the prover's reach; that
`Keep` is `SelectSeq`, which is defined by recursion; and the two runs and the experiments that end in a violation, as a
counterexample is all there is to show. Every safety and action property of a passing run is stated by a theorem above.

## What the code does not keep

Two runs end in a violation, of something the repository says of itself:

- `sources_gateway_groups`: the group source of the gateways (`utils/permissions.py`, `_build_gateway_endpoint_sources` and
  its two siblings) passes the user's name where the store takes the name of a group,
  so a group's row never reaches its members, against `docs/permissions.md:46` and `:154`.
- `trash_selected`: a cleanup with `run_ids` alone also destroys every experiment in the trash, and one with
  `experiment_ids` alone every run (`routers/trash.py:316`), while the administration page calls it so
  (`trash-page.tsx:155`) after listing what "will be permanently deleted" (`remove-from-trash-modal.tsx:31`).

Further configurations, kept as experiments. Each checks one property with TLC:

| configuration | property | outcome |
|---|---|---|
| MCPermissionCache_stale_race | NoStaleEntryAtRest | violated: a lookup stores, after the clear, what it read before the commit |
| MCPermissionCache_stale_user | NoEntryOutlivesItsRow | violated: deleting a user clears nothing |
| MCPermissionCache_scorer | AnswerHasItsOwnRow | violated: `effective_scorer_permission` passes the scorer's name as a keyword that `_make_cache_key` drops, so all scorers of an experiment share a user's entry |
| MCPermissionCache_workspace_key | FallbackIsOfOwnWorkspace | violated: the key names no workspace |
| MCQuota_wipe_fault | OnlyOrphansWiped | violated: any failing lookup counts as a deletion, and a background job wipes the permissions of a live experiment |
| MCQuota_admin_limit | AdminLimitKept | violated: the first reconciliation's upsert erases a limit set meanwhile |
| MCQuota_trash_counted | DeletedNotCounted | violated: the stage is read before the size |
| MCQuota_naive_times | DailyReminders | violated when the database drops time zones: the age of the last mail raises |
| MCSession_refresh_race | RefreshedUnlessRevoked | violated with two tabs: the second one's refresh is refused, as a rotated token works once |
| MCSession_resurrected | OnlyLoginsLogIn | violated with two tabs: a page under way at the logout brings the session back |
| MCSession_login_race | GroupsCurrent | violated: of two logins, the older groups may be written last |
| MCSession_others_token | NoOthersToken | violated when a login brings no refresh token: the previous user's stays |
| MCSession_denied_admin | AccessRevoked | violated: turning a user away clears the groups, not the admin flag |
| MCSigningKeys_rotation | RotationAlwaysHandled | violated: a token that names a new key is refused while the cached copy lacks it, against `docs/architecture.md:81` |
| MCOwnership_rename | RowsRenamed | violated: a rename raises at the first table without a row or with one in the way, against `docs/permissions.md:148` |
| MCWorkspaceAccess_flushed | FlushedOnChange | violated: a group's row clears nothing, against `docs/workspaces.md:190` |
| MCWorkspaceAccess_permissive | MostPermissiveMatch | violated: NO_PERMISSIONS compares as the highest, so of two matches of one priority the denying one counts (`utils/workspace_cache.py`, D-08) |

Modelled as the code has it, and worth knowing:

- Updating a user's pattern of models, prompts or gateways checks the new regular expression and keeps
  the old one (`UpdatePattern`).
- Group patterns of models and prompts are stored without `validate_regex`; one that does not
  compile makes every resolution of its members raise.
- NO_PERMISSIONS has the largest priority, so that of several groups one denial wins;
  `docs/permissions.md:66` reads as if the most would.
- The routes of prompts' user rows are guarded by the resolution of registered models.
- A page keeps any one of several groups' rows where a request takes the strongest.
- The guards of `dependencies.py` return nothing, so audit events of their routes name no actor.
- Deleting one version of a scorer wipes the rows of the whole scorer.
- A search for an experiment by a name that denotes nothing is let through; if the name comes to denote an experiment before
  MLflow looks it up, it is served unchecked (the exception in ActsWithinRights).
- Two transfers of an experiment that overlap may leave it with two owners, though never with none, unless the store fails
  between revoke and grant.
- Only a bad signature is retried with fresh keys. A token that names its key (`kid`) fails otherwise when the cache
  lacks that key, and is refused until the TTL is over, though `docs/architecture.md:81` promises the retry. A token that names none is refused
  with a `ValueError`, not retried either, for as long as the set has several keys, as it does while an IdP rotates them.
- `/logout` is not among the unprotected paths: with a session that has expired or is refused, the middleware answers, and the handler neither empties
  the session nor ends it at the IdP. A session without a user keeps its `oauth_state`.
- A login that brings no refresh token leaves the session with the one it had, even another user's.
- The versions of a model whose files lie in an experiment's tree count with the model also while that experiment is in the trash; the rows of a
  model that MLflow no longer has are never wiped by a reconciliation.
- The status of the IdP's answer is not looked at, so an error page in JSON is cached as the keys for a whole TTL; a
  slow fetch may overwrite a newer copy; requests to the IdP have no timeout.

## Not modelled

- Data: the text of names, regular expressions, filters, mails and pages; passwords, signatures and
  claims. They are members of small sets.
- In RequestAccess: which route has which guard (data of the tables), and the gateway proxy's fallback, which lets a
  request without a resolvable endpoint pass if its sender may use any; display names and profiles.
- In SigningKeys: the other checks of a token (expiry, audience), which read no shared state. What authlib does with a token and a set of keys is
  external; `Candidate` follows how `auth.py` calls it.
- Batch pages of kinds other than experiments, models and prompts: they resolve name by
  name, like a request.
- In Ownership: prompts and gateway model definitions (handled as models and secrets are), patterns; workspaces are
  WorkspaceAccess. Deleted experiments keep their rows until Quota's reconciliation or Trash removes them.
- In Quota: several users (their rows are independent; a transfer is an event), the checks of
  run and experiment creation, which only read. Measuring an experiment or a model, with its walk over workspaces, versions and files, is one step; a model
  made again under a name that has been deleted is left out.
- Configuration: a chain of providers, read once when the application starts; after that nothing of it changes, and
  calls of the cloud services are I/O.
- In Session: an answer that never reaches the browser; basic and bearer authentication, which keep no state (tokens are RequestAccess, keys SigningKeys). That a login's
  groups are read from the IdP and written later, so that of two logins the older may win, is the experiment
  MCSession_login_race.
- Webhooks, audit, proxy headers, health, migrations, the web interface: no state that changes
  at run time, or I/O only.
- MLflow itself, the IdP, Redis and the databases appear as far as the code uses them. A transaction is atomic.

## Plan

What is left, in the order of what it would add:

1. **Workspaces under resources**: the composition of WorkspaceAccess with PermissionCache, in which the decisions of
   the one are the events `SetWorkspaceAnswer` of the other.
2. **Rights**, an abstract specification that Ownership with one request at a time implements: a resource has holders, and
   they change by its own grants only. The invariants of `Ownership_proofs` are its refinement mapping in all but form.
3. **Proofs** of the causes: for each experiment that ends in a violation, that the cause it names is the only one, as `excused`, `doubtful` and
   `unreached` do for Ownership, WorkspaceAccess and PermissionCache, and `stragglers`, `shared` and `inherited` for Session.
4. **Routes**: the tables of `before_request.py`, the validators and the FastAPI middleware as a pure module: every
   route has a guard, and it is the operation's.
