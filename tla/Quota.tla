-------------------------------- MODULE Quota --------------------------------
(***************************************************************************)
(* Storage quota of one user (utils/quota.py, repository/quota.py, the     *)
(* quota check of hooks/before_request.py).                                *)
(*                                                                         *)
(* Uploads are admitted against used_bytes and charged to it before MLflow *)
(* stores them.  Reconciliations (the scheduled job, the admin's button and*)
(* threads started after deletions) measure what the user's experiments    *)
(* and registered models occupy, through a cache of experiment sizes, and  *)
(* overwrite used_bytes and the enforcement state.  Every call of the      *)
(* database or of MLflow is a step of its own, so all of them interleave.  *)
(***************************************************************************)
EXTENDS Integers, FiniteSets, Functions

CONSTANTS
  Experiments,
  Models,         \* registered models
  Inside,         \* the experiment in whose tree a version of the model lies
  Uploaders,      \* threads that serve an upload
  Reconcilers,    \* threads that reconcile the user's quota
  Limits,         \* limits an administrator may set
  DefaultLimit,   \* config.QUOTA_DEFAULT_BYTES, a number or Unset
  Unset,          \* None
  NoRow,          \* the user has no quota row
  SoftPercent,    \* soft cap, percent of the limit
  NaiveTimes,     \* the database drops time zones, as SQLite does
  InitialRow,     \* the row at first
  MaxUpload,      \* bound: bytes of one upload
  MaxUploads,     \* bound: number of uploads
  MaxEvents,      \* bound: administration, deletions, transfers, days
  MaxWork,        \* bound: uploads and events together
  MaxFaults       \* bound: failing store, artifact or mail calls

VARIABLES
  row,        \* the user's row in user_quotas
  size,       \* bytes of an experiment's artifacts, of a model's versions elsewhere
  stage,      \* lifecycle stage of each of them, "gone" when hard-deleted
  owned,      \* those the user holds MANAGE on
  sizes,      \* the cache of experiment sizes
  up,         \* the state of each upload
  rec,        \* the state of each reconciliation
  uploads,    \* number of uploads so far
  events,     \* number of events so far
  faults,     \* number of faults so far
  base,       \* history: used_bytes when it or the limit was last overwritten
  warnings,   \* history: soft-cap warnings of the current crossing
  adminLimit  \* history: the limit an administrator last set, or Unset

world == <<size, stage, owned>>
bounds == <<uploads, events, faults>>
history == <<base, warnings, adminLimit>>
vars == <<row, world, sizes, up, rec, bounds, history>>

-----------------------------------------------------------------------------
Row == [limit : Limits \cup {Unset}, used : Nat, blocked : BOOLEAN,
        notified : {"never", "today", "before"}]

FreshRow(limit) == [limit |-> limit, used |-> 0, blocked |-> FALSE, notified |-> "never"]

Resources == Experiments \cup Models

ASSUME ConstantsAssumption ==
  /\ Experiments \cap Models = {}
  /\ Inside \in [Models -> Experiments]
  /\ IsFiniteSet(Uploaders) /\ IsFiniteSet(Reconcilers)
  /\ Limits \subseteq Nat
  /\ Unset \notin Nat
  /\ DefaultLimit \in Nat \cup {Unset}
  /\ NoRow \notin Row
  /\ InitialRow \in Row \cup {NoRow}
  /\ NaiveTimes \in BOOLEAN
  /\ {MaxUpload, MaxUploads, MaxEvents, MaxWork, MaxFaults, SoftPercent} \subseteq Nat

Miss == -1                            \* no entry in the cache of sizes

UploadStates ==
  [pc : {"idle", "charge", "store"}, exp : Experiments \cup {NoRow}, bytes : Nat]

NoUpload == [pc |-> "idle", exp |-> NoRow, bytes |-> 0]

Steps == {"idle", "raised", "unblock", "unnotify", "list", "lookup", "measure",
          "wipe", "create", "save", "compare", "notify", "record", "reset"}

RecStates ==
  [pc : Steps, seen : Row \cup {NoRow}, todo : SUBSET Resources,
   misses : SUBSET Resources, total : Nat]

At(pc, seen, todo, misses, total) ==
  [pc |-> pc, seen |-> seen, todo |-> todo, misses |-> misses, total |-> total]

Finished(pc) == At(pc, NoRow, {}, {}, 0)

(* effective_quota_bytes: the row's limit, else the configured default     *)
Effective(r) == IF r # NoRow /\ r.limit # Unset THEN r.limit ELSE DefaultLimit

UsedIn(r) == IF r = NoRow THEN 0 ELSE r.used

(* set_user_quota is an upsert that leaves used_bytes alone                *)
WithLimit(r, limit) == IF r = NoRow THEN FreshRow(limit) ELSE [r EXCEPT !.limit = limit]

(* The update methods of the repository do nothing when there is no row.   *)
WithUsed(r, used) == IF r = NoRow THEN NoRow ELSE [r EXCEPT !.used = used]
WithBlocked(r, b) == IF r = NoRow THEN NoRow ELSE [r EXCEPT !.blocked = b]
WithNotified(r, n) == IF r = NoRow THEN NoRow ELSE [r EXCEPT !.notified = n]

Init ==
  /\ row = InitialRow
  /\ size = [x \in Resources |-> 0]
  /\ stage = [x \in Resources |-> "active"]
  /\ owned = Resources
  /\ sizes = [e \in Experiments |-> Miss]
  /\ up = [u \in Uploaders |-> NoUpload]
  /\ rec = [t \in Reconcilers |-> Finished("idle")]
  /\ uploads = 0 /\ events = 0 /\ faults = 0
  /\ base = UsedIn(InitialRow) /\ warnings = 0 /\ adminLimit = Unset

-----------------------------------------------------------------------------
(* Uploads: the quota check, the charge, then MLflow stores the artifact.  *)

(* Mistake: the quota is not checked.                                      *)
NoCheck(r) == TRUE

(* enforce_quota lets an upload through                                    *)
BelowLimit(r) == Effective(r) # Unset => UsedIn(r) < Effective(r)

CanUpload == uploads < MaxUploads /\ uploads + events < MaxWork

UploadAt(pc, e, b) == [pc |-> pc, exp |-> e, bytes |-> b]

Upload(u, pc, e, b) ==
  /\ up' = [up EXCEPT ![u] = UploadAt(pc, e, b)]
  /\ UNCHANGED <<row, world, sizes, rec, events, faults, history>>

(* A PUT of artifacts into an experiment the user owns passes the check.   *)
AdmitUpload(u, e, b) ==
  /\ up[u].pc = "idle" /\ CanUpload
  /\ stage[e] # "gone" /\ e \in owned
  /\ BelowLimit(row)
  /\ uploads' = uploads + 1
  /\ Upload(u, "charge", e, b)

(* Administrators skip the check, and so do uploads without a Content-     *)
(* Length or into experiments whose owner cannot be found.                 *)
AdmitUncharged(u, e, b) ==
  /\ up[u].pc = "idle" /\ CanUpload
  /\ stage[e] # "gone"
  /\ uploads' = uploads + 1
  /\ Upload(u, "store", e, b)

ChargeUpload(u) ==
  /\ up[u].pc = "charge"
  /\ row' = WithUsed(row, UsedIn(row) + up[u].bytes)
  /\ up' = [up EXCEPT ![u] = UploadAt("store", @.exp, @.bytes)]
  /\ UNCHANGED <<world, sizes, rec, bounds, history>>

(* MLflow stores the artifact or fails; a failure does not undo the charge.*)
StoreUpload(u) ==
  /\ up[u].pc = "store"
  /\ up' = [up EXCEPT ![u] = NoUpload]
  /\ \/ /\ stage[up[u].exp] # "gone"
        /\ size' = [size EXCEPT ![up[u].exp] = @ + up[u].bytes]
        /\ UNCHANGED faults
     \/ stage[up[u].exp] = "gone" /\ UNCHANGED <<size, faults>>
     \/ faults < MaxFaults /\ faults' = faults + 1 /\ UNCHANGED size
  /\ UNCHANGED <<row, stage, owned, sizes, rec, uploads, events, history>>

-----------------------------------------------------------------------------
(* reconcile_user_quota: the row is read once, at the start.               *)

Goto(t, pc) == rec' = [rec EXCEPT ![t] = At(pc, @.seen, @.todo, @.misses, @.total)]
Stop(t, pc) == rec' = [rec EXCEPT ![t] = Finished(pc)]

Unlimited(r) == r # NoRow /\ Effective(r) = Unset

ReadQuota(t) ==
  /\ rec[t].pc \in {"idle", "raised"}
  /\ rec' = [rec EXCEPT ![t] =
               At(IF Unlimited(row) THEN "unblock" ELSE "list", row, {}, {}, 0)]
  /\ UNCHANGED <<row, world, sizes, up, bounds, history>>

(* No quota applies: stale enforcement state is cleared, nothing counted.  *)
ClearBlocked(t) ==
  /\ rec[t].pc = "unblock"
  /\ row' = IF rec[t].seen.blocked THEN WithBlocked(row, FALSE) ELSE row
  /\ Goto(t, "unnotify")
  /\ UNCHANGED <<world, sizes, up, bounds, history>>

ClearNotified(t) ==
  /\ rec[t].pc = "unnotify"
  /\ row' = IF rec[t].seen.notified # "never" THEN WithNotified(row, "never") ELSE row
  /\ warnings' = 0
  /\ Stop(t, "idle")
  /\ UNCHANGED <<world, sizes, up, bounds, base, adminLimit>>

-----------------------------------------------------------------------------
(* _calculate_used_bytes                                                   *)

(* What is stored under an experiment, or under the sources of a model's   *)
(* versions: one that lies in an experiment's tree is counted with it again*)
(* ("double-counted, which we accept"), even when that is in the trash.    *)
Bytes(x) == IF x \in Models THEN size[x] + size[Inside[x]] ELSE size[x]

(* When a pass over the experiments ends, the next one takes up the misses:*)
(* first the cache, then MLflow, then the wiping of orphans.               *)
AfterPass(pc, seen, misses, total) ==
  IF misses # {} THEN At(IF pc = "lookup" THEN "measure" ELSE "wipe", seen, misses, {}, total)
  ELSE At(IF seen = NoRow THEN "create" ELSE "save", seen, {}, {}, total)

Processed(t, e, found, bytes) ==
  LET r == rec[t]
      misses == IF found THEN r.misses ELSE r.misses \cup {e}
  IN  rec' = [rec EXCEPT ![t] =
        IF r.todo \ {e} = {} THEN AfterPass(r.pc, r.seen, misses, r.total + bytes)
        ELSE At(r.pc, r.seen, r.todo \ {e}, misses, r.total + bytes)]

(* Mistake: a user without experiments is taken for one who owns nothing.  *)
ListExperiments(t) ==
  /\ rec[t].pc = "list"
  /\ rec' = [rec EXCEPT ![t] =
       IF owned \subseteq Models THEN AfterPass("lookup", @.seen, {}, 0)
       ELSE At("lookup", @.seen, owned \ Models, owned \cap Models, 0)]
  /\ UNCHANGED <<row, world, sizes, up, bounds, history>>

(* The sizes of models are not cached: they are misses from the beginning. *)
ListOwned(t) ==
  /\ rec[t].pc = "list"
  /\ rec' = [rec EXCEPT ![t] =
       IF owned \subseteq Models THEN AfterPass("lookup", @.seen, owned \cap Models, 0)
       ELSE At("lookup", @.seen, owned \ Models, owned \cap Models, 0)]
  /\ UNCHANGED <<row, world, sizes, up, bounds, history>>

LookUpSize(t, e) ==
  /\ rec[t].pc = "lookup" /\ e \in rec[t].todo
  /\ IF sizes[e] = Miss THEN Processed(t, e, FALSE, 0) ELSE Processed(t, e, TRUE, sizes[e])
  /\ UNCHANGED <<row, world, sizes, up, bounds, history>>

(* Mistake: an experiment in the trash counts as hard-deleted.             *)
GoneOrInTrash(e) == stage[e] # "active"

(* MLflow does not find the experiment in any workspace.                   *)
Gone(e) == stage[e] = "gone"

(* Artifacts of a deleted experiment do not count and are not cached.  When*)
(* the artifacts cannot be listed, size 0 is counted and cached.           *)
MeasureExperiment(t, e) ==
  /\ rec[t].pc = "measure" /\ e \in rec[t].todo
  /\ \/ /\ stage[e] = "active"
        /\ sizes' = [sizes EXCEPT ![e] = size[e]]
        /\ Processed(t, e, TRUE, size[e])
        /\ UNCHANGED faults
     \/ /\ stage[e] = "active" /\ faults < MaxFaults
        /\ sizes' = [sizes EXCEPT ![e] = 0]
        /\ Processed(t, e, TRUE, 0)
        /\ faults' = faults + 1
     \/ stage[e] = "deleted" /\ Processed(t, e, TRUE, 0) /\ UNCHANGED <<sizes, faults>>
     \/ Gone(e) /\ Processed(t, e, FALSE, 0) /\ UNCHANGED <<sizes, faults>>
     \/ /\ faults < MaxFaults /\ faults' = faults + 1      \* MlflowException, or no workspace
        /\ Processed(t, e, FALSE, 0) /\ UNCHANGED sizes
  /\ UNCHANGED <<row, world, up, uploads, events, history>>

(* A version whose files cannot be listed counts as empty, and so does a   *)
(* model that is not found; its rows are left alone.                       *)
MeasureModel(t, m) ==
  /\ rec[t].pc = "measure" /\ m \in rec[t].todo
  /\ \/ stage[m] = "active" /\ Processed(t, m, TRUE, Bytes(m)) /\ UNCHANGED faults
     \/ stage[m] = "gone" /\ Processed(t, m, TRUE, 0) /\ UNCHANGED faults
     \/ /\ faults < MaxFaults /\ faults' = faults + 1
        /\ \E b \in {0, size[m], size[Inside[m]]} : Processed(t, m, TRUE, b)
  /\ UNCHANGED <<row, world, sizes, up, uploads, events, history>>

(* wipe_experiment_permissions; a failure is logged                        *)
WipeOrphan(t, e) ==
  /\ rec[t].pc = "wipe" /\ e \in rec[t].todo
  /\ \/ /\ owned' = owned \ {e}
        /\ sizes' = [sizes EXCEPT ![e] = Miss]
        /\ UNCHANGED faults
     \/ faults < MaxFaults /\ faults' = faults + 1 /\ UNCHANGED <<owned, sizes>>
  /\ Processed(t, e, TRUE, 0)
  /\ UNCHANGED <<row, size, stage, up, uploads, events, history>>

-----------------------------------------------------------------------------
(* The rest of reconcile_user_quota                                        *)

(* The row seemed missing: set_user_quota(username, None, None) makes sure *)
(* there is one.                                                           *)
CreateRow(t) ==
  /\ rec[t].pc = "create"
  /\ row' = WithLimit(row, Unset)
  /\ base' = UsedIn(row)
  /\ warnings' = IF row = NoRow THEN 0 ELSE warnings
  /\ Goto(t, "save")
  /\ UNCHANGED <<world, sizes, up, bounds, adminLimit>>

(* Mistake: the row is written back as it was read.                        *)
SaveRowAsRead(t) ==
  /\ rec[t].pc = "save"
  /\ row' = WithUsed(IF rec[t].seen = NoRow THEN row ELSE rec[t].seen, rec[t].total)
  /\ base' = rec[t].total
  /\ IF rec[t].seen = NoRow THEN Stop(t, "idle") ELSE Goto(t, "compare")
  /\ UNCHANGED <<world, sizes, up, bounds, warnings, adminLimit>>

SaveUsed(t) ==
  /\ rec[t].pc = "save"
  /\ row' = WithUsed(row, rec[t].total)
  /\ base' = UsedIn(WithUsed(row, rec[t].total))
  /\ IF rec[t].seen = NoRow THEN Stop(t, "idle") ELSE Goto(t, "compare")
  /\ UNCHANGED <<world, sizes, up, bounds, warnings, adminLimit>>

(* The thresholds are judged by the row as it was at the start.            *)
Limit(t) == Effective(rec[t].seen)

(* Mistake: off by one, a quota used up to the byte is not full.           *)
FullBeyond(t) == rec[t].total > Limit(t)

Full(t) == rec[t].total >= Limit(t)
AboveSoftCap(t) == rec[t].total * 100 >= SoftPercent * Limit(t)

(* used / 0 raises ZeroDivisionError before anything is decided.           *)
CompareRaises(t) ==
  /\ rec[t].pc = "compare" /\ Limit(t) = 0
  /\ Stop(t, "raised")
  /\ UNCHANGED <<row, world, sizes, up, bounds, history>>

SetBlocked(t) ==
  /\ rec[t].pc = "compare" /\ Limit(t) # 0
  /\ row' = IF rec[t].seen.blocked # Full(t) THEN WithBlocked(row, Full(t)) ELSE row
  /\ Goto(t, IF AboveSoftCap(t) \/ Full(t) THEN "notify" ELSE "reset")
  /\ UNCHANGED <<world, sizes, up, bounds, history>>

(* Mistake: the soft-cap mail is repeated every day.                       *)
DailyWarning(t) == rec[t].seen.notified # "today"

(* Over the limit a mail is due every 24 hours, above the soft cap once.   *)
(* The age of a time that has lost its zone cannot be computed.            *)
MailDue(t) ==
  \/ rec[t].seen.notified = "never"
  \/ Full(t) /\ rec[t].seen.notified = "before" /\ ~NaiveTimes

AgeRaises(t) == Full(t) /\ rec[t].seen.notified # "never" /\ NaiveTimes

Notify(t) ==
  /\ rec[t].pc = "notify"
  /\ \/ /\ MailDue(t)
        /\ warnings' = IF Full(t) THEN warnings ELSE warnings + 1
        /\ Goto(t, "record")
        /\ UNCHANGED faults
     \/ /\ MailDue(t) /\ faults < MaxFaults /\ faults' = faults + 1      \* not sent
        /\ Stop(t, "idle")
        /\ UNCHANGED warnings
     \/ /\ ~MailDue(t)
        /\ Stop(t, IF AgeRaises(t) THEN "raised" ELSE "idle")
        /\ UNCHANGED <<warnings, faults>>
  /\ UNCHANGED <<row, world, sizes, up, uploads, events, base, adminLimit>>

RecordNotice(t) ==
  /\ rec[t].pc = "record"
  /\ row' = WithNotified(row, "today")
  /\ Stop(t, "idle")
  /\ UNCHANGED <<world, sizes, up, bounds, history>>

ResetNotice(t) ==
  /\ rec[t].pc = "reset"
  /\ row' = IF rec[t].seen.notified # "never" THEN WithNotified(row, "never") ELSE row
  /\ warnings' = 0
  /\ Stop(t, "idle")
  /\ UNCHANGED <<world, sizes, up, bounds, base, adminLimit>>

Reconcile(t) ==
  \/ ReadQuota(t) \/ ClearBlocked(t) \/ ClearNotified(t) \/ ListOwned(t)
  \/ \E e \in Experiments : LookUpSize(t, e) \/ MeasureExperiment(t, e) \/ WipeOrphan(t, e)
  \/ \E m \in Models : MeasureModel(t, m)
  \/ CreateRow(t) \/ SaveUsed(t) \/ CompareRaises(t) \/ SetBlocked(t)
  \/ Notify(t) \/ RecordNotice(t) \/ ResetNotice(t)

-----------------------------------------------------------------------------
(* What administrators, owners, logins and the clock do meanwhile          *)

Event ==
  /\ events < MaxEvents /\ uploads + events < MaxWork
  /\ events' = events + 1 /\ UNCHANGED <<uploads, faults, up>>

NewRow(r, limit) ==
  /\ Event
  /\ row' = r
  /\ base' = UsedIn(r) /\ warnings' = 0 /\ adminLimit' = limit
  /\ UNCHANGED <<world, sizes, rec>>

SetLimit(limit) == NewRow(WithLimit(row, limit), limit)

DeleteQuota == NewRow(NoRow, Unset)

(* A login stores the mail address, in a new row if there is none.         *)
SyncEmail == row = NoRow /\ NewRow(FreshRow(Unset), adminLimit)

(* Deletion, restoration, hard deletion outside this plugin or by the trash*)
(* cleanup, which leaves the permission rows behind.                       *)
MoveExperiment(e) ==
  /\ Event
  /\ \/ stage[e] = "active" /\ stage' = [stage EXCEPT ![e] = "deleted"] /\ UNCHANGED size
     \/ stage[e] = "deleted" /\ stage' = [stage EXCEPT ![e] = "active"] /\ UNCHANGED size
     \/ /\ stage[e] = "deleted" /\ stage' = [stage EXCEPT ![e] = "gone"]
        /\ size' = [size EXCEPT ![e] = 0]
  /\ UNCHANGED <<row, owned, sizes, rec, history>>

DeleteArtifacts(e) ==
  /\ Event
  /\ stage[e] = "active" /\ size[e] # 0 /\ size' = [size EXCEPT ![e] = 0]
  /\ UNCHANGED <<row, stage, owned, sizes, rec, history>>

(* A version is stored outside of the experiments' trees, or the model is  *)
(* deleted (through this plugin its rows go as well, as in a transfer).    *)
StoreVersion(m) ==
  /\ Event
  /\ stage[m] = "active"
  /\ \E b \in 1 .. MaxUpload : size' = [size EXCEPT ![m] = @ + b]
  /\ UNCHANGED <<row, stage, owned, sizes, rec, history>>

DeleteModel(m) ==
  /\ Event
  /\ stage[m] = "active" /\ stage' = [stage EXCEPT ![m] = "gone"]
  /\ size' = [size EXCEPT ![m] = 0]
  /\ UNCHANGED <<row, owned, sizes, rec, history>>

TransferOwnership(x) ==
  /\ Event
  /\ owned' = IF x \in owned THEN owned \ {x} ELSE owned \cup {x}
  /\ UNCHANGED <<row, size, stage, sizes, rec, history>>

Older(r) == IF r # NoRow /\ r.notified = "today" THEN [r EXCEPT !.notified = "before"] ELSE r

DayPasses ==
  /\ Event
  /\ Older(row) # row \/ \E t \in Reconcilers : Older(rec[t].seen) # rec[t].seen
  /\ row' = Older(row)
  /\ rec' = [t \in Reconcilers |-> At(rec[t].pc, Older(rec[t].seen), rec[t].todo,
                                      rec[t].misses, rec[t].total)]
  /\ UNCHANGED <<world, sizes, history>>

(* An entry of the cache of sizes lives for two reconciliation intervals.  *)
ExpireSize(e) ==
  /\ sizes[e] # Miss
  /\ sizes' = [sizes EXCEPT ![e] = Miss]
  /\ UNCHANGED <<row, world, up, rec, bounds, history>>

Administration ==
  \/ \E limit \in Limits \cup {Unset} : SetLimit(limit)
  \/ DeleteQuota \/ SyncEmail \/ DayPasses

Ownership ==
  \/ \E e \in Experiments : MoveExperiment(e) \/ DeleteArtifacts(e)
  \/ \E m \in Models : StoreVersion(m) \/ DeleteModel(m)
  \/ \E x \in Resources : TransferOwnership(x)

Uploading(u) ==
  \/ \E e \in Experiments, b \in 1 .. MaxUpload : AdmitUpload(u, e, b) \/ AdmitUncharged(u, e, b)
  \/ ChargeUpload(u) \/ StoreUpload(u)

Next ==
  \/ \E u \in Uploaders : Uploading(u)
  \/ \E t \in Reconcilers : Reconcile(t)
  \/ \E e \in Experiments : ExpireSize(e)
  \/ Administration
  \/ Ownership

Spec == Init /\ [][Next]_vars

(* Requests and reconciliations finish, the scheduler starts new ones, and *)
(* cache entries expire.                                                   *)
FairSpec ==
  /\ Spec
  /\ \A u \in Uploaders : WF_vars(ChargeUpload(u) \/ StoreUpload(u))
  /\ \A t \in Reconcilers : WF_vars(Reconcile(t))
  /\ \A e \in Experiments : WF_vars(ExpireSize(e))

-----------------------------------------------------------------------------
(* The variables' types: used_bytes never goes negative, and a cached size  *)
(* is a size or nothing.                                                   *)
TypeOK ==
  /\ row \in Row \cup {NoRow}
  /\ size \in [Resources -> Nat]
  /\ stage \in [Resources -> {"active", "deleted", "gone"}]
  /\ owned \subseteq Resources
  /\ sizes \in [Experiments -> Nat \cup {Miss}]
  /\ up \in [Uploaders -> UploadStates]
  /\ rec \in [Reconcilers -> RecStates]
  /\ {uploads, events, faults, base, warnings} \subseteq Nat
  /\ adminLimit \in Limits \cup {Unset}

(* Quota check and charge are two transactions, so uploads that run at the *)
(* same time may all pass the check.  Still, beyond the limit (or what was *)
(* used when it was last set or measured) at most one upload per thread is *)
(* ever charged.                                                           *)
Pending == {u \in Uploaders : up[u].pc = "charge"}

Ceiling == LET below == Effective(row) - 1 IN IF base > below THEN base ELSE below

OvershootBounded ==
  Effective(row) # Unset =>
    UsedIn(row) + MaxUpload * Cardinality(Pending) <= Ceiling + MaxUpload * Cardinality(Uploaders)

(* "Soft cap: warn once per threshold crossing": until usage is found below*)
(* the cap or an administrator changes the quota, each of the              *)
(* reconciliations that may overlap sends at most one warning, so one at a *)
(* time send one.                                                          *)
WarnedOncePerCrossing == warnings <= Cardinality(Reconcilers)

(* Once uploads and events stop, reconciliation converges: used_bytes is   *)
(* what the user's active experiments and registered models occupy, the    *)
(* versions inside of experiments counted twice, whatever was cached,      *)
(* charged or failed before.                                               *)
Actual ==
  SumFunctionOnSet([x \in Resources |-> Bytes(x)], {x \in owned : stage[x] = "active"})

Counted == row # NoRow /\ Effective(row) # Unset

EventuallyAccurate == <>[](Counted => row.used = Actual)

(* and the user is blocked exactly if the limit is reached.  (With a limit *)
(* of 0 the reconciliation raises, and the row keeps what state it had.)   *)
EventuallyEnforced ==
  <>[](Counted /\ Effective(row) # 0 => (row.blocked <=> row.used >= Effective(row)))

(* The reconciler writes used_bytes, the blocked flag and the notification *)
(* time one by one, never the row it read: a limit an administrator has set*)
(* is undone by nothing but a reconciliation that began when there was no  *)
(* row, and creates one with an upsert.                                    *)
LimitInForce == adminLimit # Unset => row # NoRow /\ row.limit = adminLimit

LimitOutlivesReconciliation ==
  [][LimitInForce /\ ~LimitInForce' =>
       \E t \in Reconcilers : rec[t].pc = "create" /\ rec'[t].pc = "save"]_vars

(* "assuming hard-deleted externally and wiping orphaned permission rows": *)
(* whatever is moved in and out of the trash meanwhile, the permissions of *)
(* an experiment that still exists are wiped only if a lookup at MLflow has*)
(* failed.                                                                 *)
OnlyOrphansWipedWithoutFault ==
  [][\A t \in Reconcilers, e \in Experiments :
       rec[t].pc = "wipe" /\ e \in rec[t].todo \ rec'[t].todo /\ e \in owned \ owned'
         => stage[e] = "gone" \/ faults > 0]_vars

-----------------------------------------------------------------------------
(* What comments and docstrings say and the code does not keep.            *)

(* "If the user has no quota row yet, one is created": the reconciliation  *)
(* that creates the row must not undo the limit an administrator has set.  *)
AdminLimitKept == adminLimit # Unset => row # NoRow /\ row.limit = adminLimit

(* "Skip soft-deleted experiments: ... should not count against the user's *)
(* quota": no step of a count adds bytes for an experiment in the trash.   *)
DeletedNotCounted ==
  [][\A t \in Reconcilers : \A e \in rec[t].todo \ rec'[t].todo :
       rec'[t].total > rec[t].total => stage[e] = "active"]_vars

(* "assuming hard-deleted externally and wiping orphaned permission rows": *)
(* the permissions a reconciliation wipes belong to no existing experiment.*)
OnlyOrphansWiped ==
  [][\A t \in Reconcilers, e \in Experiments :
       rec[t].pc = "wipe" /\ e \in rec[t].todo \ rec'[t].todo /\ e \in owned \ owned'
         => stage[e] = "gone"]_vars

(* "used_bytes is always tracked regardless of whether an explicit limit   *)
(* has been set": without limit, usage is measured in the end all the same.*)
UsedAlwaysTracked == <>[](row # NoRow => row.used = Actual)

(* "Hard cap: block and send daily reminders": a reconciliation that finds *)
(* the quota full and a mail older than a day does not end without a mail. *)
DailyReminders ==
  [][\A t \in Reconcilers :
       rec[t].pc = "notify" /\ rec[t].total >= Limit(t) /\ rec[t].seen.notified = "before"
         /\ rec'[t].pc # "notify" /\ faults' = faults
         => rec'[t].pc = "record"]_vars

=============================================================================
