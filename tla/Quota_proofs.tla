---------------------------- MODULE Quota_proofs ----------------------------
(***************************************************************************)
(* Proofs about Quota, for any number of upload threads, reconciliations,  *)
(* experiments, models and bytes.                                          *)
(***************************************************************************)
EXTENDS Quota, FiniteSetTheorems, TLAPS

USE DEF Miss, Resources

AnyRow == Row \cup {NoRow}
AnyLimit == Limits \cup {Unset}

-----------------------------------------------------------------------------
(* Rows: each repository method keeps the type and, except for the two that*)
(* are meant to, leaves the usage and the limit in force alone.            *)

LEMMA RowValues ==
  ASSUME NEW r \in AnyRow
  PROVE  UsedIn(r) \in Nat /\ Effective(r) \in Nat \cup {Unset}
BY ConstantsAssumption DEF AnyRow, Row, UsedIn, Effective

LEMMA FreshRowType ==
  ASSUME NEW limit \in AnyLimit
  PROVE  FreshRow(limit) \in Row
BY ConstantsAssumption DEF FreshRow, Row, AnyLimit

LEMMA NewLimit ==
  ASSUME NEW r \in AnyRow, NEW limit \in AnyLimit
  PROVE  WithLimit(r, limit) \in Row
BY FreshRowType DEF WithLimit, Row, AnyRow, AnyLimit

LEMMA NewUsed ==
  ASSUME NEW r \in AnyRow, NEW n \in Nat
  PROVE  /\ WithUsed(r, n) \in AnyRow
         /\ Effective(WithUsed(r, n)) = Effective(r)
         /\ r # NoRow => UsedIn(WithUsed(r, n)) = n
         /\ r = NoRow => UsedIn(WithUsed(r, n)) = 0
BY ConstantsAssumption DEF WithUsed, Row, AnyRow, Effective, UsedIn

LEMMA NewBlocked ==
  ASSUME NEW r \in AnyRow, NEW b \in BOOLEAN
  PROVE  /\ WithBlocked(r, b) \in AnyRow
         /\ Effective(WithBlocked(r, b)) = Effective(r)
         /\ UsedIn(WithBlocked(r, b)) = UsedIn(r)
BY ConstantsAssumption DEF WithBlocked, Row, AnyRow, Effective, UsedIn

LEMMA NewNotified ==
  ASSUME NEW r \in AnyRow, NEW n \in {"never", "today", "before"}
  PROVE  /\ WithNotified(r, n) \in AnyRow
         /\ Effective(WithNotified(r, n)) = Effective(r)
         /\ UsedIn(WithNotified(r, n)) = UsedIn(r)
BY ConstantsAssumption DEF WithNotified, Row, AnyRow, Effective, UsedIn

LEMMA OlderRow ==
  ASSUME NEW r \in AnyRow
  PROVE  /\ Older(r) \in AnyRow
         /\ Effective(Older(r)) = Effective(r)
         /\ UsedIn(Older(r)) = UsedIn(r)
BY ConstantsAssumption DEF Older, Row, AnyRow, Effective, UsedIn

-----------------------------------------------------------------------------
(* States of reconciliations                                               *)

LEMMA AtType ==
  ASSUME NEW pc \in Steps, NEW seen \in AnyRow, NEW todo \in SUBSET Resources,
         NEW misses \in SUBSET Resources, NEW total \in Nat
  PROVE  At(pc, seen, todo, misses, total) \in RecStates
BY DEF At, RecStates, AnyRow

LEMMA FinishedType ==
  ASSUME NEW pc \in Steps
  PROVE  Finished(pc) \in RecStates
BY AtType DEF Finished, AnyRow

LEMMA AfterPassType ==
  ASSUME NEW pc \in Steps, NEW seen \in AnyRow, NEW misses \in SUBSET Resources,
         NEW total \in Nat
  PROVE  AfterPass(pc, seen, misses, total) \in RecStates
BY AtType DEF AfterPass, Steps

LEMMA RecFields ==
  ASSUME NEW r \in RecStates
  PROVE  /\ r.pc \in Steps /\ r.seen \in AnyRow /\ r.total \in Nat
         /\ r.todo \in SUBSET Resources /\ r.misses \in SUBSET Resources
BY DEF RecStates, AnyRow

LEMMA RecStep ==
  ASSUME TypeOK, NEW t \in Reconcilers, NEW s \in RecStates, rec' = [rec EXCEPT ![t] = s]
  PROVE  rec' \in [Reconcilers -> RecStates]
BY DEF TypeOK

LEMMA GotoType ==
  ASSUME TypeOK, NEW t \in Reconcilers, NEW pc \in Steps, Goto(t, pc)
  PROVE  rec' \in [Reconcilers -> RecStates]
<1>1. rec[t] \in RecStates
  BY DEF TypeOK
<1>2. At(pc, rec[t].seen, rec[t].todo, rec[t].misses, rec[t].total) \in RecStates
  BY <1>1, RecFields, AtType
<1>3. rec' = [rec EXCEPT ![t] = At(pc, rec[t].seen, rec[t].todo, rec[t].misses, rec[t].total)]
  BY DEF Goto
<1>4. QED BY <1>2, <1>3, RecStep

LEMMA StopType ==
  ASSUME TypeOK, NEW t \in Reconcilers, NEW pc \in Steps, Stop(t, pc)
  PROVE  rec' \in [Reconcilers -> RecStates]
BY FinishedType, RecStep DEF Stop

LEMMA ProcessedType ==
  ASSUME TypeOK, NEW t \in Reconcilers, NEW e \in Resources,
         NEW found \in BOOLEAN, NEW bytes \in Nat, Processed(t, e, found, bytes)
  PROVE  rec' \in [Reconcilers -> RecStates]
<1> DEFINE r == rec[t]
           misses == IF found THEN r.misses ELSE r.misses \cup {e}
           s == IF r.todo \ {e} = {} THEN AfterPass(r.pc, r.seen, misses, r.total + bytes)
                ELSE At(r.pc, r.seen, r.todo \ {e}, misses, r.total + bytes)
<1>1. r \in RecStates
  BY DEF TypeOK
<1>2. /\ r.pc \in Steps /\ r.seen \in AnyRow /\ r.total + bytes \in Nat
      /\ misses \in SUBSET Resources /\ r.todo \ {e} \in SUBSET Resources
  BY <1>1, RecFields
<1>3. rec' = [rec EXCEPT ![t] = s]
  BY DEF Processed
<1> HIDE DEF r, misses
<1>4. s \in RecStates
  BY <1>2, AfterPassType, AtType
<1>5. QED BY <1>3, <1>4, RecStep

-----------------------------------------------------------------------------
(* What each kind of step does to the row and to the history of charges    *)

(* The step leaves usage, limit and charges alone.                         *)
SameUsage ==
  /\ row' \in AnyRow /\ UsedIn(row') = UsedIn(row) /\ Effective(row') = Effective(row)
  /\ base' = base

(* The step measures usage or changes the limit anew.                      *)
Rebased == row' \in AnyRow /\ base' = UsedIn(row')

Untouched == UNCHANGED <<row, base>>

LEMMA UntouchedSame ==
  ASSUME TypeOK, Untouched
  PROVE  SameUsage
BY DEF TypeOK, Untouched, SameUsage, AnyRow

(* Every step of a reconciliation keeps the types, and either leaves usage *)
(* and limit alone or rebases the history.                                 *)
LEMMA ReconcileKinds ==
  ASSUME TypeOK, NEW t \in Reconcilers, Reconcile(t)
  PROVE  TypeOK' /\ UNCHANGED up /\ (SameUsage \/ Rebased)
<1> DEFINE Kept == TypeOK' /\ UNCHANGED up /\ (SameUsage \/ Rebased)
<1> USE DEF world, bounds, history
<1>0. /\ row \in AnyRow /\ rec[t] \in RecStates
      /\ rec[t].seen \in AnyRow /\ rec[t].total \in Nat /\ rec[t].pc \in Steps
  BY RecFields DEF TypeOK, AnyRow
<1>m. MaxFaults \in Nat
  BY ConstantsAssumption
<1>1. CASE ReadQuota(t)
  <2>1. At(IF Unlimited(row) THEN "unblock" ELSE "list", row, {}, {}, 0) \in RecStates
    BY <1>0, AtType DEF Steps
  <2>2. rec' \in [Reconcilers -> RecStates]
    BY <1>1, <2>1, RecStep DEF ReadQuota
  <2>3. QED BY <1>1, <2>2, UntouchedSame DEF ReadQuota, TypeOK, Untouched
<1>2. CASE ClearBlocked(t)
  <2>1. rec' \in [Reconcilers -> RecStates]
    BY <1>2, GotoType DEF ClearBlocked, Steps
  <2>2. SameUsage
    BY <1>0, <1>2, NewBlocked DEF ClearBlocked, SameUsage
  <2>3. QED BY <1>2, <2>1, <2>2 DEF ClearBlocked, TypeOK, SameUsage, AnyRow
<1>3. CASE ClearNotified(t)
  <2>1. rec' \in [Reconcilers -> RecStates]
    BY <1>3, StopType DEF ClearNotified, Steps
  <2>2. SameUsage
    BY <1>0, <1>3, NewNotified DEF ClearNotified, SameUsage
  <2>3. QED BY <1>3, <2>1, <2>2 DEF ClearNotified, TypeOK, SameUsage, AnyRow
<1>4. CASE ListOwned(t)
  <2> DEFINE models == owned \cap Models
             others == owned \ Models
  <2>1. models \in SUBSET Resources /\ others \in SUBSET Resources
    BY DEF TypeOK
  <2>2. rec' = [rec EXCEPT ![t] =
                  IF owned \subseteq Models THEN AfterPass("lookup", rec[t].seen, models, 0)
                  ELSE At("lookup", rec[t].seen, others, models, 0)]
    BY <1>4 DEF ListOwned
  <2> HIDE DEF models, others
  <2>3. /\ AfterPass("lookup", rec[t].seen, models, 0) \in RecStates
        /\ At("lookup", rec[t].seen, others, models, 0) \in RecStates
    BY <1>0, <2>1, AfterPassType, AtType DEF Steps
  <2>4. rec' \in [Reconcilers -> RecStates]
    BY <2>2, <2>3, RecStep
  <2>5. QED BY <1>4, <2>4, UntouchedSame DEF ListOwned, TypeOK, Untouched
<1>5. ASSUME NEW e \in Experiments, LookUpSize(t, e) PROVE Kept
  <2>1. sizes[e] = Miss \/ sizes[e] \in Nat
    BY DEF TypeOK
  <2>2. rec' \in [Reconcilers -> RecStates]
    BY <1>5, <2>1, ProcessedType DEF LookUpSize
  <2>3. QED BY <1>5, <2>2, UntouchedSame DEF LookUpSize, TypeOK, Untouched
<1>6. ASSUME NEW e \in Experiments, MeasureExperiment(t, e) PROVE Kept
  <2>1. size[e] \in Nat
    BY DEF TypeOK
  <2>2. rec' \in [Reconcilers -> RecStates]
    BY <1>6, <2>1, ProcessedType DEF MeasureExperiment
  <2>3. sizes' = sizes \/ sizes' = [sizes EXCEPT ![e] = size[e]] \/ sizes' = [sizes EXCEPT ![e] = 0]
    BY <1>6 DEF MeasureExperiment
  <2>4. sizes' \in [Experiments -> Nat \cup {Miss}]
    BY <2>1, <2>3 DEF TypeOK
  <2>5. faults' \in Nat
    <3>1. faults \in Nat
      BY DEF TypeOK
    <3>2. faults' = faults \/ faults' = faults + 1
      BY <1>6 DEF MeasureExperiment
    <3>3. QED BY <3>1, <3>2
  <2>6. QED BY <1>6, <2>2, <2>4, <2>5, UntouchedSame DEF MeasureExperiment, TypeOK, Untouched
<1>6a. ASSUME NEW m \in Models, MeasureModel(t, m) PROVE Kept
  <2>1. /\ size[m] \in Nat /\ size[Inside[m]] \in Nat /\ Bytes(m) \in Nat
    BY ConstantsAssumption DEF TypeOK, Bytes
  <2>2. rec' \in [Reconcilers -> RecStates]
    <3>1. PICK bytes \in Nat : Processed(t, m, TRUE, bytes)
      BY <1>6a, <2>1 DEF MeasureModel
    <3>2. QED BY <3>1, ProcessedType
  <2>3. faults' \in Nat
    <3>1. faults \in Nat /\ (faults' = faults \/ faults' = faults + 1)
      BY <1>6a DEF MeasureModel, TypeOK
    <3>2. QED BY <3>1
  <2>4. QED BY <1>6a, <2>2, <2>3, UntouchedSame DEF MeasureModel, TypeOK, Untouched
<1>7. ASSUME NEW e \in Experiments, WipeOrphan(t, e) PROVE Kept
  <2>2. rec' \in [Reconcilers -> RecStates]
    BY <1>7, ProcessedType DEF WipeOrphan
  <2>3. owned' \subseteq Resources /\ sizes' \in [Experiments -> Nat \cup {Miss}] /\ faults' \in Nat
    BY <1>7 DEF WipeOrphan, TypeOK
  <2>4. QED BY <1>7, <2>2, <2>3, UntouchedSame DEF WipeOrphan, TypeOK, Untouched
<1>8. CASE CreateRow(t)
  <2>1. rec' \in [Reconcilers -> RecStates]
    BY <1>8, GotoType DEF CreateRow, Steps
  <2>2. row' \in Row /\ UsedIn(row') = UsedIn(row)
    BY <1>0, <1>8, NewLimit, ConstantsAssumption
    DEF CreateRow, AnyLimit, WithLimit, UsedIn, FreshRow, Row, AnyRow
  <2>3. base' \in Nat /\ Rebased
    BY <1>8, <1>0, <2>2, RowValues DEF CreateRow, Rebased, AnyRow
  <2>4. QED BY <1>8, <2>1, <2>2, <2>3 DEF CreateRow, TypeOK
<1>9. CASE SaveUsed(t)
  <2>1. rec' \in [Reconcilers -> RecStates]
    BY <1>9, GotoType, StopType DEF SaveUsed, Steps
  <2>2. row' \in AnyRow
    BY <1>0, <1>9, NewUsed DEF SaveUsed
  <2>3. base' \in Nat /\ Rebased
    BY <1>9, <2>2, RowValues DEF SaveUsed, Rebased
  <2>4. QED BY <1>9, <2>1, <2>2, <2>3 DEF SaveUsed, TypeOK, AnyRow
<1>10. CASE CompareRaises(t)
  <2>1. rec' \in [Reconcilers -> RecStates]
    BY <1>10, StopType DEF CompareRaises, Steps
  <2>2. QED BY <1>10, <2>1, UntouchedSame DEF CompareRaises, TypeOK, Untouched
<1>11. CASE SetBlocked(t)
  <2>1. rec' \in [Reconcilers -> RecStates]
    BY <1>11, GotoType DEF SetBlocked, Steps
  <2>2. Full(t) \in BOOLEAN
    BY DEF Full
  <2>3. SameUsage
    BY <1>0, <1>11, <2>2, NewBlocked DEF SetBlocked, SameUsage
  <2>4. QED BY <1>11, <2>1, <2>3 DEF SetBlocked, TypeOK, SameUsage, AnyRow
<1>12. CASE Notify(t)
  <2>1. rec' \in [Reconcilers -> RecStates]
    BY <1>12, GotoType, StopType DEF Notify, Steps
  <2>2. warnings' \in Nat /\ faults' \in Nat
    BY <1>12 DEF Notify, TypeOK
  <2>3. QED BY <1>12, <2>1, <2>2, UntouchedSame DEF Notify, TypeOK, Untouched
<1>13. CASE RecordNotice(t)
  <2>1. rec' \in [Reconcilers -> RecStates]
    BY <1>13, StopType DEF RecordNotice, Steps
  <2>2. SameUsage
    BY <1>0, <1>13, NewNotified DEF RecordNotice, SameUsage
  <2>3. QED BY <1>13, <2>1, <2>2 DEF RecordNotice, TypeOK, SameUsage, AnyRow
<1>14. CASE ResetNotice(t)
  <2>1. rec' \in [Reconcilers -> RecStates]
    BY <1>14, StopType DEF ResetNotice, Steps
  <2>2. SameUsage
    BY <1>0, <1>14, NewNotified DEF ResetNotice, SameUsage
  <2>3. QED BY <1>14, <2>1, <2>2 DEF ResetNotice, TypeOK, SameUsage, AnyRow
<1>15. QED
  BY <1>1, <1>2, <1>3, <1>4, <1>5, <1>6, <1>7, <1>8, <1>9, <1>10, <1>11, <1>12, <1>13, <1>14,
     <1>6a DEF Reconcile

(* So does every event.                                                    *)
LEMMA EventKinds ==
  ASSUME TypeOK, Administration \/ Ownership
  PROVE  TypeOK' /\ UNCHANGED up /\ (SameUsage \/ Rebased)
<1> DEFINE Kept == TypeOK' /\ UNCHANGED up /\ (SameUsage \/ Rebased)
<1> USE DEF world, bounds, history, Event
<1>0. row \in AnyRow /\ events + 1 \in Nat
  BY DEF TypeOK, AnyRow
<1>1. ASSUME NEW r \in AnyRow, NEW limit \in AnyLimit, NewRow(r, limit) PROVE Kept
  <2>1. UsedIn(r) \in Nat
    BY RowValues
  <2>2. Rebased /\ base' \in Nat
    BY <1>1, <2>1 DEF NewRow, Rebased
  <2>3. QED BY <1>1, <2>2 DEF NewRow, TypeOK, AnyRow, AnyLimit
<1>2. ASSUME NEW limit \in AnyLimit, SetLimit(limit) PROVE Kept
  BY <1>0, <1>1, <1>2, NewLimit DEF SetLimit, AnyRow
<1>3. CASE DeleteQuota
  BY <1>1, <1>3 DEF DeleteQuota, AnyRow, AnyLimit
<1>4. CASE SyncEmail
  <2>1. FreshRow(Unset) \in AnyRow /\ adminLimit \in AnyLimit
    BY FreshRowType DEF AnyRow, AnyLimit, TypeOK
  <2>2. QED BY <1>1, <1>4, <2>1 DEF SyncEmail
<1>5. CASE DayPasses
  <2>1. \A t \in Reconcilers : At(rec[t].pc, Older(rec[t].seen), rec[t].todo, rec[t].misses, rec[t].total)
                                 \in RecStates
    BY RecFields, OlderRow, AtType DEF TypeOK
  <2>2. SameUsage
    BY <1>0, <1>5, OlderRow DEF DayPasses, SameUsage
  <2>3. rec' \in [Reconcilers -> RecStates]
    BY <1>5, <2>1 DEF DayPasses
  <2>4. QED BY <1>0, <1>5, <2>2, <2>3 DEF DayPasses, TypeOK, SameUsage, AnyRow
<1>6. ASSUME NEW e \in Experiments, MoveExperiment(e) PROVE Kept
  <2>1. /\ stage' \in [Resources -> {"active", "deleted", "gone"}]
        /\ size' \in [Resources -> Nat]
    BY <1>6 DEF MoveExperiment, TypeOK
  <2>2. QED BY <1>0, <1>6, <2>1, UntouchedSame DEF MoveExperiment, TypeOK, Untouched
<1>7. ASSUME NEW e \in Experiments, DeleteArtifacts(e) PROVE Kept
  <2>1. size' \in [Resources -> Nat]
    BY <1>7 DEF DeleteArtifacts, TypeOK
  <2>2. QED BY <1>0, <1>7, <2>1, UntouchedSame DEF DeleteArtifacts, TypeOK, Untouched
<1>8. ASSUME NEW x \in Resources, TransferOwnership(x) PROVE Kept
  <2>1. owned' \subseteq Resources
    BY <1>8 DEF TransferOwnership, TypeOK
  <2>2. QED BY <1>0, <1>8, <2>1, UntouchedSame DEF TransferOwnership, TypeOK, Untouched
<1>9. ASSUME NEW m \in Models, StoreVersion(m) PROVE Kept
  <2>1. size' \in [Resources -> Nat]
    <3>1. PICK b \in 1 .. MaxUpload : size' = [size EXCEPT ![m] = @ + b]
      BY <1>9 DEF StoreVersion
    <3>2. size \in [Resources -> Nat] /\ size[m] + b \in Nat
      BY ConstantsAssumption DEF TypeOK
    <3>3. QED BY <3>1, <3>2
  <2>2. QED BY <1>0, <1>9, <2>1, UntouchedSame DEF StoreVersion, TypeOK, Untouched
<1>10. ASSUME NEW m \in Models, DeleteModel(m) PROVE Kept
  <2>1. /\ stage' \in [Resources -> {"active", "deleted", "gone"}]
        /\ size' \in [Resources -> Nat]
    BY <1>10 DEF DeleteModel, TypeOK
  <2>2. QED BY <1>0, <1>10, <2>1, UntouchedSame DEF DeleteModel, TypeOK, Untouched
<1>11. QED
  BY <1>2, <1>3, <1>4, <1>5, <1>6, <1>7, <1>8, <1>9, <1>10 DEF Administration, Ownership, AnyLimit

LEMMA ExpireKinds ==
  ASSUME TypeOK, NEW e \in Experiments, ExpireSize(e)
  PROVE  TypeOK' /\ UNCHANGED up /\ SameUsage
<1> USE DEF world, bounds, history
<1>1. sizes' \in [Experiments -> Nat \cup {Miss}]
  BY DEF ExpireSize, TypeOK
<1>2. QED BY <1>1, UntouchedSame DEF ExpireSize, TypeOK, Untouched

-----------------------------------------------------------------------------
(* Uploads                                                                 *)

(* Charges are bounded by MaxUpload: what AdmitUpload admits is what       *)
(* ChargeUpload adds.                                                      *)
SmallUploads == \A u \in Uploaders : up[u].bytes <= MaxUpload

IInv == TypeOK /\ SmallUploads /\ OvershootBounded

LEMMA UploadAtType ==
  ASSUME NEW pc \in {"idle", "charge", "store"}, NEW e \in Experiments \cup {NoRow}, NEW b \in Nat
  PROVE  UploadAt(pc, e, b) \in UploadStates
BY DEF UploadAt, UploadStates

LEMMA PendingFinite ==
  /\ IsFiniteSet(Pending) /\ Cardinality(Pending) \in Nat /\ Cardinality(Uploaders) \in Nat
  /\ Cardinality(Pending) <= Cardinality(Uploaders)
<1>1. IsFiniteSet(Uploaders) /\ Pending \in SUBSET Uploaders
  BY ConstantsAssumption DEF Pending
<1>2. QED BY <1>1, FS_Subset, FS_CardinalityType

(* A step of no upload keeps the bound.                                    *)
LEMMA SameOrRebased ==
  ASSUME IInv, TypeOK', UNCHANGED up, SameUsage \/ Rebased
  PROVE  SmallUploads' /\ OvershootBounded'
<1>1. SmallUploads'
  <2>1. SmallUploads /\ up' = up
    BY DEF IInv
  <2>2. QED BY <2>1 DEF SmallUploads
<1>2. Pending' = Pending
  BY DEF Pending
<1>3. CASE SameUsage
  <2>1. OvershootBounded
    BY DEF IInv
  <2>2. OvershootBounded'
    BY <1>2, <1>3, <2>1 DEF OvershootBounded, SameUsage, Ceiling
  <2>3. QED BY <1>1, <2>2
<1>4. CASE Rebased
  <2> DEFINE c == Cardinality(Pending)
             n == Cardinality(Uploaders)
             used == UsedIn(row')
             limit == Effective(row')
  <2>1. c \in Nat /\ n \in Nat /\ c <= n /\ MaxUpload \in Nat
    BY PendingFinite, ConstantsAssumption
  <2>2. used \in Nat /\ base' = used /\ limit \in Nat \cup {Unset}
    BY <1>4, RowValues DEF Rebased
  <2> HIDE DEF c, n, used, limit
  <2>3. MaxUpload * c <= MaxUpload * n
    BY <2>1
  <2>4. limit # Unset =>
          used + MaxUpload * c <= (IF base' > limit - 1 THEN base' ELSE limit - 1) + MaxUpload * n
    <3> DEFINE mc == MaxUpload * c
               mn == MaxUpload * n
    <3>1. mc \in Nat /\ mn \in Nat /\ mc <= mn
      BY <2>1, <2>3
    <3> HIDE DEF mc, mn
    <3>2. limit # Unset => used + mc <= (IF base' > limit - 1 THEN base' ELSE limit - 1) + mn
      BY <2>2, <3>1
    <3>3. QED BY <3>2 DEF mc, mn
  <2>5. OvershootBounded'
    BY <1>2, <2>4 DEF OvershootBounded, Ceiling, c, n, used, limit
  <2>6. QED BY <1>1, <2>5
<1>5. QED BY <1>1, <1>3, <1>4

(* Upload steps keep the types and the bound on bytes.                     *)
LEMMA AdmitKinds ==
  ASSUME TypeOK, SmallUploads, NEW u \in Uploaders, NEW e \in Experiments, NEW b \in 1 .. MaxUpload,
         NEW pc \in {"charge", "store"}, Upload(u, pc, e, b), uploads' = uploads + 1
  PROVE  TypeOK' /\ SmallUploads' /\ SameUsage
<1> USE DEF world, history
<1>1. MaxUpload \in Nat /\ b \in Nat /\ b <= MaxUpload
  BY ConstantsAssumption
<1>2. UploadAt(pc, e, b) \in UploadStates /\ UploadAt(pc, e, b).bytes = b
  BY <1>1, UploadAtType DEF UploadAt
<1>3. up' = [up EXCEPT ![u] = UploadAt(pc, e, b)] /\ up \in [Uploaders -> UploadStates]
  BY DEF Upload, TypeOK
<1>4. up' \in [Uploaders -> UploadStates] /\ SmallUploads'
  BY <1>1, <1>2, <1>3 DEF SmallUploads
<1>5. SameUsage
  BY UntouchedSame DEF Upload, Untouched
<1>6. uploads' \in Nat
  BY DEF TypeOK
<1>7. QED BY <1>4, <1>5, <1>6 DEF Upload, TypeOK

LEMMA AdmitKeepsBound ==
  ASSUME IInv, NEW u \in Uploaders, NEW e \in Experiments, NEW b \in 1 .. MaxUpload,
         AdmitUpload(u, e, b)
  PROVE  IInv'
<1>1. TypeOK' /\ SmallUploads' /\ SameUsage
  BY AdmitKinds DEF IInv, AdmitUpload
<1> DEFINE c == Cardinality(Pending)'
           n == Cardinality(Uploaders)
           used == UsedIn(row)
           limit == Effective(row)
<1>2. c \in Nat /\ n \in Nat /\ c <= n /\ MaxUpload \in Nat
  <2>1. IsFiniteSet(Uploaders) /\ Pending' \in SUBSET Uploaders
    BY ConstantsAssumption DEF Pending
  <2>2. Cardinality(Pending') \in Nat /\ Cardinality(Uploaders) \in Nat
        /\ Cardinality(Pending') <= Cardinality(Uploaders)
    BY <2>1, FS_Subset, FS_CardinalityType
  <2>3. QED BY <2>2, ConstantsAssumption
<1>3. used \in Nat /\ limit \in Nat \cup {Unset} /\ base \in Nat
  BY RowValues DEF IInv, TypeOK, AnyRow
<1>4. limit # Unset => used < limit
  BY DEF AdmitUpload, BelowLimit
<1>5. UsedIn(row') = used /\ Effective(row') = limit /\ base' = base
  BY <1>1 DEF SameUsage
<1> HIDE DEF c, n, used, limit
<1>6. limit # Unset => used + MaxUpload * c <= (IF base > limit - 1 THEN base ELSE limit - 1) + MaxUpload * n
  <2> DEFINE mc == MaxUpload * c
             mn == MaxUpload * n
  <2>1. mc \in Nat /\ mn \in Nat /\ mc <= mn
    BY <1>2
  <2> HIDE DEF mc, mn
  <2>2. limit # Unset => used + mc <= (IF base > limit - 1 THEN base ELSE limit - 1) + mn
    BY <1>3, <1>4, <2>1
  <2>3. QED BY <2>2 DEF mc, mn
<1>7. OvershootBounded'
  BY <1>5, <1>6 DEF OvershootBounded, Ceiling, c, n
<1>8. QED BY <1>1, <1>7 DEF IInv

LEMMA UnchargedKeepsBound ==
  ASSUME IInv, NEW u \in Uploaders, NEW e \in Experiments, NEW b \in 1 .. MaxUpload,
         AdmitUncharged(u, e, b)
  PROVE  IInv'
<1>1. TypeOK' /\ SmallUploads' /\ SameUsage
  BY AdmitKinds DEF IInv, AdmitUncharged
<1>2. Pending' = Pending
  BY DEF IInv, TypeOK, AdmitUncharged, Upload, UploadAt, Pending
<1>3. OvershootBounded
  BY DEF IInv
<1>4. OvershootBounded'
  BY <1>1, <1>2, <1>3 DEF OvershootBounded, SameUsage, Ceiling
<1>5. QED BY <1>1, <1>4 DEF IInv

(* A charge moves its bytes from the pending uploads to used_bytes.        *)
LEMMA ChargeKeepsBound ==
  ASSUME IInv, NEW u \in Uploaders, ChargeUpload(u)
  PROVE  IInv'
<1> USE DEF world, bounds, history
<1> DEFINE b == up[u].bytes
           c == Cardinality(Pending)
           n == Cardinality(Uploaders)
           used == UsedIn(row)
           limit == Effective(row)
<1>1. /\ row \in AnyRow /\ up \in [Uploaders -> UploadStates]
      /\ b \in Nat /\ b <= MaxUpload /\ MaxUpload \in Nat /\ base \in Nat
  BY ConstantsAssumption DEF IInv, TypeOK, UploadStates, SmallUploads, AnyRow
<1>2. used \in Nat /\ limit \in Nat \cup {Unset}
  BY <1>1, RowValues
<1>3. /\ row' \in AnyRow /\ Effective(row') = limit
      /\ UsedIn(row') \in Nat /\ UsedIn(row') <= used + b
  <2>1. used + b \in Nat /\ row' = WithUsed(row, used + b)
    BY <1>1, <1>2 DEF ChargeUpload
  <2> HIDE DEF used, b
  <2>2. /\ WithUsed(row, used + b) \in AnyRow
        /\ Effective(WithUsed(row, used + b)) = Effective(row)
        /\ row # NoRow => UsedIn(WithUsed(row, used + b)) = used + b
        /\ row = NoRow => UsedIn(WithUsed(row, used + b)) = 0
    BY <1>1, <2>1, NewUsed
  <2>3. QED BY <2>1, <2>2
<1>4. /\ up' = [up EXCEPT ![u] = UploadAt("store", up[u].exp, b)]
      /\ UploadAt("store", up[u].exp, b) \in UploadStates
      /\ UploadAt("store", up[u].exp, b).bytes = b /\ UploadAt("store", up[u].exp, b).pc = "store"
  BY <1>1, UploadAtType DEF ChargeUpload, UploadStates, UploadAt
<1>5. TypeOK' /\ SmallUploads'
  <2>1. up' \in [Uploaders -> UploadStates]
    BY <1>1, <1>4
  <2>2. SmallUploads'
    BY <1>1, <1>4 DEF SmallUploads, IInv
  <2>3. QED BY <1>3, <2>1, <2>2 DEF IInv, TypeOK, ChargeUpload, AnyRow
<1>6. u \in Pending /\ Pending' = Pending \ {u}
  BY <1>1, <1>4 DEF Pending, ChargeUpload
<1>7. c \in Nat /\ n \in Nat /\ c >= 1 /\ Cardinality(Pending') = c - 1
  <2>1. c \in Nat /\ n \in Nat /\ IsFiniteSet(Pending)
    BY PendingFinite
  <2>2. Cardinality(Pending \ {u}) = c - 1 /\ Cardinality(Pending \ {u}) \in Nat
    BY <1>6, <2>1, FS_RemoveElement, FS_CardinalityType
  <2>3. QED BY <1>6, <2>1, <2>2
<1>8. limit # Unset => used + MaxUpload * c <= (IF base > limit - 1 THEN base ELSE limit - 1) + MaxUpload * n
  BY DEF IInv, OvershootBounded, Ceiling
<1> HIDE DEF b, c, n, used, limit
<1>9. limit # Unset => UsedIn(row') + MaxUpload * (c - 1)
                         <= (IF base > limit - 1 THEN base ELSE limit - 1) + MaxUpload * n
  <2> DEFINE mc == MaxUpload * c
             mn == MaxUpload * n
             md == MaxUpload * (c - 1)
             used2 == UsedIn(row')
  <2>1. mc \in Nat /\ mn \in Nat /\ md = mc - MaxUpload
    BY <1>1, <1>7
  <2>2. limit # Unset => used + mc <= (IF base > limit - 1 THEN base ELSE limit - 1) + mn
    BY <1>8
  <2>3. used2 \in Nat /\ used2 <= used + b
    BY <1>3
  <2> HIDE DEF mc, mn, md, used2
  <2>4. limit # Unset => used2 + md <= (IF base > limit - 1 THEN base ELSE limit - 1) + mn
    BY <1>1, <1>2, <2>1, <2>2, <2>3
  <2>5. QED BY <2>4 DEF mn, md, used2
<1>10. OvershootBounded'
  <2>1. Effective(row') = limit /\ base' = base /\ Cardinality(Pending)' = c - 1
    BY <1>3, <1>7 DEF ChargeUpload
  <2>2. QED BY <1>9, <2>1 DEF OvershootBounded, Ceiling, n
<1>11. QED BY <1>5, <1>10 DEF IInv

LEMMA StoreKeepsBound ==
  ASSUME IInv, NEW u \in Uploaders, StoreUpload(u)
  PROVE  IInv'
<1> USE DEF world, bounds, history
<1>1. up \in [Uploaders -> UploadStates] /\ up' = [up EXCEPT ![u] = NoUpload]
  BY DEF IInv, TypeOK, StoreUpload
<1>2. NoUpload \in UploadStates /\ NoUpload.bytes = 0 /\ NoUpload.pc = "idle"
  BY DEF NoUpload, UploadStates
<1>3. up' \in [Uploaders -> UploadStates] /\ SmallUploads'
  BY <1>1, <1>2, ConstantsAssumption DEF IInv, SmallUploads
<1>4. SameUsage
  BY UntouchedSame DEF IInv, StoreUpload, Untouched
<1>5. up[u].bytes \in Nat /\ faults \in Nat /\ size \in [Resources -> Nat]
  BY <1>1 DEF UploadStates, IInv, TypeOK
<1>6. size' = size \/ size' = [size EXCEPT ![up[u].exp] = @ + up[u].bytes]
  BY DEF StoreUpload
<1>7. size' \in [Resources -> Nat]
  BY <1>5, <1>6
<1>8. faults' \in Nat
  <2>1. faults' = faults \/ faults' = faults + 1
    BY DEF StoreUpload
  <2>2. QED BY <1>5, <2>1
<1>9. TypeOK'
  BY <1>3, <1>7, <1>8 DEF IInv, TypeOK, StoreUpload
<1>10. Pending' = Pending
  BY <1>1, <1>2 DEF StoreUpload, Pending
<1>11. OvershootBounded
  BY DEF IInv
<1>12. OvershootBounded'
  BY <1>4, <1>10, <1>11 DEF OvershootBounded, SameUsage, Ceiling
<1>13. QED BY <1>3, <1>9, <1>12 DEF IInv

-----------------------------------------------------------------------------
LEMMA InitIInv == Init => IInv
<1> SUFFICES ASSUME Init PROVE IInv
  OBVIOUS
<1>1. InitialRow \in AnyRow /\ UsedIn(InitialRow) \in Nat
  BY ConstantsAssumption, RowValues DEF AnyRow
<1>2. NoUpload \in UploadStates /\ NoUpload.bytes = 0
  BY DEF NoUpload, UploadStates
<1>3. Finished("idle") \in RecStates
  BY FinishedType DEF Steps
<1>4. TypeOK
  BY <1>1, <1>2, <1>3 DEF Init, TypeOK, AnyRow
<1>5. SmallUploads
  BY <1>2, ConstantsAssumption DEF Init, SmallUploads
<1>6. OvershootBounded
  <2> DEFINE c == Cardinality(Pending)
             n == Cardinality(Uploaders)
             used == UsedIn(row)
             limit == Effective(row)
  <2>1. c = 0 /\ n \in Nat /\ MaxUpload \in Nat
    <3>1. Pending = {}
      BY DEF Pending, Init, NoUpload
    <3>2. QED BY <3>1, PendingFinite, FS_EmptySet, ConstantsAssumption
  <2>2. used \in Nat /\ base = used /\ limit \in Nat \cup {Unset}
    BY <1>1, RowValues DEF Init
  <2> HIDE DEF c, n, used, limit
  <2>3. MaxUpload * n \in Nat /\ MaxUpload * c = 0
    BY <2>1
  <2> DEFINE mn == MaxUpload * n
  <2>4. mn \in Nat
    BY <2>3
  <2> HIDE DEF mn
  <2>5. limit # Unset => used + 0 <= (IF base > limit - 1 THEN base ELSE limit - 1) + mn
    BY <2>2, <2>4
  <2>6. QED BY <2>3, <2>5 DEF OvershootBounded, Ceiling, c, n, used, limit, mn
<1>7. QED BY <1>4, <1>5, <1>6 DEF IInv

LEMMA NextIInv == IInv /\ [Next]_vars => IInv'
<1> SUFFICES ASSUME IInv, [Next]_vars PROVE IInv'
  OBVIOUS
<1>0. TypeOK /\ SmallUploads
  BY DEF IInv
<1>1. ASSUME NEW u \in Uploaders, Uploading(u) PROVE IInv'
  BY <1>1, AdmitKeepsBound, UnchargedKeepsBound, ChargeKeepsBound, StoreKeepsBound DEF Uploading
<1>2. ASSUME NEW t \in Reconcilers, Reconcile(t) PROVE IInv'
  <2>1. TypeOK' /\ UNCHANGED up /\ (SameUsage \/ Rebased)
    BY <1>0, <1>2, ReconcileKinds
  <2>2. QED BY <2>1, SameOrRebased DEF IInv
<1>3. ASSUME NEW e \in Experiments, ExpireSize(e) PROVE IInv'
  <2>1. TypeOK' /\ UNCHANGED up /\ (SameUsage \/ Rebased)
    BY <1>0, <1>3, ExpireKinds
  <2>2. QED BY <2>1, SameOrRebased DEF IInv
<1>4. CASE Administration \/ Ownership
  <2>1. TypeOK' /\ UNCHANGED up /\ (SameUsage \/ Rebased)
    BY <1>0, <1>4, EventKinds
  <2>2. QED BY <2>1, SameOrRebased DEF IInv
<1>5. CASE UNCHANGED vars
  <2>1. TypeOK' /\ UNCHANGED <<row, base, up>>
    BY <1>0, <1>5 DEF vars, world, bounds, history, TypeOK
  <2>2. SameUsage
    BY <1>0, <2>1, UntouchedSame DEF Untouched
  <2>3. QED BY <2>1, <2>2, SameOrRebased DEF IInv
<1>6. QED BY <1>1, <1>2, <1>3, <1>4, <1>5 DEF Next

-----------------------------------------------------------------------------
(* Warnings and orphans                                                    *)

(* Nobody has been told of the state of this row.                          *)
Untold(r) == r # NoRow /\ r.notified = "never"

(* Reconciliations that may still send a warning, and those that have to   *)
(* note that they have.                                                    *)
Armed == {t \in Reconcilers : Untold(rec[t].seen) /\ rec[t].pc # "record"}
Recording == {t \in Reconcilers : rec[t].pc = "record"}

(* While the row tells of no mail, whoever has sent one is about to note   *)
(* it; afterwards only those that have seen the row before can send more.  *)
WarningsCounted ==
  IF Untold(row) THEN warnings <= Cardinality(Recording)
  ELSE warnings + Cardinality(Armed) <= Cardinality(Reconcilers)

(* Thresholds are judged for a row that was there.                         *)
Judged == \A t \in Reconcilers : rec[t].pc \in {"compare", "notify"} => rec[t].seen # NoRow

(* What a measurement misses, and what is to be wiped then, is gone for    *)
(* good unless a call has failed.                                          *)
MissesGone(r, st) ==
  /\ r.pc \in {"measure", "wipe"} => \A e \in r.misses : st[e] = "gone"
  /\ r.pc = "wipe" => \A e \in r.todo : st[e] = "gone"

OrphansKnown == faults = 0 => \A t \in Reconcilers : MissesGone(rec[t], stage)

Strong == IInv /\ Judged /\ WarningsCounted /\ OrphansKnown

LEMMA Counts ==
  ASSUME NEW A \in SUBSET Reconcilers, NEW B \in SUBSET A
  PROVE  /\ Cardinality(A) \in Nat /\ Cardinality(B) \in Nat /\ Cardinality(Reconcilers) \in Nat
         /\ Cardinality(B) <= Cardinality(A) /\ Cardinality(A) <= Cardinality(Reconcilers)
<1>1. IsFiniteSet(Reconcilers)
  BY ConstantsAssumption
<1>2. IsFiniteSet(A) /\ Cardinality(A) <= Cardinality(Reconcilers)
  BY <1>1, FS_Subset
<1>3. IsFiniteSet(B) /\ Cardinality(B) <= Cardinality(A)
  BY <1>2, FS_Subset
<1>4. QED BY <1>1, <1>2, <1>3, FS_CardinalityType

LEMMA ArmedAndRecording ==
  /\ Armed \in SUBSET Reconcilers /\ Recording \in SUBSET Reconcilers
  /\ Armed' \in SUBSET Reconcilers /\ Recording' \in SUBSET Reconcilers
BY DEF Armed, Recording

(* Together they are no more than there are reconciliations.               *)
LEMMA ArmedOrRecording ==
  /\ Cardinality(Armed) \in Nat /\ Cardinality(Recording) \in Nat /\ Cardinality(Reconcilers) \in Nat
  /\ Cardinality(Armed) + Cardinality(Recording) <= Cardinality(Reconcilers)
<1>1. IsFiniteSet(Reconcilers) /\ IsFiniteSet(Armed) /\ IsFiniteSet(Recording)
  BY ConstantsAssumption, ArmedAndRecording, FS_Subset
<1>2. Armed \cap Recording = {}
  BY DEF Armed, Recording
<1>3. IsFiniteSet(Armed \cup Recording)
      /\ Cardinality(Armed \cup Recording)
           = Cardinality(Armed) + Cardinality(Recording) - Cardinality(Armed \cap Recording)
  BY <1>1, FS_Union
<1>4. Cardinality(Armed \cap Recording) = 0
  BY <1>2, FS_EmptySet
<1>5. Cardinality(Armed \cup Recording) <= Cardinality(Reconcilers)
  BY <1>1, ArmedAndRecording, FS_Subset
<1>6. Cardinality(Armed) \in Nat /\ Cardinality(Recording) \in Nat /\ Cardinality(Reconcilers) \in Nat
  BY <1>1, FS_CardinalityType
<1>7. QED BY <1>3, <1>4, <1>5, <1>6

(* A step that tells nobody anything, and arms nobody once the row tells of*)
(* a mail.                                                                 *)
LEMMA CalmStep ==
  ASSUME TypeOK, WarningsCounted, Untold(row') = Untold(row), warnings' = warnings,
         Untold(row) => Recording \subseteq Recording',
         ~Untold(row) => Armed' \subseteq Armed
  PROVE  WarningsCounted'
<1>1. warnings \in Nat
  BY DEF TypeOK
<1>2. CASE Untold(row)
  <2>1. Cardinality(Recording) \in Nat /\ Cardinality(Recording') \in Nat
        /\ Cardinality(Recording) <= Cardinality(Recording')
    BY <1>2, ArmedAndRecording, Counts
  <2>2. warnings <= Cardinality(Recording)
    BY <1>2 DEF WarningsCounted
  <2>3. warnings' <= Cardinality(Recording')
    BY <1>1, <2>1, <2>2
  <2>4. QED BY <1>2, <2>3 DEF WarningsCounted
<1>3. CASE ~Untold(row)
  <2>1. Cardinality(Armed) \in Nat /\ Cardinality(Armed') \in Nat /\ Cardinality(Reconcilers) \in Nat
        /\ Cardinality(Armed') <= Cardinality(Armed)
    BY <1>3, ArmedAndRecording, Counts
  <2>2. warnings + Cardinality(Armed) <= Cardinality(Reconcilers)
    BY <1>3 DEF WarningsCounted
  <2>3. warnings' + Cardinality(Armed') <= Cardinality(Reconcilers)
    BY <1>1, <2>1, <2>2
  <2>4. QED BY <1>3, <2>3 DEF WarningsCounted
<1>4. QED BY <1>2, <1>3

(* A new crossing begins.                                                  *)
LEMMA ResetStep ==
  ASSUME warnings' = 0
  PROVE  WarningsCounted'
<1>1. /\ Cardinality(Armed') \in Nat /\ Cardinality(Recording') \in Nat
      /\ Cardinality(Reconcilers) \in Nat /\ Cardinality(Armed') <= Cardinality(Reconcilers)
  BY ArmedAndRecording, Counts
<1>2. 0 <= Cardinality(Recording') /\ 0 + Cardinality(Armed') <= Cardinality(Reconcilers)
  BY <1>1
<1>3. QED BY <1>2 DEF WarningsCounted

(* One reconciliation goes on: with what it has seen, or with nothing.     *)
LEMMA GoesOn ==
  ASSUME TypeOK, WarningsCounted, NEW t \in Reconcilers, NEW s, rec' = [rec EXCEPT ![t] = s],
         Untold(s.seen) => Untold(rec[t].seen), rec[t].pc # "record", s.pc # "record",
         Untold(row') = Untold(row), warnings' = warnings
  PROVE  WarningsCounted'
<1>1. rec \in [Reconcilers -> RecStates]
  BY DEF TypeOK
<1>2. rec'[t] = s /\ \A o \in Reconcilers \ {t} : rec'[o] = rec[o]
  BY <1>1
<1>3. Recording \subseteq Recording'
  BY <1>2 DEF Recording
<1>4. Armed' \subseteq Armed
  BY <1>2 DEF Armed
<1>5. QED BY <1>3, <1>4, CalmStep

Kept == Judged' /\ WarningsCounted' /\ OrphansKnown'

(* ... with every part of the invariant.                                   *)
LEMMA PlainStep ==
  ASSUME Strong, NEW t \in Reconcilers, NEW s, rec' = [rec EXCEPT ![t] = s],
         Untold(s.seen) => Untold(rec[t].seen), rec[t].pc # "record", s.pc # "record",
         s.pc \in {"compare", "notify"} => s.seen # NoRow,
         Untold(row') = Untold(row), warnings' = warnings, stage' = stage,
         faults' = 0 => faults = 0 /\ MissesGone(s, stage)
  PROVE  Kept
<1>1. TypeOK /\ rec \in [Reconcilers -> RecStates]
  BY DEF Strong, IInv, TypeOK
<1>2. rec'[t] = s /\ \A o \in Reconcilers \ {t} : rec'[o] = rec[o]
  BY <1>1
<1>3. WarningsCounted'
  BY <1>1, GoesOn DEF Strong
<1>4. Judged'
  BY <1>2 DEF Strong, Judged
<1>5. OrphansKnown'
  BY <1>2 DEF Strong, OrphansKnown
<1>6. QED BY <1>3, <1>4, <1>5 DEF Kept

LEMMA NoticeKept ==
  ASSUME NEW r \in AnyRow
  PROVE  /\ \A n \in Nat : Untold(WithUsed(r, n)) = Untold(r)
         /\ \A b \in BOOLEAN : Untold(WithBlocked(r, b)) = Untold(r)
         /\ Untold(Older(r)) = Untold(r) /\ (Older(r) = NoRow) = (r = NoRow)
         /\ r # NoRow => \A limit \in AnyLimit : Untold(WithLimit(r, limit)) = Untold(r)
<1>1. CASE r = NoRow
  BY <1>1 DEF Untold, WithUsed, WithBlocked, Older
<1>2. CASE r # NoRow
  <2>1. r \in Row /\ NoRow \notin Row
    BY <1>2, ConstantsAssumption DEF AnyRow
  <2>2. ASSUME NEW n \in Nat PROVE Untold(WithUsed(r, n)) = Untold(r)
    <3>1. WithUsed(r, n) = [r EXCEPT !.used = n] /\ [r EXCEPT !.used = n] \in Row
      BY <1>2, <2>1 DEF WithUsed, Row
    <3>2. QED BY <1>2, <2>1, <3>1 DEF Untold, Row
  <2>3. ASSUME NEW b \in BOOLEAN PROVE Untold(WithBlocked(r, b)) = Untold(r)
    <3>1. WithBlocked(r, b) = [r EXCEPT !.blocked = b] /\ [r EXCEPT !.blocked = b] \in Row
      BY <1>2, <2>1 DEF WithBlocked, Row
    <3>2. QED BY <1>2, <2>1, <3>1 DEF Untold, Row
  <2>4. Untold(Older(r)) = Untold(r) /\ Older(r) # NoRow
    <3>1. CASE r.notified = "today"
      <4>1. Older(r) = [r EXCEPT !.notified = "before"] /\ [r EXCEPT !.notified = "before"] \in Row
        BY <1>2, <2>1, <3>1 DEF Older, Row
      <4>2. QED BY <1>2, <2>1, <3>1, <4>1 DEF Untold, Row
    <3>2. CASE r.notified # "today"
      BY <1>2, <3>2 DEF Older
    <3>3. QED BY <3>1, <3>2
  <2>5. ASSUME NEW limit \in AnyLimit PROVE Untold(WithLimit(r, limit)) = Untold(r)
    <3>1. WithLimit(r, limit) = [r EXCEPT !.limit = limit] /\ [r EXCEPT !.limit = limit] \in Row
      BY <1>2, <2>1 DEF WithLimit, Row, AnyLimit
    <3>2. QED BY <1>2, <2>1, <3>1 DEF Untold, Row
  <2>6. QED BY <1>2, <2>2, <2>3, <2>4, <2>5
<1>3. QED BY <1>1, <1>2

(* One experiment or model of a count is dealt with.                       *)
LEMMA ProcessedStep ==
  ASSUME Strong, NEW t \in Reconcilers, NEW e \in Resources, NEW found \in BOOLEAN, NEW bytes,
         Processed(t, e, found, bytes), rec[t].pc \in {"lookup", "measure", "wipe"},
         ~found /\ rec[t].pc # "lookup" /\ faults' = 0 => stage[e] = "gone",
         faults' = 0 => faults = 0, row' = row, warnings' = warnings, stage' = stage
  PROVE  Kept
<1> DEFINE r == rec[t]
           misses == IF found THEN r.misses ELSE r.misses \cup {e}
           s == IF r.todo \ {e} = {} THEN AfterPass(r.pc, r.seen, misses, r.total + bytes)
                ELSE At(r.pc, r.seen, r.todo \ {e}, misses, r.total + bytes)
<1>1. rec' = [rec EXCEPT ![t] = s]
  BY DEF Processed
<1>2. faults' = 0 => faults = 0 /\ MissesGone(r, stage)
  BY DEF Strong, OrphansKnown
<1>3. faults' = 0 /\ r.pc # "lookup" => \A x \in misses : stage[x] = "gone"
  BY <1>2 DEF MissesGone
<1>4. s.seen = r.seen /\ s.pc \in {"lookup", "measure", "wipe", "create", "save"}
  BY DEF AfterPass, At
<1>5. faults' = 0 => MissesGone(s, stage)
  <2>1. CASE r.todo \ {e} # {}
    <3>1. s.pc = r.pc /\ s.todo = r.todo \ {e} /\ s.misses = misses
      BY <2>1 DEF At
    <3> HIDE DEF s, misses
    <3>2. QED BY <1>2, <1>3, <3>1 DEF MissesGone
  <2>2. CASE r.todo \ {e} = {} /\ misses = {}
    <3>1. s.pc \in {"create", "save"}
      BY <2>2 DEF AfterPass, At
    <3> HIDE DEF s
    <3>2. QED BY <3>1 DEF MissesGone
  <2>3. CASE r.todo \ {e} = {} /\ misses # {}
    <3>1. /\ s.pc = (IF r.pc = "lookup" THEN "measure" ELSE "wipe")
          /\ s.todo = misses /\ s.misses = {}
      BY <2>3 DEF AfterPass, At
    <3> HIDE DEF s, misses
    <3>2. QED BY <1>3, <3>1 DEF MissesGone
  <2>4. QED BY <2>1, <2>2, <2>3
<1> HIDE DEF s
<1>6. QED BY <1>1, <1>2, <1>4, <1>5, PlainStep

(* A reconciliation ends.                                                  *)
LEMMA Stopped ==
  ASSUME TypeOK, NEW t \in Reconcilers, NEW pc, Stop(t, pc)
  PROVE  /\ rec' = [rec EXCEPT ![t] = Finished(pc)]
         /\ Finished(pc).pc = pc /\ ~Untold(Finished(pc).seen)
         /\ \A st : pc \notin {"measure", "wipe"} => MissesGone(Finished(pc), st)
<1>1. Finished(pc).pc = pc /\ Finished(pc).seen = NoRow
  BY DEF Finished, At
<1> DEFINE s == Finished(pc)
<1>2. rec' = [rec EXCEPT ![t] = s]
  BY DEF Stop
<1> HIDE DEF s
<1>3. QED BY <1>1, <1>2 DEF s, Untold, MissesGone

LEMMA StopStep ==
  ASSUME Strong, NEW t \in Reconcilers, NEW pc \in {"idle", "raised"}, Stop(t, pc),
         stage' = stage, faults' = 0 => faults = 0
  PROVE  /\ Judged' /\ OrphansKnown'
         /\ rec[t].pc # "record" /\ Untold(row') = Untold(row) /\ warnings' = warnings => Kept
<1> DEFINE s == Finished(pc)
<1>1. TypeOK /\ rec \in [Reconcilers -> RecStates]
  BY DEF Strong, IInv, TypeOK
<1>2. /\ rec' = [rec EXCEPT ![t] = s] /\ s.pc = pc /\ ~Untold(s.seen)
      /\ MissesGone(s, stage)
  BY <1>1, Stopped
<1> HIDE DEF s
<1>3. rec'[t] = s /\ \A o \in Reconcilers \ {t} : rec'[o] = rec[o]
  BY <1>1, <1>2
<1>4. Judged'
  BY <1>2, <1>3 DEF Strong, Judged
<1>5. OrphansKnown'
  BY <1>2, <1>3 DEF Strong, OrphansKnown
<1>6. ASSUME rec[t].pc # "record", Untold(row') = Untold(row), warnings' = warnings
      PROVE  Kept
  BY <1>2, <1>6, PlainStep
<1>7. QED BY <1>4, <1>5, <1>6

(* A reconciliation goes on to its next call of the database.              *)
LEMMA GotoStep ==
  ASSUME Strong, NEW t \in Reconcilers,
         NEW pc \in {"unnotify", "save", "compare", "notify", "reset"}, Goto(t, pc),
         rec[t].pc # "record", pc \in {"compare", "notify"} => rec[t].seen # NoRow,
         Untold(row') = Untold(row), warnings' = warnings, stage' = stage, faults' = faults
  PROVE  Kept
<1> DEFINE s == At(pc, rec[t].seen, rec[t].todo, rec[t].misses, rec[t].total)
<1>1. rec' = [rec EXCEPT ![t] = s]
  BY DEF Goto
<1>2. s.pc = pc /\ s.seen = rec[t].seen
  BY DEF At
<1> HIDE DEF s
<1>3. MissesGone(s, stage)
  BY <1>2 DEF MissesGone
<1>4. QED BY <1>1, <1>2, <1>3, PlainStep

(* No reconciliation takes a step.                                         *)
LEMMA IdleStep ==
  ASSUME Strong, rec' = rec, (Untold(row') = Untold(row) /\ warnings' = warnings) \/ warnings' = 0,
         \A e \in Resources : stage[e] = "gone" => stage'[e] = "gone",
         faults' = 0 => faults = 0
  PROVE  Kept
<1>1. Judged'
  BY DEF Strong, Judged
<1>2. OrphansKnown'
  <2>1. ASSUME faults' = 0, NEW t \in Reconcilers PROVE MissesGone(rec[t], stage')
    <3>1. MissesGone(rec[t], stage)
      BY <2>1 DEF Strong, OrphansKnown
    <3>2. rec[t].misses \in SUBSET Resources /\ rec[t].todo \in SUBSET Resources
      BY RecFields DEF Strong, IInv, TypeOK
    <3>3. QED BY <3>1, <3>2 DEF MissesGone
  <2>2. QED BY <2>1 DEF OrphansKnown
<1>3. WarningsCounted'
  <2>1. CASE Untold(row') = Untold(row) /\ warnings' = warnings
    <3>1. Recording' = Recording /\ Armed' = Armed
      BY DEF Recording, Armed
    <3>2. QED BY <2>1, <3>1, CalmStep DEF Strong, IInv
  <2>2. QED BY <2>1, ResetStep
<1>4. QED BY <1>1, <1>2, <1>3 DEF Kept

LEMMA FaultsStay ==
  ASSUME TypeOK, faults' = faults \/ faults' = faults + 1
  PROVE  faults' = 0 => faults = 0
BY DEF TypeOK

-----------------------------------------------------------------------------
(* The mail is sent, and is yet to be noted.                               *)
LEMMA NotifyKeeps ==
  ASSUME Strong, NEW t \in Reconcilers, Notify(t)
  PROVE  Kept
<1> USE DEF world, bounds, history
<1>0. /\ TypeOK /\ rec \in [Reconcilers -> RecStates] /\ warnings \in Nat /\ faults \in Nat
      /\ rec[t].pc = "notify" /\ rec[t].seen \in AnyRow /\ rec[t].seen # NoRow
  BY RecFields DEF Strong, IInv, TypeOK, Notify, Judged
<1>1. row' = row /\ stage' = stage /\ rec[t].pc # "record"
  BY <1>0 DEF Notify
<1>2. CASE MailDue(t) /\ Goto(t, "record") /\ faults' = faults
           /\ warnings' = IF Full(t) THEN warnings ELSE warnings + 1
  <2> DEFINE s == At("record", rec[t].seen, rec[t].todo, rec[t].misses, rec[t].total)
  <2>1. rec' = [rec EXCEPT ![t] = s] /\ s.pc = "record"
    BY <1>2 DEF Goto, At
  <2> HIDE DEF s
  <2>2. rec'[t] = s /\ \A o \in Reconcilers \ {t} : rec'[o] = rec[o]
    BY <1>0, <2>1
  <2>3. Judged' /\ OrphansKnown'
    <3>1. Judged'
      BY <2>1, <2>2 DEF Strong, Judged
    <3>2. MissesGone(s, stage)
      BY <2>1 DEF MissesGone
    <3>3. OrphansKnown'
      BY <1>1, <1>2, <2>2, <3>2 DEF Strong, OrphansKnown
    <3>4. QED BY <3>1, <3>3
  <2>4. Recording' = Recording \cup {t} /\ t \notin Recording
    BY <1>0, <2>1, <2>2 DEF Recording
  <2>5. Armed' = Armed \ {t}
    BY <2>1, <2>2 DEF Armed
  <2>6. CASE Full(t)
    BY <1>0, <1>1, <1>2, <2>3, <2>4, <2>5, <2>6, CalmStep DEF Strong, Kept
  <2>7. CASE ~Full(t)
    <3>1. rec[t].seen.notified = "never"
      BY <1>2, <2>7 DEF MailDue
    <3>2. t \in Armed
      BY <1>0, <3>1 DEF Armed, Untold
    <3>3. IsFiniteSet(Recording) /\ IsFiniteSet(Armed)
      BY ConstantsAssumption, ArmedAndRecording, FS_Subset
    <3>4. /\ Cardinality(Recording') = Cardinality(Recording) + 1
          /\ Cardinality(Armed') = Cardinality(Armed) - 1
      BY <2>4, <2>5, <3>2, <3>3, FS_AddElement, FS_RemoveElement
    <3>5. /\ Cardinality(Recording) \in Nat /\ Cardinality(Armed) \in Nat
          /\ Cardinality(Reconcilers) \in Nat
      BY ArmedOrRecording
    <3>6. warnings' = warnings + 1
      BY <1>2, <2>7
    <3>7. CASE Untold(row)
      <4>1. warnings <= Cardinality(Recording)
        BY <3>7 DEF Strong, WarningsCounted
      <4>2. warnings' <= Cardinality(Recording')
        BY <1>0, <3>4, <3>5, <3>6, <4>1
      <4>3. QED BY <1>1, <2>3, <3>7, <4>2 DEF Kept, WarningsCounted
    <3>8. CASE ~Untold(row)
      <4>1. warnings + Cardinality(Armed) <= Cardinality(Reconcilers)
        BY <3>8 DEF Strong, WarningsCounted
      <4>2. warnings' + Cardinality(Armed') <= Cardinality(Reconcilers)
        BY <1>0, <3>4, <3>5, <3>6, <4>1
      <4>3. QED BY <1>1, <2>3, <3>8, <4>2 DEF Kept, WarningsCounted
    <3>9. QED BY <3>7, <3>8
  <2>8. QED BY <2>6, <2>7
<1>3. CASE /\ Stop(t, "idle") \/ Stop(t, "raised")
           /\ warnings' = warnings /\ (faults' = faults \/ faults' = faults + 1)
  <2>1. faults' = 0 => faults = 0
    BY <1>0, <1>3, FaultsStay
  <2>2. QED BY <1>1, <1>3, <2>1, StopStep
<1>4. QED
  <2>1. MailDue(t) => \/ /\ Goto(t, "record") /\ faults' = faults
                         /\ warnings' = IF Full(t) THEN warnings ELSE warnings + 1
                      \/ Stop(t, "idle") /\ warnings' = warnings /\ faults' = faults + 1
    BY DEF Notify
  <2>2. ~MailDue(t) => (Stop(t, "idle") \/ Stop(t, "raised")) /\ warnings' = warnings /\ faults' = faults
    BY DEF Notify
  <2>3. QED BY <1>2, <1>3, <2>1, <2>2

(* The notice: from now on the row tells of a mail.                        *)
LEMMA RecordKeeps ==
  ASSUME Strong, NEW t \in Reconcilers, RecordNotice(t)
  PROVE  Kept
<1> USE DEF world, bounds, history
<1> DEFINE s == Finished("idle")
<1>0. /\ TypeOK /\ rec \in [Reconcilers -> RecStates] /\ warnings \in Nat /\ row \in AnyRow
      /\ rec[t].pc = "record" /\ warnings' = warnings /\ stage' = stage /\ faults' = faults
      /\ Stop(t, "idle") /\ row' = WithNotified(row, "today")
  BY DEF Strong, IInv, TypeOK, RecordNotice, AnyRow
<1>1. Judged' /\ OrphansKnown'
  BY <1>0, StopStep
<1>2. ~Untold(row')
  <2>1. CASE row = NoRow
    BY <1>0, <2>1 DEF WithNotified, Untold
  <2>2. CASE row # NoRow
    <3>1. row \in Row /\ row' = [row EXCEPT !.notified = "today"]
      BY <1>0, <2>2 DEF WithNotified, AnyRow
    <3>2. QED BY <3>1 DEF Untold, Row
  <2>3. QED BY <2>1, <2>2
<1>3. rec' = [rec EXCEPT ![t] = s] /\ s.pc = "idle" /\ ~Untold(s.seen)
  BY <1>0, Stopped
<1> HIDE DEF s
<1>4. rec'[t] = s /\ \A o \in Reconcilers \ {t} : rec'[o] = rec[o]
  BY <1>0, <1>3
<1>5. Armed' = Armed
  BY <1>0, <1>3, <1>4 DEF Armed
<1>6. /\ Cardinality(Armed) \in Nat /\ Cardinality(Recording) \in Nat /\ Cardinality(Reconcilers) \in Nat
      /\ Cardinality(Armed) + Cardinality(Recording) <= Cardinality(Reconcilers)
  BY ArmedOrRecording
<1>7. warnings + Cardinality(Armed) <= Cardinality(Reconcilers)
  <2>1. CASE Untold(row)
    <3>1. warnings <= Cardinality(Recording)
      BY <2>1 DEF Strong, WarningsCounted
    <3>2. QED BY <1>0, <1>6, <3>1
  <2>2. CASE ~Untold(row)
    BY <2>2 DEF Strong, WarningsCounted
  <2>3. QED BY <2>1, <2>2
<1>8. WarningsCounted'
  BY <1>0, <1>2, <1>5, <1>7 DEF WarningsCounted
<1>9. QED BY <1>1, <1>8 DEF Kept

(* An experiment is wiped only if it is gone or a call has failed: that    *)
(* only misses are wiped is what the passes over the experiments keep.     *)
LEMMA ReconcileKeeps ==
  ASSUME Strong, NEW t \in Reconcilers, Reconcile(t)
  PROVE  Kept
<1> USE DEF world, bounds, history
<1>0. /\ TypeOK /\ rec \in [Reconcilers -> RecStates] /\ row \in AnyRow /\ rec[t].seen \in AnyRow
      /\ faults \in Nat
  BY RecFields DEF Strong, IInv, TypeOK, AnyRow
<1>1. CASE ReadQuota(t)
  <2> DEFINE s == At(IF Unlimited(row) THEN "unblock" ELSE "list", row, {}, {}, 0)
  <2>1. /\ rec' = [rec EXCEPT ![t] = s] /\ rec[t].pc # "record" /\ row' = row
        /\ warnings' = warnings /\ stage' = stage /\ faults' = faults
    BY <1>1 DEF ReadQuota
  <2>2. s.pc \in {"unblock", "list"} /\ s.seen = row
    BY DEF At
  <2> HIDE DEF s
  <2>3. MissesGone(s, stage)
    BY <2>2 DEF MissesGone
  <2>4. CASE ~Untold(row)
    BY <2>1, <2>2, <2>3, <2>4, PlainStep
  <2>5. CASE Untold(row)
    <3>1. rec'[t] = s /\ \A o \in Reconcilers \ {t} : rec'[o] = rec[o]
      BY <1>0, <2>1
    <3>2. Judged' /\ OrphansKnown'
      BY <2>1, <2>2, <2>3, <3>1 DEF Strong, Judged, OrphansKnown
    <3>3. Recording \subseteq Recording'
      BY <2>1, <3>1 DEF Recording
    <3>4. WarningsCounted'
      BY <1>0, <2>1, <2>5, <3>3, CalmStep DEF Strong
    <3>5. QED BY <3>2, <3>4 DEF Kept
  <2>6. QED BY <2>4, <2>5
<1>2. CASE ClearBlocked(t)
  <2>1. Untold(row') = Untold(row)
    BY <1>0, <1>2, NoticeKept DEF ClearBlocked
  <2>2. QED BY <1>2, <2>1, GotoStep DEF ClearBlocked
<1>3. CASE ClearNotified(t)
  <2>1. Judged' /\ OrphansKnown'
    BY <1>3, StopStep DEF ClearNotified
  <2>2. QED BY <1>3, <2>1, ResetStep DEF ClearNotified, Kept
<1>4. CASE ListOwned(t)
  <2> DEFINE s == IF owned \subseteq Models
                  THEN AfterPass("lookup", rec[t].seen, owned \cap Models, 0)
                  ELSE At("lookup", rec[t].seen, owned \ Models, owned \cap Models, 0)
  <2>1. /\ rec' = [rec EXCEPT ![t] = s] /\ rec[t].pc # "record" /\ row' = row
        /\ warnings' = warnings /\ stage' = stage /\ faults' = faults
    BY <1>4 DEF ListOwned
  <2>2. /\ s.pc \in {"lookup", "measure", "create", "save"} /\ s.seen = rec[t].seen
        /\ s.pc = "measure" => s.misses = {}
    BY DEF At, AfterPass
  <2> HIDE DEF s
  <2>3. MissesGone(s, stage)
    BY <2>2 DEF MissesGone
  <2>4. QED BY <2>1, <2>2, <2>3, PlainStep
<1>5. ASSUME NEW e \in Experiments, LookUpSize(t, e) PROVE Kept
  BY <1>5, ProcessedStep DEF LookUpSize
<1>6. ASSUME NEW e \in Experiments, MeasureExperiment(t, e) PROVE Kept
  <2>1. faults' = 0 => faults = 0
    <3>1. faults' = faults \/ faults' = faults + 1
      BY <1>6 DEF MeasureExperiment
    <3>2. QED BY <1>0, <3>1, FaultsStay
  <2>2. /\ rec[t].pc = "measure" /\ row' = row /\ warnings' = warnings /\ stage' = stage
    BY <1>6 DEF MeasureExperiment
  <2>3. \/ \E bytes : Processed(t, e, TRUE, bytes)
        \/ Processed(t, e, FALSE, 0) /\ (Gone(e) \/ faults' = faults + 1)
    BY <1>6 DEF MeasureExperiment
  <2>4. faults' = faults + 1 => faults' # 0
    BY <1>0
  <2>5. CASE \E bytes : Processed(t, e, TRUE, bytes)
    BY <2>1, <2>2, <2>5, ProcessedStep
  <2>6. CASE Processed(t, e, FALSE, 0) /\ (Gone(e) \/ faults' = faults + 1)
    BY <2>1, <2>2, <2>4, <2>6, ProcessedStep DEF Gone
  <2>7. QED BY <2>3, <2>5, <2>6
<1>6a. ASSUME NEW m \in Models, MeasureModel(t, m) PROVE Kept
  <2>1. faults' = 0 => faults = 0
    <3>1. faults' = faults \/ faults' = faults + 1
      BY <1>6a DEF MeasureModel
    <3>2. QED BY <1>0, <3>1, FaultsStay
  <2>2. /\ rec[t].pc = "measure" /\ row' = row /\ warnings' = warnings /\ stage' = stage
        /\ \E bytes : Processed(t, m, TRUE, bytes)
    BY <1>6a DEF MeasureModel
  <2>3. QED BY <2>1, <2>2, ProcessedStep
<1>7. ASSUME NEW e \in Experiments, WipeOrphan(t, e) PROVE Kept
  <2>1. faults' = 0 => faults = 0
    <3>1. faults' = faults \/ faults' = faults + 1
      BY <1>7 DEF WipeOrphan
    <3>2. QED BY <1>0, <3>1, FaultsStay
  <2>2. QED BY <1>7, <2>1, ProcessedStep DEF WipeOrphan
<1>8. CASE CreateRow(t)
  <2> DEFINE s == At("save", rec[t].seen, rec[t].todo, rec[t].misses, rec[t].total)
  <2>1. /\ rec' = [rec EXCEPT ![t] = s] /\ s.pc = "save" /\ s.seen = rec[t].seen
        /\ rec[t].pc # "record" /\ stage' = stage /\ faults' = faults
    BY <1>8 DEF CreateRow, Goto, At
  <2> HIDE DEF s
  <2>2. rec'[t] = s /\ \A o \in Reconcilers \ {t} : rec'[o] = rec[o]
    BY <1>0, <2>1
  <2>3. Judged' /\ OrphansKnown'
    BY <2>1, <2>2 DEF Strong, Judged, OrphansKnown, MissesGone
  <2>4. CASE row = NoRow
    BY <1>8, <2>3, <2>4, ResetStep DEF CreateRow, Kept
  <2>5. CASE row # NoRow
    <3>1. Untold(row') = Untold(row) /\ warnings' = warnings
      BY <1>0, <1>8, <2>5, NoticeKept DEF CreateRow, AnyLimit
    <3>2. WarningsCounted'
      BY <1>0, <2>1, <3>1, GoesOn DEF Strong
    <3>3. QED BY <2>3, <3>2 DEF Kept
  <2>6. QED BY <2>4, <2>5
<1>9. CASE SaveUsed(t)
  <2>1. rec[t].total \in Nat
    BY <1>0, RecFields
  <2>2. Untold(row') = Untold(row)
    BY <1>0, <1>9, <2>1, NoticeKept DEF SaveUsed
  <2>3. QED BY <1>9, <2>2, GotoStep, StopStep DEF SaveUsed
<1>10. CASE CompareRaises(t)
  BY <1>10, StopStep DEF CompareRaises
<1>11. CASE SetBlocked(t)
  <2>1. Untold(row') = Untold(row)
    <3>1. Full(t) \in BOOLEAN
      BY DEF Full
    <3>2. row' = row \/ row' = WithBlocked(row, Full(t))
      BY <1>11 DEF SetBlocked
    <3>3. QED BY <1>0, <3>1, <3>2, NoticeKept
  <2>2. rec[t].seen # NoRow /\ rec[t].pc # "record"
    BY <1>11 DEF SetBlocked, Strong, Judged
  <2>3. Goto(t, "notify") \/ Goto(t, "reset")
    BY <1>11 DEF SetBlocked
  <2>4. QED BY <1>11, <2>1, <2>2, <2>3, GotoStep DEF SetBlocked
<1>12. CASE ResetNotice(t)
  <2>1. Judged' /\ OrphansKnown'
    BY <1>12, StopStep DEF ResetNotice
  <2>2. QED BY <1>12, <2>1, ResetStep DEF ResetNotice, Kept
<1>13. QED
  BY <1>1, <1>2, <1>3, <1>4, <1>5, <1>6, <1>7, <1>8, <1>9, <1>10, <1>11, <1>12, <1>6a,
     NotifyKeeps, RecordKeeps DEF Reconcile

LEMMA AtFields ==
  ASSUME NEW pc, NEW seen, NEW todo, NEW misses, NEW total
  PROVE  /\ At(pc, seen, todo, misses, total).pc = pc
         /\ At(pc, seen, todo, misses, total).seen = seen
         /\ At(pc, seen, todo, misses, total).todo = todo
         /\ At(pc, seen, todo, misses, total).misses = misses
BY DEF At

(* Uploads, the expiry of sizes and all events but the passing of a day    *)
(* leave the reconciliations where they are.                               *)
LEMMA OthersKeep ==
  ASSUME Strong,
         \/ \E u \in Uploaders : Uploading(u)
         \/ \E e \in Experiments : ExpireSize(e)
         \/ Administration \/ Ownership \/ UNCHANGED vars
  PROVE  Kept
<1> USE DEF world, bounds, history
<1>0. /\ TypeOK /\ rec \in [Reconcilers -> RecStates] /\ row \in AnyRow /\ faults \in Nat
      /\ stage \in [Resources -> {"active", "deleted", "gone"}]
  BY DEF Strong, IInv, TypeOK, AnyRow
<1>1. ASSUME NEW u \in Uploaders, Uploading(u) PROVE Kept
  <2>1. /\ rec' = rec /\ warnings' = warnings /\ stage' = stage
        /\ faults' = faults \/ faults' = faults + 1
    BY <1>1 DEF Uploading, AdmitUpload, AdmitUncharged, ChargeUpload, StoreUpload, Upload
  <2>2. Untold(row') = Untold(row)
    <3>1. row' = row \/ row' = WithUsed(row, UsedIn(row) + up[u].bytes)
      BY <1>1 DEF Uploading, AdmitUpload, AdmitUncharged, ChargeUpload, StoreUpload, Upload
    <3>2. UsedIn(row) + up[u].bytes \in Nat
      BY <1>0, RowValues DEF TypeOK, UploadStates
    <3>3. QED BY <1>0, <3>1, <3>2, NoticeKept
  <2>3. faults' = 0 => faults = 0
    BY <1>0, <2>1, FaultsStay
  <2>4. QED BY <2>1, <2>2, <2>3, IdleStep
<1>2. ASSUME NEW r, NEW limit, NewRow(r, limit) PROVE Kept
  BY <1>2, IdleStep DEF NewRow, Event
<1>3. CASE DayPasses
  <2>1. Untold(row') = Untold(row) /\ warnings' = warnings /\ stage' = stage /\ faults' = faults
    BY <1>0, <1>3, NoticeKept DEF DayPasses, Event
  <2>2. \A t \in Reconcilers :
          /\ rec'[t] = At(rec[t].pc, Older(rec[t].seen), rec[t].todo, rec[t].misses, rec[t].total)
          /\ rec[t].seen \in AnyRow
    BY <1>0, <1>3, RecFields DEF DayPasses
  <2>3. \A t \in Reconcilers :
          /\ rec'[t].pc = rec[t].pc /\ rec'[t].seen = Older(rec[t].seen)
          /\ rec'[t].todo = rec[t].todo /\ rec'[t].misses = rec[t].misses
    BY <2>2, AtFields
  <2>4. \A t \in Reconcilers : /\ Untold(rec'[t].seen) = Untold(rec[t].seen)
                               /\ (rec'[t].seen = NoRow) = (rec[t].seen = NoRow)
    BY <2>2, <2>3, NoticeKept
  <2>5. Judged' /\ OrphansKnown'
    BY <2>1, <2>3, <2>4 DEF Strong, Judged, OrphansKnown, MissesGone
  <2>6. Recording' = Recording /\ Armed' = Armed
    BY <2>3, <2>4 DEF Recording, Armed
  <2>7. WarningsCounted'
    BY <1>0, <2>1, <2>6, CalmStep DEF Strong
  <2>8. QED BY <2>5, <2>7 DEF Kept
<1>4. ASSUME NEW e \in Experiments, MoveExperiment(e) PROVE Kept
  <2>1. \A x \in Resources : stage[x] = "gone" => stage'[x] = "gone"
    BY <1>0, <1>4 DEF MoveExperiment
  <2>2. QED BY <1>4, <2>1, IdleStep DEF MoveExperiment, Event
<1>5. ASSUME NEW e \in Experiments, DeleteArtifacts(e) \/ ExpireSize(e)
      PROVE  Kept
  BY <1>5, IdleStep DEF DeleteArtifacts, ExpireSize, Event
<1>10. ASSUME NEW x \in Resources, TransferOwnership(x) PROVE Kept
  BY <1>10, IdleStep DEF TransferOwnership, Event
<1>11. ASSUME NEW m \in Models, StoreVersion(m) \/ DeleteModel(m) PROVE Kept
  <2>1. \A x \in Resources : stage[x] = "gone" => stage'[x] = "gone"
    BY <1>0, <1>11 DEF StoreVersion, DeleteModel
  <2>2. QED BY <1>11, <2>1, IdleStep DEF StoreVersion, DeleteModel, Event
<1>6. CASE UNCHANGED vars
  BY <1>6, IdleStep DEF vars
<1>7. CASE Administration
  BY <1>2, <1>3, <1>7 DEF Administration, SetLimit, DeleteQuota, SyncEmail
<1>8. CASE Ownership
  BY <1>4, <1>5, <1>8, <1>10, <1>11 DEF Ownership
<1>9. QED BY <1>1, <1>5, <1>6, <1>7, <1>8

LEMMA InitStrong == Init => Strong
<1> SUFFICES ASSUME Init PROVE Strong
  OBVIOUS
<1> DEFINE s == Finished("idle")
<1>1. s.pc = "idle" /\ s.seen = NoRow
  BY DEF Finished, At
<1> HIDE DEF s
<1>2. \A t \in Reconcilers : rec[t] = s
  BY DEF Init, s
<1>3. Judged /\ OrphansKnown
  BY <1>1, <1>2 DEF Judged, OrphansKnown, MissesGone
<1>4. Armed = {} /\ Recording = {}
  BY <1>1, <1>2 DEF Armed, Recording, Untold
<1>5. Cardinality(Armed) = 0 /\ Cardinality(Recording) = 0 /\ Cardinality(Reconcilers) \in Nat
  BY <1>4, FS_EmptySet, ArmedOrRecording
<1>6. warnings = 0
  BY DEF Init
<1>7. WarningsCounted
  BY <1>5, <1>6 DEF WarningsCounted
<1>8. QED BY <1>3, <1>7, InitIInv DEF Strong

LEMMA NextStrong == Strong /\ [Next]_vars => Strong'
<1> SUFFICES ASSUME Strong, [Next]_vars PROVE Strong'
  OBVIOUS
<1>1. IInv'
  BY NextIInv DEF Strong
<1>2. Kept
  BY ReconcileKeeps, OthersKeep DEF Next
<1>3. QED BY <1>1, <1>2 DEF Strong, Kept

-----------------------------------------------------------------------------
(* Limits                                                                  *)

SameLimit == adminLimit' = adminLimit /\ (row' = NoRow <=> row = NoRow)
             /\ (row # NoRow => row'.limit = row.limit)

LEMMA LimitKept ==
  ASSUME NEW r \in AnyRow
  PROVE  /\ \A n \in Nat : LET w == WithUsed(r, n)
                           IN  (w = NoRow <=> r = NoRow) /\ (r # NoRow => w.limit = r.limit)
         /\ \A b \in BOOLEAN : LET w == WithBlocked(r, b)
                               IN  (w = NoRow <=> r = NoRow) /\ (r # NoRow => w.limit = r.limit)
         /\ \A n \in {"never", "today"} :
              LET w == WithNotified(r, n)
              IN  (w = NoRow <=> r = NoRow) /\ (r # NoRow => w.limit = r.limit)
         /\ (Older(r) = NoRow <=> r = NoRow) /\ (r # NoRow => Older(r).limit = r.limit)
<1>1. CASE r = NoRow
  BY <1>1 DEF WithUsed, WithBlocked, WithNotified, Older
<1>2. CASE r # NoRow
  <2>1. r \in Row /\ NoRow \notin Row
    BY <1>2, ConstantsAssumption DEF AnyRow
  <2>2. ASSUME NEW n \in Nat
        PROVE  WithUsed(r, n) # NoRow /\ WithUsed(r, n).limit = r.limit
    <3>1. WithUsed(r, n) = [r EXCEPT !.used = n] /\ [r EXCEPT !.used = n] \in Row
      BY <1>2, <2>1 DEF WithUsed, Row
    <3>2. QED BY <2>1, <3>1 DEF Row
  <2>3. ASSUME NEW b \in BOOLEAN
        PROVE  WithBlocked(r, b) # NoRow /\ WithBlocked(r, b).limit = r.limit
    <3>1. WithBlocked(r, b) = [r EXCEPT !.blocked = b] /\ [r EXCEPT !.blocked = b] \in Row
      BY <1>2, <2>1 DEF WithBlocked, Row
    <3>2. QED BY <2>1, <3>1 DEF Row
  <2>4. ASSUME NEW n \in {"never", "today"}
        PROVE  WithNotified(r, n) # NoRow /\ WithNotified(r, n).limit = r.limit
    <3>1. WithNotified(r, n) = [r EXCEPT !.notified = n] /\ [r EXCEPT !.notified = n] \in Row
      BY <1>2, <2>1 DEF WithNotified, Row
    <3>2. QED BY <2>1, <3>1 DEF Row
  <2>5. Older(r) # NoRow /\ Older(r).limit = r.limit
    <3>1. Older(r) = r \/ Older(r) = [r EXCEPT !.notified = "before"]
      BY DEF Older
    <3>2. [r EXCEPT !.notified = "before"] \in Row
      BY <2>1 DEF Row
    <3>3. QED BY <1>2, <2>1, <3>1, <3>2 DEF Row
  <2>6. QED BY <1>2, <2>2, <2>3, <2>4, <2>5
<1>3. QED BY <1>1, <1>2

(* Only the creation of a row by a reconciliation undoes a limit.          *)
LEMMA LimitStep ==
  ASSUME TypeOK, [Next]_vars, LimitInForce
  PROVE  LimitInForce' \/ \E t \in Reconcilers : rec[t].pc = "create" /\ rec'[t].pc = "save"
<1> DEFINE Goal == LimitInForce' \/ \E t \in Reconcilers : rec[t].pc = "create" /\ rec'[t].pc = "save"
<1> USE DEF world, bounds, history
<1>0. row \in AnyRow /\ rec \in [Reconcilers -> RecStates] /\ up \in [Uploaders -> UploadStates]
  BY DEF TypeOK, AnyRow
<1>s. SameLimit => LimitInForce'
  BY DEF SameLimit, LimitInForce
<1> HIDE DEF Goal
<1>1. ASSUME NEW u \in Uploaders, Uploading(u) PROVE SameLimit
  <2>1. UsedIn(row) + up[u].bytes \in Nat
    BY <1>0, RowValues DEF UploadStates
  <2>2. row' = row \/ row' = WithUsed(row, UsedIn(row) + up[u].bytes)
    BY <1>1 DEF Uploading, AdmitUpload, AdmitUncharged, ChargeUpload, StoreUpload, Upload
  <2>3. adminLimit' = adminLimit
    BY <1>1 DEF Uploading, AdmitUpload, AdmitUncharged, ChargeUpload, StoreUpload, Upload
  <2>4. QED BY <1>0, <2>1, <2>2, <2>3, LimitKept DEF SameLimit
<1>2. ASSUME NEW t \in Reconcilers, Reconcile(t) PROVE Goal
  <2>1. CASE CreateRow(t)
    <3>1. rec[t].pc = "create" /\ Goto(t, "save")
      BY <2>1 DEF CreateRow
    <3>2. rec'[t].pc = "save"
      BY <1>0, <3>1, AtFields DEF Goto
    <3>3. QED BY <3>1, <3>2 DEF Goal
  <2>2. CASE ~CreateRow(t)
    <3>1. rec[t].total \in Nat /\ Full(t) \in BOOLEAN
      BY <1>0, RecFields DEF Full
    <3>a. adminLimit' = adminLimit
      <4>1. \/ ReadQuota(t) \/ ClearBlocked(t) \/ ClearNotified(t) \/ ListOwned(t) \/ SaveUsed(t)
            \/ CompareRaises(t) \/ SetBlocked(t) \/ RecordNotice(t) \/ ResetNotice(t)
            => adminLimit' = adminLimit
        BY DEF ReadQuota, ClearBlocked, ClearNotified, ListOwned, SaveUsed, CompareRaises,
               SetBlocked, RecordNotice, ResetNotice
      <4>2. ASSUME NEW e \in Experiments, LookUpSize(t, e) \/ MeasureExperiment(t, e) \/ WipeOrphan(t, e)
            PROVE  adminLimit' = adminLimit
        BY <4>2 DEF LookUpSize, MeasureExperiment, WipeOrphan
      <4>5. ASSUME NEW m \in Models, MeasureModel(t, m)
            PROVE  adminLimit' = adminLimit
        BY <4>5 DEF MeasureModel
      <4>3. Notify(t) => adminLimit' = adminLimit
        BY DEF Notify
      <4>4. QED BY <1>2, <2>2, <4>1, <4>2, <4>3, <4>5 DEF Reconcile
    <3>2. \/ row' = row
          \/ \E b \in BOOLEAN : row' = WithBlocked(row, b)
          \/ \E n \in {"never", "today"} : row' = WithNotified(row, n)
          \/ row' = WithUsed(row, rec[t].total)
      <4>1. ClearBlocked(t) => row' = row \/ row' = WithBlocked(row, FALSE)
        BY DEF ClearBlocked
      <4>2. SetBlocked(t) => row' = row \/ row' = WithBlocked(row, Full(t))
        BY DEF SetBlocked
      <4>3. ClearNotified(t) \/ ResetNotice(t) => row' = row \/ row' = WithNotified(row, "never")
        BY DEF ClearNotified, ResetNotice
      <4>4. RecordNotice(t) => row' = WithNotified(row, "today")
        BY DEF RecordNotice
      <4>5. SaveUsed(t) => row' = WithUsed(row, rec[t].total)
        BY DEF SaveUsed
      <4>6. \/ ReadQuota(t) \/ ListOwned(t) \/ CompareRaises(t) \/ Notify(t)
            \/ \E e \in Experiments : LookUpSize(t, e) \/ MeasureExperiment(t, e) \/ WipeOrphan(t, e)
            \/ \E m \in Models : MeasureModel(t, m)
            => row' = row
        BY DEF ReadQuota, ListOwned, CompareRaises, Notify, LookUpSize, MeasureExperiment,
               MeasureModel, WipeOrphan
      <4>7. QED BY <1>2, <2>2, <3>1, <4>1, <4>2, <4>3, <4>4, <4>5, <4>6 DEF Reconcile
    <3>3. SameLimit
      BY <1>0, <3>1, <3>a, <3>2, LimitKept DEF SameLimit
    <3>4. QED BY <1>s, <3>3 DEF Goal
  <2>3. QED BY <2>1, <2>2
<1>3. ASSUME NEW limit \in AnyLimit, SetLimit(limit) PROVE LimitInForce'
  <2>1. row' = WithLimit(row, limit) /\ adminLimit' = limit
    BY <1>3 DEF SetLimit, NewRow
  <2>2. row' \in Row /\ NoRow \notin Row
    BY <1>0, <2>1, NewLimit, ConstantsAssumption
  <2>3. row'.limit = limit
    <3>1. CASE row = NoRow
      BY <2>1, <3>1 DEF WithLimit, FreshRow
    <3>2. CASE row # NoRow
      <4>1. row \in Row /\ row' = [row EXCEPT !.limit = limit]
        BY <1>0, <2>1, <3>2 DEF WithLimit, AnyRow
      <4>2. QED BY <4>1 DEF Row
    <3>3. QED BY <3>1, <3>2
  <2>4. QED BY <2>1, <2>2, <2>3 DEF LimitInForce
<1>4. CASE DeleteQuota
  BY <1>4 DEF DeleteQuota, NewRow, LimitInForce
<1>5. CASE SyncEmail
  BY <1>5 DEF SyncEmail, NewRow, LimitInForce
<1>6. CASE DayPasses
  <2>1. SameLimit
    BY <1>0, <1>6, LimitKept DEF DayPasses, SameLimit
  <2>2. QED BY <1>s, <2>1
<1>7. CASE Ownership \/ (\E e \in Experiments : ExpireSize(e)) \/ UNCHANGED vars
  <2>1. row' = row /\ adminLimit' = adminLimit
    BY <1>7 DEF Ownership, MoveExperiment, DeleteArtifacts, StoreVersion, DeleteModel,
                TransferOwnership, ExpireSize, vars
  <2>2. QED BY <1>s, <2>1 DEF SameLimit
<1>8. CASE Administration
  BY <1>3, <1>4, <1>5, <1>6, <1>8 DEF Administration, AnyLimit
<1>9. QED BY <1>s, <1>1, <1>2, <1>7, <1>8 DEF Next, Goal

(* The state variables of the quota keep their types.                      *)
THEOREM TypeCorrect == Spec => []TypeOK
<1>1. IInv => TypeOK
  BY DEF IInv
<1>2. QED BY <1>1, InitIInv, NextIInv, PTL DEF Spec

(* Quota check and charge are separate transactions: still, charges exceed *)
(* the limit, or what was last measured, by at most one upload per thread, *)
(* whatever reconciliations and administrators do at the same time.        *)
THEOREM OvershootIsBounded == Spec => []OvershootBounded
<1>1. IInv => OvershootBounded
  BY DEF IInv
<1>2. QED BY <1>1, InitIInv, NextIInv, PTL DEF Spec
(* "Soft cap: warn once per threshold crossing": until usage is found below*)
(* the cap again, or an administrator changes the quota, no reconciliation *)
(* warns twice, in whatever order those that overlap read the row, send    *)
(* and note their mails.                                                   *)
THEOREM OneWarningEach == Spec => []WarnedOncePerCrossing
<1>1. ASSUME Strong PROVE WarnedOncePerCrossing
  <2>1. /\ Cardinality(Armed) \in Nat /\ Cardinality(Recording) \in Nat
        /\ Cardinality(Reconcilers) \in Nat /\ warnings \in Nat
        /\ Cardinality(Armed) + Cardinality(Recording) <= Cardinality(Reconcilers)
    BY <1>1, ArmedOrRecording DEF Strong, IInv, TypeOK
  <2>2. warnings <= Cardinality(Recording) \/ warnings + Cardinality(Armed) <= Cardinality(Reconcilers)
    BY <1>1 DEF Strong, WarningsCounted
  <2>3. QED BY <2>1, <2>2 DEF WarnedOncePerCrossing
<1>2. QED BY <1>1, InitStrong, NextStrong, PTL DEF Spec

(* A limit an administrator has set is undone by no reconciliation but one *)
(* that found no row at its start: every other step writes one field of    *)
(* the row and leaves the limit as it is.                                  *)
THEOREM LimitsOutlive == Spec => LimitOutlivesReconciliation
<1>1. ASSUME TypeOK, [Next]_vars
      PROVE  [LimitInForce /\ ~LimitInForce' =>
                \E t \in Reconcilers : rec[t].pc = "create" /\ rec'[t].pc = "save"]_vars
  BY <1>1, LimitStep
<1>2. QED BY <1>1, TypeCorrect, PTL DEF Spec, LimitOutlivesReconciliation

(* Reconciliations wipe the permissions of no experiment that still exists *)
(* as long as no call of MLflow fails, whatever is moved to the trash,     *)
(* restored or given away between the passes of a measurement.             *)
THEOREM OrphansOnly == Spec => OnlyOrphansWipedWithoutFault
<1>1. ASSUME Strong
      PROVE  \A t \in Reconcilers, e \in Experiments :
               rec[t].pc = "wipe" /\ e \in rec[t].todo \ rec'[t].todo /\ e \in owned \ owned'
                 => stage[e] = "gone" \/ faults > 0
  <2>1. faults \in Nat
    BY <1>1 DEF Strong, IInv, TypeOK
  <2>2. \A t \in Reconcilers : faults = 0 /\ rec[t].pc = "wipe" =>
          \A e \in rec[t].todo : stage[e] = "gone"
    BY <1>1 DEF Strong, OrphansKnown, MissesGone
  <2>3. QED BY <2>1, <2>2
<1>2. QED BY <1>1, InitStrong, NextStrong, PTL DEF Spec, OnlyOrphansWipedWithoutFault
=============================================================================
