------------------------------ MODULE Trash_proofs ------------------------------
(***************************************************************************)
(* Proofs about Trash, for any number of experiments, runs, cleanups and   *)
(* hosts, any page size, and any number of moves and failures.             *)
(***************************************************************************)
EXTENDS Trash, FiniteSetTheorems, TLAPS

-----------------------------------------------------------------------------
(* Entities and pages                                                      *)

LEMMA EntityFacts ==
  /\ Experiments \subseteq Entities /\ Runs \subseteq Entities
  /\ Experiments \cap Runs = {} /\ None \notin Experiments /\ None \notin Runs
  /\ Requests \subseteq Jobs /\ Hosts \subseteq Jobs
  /\ \A e : RunsOf(e) \subseteq Runs
BY TrashAssumption DEF Entities, Jobs, RunsOf

(* The elements of a sequence are finitely many.                           *)
LEMMA FiniteOrder ==
  ASSUME NEW S, NEW order \in Seq(S), ToSet(order) = S
  PROVE  IsFiniteSet(S)
<1>1. order \in Surjection(1 .. Len(order), S)
  BY DEF Surjection, ToSet
<1>2. IsFiniteSet(1 .. Len(order))
  BY FS_Interval
<1>3. QED BY <1>1, <1>2, FS_Surjection

LEMMA FiniteEntities == IsFiniteSet(Experiments) /\ IsFiniteSet(Runs)
BY FiniteOrder, TrashAssumption DEF Experiments, Runs

LEMMA PageIsPart ==
  ASSUME NEW order, NEW S, NEW offset
  PROVE  Page(order, S, offset) \subseteq S
BY DEF Page

(* Of a sequence without repetitions the first page holds all, if there are*)
(* no more than fit.                                                       *)
LEMMA FirstPageHoldsAll ==
  ASSUME NEW T, NEW order \in Seq(T), IsInjective(order), ToSet(order) = T,
         NEW S \in SUBSET T, Cardinality(S) <= PageSize
  PROVE  Page(order, S, 0) = S
<1>1. IsFiniteSet(S)
  BY FiniteOrder, FS_Subset
<1>2. ASSUME NEW k \in DOMAIN order, order[k] \in S
      PROVE  Place(order, S, k) \in 1 .. PageSize
  <2> DEFINE upto == {i \in 1 .. k : order[i] \in S}
             f == [i \in upto |-> order[i]]
  <2>1. k \in 1 .. Len(order) /\ DOMAIN order = 1 .. Len(order)
    OBVIOUS
  <2>2. f \in Injection(upto, S)
    BY <2>1 DEF Injection, IsInjective
  <2>3. IsFiniteSet(upto) /\ Cardinality(upto) <= Cardinality(S)
    BY <1>1, <2>2, FS_Injection
  <2>4. k \in upto
    BY <1>2, <2>1
  <2>5. Cardinality(upto) # 0 /\ Cardinality(upto) \in Nat
    BY <2>3, <2>4, FS_EmptySet, FS_CardinalityType
  <2>6. Cardinality(S) \in Nat
    BY <1>1, FS_CardinalityType
  <2>7. Place(order, S, k) = Cardinality(upto)
    BY DEF Place
  <2> HIDE DEF upto
  <2>8. QED BY <2>3, <2>5, <2>6, <2>7, TrashAssumption
<1>3. \A k \in DOMAIN order : order[k] \in S => Place(order, S, k) \in 0 + 1 .. 0 + PageSize
  BY <1>2, TrashAssumption
<1>4. \A x \in S : \E k \in DOMAIN order : order[k] = x
  BY DEF ToSet
<1>5. QED BY <1>3, <1>4 DEF Page

-----------------------------------------------------------------------------
(* The invariant.  A job in flight has read of all that it is about to     *)
(* destroy that it may; what has happened since makes no difference, is in *)
(* moved, or has destroyed it.                                             *)
Known(j, x) ==
  \/ stage[x] = "gone"
  \/ <<j, x>> \in moved
  \/ Trashed(x) /\ (job[j].older => x \in aged)

AtRun == {"artifacts", "row"}

(* The job has what its place in the code supposes.                        *)
Aimed(j) ==
  /\ job[j].pc \in AtRun => job[j].run \in Runs
  /\ job[j].pc = "batch" => job[j].exp \in Experiments
  /\ job[j].exp # None =>
       /\ job[j].pc \in AtRun \cup {"batch"}
       /\ job[j].batch \subseteq RunsOf(job[j].exp)
       /\ job[j].pc \in AtRun => ExperimentOf[job[j].run] = job[j].exp

(* What it is to destroy is known, except runs of its experiment.          *)
Informed(j) ==
  job[j].pc # "idle" =>
    /\ \A e \in job[j].exps : Known(j, e)
    /\ job[j].exp # None => Known(j, job[j].exp)
    /\ job[j].pc \in AtRun /\ job[j].exp = None => Known(j, job[j].run)
    /\ job[j].pc \in AtRun \cup {"fetch", "search", "runs"} /\ job[j].exp = None /\ job[j].older
         => \A r \in job[j].listed : Known(j, r)

(* The trashed runs of its experiment that still have artifacts are ahead. *)
Complete(j) ==
  /\ job[j].pc = "row" /\ ~job[j].kept => job[j].run \notin artifacts
  /\ job[j].exp # None /\ ~job[j].cut =>
       \A r \in RunsOf(job[j].exp) :
         \/ ~Trashed(r) \/ <<j, r>> \in moved \/ r \notin artifacts
         \/ r \in job[j].batch
         \/ job[j].pc \in AtRun /\ r = job[j].run

JobInv(j) == Aimed(j) /\ Informed(j) /\ Complete(j)
IInv == TypeOK /\ \A j \in Jobs : JobInv(j)

-----------------------------------------------------------------------------
(* Jobs                                                                    *)

LEMMA OffsetRange == 0 \in 0..Cardinality(Experiments) /\ Cardinality(Experiments) \in Nat
BY FiniteEntities, FS_CardinalityType

LEMMA NoJobType == NoJob \in JobType
BY OffsetRange DEF NoJob, JobType

LEMMA JobFields ==
  ASSUME NEW r \in JobType
  PROVE  /\ r.pc \in {"idle", "list", "fetch", "search", "runs", "artifacts", "row",
                      "open", "batch"}
         /\ r.older \in BOOLEAN /\ r.asked \in SUBSET Entities
         /\ r.listed \in SUBSET Runs /\ r.fetch \in SUBSET Experiments
         /\ r.offset \in 0..Cardinality(Experiments)
         /\ r.runs \in SUBSET Runs /\ r.exps \in SUBSET Experiments
         /\ r.exp \in Experiments \cup {None} /\ r.batch \in SUBSET Runs
         /\ r.cut \in BOOLEAN /\ r.run \in Runs \cup {None} /\ r.kept \in BOOLEAN
BY DEF JobType

LEMMA JobStep ==
  ASSUME TypeOK, NEW j \in Jobs, NEW n, Goes(j, n)
  PROVE  /\ job[j] \in JobType
         /\ n \in JobType => job' \in [Jobs -> JobType]
         /\ job'[j] = n /\ \A i \in Jobs : i # j => job'[i] = job[i]
BY DEF TypeOK, Goes

-----------------------------------------------------------------------------
(* Type correctness, by kinds of steps                                     *)

LEMMA StageStep ==
  ASSUME TypeOK, NEW xs \in SUBSET Entities, NEW s \in {"active", "deleted", "gone"},
         stage' = Stamped(xs, s), aged' = aged \ xs
  PROVE  /\ stage' \in [Entities -> {"active", "deleted", "gone"}]
         /\ aged' \subseteq {x \in Entities : stage'[x] = "deleted"}
BY DEF TypeOK, Stamped

LEMMA TransferType ==
  ASSUME TypeOK, NEW xs \in SUBSET Entities, NEW s \in {"active", "deleted"}, Transfer(xs, s)
  PROVE  TypeOK'
<1>1. /\ stage' \in [Entities -> {"active", "deleted", "gone"}]
      /\ aged' \subseteq {x \in Entities : stage'[x] = "deleted"}
  BY StageStep DEF Transfer
<1>2. moved' \subseteq Jobs \X Entities
  BY DEF Transfer, Moves, TypeOK
<1>3. moves' \in 0..MaxMoves
  BY TrashAssumption DEF Transfer, TypeOK
<1>4. QED BY <1>1, <1>2, <1>3 DEF Transfer, TypeOK

(* A step that is not a job's own.                                         *)
LEMMA UsersType ==
  ASSUME TypeOK,
         \/ \E r \in Runs : DeleteRun(r) \/ RestoreRun(r)
         \/ \E e \in Experiments : DeleteExperiment(e) \/ RestoreExperiment(e)
         \/ \E x \in Entities : Age(x)
  PROVE  TypeOK'
<1>1. CASE \E r \in Runs : DeleteRun(r) \/ RestoreRun(r)
  <2>1. PICK r \in Runs : DeleteRun(r) \/ RestoreRun(r)
    BY <1>1
  <2>2. {r} \in SUBSET Entities
    BY EntityFacts
  <2>3. QED BY <2>1, <2>2, TransferType DEF DeleteRun, RestoreRun
<1>2. CASE \E e \in Experiments : DeleteExperiment(e) \/ RestoreExperiment(e)
  <2>1. PICK e \in Experiments : DeleteExperiment(e) \/ RestoreExperiment(e)
    BY <1>2
  <2>2. {e} \cup Living(e) \in SUBSET Entities
    BY EntityFacts DEF Living
  <2>3. QED BY <2>1, <2>2, TransferType DEF DeleteExperiment, RestoreExperiment
<1>3. CASE \E x \in Entities : Age(x)
  BY <1>3 DEF Age, Trashed, TypeOK
<1>4. QED BY <1>1, <1>2, <1>3

(* A job's step changes its record, what it has read, and takes a fault or *)
(* none; the stages stay.                                                  *)
LEMMA JobStepType ==
  ASSUME TypeOK, NEW j \in Jobs, NEW n \in JobType, Goes(j, n),
         UNCHANGED <<stage, aged, moves>>, artifacts' \subseteq artifacts,
         moved' \subseteq moved, Fault \/ UNCHANGED faults
  PROVE  TypeOK'
<1>1. job' \in [Jobs -> JobType]
  BY JobStep
<1>2. faults' \in 0..MaxFaults
  BY TrashAssumption DEF Fault, TypeOK
<1>3. QED BY <1>1, <1>2 DEF TypeOK

(* A job's step that destroys.                                             *)
LEMMA DestroyType ==
  ASSUME TypeOK, NEW j \in Jobs, NEW n \in JobType, Goes(j, n),
         NEW xs \in SUBSET Entities, Destroy(xs), UNCHANGED <<artifacts, moves, faults>>
  PROVE  TypeOK'
<1>1. job' \in [Jobs -> JobType]
  BY JobStep
<1>2. /\ stage' \in [Entities -> {"active", "deleted", "gone"}]
      /\ aged' \subseteq {x \in Entities : stage'[x] = "deleted"}
  BY StageStep DEF Destroy
<1>3. QED BY <1>1, <1>2 DEF TypeOK, Destroy

-----------------------------------------------------------------------------
(* The records that jobs go to                                             *)

LEMMA AfterRowType ==
  ASSUME NEW j \in Jobs, job[j] \in JobType
  PROVE  AfterRow(j) \in JobType /\ GivesUp(j) \in JobType /\ AfterFailure(j) \in JobType
<1>1. AfterRow(j) \in JobType
  BY DEF JobType, AfterRow
<1>2. GivesUp(j) \in JobType
  BY DEF JobType, GivesUp
<1>3. QED BY <1>1, <1>2 DEF AfterFailure

LEMMA RequestCleanupType ==
  ASSUME TypeOK, NEW j \in Requests, NEW asked \in Selections, NEW older \in BOOLEAN,
         RequestCleanup(j, asked, older)
  PROVE  TypeOK'
<1> DEFINE n == [NoJob EXCEPT !.pc = "list", !.older = older, !.asked = asked,
                              !.fetch = asked \cap Experiments]
<1>1. n \in JobType
  BY OffsetRange, TrashAssumption DEF JobType, NoJob
<1>2. QED BY <1>1, JobStepType, EntityFacts DEF RequestCleanup

LEMMA ListRunsType ==
  ASSUME TypeOK, NEW j \in Jobs, NEW failed \in BOOLEAN, ListRuns(j, failed)
  PROVE  TypeOK'
<1> DEFINE listed == Listing(j, failed)
           named == job[j].asked \cap Runs
           n == [job[j] EXCEPT
                   !.pc = IF job[j].fetch = {} THEN "search" ELSE "fetch",
                   !.listed = IF job[j].older THEN listed ELSE {},
                   !.runs = IF named = {} THEN listed ELSE named]
<1>1. job[j] \in JobType /\ listed \in SUBSET Runs /\ named \in SUBSET Runs
  BY DEF TypeOK, Listing
<1>2. Goes(j, n)
  BY DEF ListRuns
<1> HIDE DEF listed, named
<1>3. n \in JobType
  BY <1>1 DEF JobType
<1> HIDE DEF n
<1>4. QED BY <1>2, <1>3, JobStepType DEF ListRuns, Reads

LEMMA FetchExperimentType ==
  ASSUME TypeOK, NEW j \in Jobs, NEW e \in Experiments, FetchExperiment(j, e)
  PROVE  TypeOK'
<1> DEFINE left == job[j].fetch \ {e}
           pc == IF left = {} THEN "runs" ELSE "fetch"
           exps == job[j].exps \cup {e}
           fetched == [job[j] EXCEPT !.fetch = left, !.exps = exps, !.pc = pc]
<1>1. job[j] \in JobType
  BY DEF TypeOK
<1>2. left \in SUBSET Experiments /\ exps \in SUBSET Experiments
  BY <1>1, JobFields
<1>3. Goes(j, fetched) \/ Goes(j, NoJob)
  BY DEF FetchExperiment
<1> HIDE DEF left, exps
<1>4. fetched \in JobType
  BY <1>1, <1>2 DEF JobType
<1> HIDE DEF fetched
<1>5. QED BY <1>3, <1>4, NoJobType, JobStepType DEF FetchExperiment, Reads

LEMMA SearchExperimentsType ==
  ASSUME TypeOK, NEW j \in Jobs, NEW failed \in BOOLEAN, SearchExperiments(j, failed)
  PROVE  TypeOK'
<1> DEFINE all == IF job[j].older THEN TrashedExperiments \cap aged ELSE TrashedExperiments
           page == IF failed THEN {} ELSE Page(ExperimentOrder, all, job[j].offset)
           next == job[j].offset + PageSize
           more == ~failed /\ next < Cardinality(all)
           n == [job[j] EXCEPT !.exps = @ \cup page,
                               !.offset = IF more THEN next ELSE 0,
                               !.pc = IF more THEN "search" ELSE "runs"]
<1>1. job[j] \in JobType /\ job[j].offset \in Nat
  BY OffsetRange DEF TypeOK, JobType
<1>2. all \in SUBSET Experiments
  BY DEF TrashedExperiments
<1>3. Cardinality(all) \in Nat /\ Cardinality(all) <= Cardinality(Experiments)
  BY <1>2, FiniteEntities, FS_Subset, FS_CardinalityType
<1>4. page \in SUBSET Experiments
  BY <1>2, PageIsPart
<1>5. (IF more THEN next ELSE 0) \in 0..Cardinality(Experiments)
  BY <1>1, <1>3, OffsetRange, TrashAssumption
<1>6. Goes(j, n) /\ Reads(j, page)
  BY DEF SearchExperiments
<1> HIDE DEF page, more, next
<1>7. n \in JobType
  BY <1>1, <1>4, <1>5 DEF JobType
<1> HIDE DEF n
<1>8. QED BY <1>6, <1>7, JobStepType DEF SearchExperiments, Reads

LEMMA CheckRunType ==
  ASSUME TypeOK, NEW j \in Jobs, NEW r \in Runs, CheckRun(j, r)
  PROVE  TypeOK'
<1> DEFINE left == job[j].runs \ {r}
           checked == [job[j] EXCEPT !.pc = "artifacts", !.run = r, !.runs = left]
           skipped == [job[j] EXCEPT !.runs = left]
<1>1. job[j] \in JobType
  BY DEF TypeOK
<1>2. left \in SUBSET Runs
  BY <1>1, JobFields
<1>3. Goes(j, checked) \/ Goes(j, skipped)
  BY DEF CheckRun
<1> HIDE DEF left
<1>4. checked \in JobType /\ skipped \in JobType
  BY <1>1, <1>2 DEF JobType
<1> HIDE DEF checked, skipped
<1>5. QED BY <1>3, <1>4, JobStepType DEF CheckRun, Reads

LEMMA RunsDoneType ==
  ASSUME TypeOK, NEW j \in Jobs, RunsDone(j)
  PROVE  TypeOK'
<1> DEFINE n == [job[j] EXCEPT !.pc = "open", !.listed = {}]
<1>1. job[j] \in JobType
  BY DEF TypeOK
<1>2. n \in JobType
  BY <1>1 DEF JobType
<1>3. Goes(j, n)
  BY DEF RunsDone
<1> HIDE DEF n
<1>4. QED BY <1>2, <1>3, JobStepType DEF RunsDone

LEMMA SweepType ==
  ASSUME TypeOK, NEW h \in Hosts, NEW failed \in BOOLEAN, Sweep(h, failed)
  PROVE  TypeOK'
<1> DEFINE found == {e \in Page(ExperimentOrder, TrashedExperiments, 0) : ~failed /\ Expired(e)}
           n == [NoJob EXCEPT !.pc = "open", !.older = TRUE, !.exps = found]
<1>1. found \in SUBSET Experiments
  BY PageIsPart DEF TrashedExperiments
<1>2. Goes(h, n) \/ Goes(h, NoJob)
  BY DEF Sweep
<1> HIDE DEF found
<1>3. n \in JobType
  BY <1>1, OffsetRange DEF JobType, NoJob
<1> HIDE DEF n
<1>4. QED BY <1>2, <1>3, NoJobType, JobStepType, EntityFacts DEF Sweep

LEMMA OpenExperimentType ==
  ASSUME TypeOK, NEW j \in Jobs, NEW e \in Experiments, NEW failed \in BOOLEAN,
         OpenExperiment(j, e, failed)
  PROVE  TypeOK'
<1> DEFINE left == job[j].exps \ {e}
           skipped == [job[j] EXCEPT !.exps = left]
           batch == FirstBatch(e)
           cut == Cut(e)
           opened == [job[j] EXCEPT !.pc = "batch", !.exps = left, !.exp = e,
                                    !.batch = batch, !.cut = cut]
<1>1. job[j] \in JobType
  BY DEF TypeOK
<1>2. left \in SUBSET Experiments
  BY <1>1, JobFields
<1>3. batch \in SUBSET Runs /\ cut \in BOOLEAN
  BY PageIsPart DEF FirstBatch, TrashedRuns, RunsOf, Cut
<1>4. Goes(j, skipped) \/ Goes(j, opened)
  BY DEF OpenExperiment
<1> HIDE DEF left, batch, cut
<1>5. skipped \in JobType /\ opened \in JobType
  BY <1>1, <1>2, <1>3 DEF JobType
<1> HIDE DEF skipped, opened
<1>6. QED BY <1>4, <1>5, JobStepType DEF OpenExperiment, Reads

LEMMA NextOfBatchType ==
  ASSUME TypeOK, NEW j \in Jobs, NEW r \in Runs, NextOfBatch(j, r)
  PROVE  TypeOK'
<1> DEFINE left == job[j].batch \ {r}
           n == [job[j] EXCEPT !.pc = "artifacts", !.run = r, !.batch = left]
<1>1. job[j] \in JobType
  BY DEF TypeOK
<1>2. left \in SUBSET Runs
  BY <1>1, JobFields
<1>3. Goes(j, n)
  BY DEF NextOfBatch
<1> HIDE DEF left
<1>4. n \in JobType
  BY <1>1, <1>2 DEF JobType
<1> HIDE DEF n
<1>5. QED BY <1>3, <1>4, JobStepType DEF NextOfBatch

LEMMA DeleteArtifactsType ==
  ASSUME TypeOK, NEW j \in Jobs, NEW failed \in BOOLEAN, DeleteArtifacts(j, failed)
  PROVE  TypeOK'
<1> DEFINE n == [job[j] EXCEPT !.pc = "row", !.kept = failed]
<1>1. job[j] \in JobType
  BY DEF TypeOK
<1>2. n \in JobType
  BY <1>1 DEF JobType
<1>3. Goes(j, n)
  BY DEF DeleteArtifacts
<1> HIDE DEF n
<1>4. QED BY <1>2, <1>3, JobStepType DEF DeleteArtifacts

LEMMA RowStepType ==
  ASSUME TypeOK, NEW j \in Jobs, Aimed(j),
         \/ HardDeleteRun(j) \/ HardDeleteRunFails(j)
         \/ HardDeleteExperiment(j) \/ HardDeleteExperimentFails(j)
         \/ Done(j) \/ Crash(j)
  PROVE  TypeOK'
<1>1. job[j] \in JobType
  BY DEF TypeOK
<1>2. AfterRow(j) \in JobType /\ GivesUp(j) \in JobType /\ AfterFailure(j) \in JobType
  BY <1>1, AfterRowType
<1>3. CASE HardDeleteRun(j)
  <2>1. job[j].run \in Entities
    BY <1>3, EntityFacts DEF HardDeleteRun, Aimed, AtRun
  <2> DEFINE xs == {job[j].run}
  <2>2. xs \in SUBSET Entities
    BY <2>1
  <2>3. Goes(j, AfterRow(j)) /\ Destroy(xs) /\ UNCHANGED <<artifacts, moves, faults>>
    BY <1>3 DEF HardDeleteRun
  <2> HIDE DEF xs
  <2>4. QED BY <1>2, <2>2, <2>3, DestroyType
<1>4. CASE HardDeleteExperiment(j)
  <2> DEFINE xs == {job[j].exp} \cup Living(job[j].exp)
  <2>1. job[j].exp \in Experiments
    BY <1>4 DEF HardDeleteExperiment, Aimed
  <2>2. xs \in SUBSET Entities
    BY <2>1, EntityFacts DEF Living
  <2>3. Goes(j, GivesUp(j)) /\ Destroy(xs) /\ UNCHANGED <<artifacts, moves, faults>>
    BY <1>4 DEF HardDeleteExperiment
  <2> HIDE DEF xs
  <2>4. QED BY <1>2, <2>2, <2>3, DestroyType
<1>5. CASE HardDeleteRunFails(j) \/ HardDeleteExperimentFails(j)
  BY <1>2, <1>5, JobStepType DEF HardDeleteRunFails, HardDeleteExperimentFails
<1>6. CASE Done(j) \/ Crash(j)
  BY <1>6, NoJobType, JobStepType DEF Done, Crash
<1>7. QED BY <1>3, <1>4, <1>5, <1>6

-----------------------------------------------------------------------------
(* Jobs that a step does not touch: they lose no knowledge, and no run     *)
(* with artifacts gets into the trash behind their back.                   *)

Undisturbed(i) ==
  \A x \in Entities :
    /\ Known(i, x) => Known(i, x)'
    /\ Trashed(x)' /\ <<i, x>> \notin moved' => Trashed(x) /\ <<i, x>> \notin moved

LEMMA OthersKept ==
  ASSUME TypeOK, NEW i \in Jobs, JobInv(i), job'[i] = job[i], artifacts' \subseteq artifacts,
         job[i].pc # "idle" => Undisturbed(i)
  PROVE  JobInv(i)'
<1>1. job[i] \in JobType
  BY DEF TypeOK
<1>2. Aimed(i)'
  BY DEF JobInv, Aimed
<1>3. CASE job[i].pc = "idle"
  <2>1. job[i].exp = None
    BY <1>3 DEF JobInv, Aimed, AtRun
  <2>2. QED BY <1>2, <1>3, <2>1 DEF JobInv, Informed, Complete
<1>4. CASE job[i].pc # "idle"
  <2>1. \A x \in Experiments \cup Runs : Known(i, x) => Known(i, x)'
    BY <1>4, EntityFacts DEF Undisturbed
  <2>2. \A r \in Runs : /\ ~Trashed(r) \/ <<i, r>> \in moved => ~Trashed(r)' \/ <<i, r>> \in moved'
    BY <1>4, EntityFacts DEF Undisturbed
  <2>3. /\ job[i].exps \subseteq Experiments /\ job[i].listed \subseteq Runs
        /\ job[i].exp # None => job[i].exp \in Experiments
    BY <1>1, JobFields
  <2>4. job[i].pc \in AtRun => job[i].run \in Runs
    BY DEF JobInv, Aimed
  <2>5. Informed(i)'
    BY <2>1, <2>3, <2>4 DEF JobInv, Informed
  <2>6. Complete(i)'
    BY <2>2, EntityFacts DEF JobInv, Complete
  <2>7. QED BY <1>2, <2>5, <2>6 DEF JobInv
<1>5. QED BY <1>3, <1>4

LEMMA TransferUndisturbed ==
  ASSUME TypeOK, NEW i \in Jobs, job[i].pc # "idle",
         NEW xs \in SUBSET Entities, NEW s \in {"active", "deleted"}, Transfer(xs, s)
  PROVE  Undisturbed(i) /\ job'[i] = job[i] /\ artifacts' = artifacts
<1>1. \A x \in Entities \ xs : stage'[x] = stage[x] /\ (x \in aged' <=> x \in aged)
  BY DEF Transfer, Stamped
<1>2. \A x \in xs : <<i, x>> \in moved'
  BY DEF Transfer, Moves
<1>3. \A x \in Entities \ xs : <<i, x>> \in moved' <=> <<i, x>> \in moved
  BY DEF Transfer, Moves
<1>4. UNCHANGED <<job, artifacts>>
  BY DEF Transfer
<1>5. QED BY <1>1, <1>2, <1>3, <1>4 DEF Undisturbed, Known, Trashed

LEMMA DestroyUndisturbed ==
  ASSUME TypeOK, NEW i \in Jobs, NEW xs \in SUBSET Entities, Destroy(xs), job'[i] = job[i]
  PROVE  Undisturbed(i)
<1>1. \A x \in Entities \ xs : stage'[x] = stage[x] /\ (x \in aged' <=> x \in aged)
  BY DEF Destroy, Stamped
<1>2. \A x \in xs : stage'[x] = "gone"
  BY DEF Destroy, Stamped
<1>3. \A x \in Entities \ xs : <<i, x>> \in moved' <=> <<i, x>> \in moved
  BY DEF Destroy
<1>4. QED BY <1>1, <1>2, <1>3 DEF Undisturbed, Known, Trashed

(* A step of job j that destroys nothing leaves the other jobs alone.      *)
LEMMA QuietStep ==
  ASSUME IInv, NEW j \in Jobs, NEW n, Goes(j, n), UNCHANGED <<stage, aged>>,
         artifacts' \subseteq artifacts, NEW xs, moved' = moved \ ({j} \X xs),
         JobInv(j)'
  PROVE  \A i \in Jobs : JobInv(i)'
<1> SUFFICES ASSUME NEW i \in Jobs, i # j PROVE JobInv(i)'
  OBVIOUS
<1>1. job'[i] = job[i]
  BY JobStep DEF IInv
<1>2. \A x \in Entities : <<i, x>> \in moved' <=> <<i, x>> \in moved
  OBVIOUS
<1>3. Undisturbed(i)
  BY <1>1, <1>2 DEF Undisturbed, Known, Trashed
<1>4. QED BY <1>1, <1>3, OthersKept DEF IInv

-----------------------------------------------------------------------------
(* The steps of users and of time                                          *)

LEMMA AllUndisturbed ==
  ASSUME IInv, UNCHANGED <<job, artifacts>>,
         \A i \in Jobs : job[i].pc # "idle" => Undisturbed(i)
  PROVE  \A i \in Jobs : JobInv(i)'
BY OthersKept DEF IInv

LEMMA UsersInv ==
  ASSUME IInv,
         \/ \E r \in Runs : DeleteRun(r) \/ RestoreRun(r)
         \/ \E e \in Experiments : DeleteExperiment(e) \/ RestoreExperiment(e)
         \/ \E x \in Entities : Age(x)
  PROVE  \A i \in Jobs : JobInv(i)'
<1>1. CASE \E xs \in SUBSET Entities, s \in {"active", "deleted"} : Transfer(xs, s)
  <2>1. PICK xs \in SUBSET Entities, s \in {"active", "deleted"} : Transfer(xs, s)
    BY <1>1
  <2>2. \A i \in Jobs : job[i].pc # "idle" => Undisturbed(i)
    BY <2>1, TransferUndisturbed DEF IInv
  <2>3. UNCHANGED <<job, artifacts>>
    BY <2>1 DEF Transfer
  <2>4. QED BY <2>2, <2>3, AllUndisturbed
<1>2. CASE \E x \in Entities : Age(x)
  <2>1. UNCHANGED <<job, artifacts, stage, moved>> /\ aged \subseteq aged'
    BY <1>2 DEF Age
  <2>2. \A i \in Jobs : Undisturbed(i)
    BY <2>1 DEF Undisturbed, Known, Trashed
  <2>3. QED BY <2>1, <2>2, AllUndisturbed
<1>3. CASE \E r \in Runs : DeleteRun(r) \/ RestoreRun(r)
  <2>1. PICK r \in Runs : DeleteRun(r) \/ RestoreRun(r)
    BY <1>3
  <2>2. {r} \in SUBSET Entities
    BY EntityFacts
  <2>3. Transfer({r}, "deleted") \/ Transfer({r}, "active")
    BY <2>1 DEF DeleteRun, RestoreRun
  <2>4. QED BY <2>2, <2>3, <1>1
<1>4. CASE \E e \in Experiments : DeleteExperiment(e) \/ RestoreExperiment(e)
  <2>1. PICK e \in Experiments : DeleteExperiment(e) \/ RestoreExperiment(e)
    BY <1>4
  <2> DEFINE xs == {e} \cup Living(e)
  <2>2. xs \in SUBSET Entities
    BY EntityFacts DEF Living
  <2>3. Transfer(xs, "deleted") \/ Transfer(xs, "active")
    BY <2>1 DEF DeleteExperiment, RestoreExperiment
  <2> HIDE DEF xs
  <2>4. QED BY <2>2, <2>3, <1>1
<1>5. QED BY <1>2, <1>3, <1>4

-----------------------------------------------------------------------------
(* The steps of jobs                                                       *)

LEMMA NoJobInv ==
  ASSUME NEW j \in Jobs, job'[j] = NoJob
  PROVE  JobInv(j)'
BY DEF NoJob, JobInv, Aimed, Informed, Complete, AtRun

LEMMA Between ==
  ASSUME IInv, NEW j \in Jobs, job[j].pc \in {"list", "fetch", "search", "runs", "open"}
  PROVE  job[j].exp = None
BY DEF IInv, JobInv, Aimed, AtRun

LEMMA IdleInv ==
  ASSUME IInv, NEW j \in Jobs, Done(j) \/ Crash(j)
  PROVE  \A i \in Jobs : JobInv(i)'
<1>1. Goes(j, NoJob) /\ UNCHANGED <<stage, aged, artifacts, moved>>
  BY DEF Done, Crash
<1>2. JobInv(j)'
  BY <1>1, JobStep, NoJobInv DEF IInv
<1>3. moved' = moved \ ({j} \X {})
  BY <1>1
<1>4. QED BY <1>1, <1>2, <1>3, QuietStep

LEMMA RequestCleanupInv ==
  ASSUME IInv, NEW j \in Requests, NEW asked \in Selections, NEW older \in BOOLEAN,
         RequestCleanup(j, asked, older)
  PROVE  \A i \in Jobs : JobInv(i)'
<1> DEFINE n == [NoJob EXCEPT !.pc = "list", !.older = older, !.asked = asked,
                              !.fetch = asked \cap Experiments]
<1>1. j \in Jobs /\ Goes(j, n) /\ moved' = moved \ ({j} \X Entities)
      /\ UNCHANGED <<stage, aged, artifacts>>
  BY EntityFacts DEF RequestCleanup
<1>2. n.pc = "list" /\ n.exp = None /\ n.exps = {}
  BY DEF NoJob
<1> HIDE DEF n
<1>3. job'[j] = n
  BY <1>1, JobStep DEF IInv
<1>4. JobInv(j)'
  BY <1>2, <1>3 DEF JobInv, Aimed, Informed, Complete, AtRun
<1>5. QED BY <1>1, <1>4, QuietStep

LEMMA ListRunsInv ==
  ASSUME IInv, NEW j \in Jobs, NEW failed \in BOOLEAN, ListRuns(j, failed)
  PROVE  \A i \in Jobs : JobInv(i)'
<1> DEFINE listed == Listing(j, failed)
           named == job[j].asked \cap Runs
           n == [job[j] EXCEPT
                   !.pc = IF job[j].fetch = {} THEN "search" ELSE "fetch",
                   !.listed = IF job[j].older THEN listed ELSE {},
                   !.runs = IF named = {} THEN listed ELSE named]
<1>1. Goes(j, n) /\ moved' = moved \ ({j} \X Runs) /\ UNCHANGED <<stage, aged, artifacts>>
  BY DEF ListRuns, Reads
<1>2. job[j] \in JobType /\ job'[j] = n
  BY <1>1, JobStep DEF IInv
<1>3. job[j].exp = None
  BY Between DEF ListRuns
<1>4. \A r \in listed : r \in Runs /\ Trashed(r) /\ (job[j].older => r \in aged)
  BY DEF Listing
<1>5. \A e \in job[j].exps : e \in Experiments /\ Known(j, e)
  BY <1>2, JobFields DEF IInv, JobInv, Informed, ListRuns
<1> HIDE DEF listed, named
<1>6. /\ n.pc \in {"search", "fetch"} /\ n.exp = None /\ n.exps = job[j].exps
      /\ n.older = job[j].older /\ (n.older => n.listed = listed)
  BY <1>2, <1>3 DEF JobType
<1> HIDE DEF n
<1>7. \A e \in n.exps : Known(j, e)'
  BY <1>1, <1>2, <1>5, <1>6, EntityFacts DEF Known, Trashed
<1>8. n.older => \A r \in n.listed : Known(j, r)'
  BY <1>1, <1>2, <1>4, <1>6 DEF Known, Trashed
<1>9. JobInv(j)'
  BY <1>2, <1>6, <1>7, <1>8 DEF JobInv, Aimed, Informed, Complete, AtRun
<1>10. QED BY <1>1, <1>9, QuietStep

LEMMA FetchExperimentInv ==
  ASSUME IInv, NEW j \in Jobs, NEW e \in Experiments, FetchExperiment(j, e)
  PROVE  \A i \in Jobs : JobInv(i)'
<1> DEFINE left == job[j].fetch \ {e}
           pc == IF left = {} THEN "runs" ELSE "fetch"
           exps == job[j].exps \cup {e}
           fetched == [job[j] EXCEPT !.fetch = left, !.exps = exps, !.pc = pc]
<1>1. moved' = moved \ ({j} \X {e}) /\ UNCHANGED <<stage, aged, artifacts>>
  BY DEF FetchExperiment, Reads
<1>2. CASE Goes(j, NoJob)
  BY <1>1, <1>2, JobStep, NoJobInv, QuietStep DEF IInv
<1>3. CASE Goes(j, fetched) /\ Trashed(e) /\ (job[j].older => e \in aged)
  <2>1. job[j] \in JobType /\ job'[j] = fetched /\ job[j].exp = None
    BY <1>3, JobStep, Between DEF IInv, FetchExperiment
  <2>2. \A x \in job[j].exps : x \in Experiments /\ Known(j, x)
    BY <2>1, JobFields DEF IInv, JobInv, Informed, FetchExperiment
  <2>3. job[j].older => \A r \in job[j].listed : r \in Runs /\ Known(j, r)
    BY <2>1, JobFields DEF IInv, JobInv, Informed, FetchExperiment
  <2>4. /\ fetched.pc \in {"runs", "fetch"} /\ fetched.exp = None /\ fetched.exps = exps
        /\ fetched.older = job[j].older /\ fetched.listed = job[j].listed
    BY <2>1 DEF JobType
  <2> HIDE DEF fetched
  <2>5. \A x \in exps : Known(j, x)'
    BY <1>1, <1>3, <2>1, <2>2, <2>4 DEF Known, Trashed
  <2>6. fetched.older => \A r \in fetched.listed : Known(j, r)'
    BY <1>1, <2>1, <2>3, <2>4, EntityFacts DEF Known, Trashed
  <2>7. JobInv(j)'
    BY <2>1, <2>4, <2>5, <2>6 DEF JobInv, Aimed, Informed, Complete, AtRun
  <2>8. QED BY <1>1, <1>3, <2>7, QuietStep
<1>4. QED BY <1>2, <1>3 DEF FetchExperiment

LEMMA SearchExperimentsInv ==
  ASSUME IInv, NEW j \in Jobs, NEW failed \in BOOLEAN, SearchExperiments(j, failed)
  PROVE  \A i \in Jobs : JobInv(i)'
<1> DEFINE all == IF job[j].older THEN TrashedExperiments \cap aged ELSE TrashedExperiments
           page == IF failed THEN {} ELSE Page(ExperimentOrder, all, job[j].offset)
           next == job[j].offset + PageSize
           more == ~failed /\ next < Cardinality(all)
           n == [job[j] EXCEPT !.exps = @ \cup page,
                               !.offset = IF more THEN next ELSE 0,
                               !.pc = IF more THEN "search" ELSE "runs"]
<1>1. Goes(j, n) /\ moved' = moved \ ({j} \X page) /\ UNCHANGED <<stage, aged, artifacts>>
  BY DEF SearchExperiments, Reads
<1>2. job[j] \in JobType /\ job'[j] = n /\ job[j].exp = None
  BY <1>1, JobStep, Between DEF IInv, SearchExperiments
<1>3. page \subseteq all
  BY PageIsPart
<1>4. \A e \in page : e \in Experiments /\ Trashed(e) /\ (job[j].older => e \in aged)
  BY <1>3 DEF TrashedExperiments
<1>5. \A x \in job[j].exps : x \in Experiments /\ Known(j, x)
  BY <1>2, JobFields DEF IInv, JobInv, Informed, SearchExperiments
<1>6. job[j].older => \A r \in job[j].listed : r \in Runs /\ Known(j, r)
  BY <1>2, JobFields DEF IInv, JobInv, Informed, SearchExperiments, AtRun
<1> HIDE DEF page, more, next
<1>7. /\ n.pc \in {"runs", "search"} /\ n.exp = None /\ n.exps = job[j].exps \cup page
      /\ n.older = job[j].older /\ n.listed = job[j].listed
  BY <1>2 DEF JobType
<1> HIDE DEF n
<1>8. \A x \in n.exps : Known(j, x)'
  BY <1>1, <1>2, <1>4, <1>5, <1>7 DEF Known, Trashed
<1>9. n.older => \A r \in n.listed : Known(j, r)'
  BY <1>1, <1>2, <1>4, <1>6, <1>7, EntityFacts DEF Known, Trashed
<1>10. JobInv(j)'
  BY <1>2, <1>7, <1>8, <1>9 DEF JobInv, Aimed, Informed, Complete, AtRun
<1>11. QED BY <1>1, <1>10, QuietStep

LEMMA CheckRunInv ==
  ASSUME IInv, NEW j \in Jobs, NEW r \in Runs, CheckRun(j, r)
  PROVE  \A i \in Jobs : JobInv(i)'
<1> DEFINE left == job[j].runs \ {r}
           checked == [job[j] EXCEPT !.pc = "artifacts", !.run = r, !.runs = left]
           skipped == [job[j] EXCEPT !.runs = left]
           reads == IF job[j].older THEN {} ELSE {r}
<1>1. moved' = moved \ ({j} \X reads) /\ UNCHANGED <<stage, aged, artifacts>>
  BY DEF CheckRun, Reads
<1>2. job[j] \in JobType /\ job[j].exp = None /\ job[j].pc = "runs"
  BY Between DEF IInv, TypeOK, CheckRun
<1>3. \A x \in job[j].exps : x \in Experiments /\ Known(j, x)
  BY <1>2, JobFields DEF IInv, JobInv, Informed
<1>4. job[j].older => \A x \in job[j].listed : x \in Runs /\ Known(j, x)
  BY <1>2, JobFields DEF IInv, JobInv, Informed
<1>5. ASSUME NEW n, Goes(j, n), n.pc \in {"artifacts", "runs"}, n.exp = None,
             n.exps = job[j].exps, n.older = job[j].older, n.listed = job[j].listed,
             n.pc = "artifacts" => n.run = r /\ Destroyable(j, r)
      PROVE  \A i \in Jobs : JobInv(i)'
  <2>1. job'[j] = n
    BY <1>5, JobStep DEF IInv
  <2>2. \A x \in n.exps : Known(j, x)'
    BY <1>1, <1>3, <1>5, <2>1, EntityFacts DEF Known, Trashed
  <2>3. n.older => \A x \in n.listed : Known(j, x)'
    BY <1>1, <1>4, <1>5, <2>1 DEF Known, Trashed
  <2>4. n.pc = "artifacts" => Known(j, r)'
    BY <1>1, <1>5, <2>1, <2>3 DEF Known, Trashed, Destroyable
  <2>5. JobInv(j)'
    BY <1>5, <2>1, <2>2, <2>3, <2>4 DEF JobInv, Aimed, Informed, Complete, AtRun
  <2> HIDE DEF reads
  <2>6. QED BY <1>1, <1>5, <2>5, QuietStep
<1>6. CASE Destroyable(j, r) /\ Goes(j, checked)
  BY <1>2, <1>5, <1>6 DEF JobType
<1>7. CASE Goes(j, skipped)
  BY <1>2, <1>5, <1>7 DEF JobType
<1>8. QED BY <1>6, <1>7 DEF CheckRun

LEMMA RunsDoneInv ==
  ASSUME IInv, NEW j \in Jobs, RunsDone(j)
  PROVE  \A i \in Jobs : JobInv(i)'
<1> DEFINE n == [job[j] EXCEPT !.pc = "open", !.listed = {}]
<1>1. Goes(j, n) /\ UNCHANGED <<stage, aged, artifacts, moved>>
  BY DEF RunsDone
<1>2. job[j] \in JobType /\ job'[j] = n /\ job[j].exp = None /\ job[j].pc = "runs"
  BY <1>1, JobStep, Between DEF IInv, RunsDone
<1>3. \A e \in job[j].exps : Known(j, e)
  BY <1>2 DEF IInv, JobInv, Informed
<1>4. /\ n.pc = "open" /\ n.exp = None /\ n.exps = job[j].exps /\ n.older = job[j].older
  BY <1>2 DEF JobType
<1> HIDE DEF n
<1>5. \A e \in n.exps : Known(j, e)'
  BY <1>1, <1>2, <1>3, <1>4 DEF Known, Trashed
<1>6. JobInv(j)'
  BY <1>2, <1>4, <1>5 DEF JobInv, Aimed, Informed, Complete, AtRun
<1>7. moved' = moved \ ({j} \X {})
  BY <1>1
<1>8. QED BY <1>1, <1>6, <1>7, QuietStep

LEMMA SweepInv ==
  ASSUME IInv, NEW h \in Hosts, NEW failed \in BOOLEAN, Sweep(h, failed)
  PROVE  \A i \in Jobs : JobInv(i)'
<1> DEFINE found == {e \in Page(ExperimentOrder, TrashedExperiments, 0) : ~failed /\ Expired(e)}
           n == [NoJob EXCEPT !.pc = "open", !.older = TRUE, !.exps = found]
<1>1. /\ h \in Jobs /\ moved' = moved \ ({h} \X Entities)
      /\ UNCHANGED <<stage, aged, artifacts>>
  BY EntityFacts DEF Sweep
<1>2. CASE Goes(h, NoJob)
  BY <1>1, <1>2, JobStep, NoJobInv, QuietStep DEF IInv
<1>3. CASE Goes(h, n)
  <2>1. job'[h] = n
    BY <1>1, <1>3, JobStep DEF IInv
  <2>2. \A e \in found : Trashed(e) /\ e \in aged
    BY PageIsPart DEF TrashedExperiments, Expired
  <2> HIDE DEF found
  <2>3. n.pc = "open" /\ n.exp = None /\ n.exps = found
    BY DEF NoJob
  <2> HIDE DEF n
  <2>4. \A e \in n.exps : Known(h, e)'
    BY <1>1, <2>2, <2>3 DEF Known, Trashed
  <2>5. JobInv(h)'
    BY <2>1, <2>3, <2>4 DEF JobInv, Aimed, Informed, Complete, AtRun
  <2>6. QED BY <1>1, <1>3, <2>5, QuietStep
<1>4. QED BY <1>2, <1>3 DEF Sweep

(* The batch holds every trashed run of the experiment unless it is cut.   *)
LEMMA FirstBatchHoldsAll ==
  ASSUME NEW e \in Experiments
  PROVE  /\ FirstBatch(e) \subseteq RunsOf(e)
         /\ ~Cut(e) => \A r \in RunsOf(e) : Trashed(r) => r \in FirstBatch(e)
<1> DEFINE S == TrashedRuns(e)
<1>1. S \in SUBSET Runs /\ S \subseteq RunsOf(e)
  BY DEF TrashedRuns, RunsOf
<1>2. IsFiniteSet(S) /\ Cardinality(S) \in Nat
  BY <1>1, FiniteEntities, FS_Subset, FS_CardinalityType
<1>3. ASSUME ~Cut(e) PROVE FirstBatch(e) = S
  <2>1. Cardinality(S) <= PageSize
    BY <1>2, <1>3, TrashAssumption DEF Cut
  <2> HIDE DEF S
  <2>2. Page(RunOrder, S, 0) = S
    BY <1>1, <2>1, FirstPageHoldsAll, TrashAssumption DEF Runs
  <2>3. QED BY <2>2 DEF FirstBatch, S
<1>4. FirstBatch(e) \subseteq S
  BY PageIsPart DEF FirstBatch
<1>5. QED BY <1>1, <1>3, <1>4 DEF TrashedRuns

LEMMA OpenExperimentInv ==
  ASSUME IInv, NEW j \in Jobs, NEW e \in Experiments, NEW failed \in BOOLEAN,
         OpenExperiment(j, e, failed)
  PROVE  \A i \in Jobs : JobInv(i)'
<1> DEFINE left == job[j].exps \ {e}
           skipped == [job[j] EXCEPT !.exps = left]
           batch == FirstBatch(e)
           cut == Cut(e)
           opened == [job[j] EXCEPT !.pc = "batch", !.exps = left, !.exp = e,
                                    !.batch = batch, !.cut = cut]
           reads == IF failed THEN {} ELSE RunsOf(e)
<1>1. moved' = moved \ ({j} \X reads) /\ UNCHANGED <<stage, aged, artifacts>>
  BY DEF OpenExperiment, Reads
<1>2. reads \subseteq Runs
  BY DEF RunsOf
<1>3. job[j] \in JobType /\ job[j].pc = "open" /\ job[j].exp = None /\ e \in job[j].exps
  BY Between DEF IInv, TypeOK, OpenExperiment
<1>4. \A x \in job[j].exps : x \in Experiments /\ Known(j, x)
  BY <1>3, JobFields DEF IInv, JobInv, Informed
<1>5. ASSUME NEW n, Goes(j, n), n.exps = left, n.older = job[j].older,
             \/ n.pc = "open" /\ n.exp = None
             \/ n.pc = "batch" /\ n.exp = e /\ n.batch = batch /\ n.cut = cut
      PROVE  \A i \in Jobs : JobInv(i)'
  <2>1. job'[j] = n
    BY <1>5, JobStep DEF IInv
  <2>2. \A x \in job[j].exps : Known(j, x)'
    BY <1>1, <1>2, <1>4, <1>5, <2>1, EntityFacts DEF Known, Trashed
  <2>3. batch \subseteq RunsOf(e)
        /\ (~cut => \A r \in RunsOf(e) : ~Trashed(r)' \/ r \in batch)
    BY <1>1, FirstBatchHoldsAll DEF Trashed
  <2> HIDE DEF batch, cut, reads
  <2>4. JobInv(j)'
    <3>1. Aimed(j)'
      BY <1>5, <2>1, <2>3 DEF Aimed, AtRun
    <3>2. Informed(j)'
      BY <1>3, <1>5, <2>1, <2>2 DEF Informed, AtRun
    <3>3. Complete(j)'
      BY <1>5, <2>1, <2>3 DEF Complete, AtRun
    <3>4. QED BY <3>1, <3>2, <3>3 DEF JobInv
  <2>5. QED BY <1>1, <1>5, <2>4, QuietStep
<1>6. CASE Goes(j, skipped)
  BY <1>3, <1>5, <1>6 DEF JobType
<1>7. CASE Goes(j, opened)
  <2> HIDE DEF batch, cut, left
  <2>1. /\ opened.exps = left /\ opened.older = job[j].older /\ opened.pc = "batch"
        /\ opened.exp = e /\ opened.batch = batch /\ opened.cut = cut
    BY <1>3 DEF JobType
  <2> HIDE DEF opened
  <2>2. QED BY <1>5, <1>7, <2>1
<1>8. QED BY <1>6, <1>7 DEF OpenExperiment

LEMMA NextOfBatchInv ==
  ASSUME IInv, NEW j \in Jobs, NEW r \in Runs, NextOfBatch(j, r)
  PROVE  \A i \in Jobs : JobInv(i)'
<1> DEFINE left == job[j].batch \ {r}
           n == [job[j] EXCEPT !.pc = "artifacts", !.run = r, !.batch = left]
<1>1. Goes(j, n) /\ UNCHANGED <<stage, aged, artifacts, moved>>
  BY DEF NextOfBatch
<1>2. job[j] \in JobType /\ job'[j] = n /\ job[j].pc = "batch" /\ r \in job[j].batch
  BY <1>1, JobStep DEF IInv, NextOfBatch
<1>3. Aimed(j) /\ Informed(j) /\ Complete(j)
  BY DEF IInv, JobInv
<1>4. job[j].exp \in Experiments /\ job[j].exp # None
  BY <1>2, <1>3, EntityFacts DEF Aimed
<1> HIDE DEF left
<1>5. /\ n.pc = "artifacts" /\ n.run = r /\ n.batch = left /\ n.exps = job[j].exps
      /\ n.exp = job[j].exp /\ n.older = job[j].older /\ n.cut = job[j].cut
  BY <1>2 DEF JobType
<1> USE DEF left
<1> HIDE DEF n
<1>6. ExperimentOf[r] = job[j].exp
  BY <1>2, <1>3, <1>4 DEF Aimed, RunsOf
<1>7. Aimed(j)'
  BY <1>2, <1>3, <1>4, <1>5, <1>6 DEF Aimed, AtRun
<1>8. \A x : Known(j, x)' <=> Known(j, x)
  BY <1>1, <1>2, <1>5 DEF Known, Trashed
<1>9. Informed(j)'
  BY <1>2, <1>3, <1>4, <1>5, <1>8 DEF Informed, AtRun
<1>10. Complete(j)'
  BY <1>1, <1>2, <1>3, <1>4, <1>5 DEF Complete, AtRun, Trashed
<1>11. moved' = moved \ ({j} \X {})
  BY <1>1
<1>12. QED BY <1>1, <1>7, <1>9, <1>10, <1>11, QuietStep DEF JobInv

LEMMA DeleteArtifactsInv ==
  ASSUME IInv, NEW j \in Jobs, NEW failed \in BOOLEAN, DeleteArtifacts(j, failed)
  PROVE  \A i \in Jobs : JobInv(i)'
<1> DEFINE n == [job[j] EXCEPT !.pc = "row", !.kept = failed]
<1>1. /\ Goes(j, n) /\ UNCHANGED <<stage, aged, moved>> /\ artifacts' \subseteq artifacts
      /\ ~failed => job[j].run \notin artifacts'
  BY DEF DeleteArtifacts
<1>2. job[j] \in JobType /\ job'[j] = n /\ job[j].pc = "artifacts"
  BY <1>1, JobStep DEF IInv, DeleteArtifacts
<1>3. Aimed(j) /\ Informed(j) /\ Complete(j)
  BY DEF IInv, JobInv
<1>4. /\ n.pc = "row" /\ n.kept = failed /\ n.run = job[j].run /\ n.batch = job[j].batch
      /\ n.exps = job[j].exps /\ n.exp = job[j].exp /\ n.older = job[j].older
      /\ n.cut = job[j].cut /\ n.listed = job[j].listed
  BY <1>2 DEF JobType
<1> HIDE DEF n
<1>5. Aimed(j)'
  BY <1>2, <1>3, <1>4 DEF Aimed, AtRun
<1>6. \A x : Known(j, x)' <=> Known(j, x)
  BY <1>1, <1>2, <1>4 DEF Known, Trashed
<1>7. Informed(j)'
  BY <1>2, <1>3, <1>4, <1>6 DEF Informed, AtRun
<1>8. Complete(j)'
  BY <1>1, <1>2, <1>3, <1>4 DEF Complete, AtRun, Trashed
<1>9. moved' = moved \ ({j} \X {})
  BY <1>1
<1>10. QED BY <1>1, <1>5, <1>7, <1>8, <1>9, QuietStep DEF JobInv

-----------------------------------------------------------------------------
(* The steps that destroy, and those that fail to                          *)

LEMMA RowFields ==
  ASSUME NEW j \in Jobs, job[j] \in JobType
  PROVE  /\ AfterRow(j).pc = IF job[j].exp = None THEN "runs" ELSE "batch"
         /\ AfterRow(j).exp = job[j].exp /\ AfterRow(j).batch = job[j].batch
         /\ AfterRow(j).cut = job[j].cut /\ AfterRow(j).listed = job[j].listed
         /\ AfterRow(j).exps = job[j].exps /\ AfterRow(j).older = job[j].older
         /\ GivesUp(j).pc = "open" /\ GivesUp(j).exp = None
         /\ GivesUp(j).exps = job[j].exps /\ GivesUp(j).older = job[j].older
BY DEF JobType, AfterRow, GivesUp

(* What job j keeps of its knowledge carries over to its next place.       *)
LEMMA AfterRowInv ==
  ASSUME IInv, NEW j \in Jobs, job[j].pc = "row", job'[j] = AfterRow(j),
         \A x \in Entities : Known(j, x) => Known(j, x)',
         \A r \in Runs : /\ ~Trashed(r) => ~Trashed(r)'
                         /\ <<j, r>> \in moved => <<j, r>> \in moved' \/ ~Trashed(r)',
         artifacts' \subseteq artifacts,
         job[j].exp # None => stage'[job[j].run] # "deleted"
  PROVE  JobInv(j)'
<1>1. job[j] \in JobType /\ Aimed(j) /\ Informed(j) /\ Complete(j)
  BY DEF IInv, JobInv, TypeOK
<1>2. /\ job[j].exps \subseteq Entities /\ job[j].listed \subseteq Entities
      /\ job[j].exp # None => job[j].exp \in Experiments
  BY <1>1, JobFields, EntityFacts
<1> DEFINE n == AfterRow(j)
<1>3. /\ n.pc = IF job[j].exp = None THEN "runs" ELSE "batch"
      /\ n.exp = job[j].exp /\ n.batch = job[j].batch /\ n.cut = job[j].cut
      /\ n.listed = job[j].listed /\ n.exps = job[j].exps /\ n.older = job[j].older
  BY <1>1, RowFields
<1>4. job'[j] = n
  OBVIOUS
<1> HIDE DEF n
<1>5. Aimed(j)'
  BY <1>1, <1>2, <1>3, <1>4 DEF Aimed, AtRun
<1>6. Informed(j)'
  BY <1>1, <1>2, <1>3, <1>4, EntityFacts DEF Informed, AtRun
<1>7. ASSUME job[j].exp # None, ~job[j].cut, NEW r \in RunsOf(job[j].exp)
      PROVE  ~Trashed(r)' \/ <<j, r>> \in moved' \/ r \notin artifacts' \/ r \in job[j].batch
  <2>1. r \in Runs
    BY EntityFacts
  <2>2. \/ ~Trashed(r) \/ <<j, r>> \in moved \/ r \notin artifacts
        \/ r \in job[j].batch \/ r = job[j].run
    BY <1>1, <1>7 DEF Complete
  <2>3. CASE ~Trashed(r) \/ <<j, r>> \in moved
    BY <2>1, <2>3
  <2>4. CASE r = job[j].run
    BY <1>7, <2>4 DEF Trashed
  <2>5. CASE r \notin artifacts
    BY <2>5
  <2>6. QED BY <2>2, <2>3, <2>4, <2>5
<1>8. Complete(j)'
  BY <1>3, <1>4, <1>7 DEF Complete
<1>9. QED BY <1>5, <1>6, <1>8 DEF JobInv

LEMMA GivesUpInv ==
  ASSUME IInv, NEW j \in Jobs, job[j].pc \in {"row", "batch"}, job'[j] = GivesUp(j),
         \A x \in Entities : Known(j, x) => Known(j, x)'
  PROVE  JobInv(j)'
<1>1. job[j] \in JobType /\ Informed(j)
  BY DEF IInv, JobInv, TypeOK
<1>2. job[j].exps \subseteq Entities
  BY <1>1, JobFields, EntityFacts
<1>3. job'[j].pc = "open" /\ job'[j].exp = None /\ job'[j].exps = job[j].exps
  BY <1>1, RowFields
<1>4. \A e \in job'[j].exps : Known(j, e)'
  BY <1>1, <1>2, <1>3 DEF Informed
<1>5. QED BY <1>3, <1>4 DEF JobInv, Aimed, Informed, Complete, AtRun

LEMMA HardDeleteFailsInv ==
  ASSUME IInv, NEW j \in Jobs, HardDeleteRunFails(j) \/ HardDeleteExperimentFails(j)
  PROVE  \A i \in Jobs : JobInv(i)'
<1>1. UNCHANGED <<stage, aged, artifacts, moved>> /\ job[j] \in JobType
  BY DEF HardDeleteRunFails, HardDeleteExperimentFails, IInv, TypeOK
<1>2. ASSUME job'[j].older = job[j].older
      PROVE  /\ \A x \in Entities : Known(j, x) => Known(j, x)'
             /\ \A r \in Runs : /\ ~Trashed(r) => ~Trashed(r)'
                                /\ <<j, r>> \in moved => <<j, r>> \in moved' \/ ~Trashed(r)'
  BY <1>1, <1>2 DEF Known, Trashed
<1>3. moved' = moved \ ({j} \X {})
  BY <1>1
<1>4. CASE Goes(j, GivesUp(j)) /\ job[j].pc \in {"row", "batch"}
  <2>1. job'[j] = GivesUp(j)
    BY <1>4, JobStep DEF IInv
  <2>2. job'[j].older = job[j].older
    BY <1>1, <2>1, RowFields
  <2>3. JobInv(j)'
    BY <1>2, <1>4, <2>1, <2>2, GivesUpInv
  <2>4. QED BY <1>1, <1>3, <1>4, <2>3, QuietStep
<1>5. CASE Goes(j, AfterRow(j)) /\ job[j].exp = None /\ job[j].pc = "row"
  <2>1. job'[j] = AfterRow(j)
    BY <1>5, JobStep DEF IInv
  <2>2. job'[j].older = job[j].older
    BY <1>1, <2>1, RowFields
  <2>3. JobInv(j)'
    BY <1>1, <1>2, <1>5, <2>1, <2>2, AfterRowInv
  <2>4. QED BY <1>1, <1>3, <1>5, <2>3, QuietStep
<1>6. QED BY <1>4, <1>5 DEF HardDeleteRunFails, HardDeleteExperimentFails, AfterFailure

(* A job that destroys leaves the others alone and keeps its own knowledge.*)
LEMMA DestroyKeeps ==
  ASSUME IInv, NEW j \in Jobs, NEW xs \in SUBSET Entities, Destroy(xs), UNCHANGED artifacts,
         NEW n, Goes(j, n), n.older = job[j].older
  PROVE  /\ \A i \in Jobs : i # j => JobInv(i)'
         /\ \A x \in Entities : Known(j, x) => Known(j, x)'
         /\ \A r \in Runs : /\ ~Trashed(r) => ~Trashed(r)'
                            /\ <<j, r>> \in moved => <<j, r>> \in moved' \/ ~Trashed(r)'
         /\ \A x \in xs : ~Trashed(x)'
<1>1. TypeOK /\ job'[j] = n
  BY JobStep DEF IInv
<1>2. ASSUME NEW i \in Jobs, i # j PROVE JobInv(i)'
  <2>1. job'[i] = job[i]
    BY <1>1, <1>2, JobStep
  <2>2. Undisturbed(i)
    BY <1>1, <2>1, DestroyUndisturbed
  <2>3. QED BY <1>1, <2>1, <2>2, OthersKept DEF IInv
<1>3. \A x \in Entities \ xs : stage'[x] = stage[x] /\ (x \in aged' <=> x \in aged)
  BY DEF Destroy, Stamped
<1>4. \A x \in xs : stage'[x] = "gone"
  BY DEF Destroy, Stamped
<1>5. \A x \in Entities \ xs : <<j, x>> \in moved' <=> <<j, x>> \in moved
  BY DEF Destroy
<1>6. QED BY <1>1, <1>2, <1>3, <1>4, <1>5, EntityFacts DEF Known, Trashed

LEMMA HardDeleteRunInv ==
  ASSUME IInv, NEW j \in Jobs, HardDeleteRun(j)
  PROVE  \A i \in Jobs : JobInv(i)'
<1> DEFINE xs == {job[j].run}
<1>1. job[j] \in JobType /\ job[j].run \in Runs
  BY DEF IInv, JobInv, Aimed, AtRun, TypeOK, HardDeleteRun
<1>2. xs \in SUBSET Entities /\ job[j].run \in xs
  BY <1>1, EntityFacts
<1>3. Destroy(xs) /\ Goes(j, AfterRow(j)) /\ UNCHANGED artifacts /\ job[j].pc = "row"
  BY DEF HardDeleteRun
<1>4. AfterRow(j).older = job[j].older
  BY <1>1, RowFields
<1> HIDE DEF xs
<1>5. job'[j] = AfterRow(j)
  BY <1>3, JobStep DEF IInv
<1>6. /\ \A i \in Jobs : i # j => JobInv(i)'
      /\ \A x \in Entities : Known(j, x) => Known(j, x)'
      /\ \A r \in Runs : /\ ~Trashed(r) => ~Trashed(r)'
                         /\ <<j, r>> \in moved => <<j, r>> \in moved' \/ ~Trashed(r)'
      /\ stage'[job[j].run] # "deleted"
  BY <1>2, <1>3, <1>4, DestroyKeeps DEF Trashed
<1>7. artifacts' \subseteq artifacts
  BY <1>3
<1>8. JobInv(j)'
  BY <1>3, <1>5, <1>6, <1>7, AfterRowInv
<1>9. QED BY <1>6, <1>8

LEMMA HardDeleteExperimentInv ==
  ASSUME IInv, NEW j \in Jobs, HardDeleteExperiment(j)
  PROVE  \A i \in Jobs : JobInv(i)'
<1> DEFINE xs == {job[j].exp} \cup Living(job[j].exp)
<1>1. job[j] \in JobType /\ job[j].exp \in Experiments
  BY DEF IInv, JobInv, Aimed, TypeOK, HardDeleteExperiment
<1>2. xs \in SUBSET Entities
  BY <1>1, EntityFacts DEF Living
<1>3. Destroy(xs) /\ Goes(j, GivesUp(j)) /\ UNCHANGED artifacts /\ job[j].pc = "batch"
  BY DEF HardDeleteExperiment
<1>4. GivesUp(j).older = job[j].older
  BY <1>1, RowFields
<1> HIDE DEF xs
<1>5. job'[j] = GivesUp(j)
  BY <1>3, JobStep DEF IInv
<1>6. JobInv(j)'
  BY <1>2, <1>3, <1>4, <1>5, DestroyKeeps, GivesUpInv
<1>7. QED BY <1>2, <1>3, <1>4, <1>6, DestroyKeeps

-----------------------------------------------------------------------------
(* The theorems                                                            *)

LEMMA InitInv == Init => IInv
<1> SUFFICES ASSUME Init PROVE IInv
  OBVIOUS
<1>1. TypeOK
  BY NoJobType, TrashAssumption DEF Init, TypeOK
<1>2. \A j \in Jobs : JobInv(j)
  BY DEF Init, NoJob, JobInv, Aimed, Informed, Complete, AtRun
<1>3. QED BY <1>1, <1>2 DEF IInv

LEMMA NextInv == IInv /\ [Next]_vars => IInv'
<1> SUFFICES ASSUME IInv, [Next]_vars PROVE IInv'
  OBVIOUS
<1> DEFINE Kept == \A i \in Jobs : JobInv(i)'
<1>1. TypeOK /\ \A j \in Jobs : Aimed(j)
  BY DEF IInv, JobInv
<1>2. CASE \/ \E r \in Runs : DeleteRun(r) \/ RestoreRun(r)
           \/ \E e \in Experiments : DeleteExperiment(e) \/ RestoreExperiment(e)
           \/ \E x \in Entities : Age(x)
  BY <1>1, <1>2, UsersType, UsersInv DEF IInv
<1>3. CASE \E j \in Requests, asked \in Selections, older \in BOOLEAN :
             RequestCleanup(j, asked, older)
  BY <1>1, <1>3, RequestCleanupType, RequestCleanupInv DEF IInv
<1>4. ASSUME NEW h \in Hosts, DailySweep(h) PROVE IInv'
  BY <1>1, <1>4, SweepType, SweepInv DEF IInv, DailySweep
<1>5. ASSUME NEW j \in Jobs, Crash(j) PROVE IInv'
  BY <1>1, <1>5, RowStepType, IdleInv DEF IInv
<1>6. ASSUME NEW j \in Jobs, Cleanup(j) PROVE IInv'
  <2>1. ASSUME NEW failed \in BOOLEAN, ListRuns(j, failed) PROVE IInv'
    BY <1>1, <2>1, ListRunsType, ListRunsInv DEF IInv
  <2>2. ASSUME NEW failed \in BOOLEAN, SearchExperiments(j, failed) PROVE IInv'
    BY <1>1, <2>2, SearchExperimentsType, SearchExperimentsInv DEF IInv
  <2>3. ASSUME NEW failed \in BOOLEAN, DeleteArtifacts(j, failed) PROVE IInv'
    BY <1>1, <2>3, DeleteArtifactsType, DeleteArtifactsInv DEF IInv
  <2>4. ASSUME NEW failed \in BOOLEAN, NEW e \in Experiments, OpenExperiment(j, e, failed)
        PROVE  IInv'
    BY <1>1, <2>4, OpenExperimentType, OpenExperimentInv DEF IInv
  <2>5. ASSUME NEW e \in Experiments, FetchExperiment(j, e) PROVE IInv'
    BY <1>1, <2>5, FetchExperimentType, FetchExperimentInv DEF IInv
  <2>6. ASSUME NEW r \in Runs, CheckRun(j, r) PROVE IInv'
    BY <1>1, <2>6, CheckRunType, CheckRunInv DEF IInv
  <2>7. ASSUME NEW r \in Runs, NextOfBatch(j, r) PROVE IInv'
    BY <1>1, <2>7, NextOfBatchType, NextOfBatchInv DEF IInv
  <2>8. CASE RunsDone(j)
    BY <1>1, <2>8, RunsDoneType, RunsDoneInv DEF IInv
  <2>9. CASE Done(j)
    BY <1>1, <2>9, RowStepType, IdleInv DEF IInv
  <2>10. CASE HardDeleteRun(j)
    BY <1>1, <2>10, RowStepType, HardDeleteRunInv DEF IInv
  <2>11. CASE HardDeleteExperiment(j)
    BY <1>1, <2>11, RowStepType, HardDeleteExperimentInv DEF IInv
  <2>12. CASE HardDeleteRunFails(j) \/ HardDeleteExperimentFails(j)
    BY <1>1, <2>12, RowStepType, HardDeleteFailsInv DEF IInv
  <2>13. QED
    BY <1>6, <2>1, <2>2, <2>3, <2>4, <2>5, <2>6, <2>7, <2>8, <2>9, <2>10, <2>11, <2>12
    DEF Cleanup
<1>7. CASE UNCHANGED vars
  <2>1. TypeOK'
    BY <1>1, <1>7 DEF TypeOK, vars
  <2>2. \A j \in Jobs : JobInv(j)'
    BY <1>7 DEF vars, IInv, JobInv, Aimed, Informed, Complete, Known, Trashed
  <2>3. QED BY <2>1, <2>2 DEF IInv
<1>8. QED
  BY <1>2, <1>3, <1>4, <1>5, <1>6, <1>7 DEF Next

(***************************************************************************)
(* Stages, artifacts and jobs keep their types; no page takes an offset    *)
(* beyond the experiments (permanently_delete_all_trashed_entities).       *)
(***************************************************************************)
THEOREM TypeCorrect == Spec => []TypeOK
<1>1. Spec => []IInv
  BY InitInv, NextInv, PTL DEF Spec
<1>2. IInv => TypeOK
  BY DEF IInv
<1>3. QED BY <1>1, <1>2, PTL

(* Who destroys: a job at a row destroys its run, a job at the end of a    *)
(* batch its experiment and the runs of that.                              *)
LEMMA WhoDestroys ==
  ASSUME IInv, [Next]_vars, NEW j \in Jobs, NEW x \in Entities, Destroys(j, x)
  PROVE  \/ HardDeleteRun(j) /\ x = job[j].run
         \/ HardDeleteExperiment(j) /\ x \in {job[j].exp} \cup Living(job[j].exp)
<1>1. stage[x] # "gone" /\ stage'[x] = "gone" /\ job'[j] # job[j] /\ TypeOK
  BY DEF Destroys, IInv
<1>2. ASSUME UNCHANGED stage PROVE FALSE
  BY <1>1, <1>2
<1>3. ASSUME UNCHANGED job PROVE FALSE
  BY <1>1, <1>3
<1>4. \E i \in Jobs : HardDeleteRun(i) \/ HardDeleteExperiment(i)
  <2>1. CASE \/ \E r \in Runs : DeleteRun(r) \/ RestoreRun(r)
             \/ \E e \in Experiments : DeleteExperiment(e) \/ RestoreExperiment(e)
             \/ \E y \in Entities : Age(y)
    BY <1>3, <2>1 DEF DeleteRun, RestoreRun, DeleteExperiment, RestoreExperiment, Age, Transfer
  <2>2. CASE \E i \in Requests, asked \in Selections, older \in BOOLEAN :
               RequestCleanup(i, asked, older)
    BY <1>2, <2>2 DEF RequestCleanup
  <2>3. ASSUME NEW h \in Hosts, DailySweep(h) PROVE FALSE
    BY <1>2, <2>3 DEF DailySweep, Sweep
  <2>4. ASSUME NEW i \in Jobs, Crash(i) PROVE FALSE
    BY <1>2, <2>4 DEF Crash
  <2>5. ASSUME NEW i \in Jobs, Cleanup(i) PROVE HardDeleteRun(i) \/ HardDeleteExperiment(i)
    BY <1>2, <2>5 DEF Cleanup, ListRuns, SearchExperiments, DeleteArtifacts, OpenExperiment,
      FetchExperiment, CheckRun, NextOfBatch, RunsDone, Done, HardDeleteRunFails,
      HardDeleteExperimentFails
  <2>6. CASE UNCHANGED vars
    BY <1>2, <2>6 DEF vars
  <2>7. QED BY <2>1, <2>2, <2>3, <2>4, <2>5, <2>6 DEF Next
<1>5. PICK i \in Jobs : HardDeleteRun(i) \/ HardDeleteExperiment(i)
  BY <1>4
<1>6. i = j
  <2>1. ASSUME NEW n, Goes(i, n), i # j PROVE FALSE
    BY <1>1, <2>1, JobStep
  <2>2. QED BY <1>5, <2>1 DEF HardDeleteRun, HardDeleteExperiment
<1>7. CASE HardDeleteRun(j)
  BY <1>1, <1>7 DEF HardDeleteRun, Destroy, Stamped
<1>8. CASE HardDeleteExperiment(j)
  BY <1>1, <1>8 DEF HardDeleteExperiment, Destroy, Stamped
<1>9. QED BY <1>5, <1>6, <1>7, <1>8

LEMMA DestroysKnown ==
  ASSUME IInv, [Next]_vars, NEW j \in Jobs, NEW x \in Entities, Destroys(j, x)
  PROVE  \/ Trashed(x) /\ (job[j].older => x \in aged)
         \/ <<j, x>> \in moved
         \/ x \in Runs /\ WithItsExperiment(j, x)
<1>1. Aimed(j) /\ Informed(j) /\ stage[x] # "gone"
  BY DEF IInv, JobInv, Destroys
<1>2. CASE HardDeleteRun(j) /\ x = job[j].run
  <2>1. job[j].pc = "row" /\ x \in Runs
    BY <1>1, <1>2 DEF HardDeleteRun, Aimed, AtRun
  <2>2. CASE job[j].exp = None
    BY <1>1, <1>2, <2>1, <2>2 DEF Informed, AtRun, Known
  <2>3. CASE job[j].exp # None
    BY <1>1, <1>2, <2>1, <2>3 DEF Aimed, AtRun, WithItsExperiment
  <2>4. QED BY <2>2, <2>3
<1>3. CASE HardDeleteExperiment(j) /\ x \in {job[j].exp} \cup Living(job[j].exp)
  <2>1. job[j].pc = "batch" /\ job[j].exp \in Experiments /\ job[j].exp # None
    BY <1>1, <1>3, EntityFacts DEF HardDeleteExperiment, Aimed
  <2>2. CASE x = job[j].exp
    BY <1>1, <2>1, <2>2 DEF Informed, Known
  <2>3. CASE x \in Living(job[j].exp)
    BY <2>1, <2>3 DEF Living, RunsOf, WithItsExperiment
  <2>4. QED BY <1>3, <2>2, <2>3
<1>4. QED BY <1>2, <1>3, WhoDestroys

LEMMA DestroysArtifacts ==
  ASSUME IInv, [Next]_vars, NEW j \in Jobs, NEW r \in Runs, Destroys(j, r), r \in artifacts'
  PROVE  \/ job[j].run = r /\ job[j].kept
         \/ WithItsExperiment(j, r) /\ (~Trashed(r) \/ <<j, r>> \in moved \/ job[j].cut)
<1>1. Aimed(j) /\ Complete(j) /\ r \in Entities
  BY EntityFacts DEF IInv, JobInv
<1>2. CASE HardDeleteRun(j) /\ r = job[j].run
  BY <1>1, <1>2 DEF HardDeleteRun, Complete
<1>3. CASE HardDeleteExperiment(j) /\ r \in {job[j].exp} \cup Living(job[j].exp)
  <2>1. /\ job[j].pc = "batch" /\ job[j].batch = {} /\ job[j].exp \in Experiments
        /\ job[j].exp # None /\ r \in artifacts
    BY <1>1, <1>3, EntityFacts DEF HardDeleteExperiment, Aimed
  <2>2. r \in RunsOf(job[j].exp)
    BY <1>3, <2>1, EntityFacts DEF Living
  <2>3. WithItsExperiment(j, r)
    BY <2>1, <2>2 DEF RunsOf, WithItsExperiment
  <2>4. QED BY <1>1, <2>1, <2>2, <2>3 DEF Complete, AtRun
<1>4. QED BY <1>1, <1>2, <1>3, WhoDestroys

(***************************************************************************)
(* A cleanup or a sweep destroys only what is in the trash and old enough, *)
(* what has moved since it was read, and runs of the experiment it is      *)
(* destroying (permanently_delete_all_trashed_entities, cleanup_trash).    *)
(***************************************************************************)
THEOREM TrashOnlyIsDestroyed == Spec => OnlyTrashDestroyed
<1>1. Spec => []IInv
  BY InitInv, NextInv, PTL DEF Spec
<1>2. IInv /\ [Next]_vars =>
        [\A j \in Jobs, x \in Entities :
           Destroys(j, x) =>
             \/ Trashed(x) /\ (job[j].older => x \in aged)
             \/ <<j, x>> \in moved
             \/ x \in Runs /\ WithItsExperiment(j, x)]_vars
  BY DestroysKnown
<1>3. QED BY <1>1, <1>2, PTL DEF Spec, OnlyTrashDestroyed

(***************************************************************************)
(* Artifacts outlive their run only for one of the known causes            *)
(* (hard_delete_run, hard_delete_experiment_with_runs).                    *)
(***************************************************************************)
THEOREM ArtifactsFollowTheirRun == Spec => ArtifactsGoWithRun
<1>1. Spec => []IInv
  BY InitInv, NextInv, PTL DEF Spec
<1>2. IInv /\ [Next]_vars =>
        [\A j \in Jobs, r \in Runs :
           Destroys(j, r) /\ r \in artifacts' =>
             \/ job[j].run = r /\ job[j].kept
             \/ WithItsExperiment(j, r) /\ (~Trashed(r) \/ <<j, r>> \in moved \/ job[j].cut)]_vars
  BY DestroysArtifacts
<1>3. QED BY <1>1, <1>2, PTL DEF Spec, ArtifactsGoWithRun
================================================================================
