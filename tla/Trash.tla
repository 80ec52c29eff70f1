--------------------------------- MODULE Trash ---------------------------------
(***************************************************************************)
(* The trash: experiments and runs that MLflow has marked deleted, their   *)
(* restoration, and their permanent deletion by an administrator's cleanup *)
(* (routers/trash.py) and by the daily sweep of each host (scheduler.py,   *)
(* cleanup_trash in utils/quota.py).                                       *)
(*                                                                         *)
(* A cleanup is a chain of calls to the tracking store, each its own       *)
(* transaction: what one call reads is stale at the next.  Meanwhile users *)
(* delete through MLflow and administrators restore.  The tracking store   *)
(* and the artifact repository are MLflow's, modelled from their use.      *)
(***************************************************************************)
EXTENDS Naturals, Sequences, SequencesExt, FiniteSets

CONSTANTS
  ExperimentOrder,  \* the experiments, in the order search_experiments answers
  RunOrder,         \* the runs, in the order search_runs answers
  ExperimentOf,     \* the experiment of each run
  Selections,       \* the runs and experiments a cleanup may name
  Requests,         \* cleanup calls in flight
  Hosts,            \* each runs the daily sweep, one at a time (_job_lock)
  PageSize,         \* results a search answers at once
  None,             \* no run, no experiment
  MaxMoves,         \* bound on deletions and restorations
  MaxFaults         \* bound on failing calls and crashes

Experiments == ToSet(ExperimentOrder)
Runs == ToSet(RunOrder)
Entities == Experiments \cup Runs
Jobs == Requests \cup Hosts

ASSUME TrashAssumption ==
  /\ ExperimentOrder \in Seq(Experiments) /\ IsInjective(ExperimentOrder)
  /\ RunOrder \in Seq(Runs) /\ IsInjective(RunOrder)
  /\ Experiments \cap Runs = {} /\ None \notin Entities
  /\ ExperimentOf \in [Runs -> Experiments]
  /\ Selections \subseteq SUBSET Entities
  /\ Requests \cap Hosts = {}
  /\ PageSize \in Nat \ {0} /\ MaxMoves \in Nat /\ MaxFaults \in Nat

RunsOf(e) == {r \in Runs : ExperimentOf[r] = e}

VARIABLES
  stage,      \* "active", "deleted" (in the trash) or "gone", of every entity
  aged,       \* those in the trash for longer than the time limit
  artifacts,  \* the runs whose artifacts are stored
  job,        \* the cleanups in flight
  moved,      \* <<j, x>>: x was deleted or restored since job j read it
  moves,      \* deletions and restorations so far
  faults      \* failing calls and crashes so far

vars == <<stage, aged, artifacts, job, moved, moves, faults>>

(***************************************************************************)
(* One cleanup.  "asked" is what the administrator named, "runs" and       *)
(* "exps" are what is left to destroy, "exp" and "run" what is being       *)
(* destroyed, "batch" the runs of "exp" left to destroy.                   *)
(***************************************************************************)
NoJob == [pc |-> "idle", older |-> FALSE, asked |-> {}, listed |-> {}, fetch |-> {},
          offset |-> 0, runs |-> {}, exps |-> {}, exp |-> None,
          batch |-> {}, cut |-> FALSE, run |-> None, kept |-> FALSE]

JobType ==
  [pc : {"idle", "list", "fetch", "search", "runs", "artifacts", "row", "open", "batch"},
   older : BOOLEAN, asked : SUBSET Entities, listed : SUBSET Runs,
   fetch : SUBSET Experiments, offset : 0..Cardinality(Experiments),
   runs : SUBSET Runs, exps : SUBSET Experiments, exp : Experiments \cup {None},
   batch : SUBSET Runs, cut : BOOLEAN, run : Runs \cup {None}, kept : BOOLEAN]

TypeOK ==
  /\ stage \in [Entities -> {"active", "deleted", "gone"}]
  /\ aged \subseteq {x \in Entities : stage[x] = "deleted"}
  /\ artifacts \subseteq Runs
  /\ job \in [Jobs -> JobType]
  /\ moved \subseteq Jobs \X Entities
  /\ moves \in 0..MaxMoves /\ faults \in 0..MaxFaults

Init ==
  /\ stage = [x \in Entities |-> "active"]
  /\ aged = {}
  /\ artifacts = Runs
  /\ job = [j \in Jobs |-> NoJob]
  /\ moved = {}
  /\ moves = 0 /\ faults = 0

Trashed(x) == stage[x] = "deleted"

\* A step of job j to the record n; a call that fails takes one of the faults.
Goes(j, n) == job' = [job EXCEPT ![j] = n]
Fault == faults < MaxFaults /\ faults' = faults + 1

\* What j has just read about the entities xs is up to date.
Reads(j, xs) == moved' = moved \ ({j} \X xs)

\* The entities xs change their stage under every job in flight.
Moves(xs) == moved' = moved \cup ({j \in Jobs : job[j].pc # "idle"} \X xs)

(***************************************************************************)
(* MLflow, for users and administrators.                                   *)
(***************************************************************************)
Stamped(xs, s) == [x \in Entities |-> IF x \in xs THEN s ELSE stage[x]]

\* A user deletes or an administrator restores the entities xs.
Transfer(xs, s) ==
  /\ moves < MaxMoves /\ moves' = moves + 1
  /\ stage' = Stamped(xs, s)
  /\ aged' = aged \ xs
  /\ Moves(xs)
  /\ UNCHANGED <<artifacts, job, faults>>

Living(e) == {r \in RunsOf(e) : stage[r] # "gone"}

DeleteRun(r) == stage[r] = "active" /\ Transfer({r}, "deleted")
DeleteExperiment(e) == stage[e] = "active" /\ Transfer({e} \cup Living(e), "deleted")

\* The routes of the trash read the entity, refuse one that is not deleted
\* and let the store restore it, which asks the same again.
RestoreRun(r) == Trashed(r) /\ Transfer({r}, "active")
RestoreExperiment(e) == Trashed(e) /\ Transfer({e} \cup Living(e), "active")

\* The time limit passes for an entity in the trash.
Age(x) ==
  /\ Trashed(x) /\ x \notin aged
  /\ aged' = aged \cup {x}
  /\ UNCHANGED <<stage, artifacts, job, moved, moves, faults>>

(***************************************************************************)
(* The store's permanent deletion.  A run's row goes whatever its stage;   *)
(* an experiment must be in the trash, and takes every run with it.        *)
(***************************************************************************)
Destroy(xs) ==
  /\ stage' = Stamped(xs, "gone")
  /\ aged' = aged \ xs
  /\ moved' = moved \ (Jobs \X xs)

(***************************************************************************)
(* The cleanup an administrator asks for.                                  *)
(***************************************************************************)

\* A request names runs or experiments, or nothing, and a time limit or none.
RequestCleanup(j, asked, older) ==
  /\ job[j].pc = "idle"
  /\ Goes(j, [NoJob EXCEPT !.pc = "list", !.older = older, !.asked = asked,
                           !.fetch = asked \cap Experiments])
  /\ moved' = moved \ ({j} \X Entities)
  /\ UNCHANGED <<stage, aged, artifacts, moves, faults>>

\* A store that cannot list its deleted runs counts as one without any.
Listing(j, failed) ==
  {r \in Runs : ~failed /\ Trashed(r) /\ (job[j].older => r \in aged)}

ListRuns(j, failed) ==
  /\ job[j].pc = "list"
  /\ LET listed == Listing(j, failed)
         named == job[j].asked \cap Runs
     IN Goes(j, [job[j] EXCEPT
                   !.pc = IF job[j].fetch = {} THEN "search" ELSE "fetch",
                   !.listed = IF job[j].older THEN listed ELSE {},
                   !.runs = IF named = {} THEN listed ELSE named])
  /\ Reads(j, Runs)
  /\ IF failed THEN Fault ELSE UNCHANGED faults
  /\ UNCHANGED <<stage, aged, artifacts, moves>>

\* Each named experiment is fetched; all must exist, be in the trash and be old
\* enough, or the request ends with 404 or 400 before it has destroyed anything.
FetchExperiment(j, e) ==
  /\ job[j].pc = "fetch" /\ e \in job[j].fetch
  /\ LET left == job[j].fetch \ {e}
     IN Goes(j, IF Trashed(e) /\ (job[j].older => e \in aged)
                THEN [job[j] EXCEPT !.fetch = left, !.exps = @ \cup {e},
                                    !.pc = IF left = {} THEN "runs" ELSE "fetch"]
                ELSE NoJob)
  /\ Reads(j, {e})
  /\ UNCHANGED <<stage, aged, artifacts, moves, faults>>

\* A page of the entities S, by offset: those whose place among S in the order
\* is one of the PageSize after the offset.
Place(order, S, i) == Cardinality({k \in 1..i : order[k] \in S})
Page(order, S, offset) ==
  {order[i] : i \in {k \in DOMAIN order :
     order[k] \in S /\ Place(order, S, k) \in offset + 1 .. offset + PageSize}}
TrashedExperiments == {e \in Experiments : Trashed(e)}

\* No experiment is named: all in the trash, page by page.  A page that
\* fails ends the list with the pages before it.
SearchExperiments(j, failed) ==
  /\ job[j].pc = "search"
  /\ LET all == IF job[j].older THEN TrashedExperiments \cap aged ELSE TrashedExperiments
         page == IF failed THEN {} ELSE Page(ExperimentOrder, all, job[j].offset)
         next == job[j].offset + PageSize
         more == ~failed /\ next < Cardinality(all)
     IN /\ Goes(j, [job[j] EXCEPT !.exps = @ \cup page,
                                  !.offset = IF more THEN next ELSE 0,
                                  !.pc = IF more THEN "search" ELSE "runs"])
        /\ Reads(j, page)
  /\ IF failed THEN Fault ELSE UNCHANGED faults
  /\ UNCHANGED <<stage, aged, artifacts, moves>>

\* The run is fetched; one that is gone, active or too young is reported.
\* Its age is still the one of the listing.  A bug could skip the stage.
DestroyableUnlessGone(j, r) == stage[r] # "gone" /\ (job[j].older => r \in job[j].listed)
Destroyable(j, r) == Trashed(r) /\ (job[j].older => r \in job[j].listed)

CheckRun(j, r) ==
  /\ job[j].pc = "runs" /\ r \in job[j].runs
  /\ Goes(j, IF Destroyable(j, r)
             THEN [job[j] EXCEPT !.pc = "artifacts", !.run = r, !.runs = @ \ {r}]
             ELSE [job[j] EXCEPT !.runs = @ \ {r}])
  /\ Reads(j, IF job[j].older THEN {} ELSE {r})
  /\ UNCHANGED <<stage, aged, artifacts, moves, faults>>

RunsDone(j) ==
  /\ job[j].pc = "runs" /\ job[j].runs = {}
  /\ Goes(j, [job[j] EXCEPT !.pc = "open", !.listed = {}])
  /\ UNCHANGED <<stage, aged, artifacts, moved, moves, faults>>

(***************************************************************************)
(* The daily sweep of a host takes no more than the first page of the      *)
(* trash, and of that page what is older than the retention.  The job is   *)
(* busy as long as the host's file lock is held.                           *)
(***************************************************************************)
\* Older than the retention; a bug could compare the wrong way.
ExpiredTooEarly(x) == x \notin aged
Expired(x) == x \in aged

Sweep(h, failed) ==
  /\ job[h].pc = "idle"
  /\ LET found == {e \in Page(ExperimentOrder, TrashedExperiments, 0) : ~failed /\ Expired(e)}
     IN /\ found # {} \/ failed
        /\ Goes(h, IF failed THEN NoJob
                   ELSE [NoJob EXCEPT !.pc = "open", !.older = TRUE, !.exps = found])
        /\ moved' = moved \ ({h} \X Entities)
  /\ IF failed THEN Fault ELSE UNCHANGED faults
  /\ UNCHANGED <<stage, aged, artifacts, moves>>

(***************************************************************************)
(* utils/trash_cleanup.py, for both kinds of jobs.                         *)
(***************************************************************************)

\* hard_delete_experiment_with_runs asks for the deleted runs of the
\* experiment, and gets one page of them.  A bug could miss the first.
TrashedRuns(e) == {r \in RunsOf(e) : Trashed(r)}
LaterBatch(e) == Page(RunOrder, TrashedRuns(e), 1)
FirstBatch(e) == Page(RunOrder, TrashedRuns(e), 0)
Cut(e) == Cardinality(TrashedRuns(e)) > PageSize

OpenExperiment(j, e, failed) ==
  /\ job[j].pc = "open" /\ e \in job[j].exps
  /\ LET batch == FirstBatch(e)
     IN Goes(j, IF failed THEN [job[j] EXCEPT !.exps = @ \ {e}]
                ELSE [job[j] EXCEPT !.pc = "batch", !.exps = @ \ {e}, !.exp = e,
                                    !.batch = batch, !.cut = Cut(e)])
  /\ IF failed THEN Fault /\ UNCHANGED moved ELSE Reads(j, RunsOf(e)) /\ UNCHANGED faults
  /\ UNCHANGED <<stage, aged, artifacts, moves>>

NextOfBatch(j, r) ==
  /\ job[j].pc = "batch" /\ r \in job[j].batch
  /\ Goes(j, [job[j] EXCEPT !.pc = "artifacts", !.run = r, !.batch = @ \ {r}])
  /\ UNCHANGED <<stage, aged, artifacts, moved, moves, faults>>

\* hard_delete_run: the artifacts, as far as the repository allows...
DeleteArtifacts(j, failed) ==
  /\ job[j].pc = "artifacts"
  /\ artifacts' = IF failed THEN artifacts ELSE artifacts \ {job[j].run}
  /\ Goes(j, [job[j] EXCEPT !.pc = "row", !.kept = failed])
  /\ IF failed THEN Fault ELSE UNCHANGED faults
  /\ UNCHANGED <<stage, aged, moved, moves>>

\* ... then the row.  A row that cannot be deleted is reported; inside an
\* experiment it ends that experiment's deletion.
AfterRow(j) ==
  [job[j] EXCEPT !.run = None, !.kept = FALSE,
                 !.pc = IF job[j].exp = None THEN "runs" ELSE "batch"]
GivesUp(j) == [job[j] EXCEPT !.run = None, !.kept = FALSE, !.exp = None, !.batch = {},
                             !.cut = FALSE, !.pc = "open"]
AfterFailure(j) == IF job[j].exp = None THEN AfterRow(j) ELSE GivesUp(j)

HardDeleteRun(j) ==
  /\ job[j].pc = "row" /\ stage[job[j].run] # "gone"
  /\ Destroy({job[j].run})
  /\ Goes(j, AfterRow(j))
  /\ UNCHANGED <<artifacts, moves, faults>>

HardDeleteRunFails(j) ==
  /\ job[j].pc = "row"
  /\ \/ stage[job[j].run] = "gone" /\ UNCHANGED faults
     \/ Fault
  /\ Goes(j, AfterFailure(j))
  /\ UNCHANGED <<stage, aged, artifacts, moved, moves>>

\* With its batch done the experiment goes, and every run that it still has.
HardDeleteExperiment(j) ==
  /\ job[j].pc = "batch" /\ job[j].batch = {} /\ Trashed(job[j].exp)
  /\ Destroy({job[j].exp} \cup Living(job[j].exp))
  /\ Goes(j, GivesUp(j))
  /\ UNCHANGED <<artifacts, moves, faults>>

HardDeleteExperimentFails(j) ==
  /\ job[j].pc = "batch" /\ job[j].batch = {}
  /\ \/ ~Trashed(job[j].exp) /\ UNCHANGED faults
     \/ Fault
  /\ Goes(j, GivesUp(j))
  /\ UNCHANGED <<stage, aged, artifacts, moved, moves>>

\* The cleanup is answered; the sweep releases the host's lock.
Done(j) ==
  /\ job[j].pc = "open" /\ job[j].exps = {}
  /\ Goes(j, NoJob)
  /\ UNCHANGED <<stage, aged, artifacts, moved, moves, faults>>

\* The process ends with its job wherever it is, and its file lock with it.
Crash(j) ==
  /\ job[j].pc # "idle"
  /\ Fault
  /\ Goes(j, NoJob)
  /\ UNCHANGED <<stage, aged, artifacts, moved, moves>>

-------------------------------------------------------------------------------

Cleanup(j) ==
  \/ \E failed \in BOOLEAN : \/ ListRuns(j, failed)
                             \/ SearchExperiments(j, failed)
                             \/ DeleteArtifacts(j, failed)
                             \/ \E e \in Experiments : OpenExperiment(j, e, failed)
  \/ \E e \in Experiments : FetchExperiment(j, e)
  \/ \E r \in Runs : CheckRun(j, r) \/ NextOfBatch(j, r)
  \/ RunsDone(j) \/ Done(j)
  \/ HardDeleteRun(j) \/ HardDeleteRunFails(j)
  \/ HardDeleteExperiment(j) \/ HardDeleteExperimentFails(j)

DailySweep(h) == \E failed \in BOOLEAN : Sweep(h, failed)

Next ==
  \/ \E r \in Runs : DeleteRun(r) \/ RestoreRun(r)
  \/ \E e \in Experiments : DeleteExperiment(e) \/ RestoreExperiment(e)
  \/ \E x \in Entities : Age(x)
  \/ \E j \in Requests, asked \in Selections, older \in BOOLEAN : RequestCleanup(j, asked, older)
  \/ \E j \in Jobs : Cleanup(j) \/ Crash(j)
  \/ \E h \in Hosts : DailySweep(h)

Spec == Init /\ [][Next]_vars

\* Time passes, the scheduler starts the sweep every day, and a sweep that has
\* started goes on.  Nobody has to restore, delete or ask for a cleanup.
FairSpec ==
  /\ Spec
  /\ \A e \in Experiments : WF_vars(Age(e))
  /\ \A h \in Hosts : WF_vars(DailySweep(h) \/ Cleanup(h))

-------------------------------------------------------------------------------

\* Job j destroys x in this step.
Destroys(j, x) == stage[x] # "gone" /\ stage'[x] = "gone" /\ job'[j] # job[j]

WithItsExperiment(j, r) == job[j].exp # None /\ ExperimentOf[r] = job[j].exp

(***************************************************************************)
(* permanently_delete_all_trashed_entities, cleanup_trash: a job destroys  *)
(* only what is in the trash, and for longer than the limit when it has    *)
(* one.  Whatever the interleaving there are two exceptions: what was      *)
(* deleted or restored since the job read it, and the runs of an           *)
(* experiment that the job is destroying.                                  *)
(***************************************************************************)
OnlyTrashDestroyed ==
  [][\A j \in Jobs, x \in Entities :
       Destroys(j, x) =>
         \/ Trashed(x) /\ (job[j].older => x \in aged)
         \/ <<j, x>> \in moved
         \/ x \in Runs /\ WithItsExperiment(j, x)]_vars

(***************************************************************************)
(* hard_delete_run, hard_delete_experiment_with_runs: artifacts go with    *)
(* their run.  They outlive it only if the repository refused, if the run  *)
(* was active when its experiment was destroyed or has moved since the     *)
(* experiment's runs were listed, or if that list was cut at one page.     *)
(***************************************************************************)
ArtifactsGoWithRun ==
  [][\A j \in Jobs, r \in Runs :
       Destroys(j, r) /\ r \in artifacts' =>
         \/ job[j].run = r /\ job[j].kept
         \/ WithItsExperiment(j, r) /\ (~Trashed(r) \/ <<j, r>> \in moved \/ job[j].cut)]_vars

(***************************************************************************)
(* scheduler.py, cleanup_trash: nothing stays in the trash for good, even  *)
(* behind the first page: it is restored or the daily sweep destroys it.   *)
(* The calls that fail are finitely many.                                  *)
(***************************************************************************)
EventuallyEmptied == \A e \in Experiments : []<>(stage[e] # "deleted")

(***************************************************************************)
(* The administration page asks for run_ids or experiment_ids after        *)
(* listing what "will be permanently deleted": a cleanup that names runs   *)
(* or experiments destroys these, and the runs of these, only.             *)
(***************************************************************************)
OnlySelectedDestroyed ==
  [][\A j \in Requests, x \in Entities :
       Destroys(j, x) /\ job[j].asked # {} =>
         x \in job[j].asked \/ (x \in Runs /\ ExperimentOf[x] \in job[j].asked)]_vars
===============================================================================
