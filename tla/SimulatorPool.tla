----------------------------- MODULE SimulatorPool -----------------------------
(***************************************************************************)
(* SimulatorPool (src/pool/simulator_pool.cpp): the adapter that gives a   *)
(* batch of parameter states to a fixed set of workers, each owning one    *)
(* simulator session and one directory, and hands every job a directory of *)
(* its own below its worker's.                                             *)
(*                                                                         *)
(* The dispatching itself is ocp::OrderedConcurrentPool, a library outside *)
(* this repository; what is modelled of it is what the repository's        *)
(* contract tests and the adapter rely on.  Jobs run on threads of their   *)
(* own: each leases an idle worker, and all interleavings are possible.    *)
(* A shutdown may come from another thread at any time.                    *)
(*                                                                         *)
(* The artifacts of a directory are abstracted to the job whose simulation *)
(* wrote them.  A session either writes into the job directory (Ngspice)   *)
(* or into a directory fixed when it was created (Spectre), from which the *)
(* worker takes a snapshot.  Job directories are used again by the next    *)
(* batch and never emptied, so a success whose artifacts did not get there *)
(* may be taken for one that wrote what an earlier batch left.             *)
(*                                                                         *)
(* Of Spectre it is assumed that a run it reports as done wrote results.   *)
(***************************************************************************)
EXTENDS Integers, FiniteSets

CONSTANTS
    Workers,       \* worker ids
    NoWorker,      \* std::nullopt: the job never had a worker
    MaxJobs,       \* bound on the size of a batch
    MaxBatches,    \* bound on the number of batches
    ReaderMayThrow, \* extracting metrics may throw
    CallerKeeps    \* the caller keeps the results of a batch when it submits the next

ASSUME WorkersAssumption == Workers # {} /\ NoWorker \notin Workers
ASSUME BoundsAssumption == MaxJobs \in Nat \ {0} /\ MaxBatches \in Nat
ASSUME OptionsAssumption == ReaderMayThrow \in BOOLEAN /\ CallerKeeps \in BOOLEAN

VARIABLES
    intoJobDir, \* writes_into_job_work_dir() of the backend, fixed at construction
    started,    \* started() of the pool
    stopping,   \* a shutdown has still to stop some sessions
    up,         \* sessions that have been started and not stopped since
    idle,       \* workers no job has leased
    batch,      \* how many batches have been submitted
    size,       \* jobs of the batch in progress; 0 when there is none
    task,       \* where each job of the batch stands
    lease,      \* the worker each job runs on
    outcome,    \* the TaskStatus its session returned
    result,     \* what the batch will return for it
    workFile,   \* artifacts in each worker's fixed directory
    caseFile,   \* artifacts in each job directory of each worker
    missed,     \* jobs of the batch whose artifacts did not all get into their directory
    held        \* what the successful results of earlier batches named when they came

vars == <<intoJobDir, started, stopping, up, idle, batch, size, task, lease, outcome,
          result, workFile, caseFile, missed, held>>

-------------------------------------------------------------------------------
Indices == 0..(MaxJobs - 1)
InBatch == 0..(size - 1)

\* A job is known by its batch and its index; batches are numbered from 1.
Job == (0..MaxBatches) \X Indices
NoFile == <<0, 0>>
ThisJob(i) == <<batch, i>>

\* TaskStatus; "failed" stands for every failure a session reports, which the pool
\* treats alike: kSimulationFailed, kStartupFailed, kTimeout and kTransportFailure.
Statuses == {"none", "success", "failed", "exception"}

\* Where a result says its artifacts are.
RootDir == [at |-> "root", worker |-> NoWorker]
WorkerDir(w) == [at |-> "worker", worker |-> w]
CaseDir(w) == [at |-> "case", worker |-> w]
Dir == {RootDir} \cup [at : {"worker", "case"}, worker : Workers]

\* metrics: "none" before extraction; "failed" stands for kReadFailed, kSignalNotFound and
\* kUnsupportedFormat.  source: the job the metrics were read from, if they were.
Result == [status : Statuses, dir : Dir, metrics : {"none", "ok", "failed"}, source : Job]
NoResult == [status |-> "none", dir |-> RootDir, metrics |-> "none", source |-> NoFile]

Init ==
    /\ intoJobDir \in BOOLEAN
    /\ started = FALSE /\ stopping = FALSE /\ up = {} /\ idle = Workers
    /\ batch = 0 /\ size = 0
    /\ task = [i \in Indices |-> "none"]
    /\ lease = [i \in Indices |-> NoWorker]
    /\ outcome = [i \in Indices |-> "none"]
    /\ result = [i \in Indices |-> NoResult]
    /\ workFile = [w \in Workers |-> NoFile]
    /\ caseFile = [w \in Workers |-> [i \in Indices |-> NoFile]]
    /\ missed = {} /\ held = {}

-------------------------------------------------------------------------------
(* Lifecycle: the evaluator's constructor, reload_workers and cleanup.     *)

\* start_all: every session starts, or all are stopped and the exception is rethrown.
StartAll ==
    /\ ~started /\ ~stopping /\ size = 0
    /\ \/ started' = TRUE /\ up' = Workers
       \/ started' = FALSE /\ up' = {}
    /\ UNCHANGED <<intoJobDir, stopping, idle, batch, size, task, lease, outcome, result,
                   workFile, caseFile, missed, held>>

\* shutdown_all, possibly from another thread than the one a batch runs on.
Shutdown ==
    /\ started
    /\ started' = FALSE /\ stopping' = TRUE
    /\ UNCHANGED <<intoJobDir, up, idle, batch, size, task, lease, outcome, result,
                   workFile, caseFile, missed, held>>

\* A session is stopped when no job uses its worker.
StopWorker(w) ==
    /\ stopping /\ w \in idle /\ w \in up
    /\ up' = up \ {w}
    /\ UNCHANGED <<intoJobDir, started, stopping, idle, batch, size, task, lease, outcome,
                   result, workFile, caseFile, missed, held>>

ShutdownReturns ==
    /\ stopping /\ up = {}
    /\ stopping' = FALSE
    /\ UNCHANGED <<intoJobDir, started, up, idle, batch, size, task, lease, outcome,
                   result, workFile, caseFile, missed, held>>

-------------------------------------------------------------------------------
(* A batch.                                                                *)

\* What is kept per job belongs to one batch.
NoJobs ==
    /\ lease' = [i \in Indices |-> NoWorker]
    /\ outcome' = [i \in Indices |-> "none"]
    /\ result' = [i \in Indices |-> NoResult]
    /\ missed' = {}

\* evaluate_batch: the jobs are numbered from 0 in every batch.
RunBatch ==
    /\ started /\ size = 0 /\ batch < MaxBatches
    /\ batch' = batch + 1
    /\ \E n \in 1..MaxJobs :
          /\ size' = n
          /\ task' = [i \in Indices |-> IF i < n THEN "queued" ELSE "none"]
    /\ NoJobs
    /\ UNCHANGED <<intoJobDir, started, stopping, up, idle, workFile, caseFile, held>>

\* Mutant: the leased worker stays in the idle queue.
Lease_StaysIdle(i, w) ==
    /\ task[i] = "queued" /\ started /\ w \in idle
    /\ task' = [task EXCEPT ![i] = "running"]
    /\ lease' = [lease EXCEPT ![i] = w]
    /\ UNCHANGED <<intoJobDir, started, stopping, up, idle, batch, size, outcome, result,
                   workFile, caseFile, missed, held>>

\* Mutant: a job that is waiting when the pool shuts down still gets a worker.
Lease_AfterShutdown(i, w) ==
    /\ task[i] = "queued" /\ w \in idle
    /\ idle' = idle \ {w}
    /\ task' = [task EXCEPT ![i] = "running"]
    /\ lease' = [lease EXCEPT ![i] = w]
    /\ UNCHANGED <<intoJobDir, started, stopping, up, batch, size, outcome, result,
                   workFile, caseFile, missed, held>>

\* The thread of a job gets an idle worker.
Lease(i, w) ==
    /\ task[i] = "queued" /\ started /\ w \in idle
    /\ idle' = idle \ {w}
    /\ task' = [task EXCEPT ![i] = "running"]
    /\ lease' = [lease EXCEPT ![i] = w]
    /\ UNCHANGED <<intoJobDir, started, stopping, up, batch, size, outcome, result,
                   workFile, caseFile, missed, held>>

\* Mutant: the failure handler looks up the directory of a worker there is not.
Refused_NamesWorker ==
    [status |-> "exception", dir |-> WorkerDir(NoWorker), metrics |-> "none",
     source |-> NoFile]

\* The failure handler for a job that never had a worker.
Refused == [status |-> "exception", dir |-> RootDir, metrics |-> "none", source |-> NoFile]

\* The pool was shut down before the job got a worker, or its thread could not be made.
Refuse(i) ==
    /\ task[i] = "queued"
    /\ task' = [task EXCEPT ![i] = "done"]
    /\ result' = [result EXCEPT ![i] = Refused]
    /\ UNCHANGED <<intoJobDir, started, stopping, up, idle, batch, size, lease, outcome,
                   workFile, caseFile, missed, held>>

Finish(i, r) ==
    /\ task' = [task EXCEPT ![i] = "done"]
    /\ result' = [result EXCEPT ![i] = r]
    /\ idle' = idle \cup {lease[i]}

\* An exception leaves the worker: the failure handler names the worker's directory.
Thrown(i) == [status |-> "exception", dir |-> WorkerDir(lease[i]), metrics |-> "none",
              source |-> NoFile]

\* Mutant: a session writes into one directory per worker, as it once did.
WriteArtifacts_OneDirectory(i) ==
    IF intoJobDir
    THEN caseFile' = [caseFile EXCEPT ![lease[i]][0] = ThisJob(i)] /\ UNCHANGED workFile
    ELSE workFile' = [workFile EXCEPT ![lease[i]] = ThisJob(i)] /\ UNCHANGED caseFile

\* Artifacts of this job are written where the session writes.
WriteArtifacts(i) ==
    IF intoJobDir
    THEN caseFile' = [caseFile EXCEPT ![lease[i]][i] = ThisJob(i)] /\ UNCHANGED workFile
    ELSE workFile' = [workFile EXCEPT ![lease[i]] = ThisJob(i)] /\ UNCHANGED caseFile

\* session_->run returns.  A failure may have written artifacts; a success has, except
\* that Ngspice may exit with status 0 and no output, and then what an earlier batch left
\* in the job directory is read as its output.
Runs(i) ==
    \/ outcome' = [outcome EXCEPT ![i] = "success"] /\ WriteArtifacts(i) /\ UNCHANGED missed
    \/ /\ intoJobDir /\ caseFile[lease[i]][i] # NoFile
       /\ outcome' = [outcome EXCEPT ![i] = "success"]
       /\ missed' = missed \cup {i}
       /\ UNCHANGED <<workFile, caseFile>>
    \/ /\ outcome' = [outcome EXCEPT ![i] = "failed"]
       /\ WriteArtifacts(i) \/ UNCHANGED <<workFile, caseFile>>
       /\ UNCHANGED missed

\* Mutant: the worker goes back to the pool before its artifacts are saved and read.
SessionRuns_ReleasesEarly(i) ==
    /\ task[i] = "running"
    /\ Runs(i)
    /\ task' = [task EXCEPT ![i] = IF intoJobDir THEN "extracting" ELSE "ran"]
    /\ idle' = idle \cup {lease[i]}
    /\ UNCHANGED <<intoJobDir, started, stopping, up, batch, size, lease, result, held>>

SessionRuns(i) ==
    /\ task[i] = "running"
    /\ Runs(i)
    /\ task' = [task EXCEPT ![i] = IF intoJobDir THEN "extracting" ELSE "ran"]
    /\ UNCHANGED <<intoJobDir, started, stopping, up, idle, batch, size, lease, result, held>>

\* Mutant: a worker whose job threw is not returned to the pool.
SessionThrows_KeepsWorker(i) ==
    /\ task[i] = "running"
    /\ task' = [task EXCEPT ![i] = "done"]
    /\ result' = [result EXCEPT ![i] = Thrown(i)]
    /\ UNCHANGED <<intoJobDir, started, stopping, up, idle, batch, size, lease, outcome,
                   workFile, caseFile, missed, held>>

SessionThrows(i) ==
    /\ task[i] = "running"
    /\ Finish(i, Thrown(i))
    /\ UNCHANGED <<intoJobDir, started, stopping, up, batch, size, lease, outcome,
                   workFile, caseFile, missed, held>>

\* What is in the fixed directory, whatever the status was, in the job directory.
Copied(i) ==
    IF workFile[lease[i]] = NoFile THEN caseFile
    ELSE [caseFile EXCEPT ![lease[i]][i] = workFile[lease[i]]]

\* snapshot_artifacts drops its errors: all is copied, or part of it, or nothing.
Snapshot(i) ==
    /\ task[i] = "ran"
    /\ \/ caseFile' = Copied(i) /\ UNCHANGED missed
       \/ caseFile' \in {caseFile, Copied(i)} /\ missed' = missed \cup {i}
    /\ task' = [task EXCEPT ![i] = "extracting"]
    /\ UNCHANGED <<intoJobDir, started, stopping, up, idle, batch, size, lease, outcome,
                   result, workFile, held>>

(***************************************************************************)
(* extract_metrics on the job directory, of at least one request.  The     *)
(* format of a failed run is kUnknown, which the readers resolve to any    *)
(* PSF file they find; wrdata is read only when the session declared it,   *)
(* which it does on success.  What can be read need not be: the format may *)
(* not be supported, the signal not there, the file cut.                   *)
(***************************************************************************)
Readable(i) ==
    /\ caseFile[lease[i]][i] # NoFile
    /\ intoJobDir => outcome[i] = "success"

Extracted(i, m) ==
    [status |-> outcome[i], dir |-> CaseDir(lease[i]), metrics |-> m,
     source |-> IF m = "ok" THEN caseFile[lease[i]][i] ELSE NoFile]

Extract(i) ==
    /\ task[i] = "extracting"
    /\ \E m \in {"ok", "failed"} :
          /\ m = "ok" => Readable(i)
          /\ Finish(i, Extracted(i, m))
    /\ UNCHANGED <<intoJobDir, started, stopping, up, batch, size, lease, outcome,
                   workFile, caseFile, missed, held>>

ExtractThrows(i) ==
    /\ ReaderMayThrow
    /\ task[i] = "extracting"
    /\ Finish(i, Thrown(i))
    /\ UNCHANGED <<intoJobDir, started, stopping, up, batch, size, lease, outcome,
                   workFile, caseFile, missed, held>>

\* The results, in the order of the inputs, are the caller's.
BatchReturns ==
    /\ size > 0
    /\ \A i \in InBatch : task[i] = "done"
    /\ held' = held \cup {[worker |-> lease[i], index |-> i, file |-> caseFile[lease[i]][i]] :
                  i \in {j \in InBatch : CallerKeeps /\ result[j].status = "success"}}
    /\ size' = 0
    /\ task' = [i \in Indices |-> "none"]
    /\ NoJobs
    /\ UNCHANGED <<intoJobDir, started, stopping, up, idle, batch, workFile, caseFile>>

-------------------------------------------------------------------------------
JobStep(i) ==
    \/ \E w \in Workers : Lease(i, w)
    \/ Refuse(i) \/ SessionRuns(i) \/ SessionThrows(i) \/ Snapshot(i)
    \/ Extract(i) \/ ExtractThrows(i)

Next ==
    \/ StartAll \/ Shutdown \/ ShutdownReturns \/ RunBatch \/ BatchReturns
    \/ \E w \in Workers : StopWorker(w)
    \/ \E i \in Indices : JobStep(i)

Spec == Init /\ [][Next]_vars

(***************************************************************************)
(* Fairness: the thread of a job that can go on does, which includes that  *)
(* a session's run returns (SpectreSession's EveryCallReturns); a job that *)
(* waits for a worker of a closed pool is woken; the thread that shuts     *)
(* down and the one that waits for the batch go on.  That a worker is ever *)
(* leased to a job is owed to this only because the others give theirs     *)
(* back.                                                                   *)
(***************************************************************************)
Fairness ==
    /\ \A i \in Indices :
          /\ WF_vars(\E w \in Workers : Lease(i, w))
          /\ WF_vars(~started /\ Refuse(i))
          /\ WF_vars(SessionRuns(i) \/ SessionThrows(i))
          /\ WF_vars(Snapshot(i))
          /\ WF_vars(Extract(i) \/ ExtractThrows(i))
    /\ \A w \in Workers : WF_vars(StopWorker(w))
    /\ WF_vars(ShutdownReturns) /\ WF_vars(BatchReturns)

FairSpec == Spec /\ Fairness

-------------------------------------------------------------------------------
(* Properties.                                                             *)

TaskStates == {"none", "queued", "running", "ran", "extracting", "done"}
OnWorker == {"running", "ran", "extracting"}

\* Every variable keeps to its domain; in particular a result names a directory that
\* exists: the workspace root if the job had no worker, else one of that worker's.
TypeOK ==
    /\ intoJobDir \in BOOLEAN /\ started \in BOOLEAN /\ stopping \in BOOLEAN
    /\ up \subseteq Workers /\ idle \subseteq Workers
    /\ batch \in 0..MaxBatches /\ size \in 0..MaxJobs
    /\ task \in [Indices -> TaskStates]
    /\ lease \in [Indices -> Workers \cup {NoWorker}]
    /\ outcome \in [Indices -> Statuses]
    /\ result \in [Indices -> Result]
    /\ workFile \in [Workers -> Job]
    /\ caseFile \in [Workers -> [Indices -> Job]]
    /\ missed \subseteq Indices
    /\ held \subseteq [worker : Workers, index : Indices, file : Job]

\* No two jobs are on one worker, and a worker with a job on it is not idle: a session
\* and its directory have one user at a time from lease to extraction.
LeaseExclusive ==
    \A i \in Indices : task[i] \in OnWorker =>
        /\ lease[i] \in Workers \ idle
        /\ \A j \in Indices : task[j] \in OnWorker /\ lease[j] = lease[i] => i = j

Succeeded(i) == task[i] = "done" /\ result[i].status = "success"

Older(f) == f[1] < batch

\* What a success finds in its directory: its own artifacts, or, if it did not write any or
\* they could not be copied, what an earlier batch left.
OwnOrLeft(i, f) == f = ThisJob(i) \/ (i \in missed /\ Older(f))

\* While a batch is in progress, the directory a successful result names holds what the job
\* found there when it ended: its own artifacts unless Ngspice wrote none or the snapshot
\* failed, and never those of another job of the batch, whichever worker that ran on.
BatchArtifactsIntact ==
    \A i \in Indices : Succeeded(i) =>
        /\ result[i].dir = CaseDir(lease[i])
        /\ OwnOrLeft(i, caseFile[lease[i]][i])

\* The metrics of a successful result, if there are any, were read from its own artifacts,
\* or, when those did not get into its directory, from an earlier batch's: the reader, the
\* snapshot and the next job on the worker never cross.
SuccessMetricsAreOwn ==
    \A i \in Indices : Succeeded(i) /\ result[i].metrics = "ok" =>
        OwnOrLeft(i, result[i].source)

\* Every batch returns, also when sessions fail or throw and when the pool is shut down
\* under it.
BatchEventuallyReturns == (size > 0) ~> (size = 0)

\* A shutdown completes: the workers come back and their sessions are stopped.
ShutdownCompletes == stopping ~> ~stopping

\* The pool is a BatchService.
SlotOf(i) ==
    CASE task[i] \in {"none"} -> "none"
      [] task[i] = "queued" -> "waiting"
      [] task[i] \in OnWorker -> "taken"
      [] task[i] = "done" -> IF lease[i] = NoWorker THEN "refused" ELSE "ran"

Service == INSTANCE BatchService WITH
    open <- started, slot <- [i \in Indices |-> SlotOf(i)]

\* Every step of the pool is a step of the service or none: slots are answered once and
\* by a run of their own job, none is taken up after a shutdown, and a batch returns only
\* with all of them answered.
ImplementsBatchService == Service!SSpec

-------------------------------------------------------------------------------
(***************************************************************************)
(* The inductive invariant behind LeaseExclusive, BatchArtifactsIntact and *)
(* SuccessMetricsAreOwn.                                                   *)
(***************************************************************************)

\* The jobs of the batch are the ones with a task, and only they have a lease.
BatchShape ==
    \A i \in Indices :
        /\ task[i] = "none" <=> i >= size
        /\ task[i] \in {"none", "queued"} => lease[i] = NoWorker
        /\ task[i] = "done" => (lease[i] = NoWorker <=> result[i] = Refused)

\* Batches are numbered from 1, so a job of one is never mistaken for "no file".
BatchNumbered == size > 0 => batch > 0

\* No file is of a batch to come, and in a batch only a job's own worker brings files of it
\* into the job's directory, once its session has returned.
FilesNumbered ==
    /\ \A w \in Workers : workFile[w][1] <= batch
    /\ \A w \in Workers, i \in Indices :
          /\ caseFile[w][i][1] <= batch
          /\ size > 0 =>
                \/ Older(caseFile[w][i])
                \/ lease[i] = w /\ task[i] \in {"extracting", "done"}

\* The artifacts of a successful run, wherever the job stands between running and done.
ArtifactsFollow ==
    \A i \in Indices :
        /\ task[i] = "ran" => ~intoJobDir
        /\ task[i] = "ran" /\ outcome[i] = "success" => workFile[lease[i]] = ThisJob(i)
        /\ task[i] = "extracting" /\ outcome[i] = "success" =>
              OwnOrLeft(i, caseFile[lease[i]][i])

ResultsFollow == BatchArtifactsIntact /\ SuccessMetricsAreOwn

Inv ==
    /\ TypeOK /\ LeaseExclusive
    /\ BatchShape /\ BatchNumbered
    /\ FilesNumbered /\ ArtifactsFollow /\ ResultsFollow

-------------------------------------------------------------------------------
(* Promises of the documentation that the code does not keep.              *)

\* The metrics of a result correspond to its own input whatever its status: a job whose
\* simulation failed has no metrics of some other job.
MetricsMatchInput ==
    \A i \in Indices :
        /\ task[i] = "done" /\ result[i].status = "failed" /\ result[i].metrics = "ok"
        => result[i].source = ThisJob(i)

\* Each job has a directory of its own, so the one a successful result names goes on
\* holding what it held when the result came.
HeldArtifactsIntact ==
    \A h \in held : caseFile[h.worker][h.index] = h.file
===============================================================================
