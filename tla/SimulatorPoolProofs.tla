-------------------------- MODULE SimulatorPoolProofs --------------------------
(***************************************************************************)
(* Proofs about SimulatorPool, for any set of workers and any bounds: the  *)
(* inductive invariant Inv, and what follows from it.                      *)
(***************************************************************************)
EXTENDS SimulatorPool, TLAPS

-------------------------------------------------------------------------------
(* Domains.                                                                *)

\* The job a task stands for is a job, whatever the batch.
LEMMA ThisJobType ==
    ASSUME batch \in 0..MaxBatches, NEW i \in Indices
    PROVE  ThisJob(i) \in Job
BY DEF ThisJob, Job

\* "No artifacts" is in the domain of the artifact maps.
LEMMA NoFileType == NoFile \in Job
BY BoundsAssumption DEF NoFile, Job, Indices

\* The results the failure handler makes are results.
LEMMA HandlerResults ==
    /\ NoResult \in Result
    /\ Refused \in Result
    /\ \A i \in Indices : lease[i] \in Workers => Thrown(i) \in Result
BY NoFileType DEF NoResult, Refused, Thrown, Result, Statuses, Dir, RootDir, WorkerDir

\* A job on a worker belongs to a batch, and batches are numbered from 1.
LEMMA ThisJobIsSome ==
    ASSUME TypeOK, BatchShape, BatchNumbered, NEW i \in Indices, task[i] # "none"
    PROVE  ThisJob(i) # NoFile
<1>1. i \in Nat /\ i < size
  BY BoundsAssumption DEF TypeOK, BatchShape, Indices
<1>2. batch > 0
  BY <1>1 DEF TypeOK, BatchNumbered
<1> QED
  BY <1>2 DEF ThisJob, NoFile, TypeOK

\* What extraction makes of a job on a worker is a result that names the job's directory.
LEMMA ExtractedType ==
    ASSUME TypeOK, NEW i \in Indices, lease[i] \in Workers, NEW m \in {"ok", "failed"}
    PROVE  Extracted(i, m) \in Result
<1>1. caseFile[lease[i]][i] \in Job
  BY DEF TypeOK
<1>2. CaseDir(lease[i]) \in Dir
  BY DEF CaseDir, Dir
<1>3. outcome[i] \in Statuses
  BY DEF TypeOK
<1> DEFINE f == IF m = "ok" THEN caseFile[lease[i]][i] ELSE NoFile
<1>4. f \in Job
  BY <1>1, NoFileType
<1>5. Extracted(i, m) = [status |-> outcome[i], dir |-> CaseDir(lease[i]),
                         metrics |-> m, source |-> f]
  BY DEF Extracted
<1> HIDE DEF f
<1> QED
  BY <1>2, <1>3, <1>4, <1>5 DEF Result

\* A refused job is told apart from one that ran: its result names the root directory.
LEMMA RefusedIsRefused ==
    /\ \A i \in Indices : lease[i] \in Workers =>
          Thrown(i) # Refused /\ \A m \in {"ok", "failed"} : Extracted(i, m) # Refused
    /\ Refused.status = "exception"
<1>1. \A w \in Workers : WorkerDir(w).at = "worker" /\ CaseDir(w).at = "case"
  BY DEF WorkerDir, CaseDir
<1>2. Refused.dir.at = "root" /\ Refused.status = "exception"
  BY DEF Refused, RootDir
<1>3. ASSUME NEW i \in Indices, lease[i] \in Workers
      PROVE  /\ Thrown(i).dir.at = "worker"
             /\ \A m \in {"ok", "failed"} : Extracted(i, m).dir.at = "case"
  BY <1>1, <1>3 DEF Thrown, Extracted
<1> QED
  BY <1>2, <1>3

-------------------------------------------------------------------------------
(* The invariant holds initially.                                          *)

LEMMA InitInv == Init => Inv
<1> SUFFICES ASSUME Init PROVE Inv
  OBVIOUS
<1>1. TypeOK
  <2>1. /\ result \in [Indices -> Result]
        /\ workFile \in [Workers -> Job]
        /\ caseFile \in [Workers -> [Indices -> Job]]
    BY NoFileType, HandlerResults DEF Init
  <2>2. /\ task \in [Indices -> TaskStates]
        /\ lease \in [Indices -> Workers \cup {NoWorker}]
        /\ outcome \in [Indices -> Statuses]
    BY DEF Init, TaskStates, Statuses
  <2>3. batch \in 0..MaxBatches /\ size \in 0..MaxJobs
    BY BoundsAssumption DEF Init
  <2>4. /\ intoJobDir \in BOOLEAN /\ started \in BOOLEAN /\ stopping \in BOOLEAN
        /\ up \subseteq Workers /\ idle \subseteq Workers
        /\ missed \subseteq Indices
        /\ held \subseteq [worker : Workers, index : Indices, file : Job]
    BY DEF Init
  <2> QED
    BY <2>1, <2>2, <2>3, <2>4 DEF TypeOK
<1>2. LeaseExclusive /\ BatchShape /\ BatchNumbered /\ ArtifactsFollow /\ ResultsFollow
  BY DEF Init, Indices, LeaseExclusive, BatchShape, BatchNumbered, ArtifactsFollow, ResultsFollow,
         BatchArtifactsIntact, SuccessMetricsAreOwn, Succeeded, OnWorker
<1>3. FilesNumbered
  BY DEF Init, FilesNumbered, NoFile
<1> QED
  BY <1>1, <1>2, <1>3 DEF Inv

-------------------------------------------------------------------------------
(* Every step preserves it.  Lifecycle first: jobs and files are untouched. *)

jobVars == <<idle, batch, size, task, lease, outcome, result, workFile, caseFile, missed,
             intoJobDir>>

\* The parts of the invariant that only speak of jobs and files survive any step that
\* leaves those alone.
LEMMA JobsUntouched ==
    ASSUME LeaseExclusive, BatchShape, BatchNumbered, FilesNumbered, ArtifactsFollow,
           ResultsFollow, UNCHANGED jobVars
    PROVE  /\ LeaseExclusive' /\ BatchShape' /\ BatchNumbered' /\ FilesNumbered'
           /\ ArtifactsFollow' /\ ResultsFollow'
<1>1. LeaseExclusive' /\ BatchShape' /\ BatchNumbered'
  BY DEF jobVars, LeaseExclusive, BatchShape, BatchNumbered
<1>2. FilesNumbered'
  BY DEF jobVars, FilesNumbered, Older
<1>3. ArtifactsFollow'
  BY DEF jobVars, ArtifactsFollow, ThisJob, OwnOrLeft, Older
<1>4. ResultsFollow'
  BY DEF jobVars, ResultsFollow, BatchArtifactsIntact, SuccessMetricsAreOwn, Succeeded,
         ThisJob, OwnOrLeft, Older
<1> QED
  BY <1>1, <1>2, <1>3, <1>4

LEMMA LifecycleInv ==
    ASSUME Inv,
           StartAll \/ Shutdown \/ ShutdownReturns \/ \E w \in Workers : StopWorker(w)
    PROVE  Inv'
<1>1. UNCHANGED jobVars /\ UNCHANGED held
  BY DEF StartAll, Shutdown, ShutdownReturns, StopWorker, jobVars
<1>2. started' \in BOOLEAN /\ stopping' \in BOOLEAN /\ up' \subseteq Workers
  BY DEF StartAll, Shutdown, ShutdownReturns, StopWorker, Inv, TypeOK
<1>3. TypeOK'
  BY <1>1, <1>2 DEF Inv, TypeOK, jobVars
<1> QED
  BY <1>1, <1>3, JobsUntouched DEF Inv

-------------------------------------------------------------------------------
(* The batch as a whole.                                                   *)

LEMMA RunBatchInv ==
    ASSUME Inv, RunBatch
    PROVE  Inv'
<1>1. PICK n \in 1..MaxJobs :
         size' = n /\ task' = [i \in Indices |-> IF i < n THEN "queued" ELSE "none"]
  BY DEF RunBatch
<1>2. /\ lease' = [i \in Indices |-> NoWorker]
      /\ outcome' = [i \in Indices |-> "none"]
      /\ result' = [i \in Indices |-> NoResult]
      /\ missed' = {}
      /\ UNCHANGED <<intoJobDir, started, stopping, up, idle, workFile, caseFile, held>>
  BY DEF RunBatch, NoJobs
<1>3. TypeOK'
  <2>1. batch' \in 0..MaxBatches /\ size' \in 0..MaxJobs
    BY <1>1, BoundsAssumption DEF RunBatch, Inv, TypeOK
  <2>2. task' \in [Indices -> TaskStates]
    BY <1>1 DEF TaskStates
  <2>3. /\ lease' \in [Indices -> Workers \cup {NoWorker}]
        /\ outcome' \in [Indices -> Statuses]
        /\ result' \in [Indices -> Result]
    BY <1>2, HandlerResults DEF Statuses
  <2> QED
    BY <1>2, <2>1, <2>2, <2>3 DEF Inv, TypeOK
<1>4. LeaseExclusive' /\ ArtifactsFollow' /\ ResultsFollow'
  BY <1>1 DEF LeaseExclusive, ArtifactsFollow, ResultsFollow, BatchArtifactsIntact,
              SuccessMetricsAreOwn, Succeeded, OnWorker
<1>5. BatchShape' /\ BatchNumbered'
  BY <1>1, <1>2 DEF RunBatch, BatchShape, BatchNumbered, Indices, Inv, TypeOK
<1>6. FilesNumbered'
  \* All that is there is of an earlier batch.
  <2>1. batch' = batch + 1 /\ batch \in Nat
    BY DEF RunBatch, Inv, TypeOK
  <2>2. /\ \A w \in Workers : workFile[w][1] \in Nat
        /\ \A w \in Workers, i \in Indices : caseFile[w][i][1] \in Nat
    BY DEF Inv, TypeOK, Job
  <2>3. /\ \A w \in Workers : workFile[w][1] <= batch
        /\ \A w \in Workers, i \in Indices : caseFile[w][i][1] <= batch
    BY DEF Inv, FilesNumbered
  <2> QED
    BY <1>2, <2>1, <2>2, <2>3 DEF FilesNumbered, Older
<1> QED
  BY <1>3, <1>4, <1>5, <1>6 DEF Inv

LEMMA BatchReturnsInv ==
    ASSUME Inv, BatchReturns
    PROVE  Inv'
<1>1. /\ size' = 0 /\ task' = [i \in Indices |-> "none"]
      /\ lease' = [i \in Indices |-> NoWorker]
      /\ outcome' = [i \in Indices |-> "none"]
      /\ result' = [i \in Indices |-> NoResult]
      /\ missed' = {}
      /\ UNCHANGED <<intoJobDir, started, stopping, up, idle, batch, workFile, caseFile>>
  BY DEF BatchReturns, NoJobs
<1>2. held' \subseteq [worker : Workers, index : Indices, file : Job]
  <2>1. ASSUME NEW i \in InBatch, result[i].status = "success"
        PROVE  [worker |-> lease[i], index |-> i, file |-> caseFile[lease[i]][i]]
                  \in [worker : Workers, index : Indices, file : Job]
    <3>1. i \in Indices
      BY BoundsAssumption DEF InBatch, Indices, Inv, TypeOK
    <3>2. lease[i] # NoWorker
      BY <2>1, <3>1, RefusedIsRefused DEF BatchReturns, Inv, BatchShape
    <3>3. lease[i] \in Workers
      BY <3>1, <3>2 DEF Inv, TypeOK
    <3> QED
      BY <3>1, <3>3 DEF Inv, TypeOK
  <2> QED
    BY <2>1 DEF BatchReturns, Inv, TypeOK
<1>3. TypeOK'
  <2>1. size' \in 0..MaxJobs
    BY <1>1, BoundsAssumption
  <2>2. /\ task' \in [Indices -> TaskStates]
        /\ lease' \in [Indices -> Workers \cup {NoWorker}]
        /\ outcome' \in [Indices -> Statuses]
        /\ result' \in [Indices -> Result]
    BY <1>1, HandlerResults DEF Statuses, TaskStates
  <2> QED
    BY <1>1, <1>2, <2>1, <2>2 DEF Inv, TypeOK
<1>4. LeaseExclusive' /\ ArtifactsFollow' /\ ResultsFollow'
  BY <1>1 DEF LeaseExclusive, ArtifactsFollow, ResultsFollow, BatchArtifactsIntact,
              SuccessMetricsAreOwn, Succeeded, OnWorker
<1>5. BatchShape' /\ BatchNumbered'
  BY <1>1 DEF BatchShape, BatchNumbered, Indices
<1>6. FilesNumbered'
  BY <1>1 DEF Inv, FilesNumbered
<1> QED
  BY <1>3, <1>4, <1>5, <1>6 DEF Inv

-------------------------------------------------------------------------------
(* One job.                                                                *)

LEMMA LeaseInv ==
    ASSUME Inv, NEW i \in Indices, NEW w \in Workers, Lease(i, w)
    PROVE  Inv'
<1>1. /\ task' = [task EXCEPT ![i] = "running"] /\ lease' = [lease EXCEPT ![i] = w]
      /\ idle' = idle \ {w} /\ w \in idle /\ task[i] = "queued"
      /\ UNCHANGED <<intoJobDir, started, stopping, up, batch, size, outcome, result,
                     workFile, caseFile, missed, held>>
  BY DEF Lease
<1>2. TypeOK'
  <2>1. task' \in [Indices -> TaskStates] /\ lease' \in [Indices -> Workers \cup {NoWorker}]
    BY <1>1 DEF Inv, TypeOK, TaskStates
  <2>2. idle' \subseteq Workers
    BY <1>1 DEF Inv, TypeOK
  <2> QED
    BY <1>1, <2>1, <2>2 DEF Inv, TypeOK
<1>3. LeaseExclusive'
  BY <1>1 DEF Inv, TypeOK, LeaseExclusive, OnWorker
<1>4. BatchShape' /\ BatchNumbered'
  BY <1>1 DEF Inv, TypeOK, BatchShape, BatchNumbered
<1>5. ArtifactsFollow' /\ ResultsFollow'
  BY <1>1 DEF Inv, TypeOK, ArtifactsFollow, ResultsFollow, BatchArtifactsIntact,
              SuccessMetricsAreOwn, Succeeded, ThisJob, OwnOrLeft, Older
<1>6. FilesNumbered'
  \* The job had no worker yet, so what is in its directories is older.
  BY <1>1, WorkersAssumption DEF Inv, TypeOK, FilesNumbered, BatchShape, Older
<1> QED
  BY <1>2, <1>3, <1>4, <1>5, <1>6 DEF Inv

LEMMA RefuseInv ==
    ASSUME Inv, NEW i \in Indices, Refuse(i)
    PROVE  Inv'
<1>1. /\ task' = [task EXCEPT ![i] = "done"] /\ result' = [result EXCEPT ![i] = Refused]
      /\ task[i] = "queued"
      /\ UNCHANGED <<intoJobDir, started, stopping, up, idle, batch, size, lease, outcome,
                     workFile, caseFile, missed, held>>
  BY DEF Refuse
<1>2. TypeOK'
  <2>1. task' \in [Indices -> TaskStates]
    BY <1>1 DEF Inv, TypeOK, TaskStates
  <2>2. result' \in [Indices -> Result]
    BY <1>1, HandlerResults DEF Inv, TypeOK
  <2> QED
    BY <1>1, <2>1, <2>2 DEF Inv, TypeOK
<1>3. LeaseExclusive'
  BY <1>1 DEF Inv, TypeOK, LeaseExclusive, OnWorker
<1>4. BatchShape' /\ BatchNumbered'
  BY <1>1 DEF Inv, TypeOK, BatchShape, BatchNumbered
<1>5. ArtifactsFollow' /\ ResultsFollow'
  BY <1>1, RefusedIsRefused
     DEF Inv, TypeOK, ArtifactsFollow, ResultsFollow, BatchArtifactsIntact,
         SuccessMetricsAreOwn, Succeeded, ThisJob, OwnOrLeft, Older
<1>6. FilesNumbered'
  BY <1>1 DEF Inv, TypeOK, FilesNumbered, Older
<1> QED
  BY <1>2, <1>3, <1>4, <1>5, <1>6 DEF Inv

\* A job that ends on its worker with a result that is either no success or the account
\* of what it found in its directory.
LEMMA FinishInv ==
    ASSUME Inv, NEW i \in Indices, task[i] \in OnWorker,
           NEW r \in Result, r # Refused, Finish(i, r),
           UNCHANGED <<intoJobDir, started, stopping, up, batch, size, lease, outcome,
                       workFile, caseFile, missed, held>>,
           r.status = "success" =>
               /\ r.dir = CaseDir(lease[i]) /\ OwnOrLeft(i, caseFile[lease[i]][i])
               /\ r.metrics = "ok" => OwnOrLeft(i, r.source)
    PROVE  Inv'
<1>1. /\ task' = [task EXCEPT ![i] = "done"] /\ result' = [result EXCEPT ![i] = r]
      /\ idle' = idle \cup {lease[i]}
  BY DEF Finish
<1>2. lease[i] \in Workers /\ lease[i] # NoWorker
  BY WorkersAssumption DEF Inv, LeaseExclusive
<1>3. TypeOK'
  <2>1. task' \in [Indices -> TaskStates] /\ result' \in [Indices -> Result]
    BY <1>1 DEF Inv, TypeOK, TaskStates
  <2>2. idle' \subseteq Workers
    BY <1>1, <1>2 DEF Inv, TypeOK
  <2> QED
    BY <2>1, <2>2 DEF Inv, TypeOK
<1>4. LeaseExclusive'
  BY <1>1, <1>2 DEF Inv, TypeOK, LeaseExclusive, OnWorker
<1>5. BatchShape' /\ BatchNumbered'
  BY <1>1, <1>2 DEF Inv, TypeOK, BatchShape, BatchNumbered, OnWorker
<1>6. ArtifactsFollow' /\ ResultsFollow'
  BY <1>1 DEF Inv, TypeOK, ArtifactsFollow, ResultsFollow, BatchArtifactsIntact,
              SuccessMetricsAreOwn, Succeeded, ThisJob, CaseDir, OwnOrLeft, Older
<1>7. FilesNumbered'
  BY <1>1 DEF Inv, TypeOK, FilesNumbered, Older
<1> QED
  BY <1>3, <1>4, <1>5, <1>6, <1>7 DEF Inv

LEMMA ThrowInv ==
    ASSUME Inv, NEW i \in Indices, SessionThrows(i) \/ ExtractThrows(i)
    PROVE  Inv'
<1>1. /\ task[i] \in OnWorker /\ Finish(i, Thrown(i))
      /\ UNCHANGED <<intoJobDir, started, stopping, up, batch, size, lease, outcome,
                     workFile, caseFile, missed, held>>
  BY DEF SessionThrows, ExtractThrows, OnWorker
<1>2. lease[i] \in Workers
  BY <1>1 DEF Inv, LeaseExclusive
<1>3. Thrown(i) \in Result /\ Thrown(i) # Refused /\ Thrown(i).status # "success"
  BY <1>2, HandlerResults, RefusedIsRefused DEF Thrown
<1> QED
  BY <1>1, <1>3, FinishInv

LEMMA ExtractInv ==
    ASSUME Inv, NEW i \in Indices, Extract(i)
    PROVE  Inv'
<1>1. /\ task[i] = "extracting" /\ task[i] \in OnWorker
      /\ UNCHANGED <<intoJobDir, started, stopping, up, batch, size, lease, outcome,
                     workFile, caseFile, missed, held>>
  BY DEF Extract, OnWorker
<1>2. PICK m \in {"ok", "failed"} : Finish(i, Extracted(i, m))
  BY DEF Extract
<1>3. lease[i] \in Workers
  BY <1>1 DEF Inv, LeaseExclusive
<1>4. Extracted(i, m) \in Result /\ Extracted(i, m) # Refused
  BY <1>3, ExtractedType, RefusedIsRefused DEF Inv
<1>5. Extracted(i, m).status = "success" =>
         /\ Extracted(i, m).dir = CaseDir(lease[i])
         /\ OwnOrLeft(i, caseFile[lease[i]][i])
         /\ Extracted(i, m).metrics = "ok" => OwnOrLeft(i, Extracted(i, m).source)
  BY <1>1 DEF Extracted, Inv, ArtifactsFollow
<1> HIDE DEF Extracted
<1> QED
  BY <1>1, <1>2, <1>4, <1>5, FinishInv

LEMMA SessionRunsInv ==
    ASSUME Inv, NEW i \in Indices, SessionRuns(i)
    PROVE  Inv'
<1> DEFINE w == lease[i]
           next == IF intoJobDir THEN "extracting" ELSE "ran"
<1>1. PICK s \in {"success", "failed"} :
         /\ outcome' = [outcome EXCEPT ![i] = s]
         /\ \/ WriteArtifacts(i) /\ UNCHANGED missed
            \/ UNCHANGED <<workFile, caseFile>> /\ missed' = missed \cup {i} /\ intoJobDir
            \/ UNCHANGED <<workFile, caseFile, missed>> /\ s = "failed"
  BY DEF SessionRuns, Runs
<1>2. /\ task[i] = "running" /\ task' = [task EXCEPT ![i] = next]
      /\ UNCHANGED <<intoJobDir, started, stopping, up, idle, batch, size, lease, result,
                     held>>
  BY DEF SessionRuns
<1>3. w \in Workers
  BY <1>2 DEF Inv, LeaseExclusive, OnWorker
<1>4. /\ workFile' \in [Workers -> Job] /\ caseFile' \in [Workers -> [Indices -> Job]]
      \* Only what belongs to this job or to its worker's own directory changes.
      /\ \A v \in Workers : v # w => workFile'[v] = workFile[v]
      /\ \A v \in Workers, j \in Indices :
            v # w \/ j # i => caseFile'[v][j] = caseFile[v][j]
      /\ workFile'[w] \in {workFile[w], ThisJob(i)}
      /\ caseFile'[w][i] \in {caseFile[w][i], ThisJob(i)}
      /\ ~intoJobDir => UNCHANGED caseFile
      /\ missed \subseteq missed' /\ missed' \subseteq missed \cup {i}
      /\ s = "success" => IF intoJobDir
                          THEN \/ caseFile'[w][i] = ThisJob(i)
                               \/ i \in missed' /\ caseFile'[w][i] = caseFile[w][i]
                          ELSE workFile'[w] = ThisJob(i)
  <2>1. ThisJob(i) \in Job
    BY ThisJobType DEF Inv, TypeOK
  <2>2. workFile \in [Workers -> Job] /\ caseFile \in [Workers -> [Indices -> Job]]
    BY DEF Inv, TypeOK
  <2>3. CASE UNCHANGED <<workFile, caseFile>> /\ missed' = missed \cup {i} /\ intoJobDir
    BY <2>2, <2>3
  <2>4. CASE UNCHANGED <<workFile, caseFile, missed>> /\ s = "failed"
    BY <2>2, <2>4
  <2>5. CASE WriteArtifacts(i) /\ UNCHANGED missed /\ intoJobDir
    BY <1>3, <2>1, <2>2, <2>5 DEF WriteArtifacts
  <2>6. CASE WriteArtifacts(i) /\ UNCHANGED missed /\ ~intoJobDir
    BY <1>3, <2>1, <2>2, <2>6 DEF WriteArtifacts
  <2> QED
    BY <1>1, <2>3, <2>4, <2>5, <2>6
<1>5. TypeOK'
  <2>1. task' \in [Indices -> TaskStates]
    BY <1>2 DEF Inv, TypeOK, TaskStates
  <2>2. outcome' \in [Indices -> Statuses]
    BY <1>1 DEF Inv, TypeOK, Statuses
  <2>3. missed' \subseteq Indices
    BY <1>4 DEF Inv, TypeOK
  <2> QED
    BY <1>2, <1>4, <2>1, <2>2, <2>3 DEF Inv, TypeOK
<1>6. LeaseExclusive'
  BY <1>2 DEF Inv, TypeOK, LeaseExclusive, OnWorker
<1>7. BatchShape' /\ BatchNumbered'
  BY <1>2 DEF Inv, TypeOK, BatchShape, BatchNumbered
<1>8. \A j \in Indices : j # i /\ task[j] \in OnWorker => lease[j] # w
  BY <1>2 DEF Inv, LeaseExclusive, OnWorker
<1>9. /\ ThisJob(i)[1] = batch /\ batch \in Nat
      /\ \A j \in Indices : ThisJob(j)' = ThisJob(j)
      /\ \A f : Older(f)' <=> Older(f)
  BY <1>2 DEF ThisJob, Older, Inv, TypeOK
\* The job had not returned, so what was in its directory is older.
<1>10. Older(caseFile[w][i])
  <2>1. size > 0
    BY <1>2, BoundsAssumption DEF Inv, BatchShape, Indices, TypeOK
  <2> QED
    BY <1>2, <1>3, <2>1 DEF Inv, FilesNumbered
<1>11. FilesNumbered'
  <2>1. \A v \in Workers : workFile'[v][1] <= batch
    BY <1>3, <1>4, <1>9 DEF Inv, FilesNumbered
  <2>2. ASSUME NEW v \in Workers, NEW j \in Indices
        PROVE  /\ caseFile'[v][j][1] <= batch
               /\ size > 0 => \/ Older(caseFile'[v][j])
                              \/ lease[j] = v /\ task'[j] \in {"extracting", "done"}
    <3>1. CASE v # w \/ j # i
      BY <1>2, <1>4, <2>2, <3>1 DEF Inv, TypeOK, FilesNumbered
    <3>2. CASE v = w /\ j = i /\ intoJobDir
      BY <1>2, <1>4, <1>9, <2>2, <3>2 DEF Inv, TypeOK, FilesNumbered
    <3>3. CASE v = w /\ j = i /\ ~intoJobDir
      BY <1>4, <1>10, <2>2, <3>3 DEF Inv, FilesNumbered
    <3> QED
      BY <3>1, <3>2, <3>3
  <2> QED
    BY <1>2, <1>9, <2>1, <2>2 DEF FilesNumbered
<1>12. ArtifactsFollow'
  <2> SUFFICES ASSUME NEW j \in Indices
      PROVE  /\ task'[j] = "ran" => ~intoJobDir'
             /\ task'[j] = "ran" /\ outcome'[j] = "success" =>
                   workFile'[lease'[j]] = ThisJob(j)'
             /\ task'[j] = "extracting" /\ outcome'[j] = "success" =>
                   OwnOrLeft(j, caseFile[lease[j]][j])'
    BY DEF ArtifactsFollow
  <2>1. CASE j = i
    BY <1>1, <1>2, <1>4, <1>9, <1>10, <2>1 DEF Inv, TypeOK, OwnOrLeft
  <2>2. CASE j # i
    <3>1. task'[j] = task[j] /\ outcome'[j] = outcome[j] /\ lease'[j] = lease[j]
      BY <1>1, <1>2, <2>2 DEF Inv, TypeOK
    <3>2. task[j] \in OnWorker => lease[j] \in Workers /\ lease[j] # w
      BY <1>8, <2>2 DEF Inv, LeaseExclusive
    <3> QED
      BY <1>2, <1>4, <1>9, <2>2, <3>1, <3>2 DEF Inv, ArtifactsFollow, OnWorker, OwnOrLeft
  <2> QED
    BY <2>1, <2>2
<1>13. ResultsFollow'
  <2> SUFFICES ASSUME NEW j \in Indices, Succeeded(j)'
      PROVE  /\ result'[j].dir = CaseDir(lease[j])
             /\ OwnOrLeft(j, caseFile[lease[j]][j])'
             /\ result'[j].metrics = "ok" => OwnOrLeft(j, result[j].source)'
    BY <1>2 DEF ResultsFollow, BatchArtifactsIntact, SuccessMetricsAreOwn, CaseDir
  <2>1. j # i /\ Succeeded(j)
    BY <1>2 DEF Inv, TypeOK, Succeeded
  <2>2. lease[j] # NoWorker /\ lease[j] \in Workers
    BY <2>1, RefusedIsRefused DEF Inv, TypeOK, BatchShape, Succeeded
  <2>3. caseFile'[lease[j]][j] = caseFile[lease[j]][j]
    BY <1>4, <2>1, <2>2
  <2> QED
    BY <1>2, <1>4, <1>9, <2>1, <2>3
       DEF Inv, ResultsFollow, BatchArtifactsIntact, SuccessMetricsAreOwn, OwnOrLeft
<1> QED
  BY <1>5, <1>6, <1>7, <1>11, <1>12, <1>13 DEF Inv

LEMMA SnapshotInv ==
    ASSUME Inv, NEW i \in Indices, Snapshot(i)
    PROVE  Inv'
<1> DEFINE w == lease[i]
<1>1. /\ task[i] = "ran" /\ task' = [task EXCEPT ![i] = "extracting"]
      /\ \/ caseFile' = Copied(i) /\ UNCHANGED missed
         \/ caseFile' \in {caseFile, Copied(i)} /\ missed' = missed \cup {i}
      /\ UNCHANGED <<intoJobDir, started, stopping, up, idle, batch, size, lease, outcome,
                     result, workFile, held>>
  BY DEF Snapshot
<1>2. w \in Workers
  BY <1>1 DEF Inv, LeaseExclusive, OnWorker
<1>3. ThisJob(i) # NoFile
  BY <1>1, ThisJobIsSome DEF Inv
<1>4. /\ Older(caseFile[w][i])
      /\ outcome[i] = "success" => workFile[w] = ThisJob(i)
  <2>1. size > 0
    BY <1>1, BoundsAssumption DEF Inv, BatchShape, Indices, TypeOK
  <2> QED
    BY <1>1, <1>2, <2>1 DEF Inv, FilesNumbered, ArtifactsFollow
<1>5. /\ caseFile' \in [Workers -> [Indices -> Job]]
      /\ \A v \in Workers, j \in Indices :
            v # w \/ j # i => caseFile'[v][j] = caseFile[v][j]
      /\ caseFile'[w][i] \in {caseFile[w][i], workFile[w]}
      /\ missed \subseteq missed' /\ missed' \subseteq missed \cup {i}
      /\ outcome[i] = "success" =>
            caseFile'[w][i] = ThisJob(i) \/ (i \in missed' /\ Older(caseFile'[w][i]))
  <2>1. workFile[w] \in Job /\ caseFile \in [Workers -> [Indices -> Job]]
    BY <1>2 DEF Inv, TypeOK
  <2>2. CASE caseFile' = Copied(i)
    BY <1>1, <1>2, <1>3, <1>4, <2>1, <2>2 DEF Copied
  <2>3. CASE caseFile' = caseFile /\ missed' = missed \cup {i}
    BY <1>4, <2>1, <2>3
  <2> QED
    BY <1>1, <2>2, <2>3
<1>6. TypeOK'
  <2>1. task' \in [Indices -> TaskStates]
    BY <1>1 DEF Inv, TypeOK, TaskStates
  <2>2. missed' \subseteq Indices
    BY <1>5 DEF Inv, TypeOK
  <2> QED
    BY <1>1, <1>5, <2>1, <2>2 DEF Inv, TypeOK
<1>7. LeaseExclusive'
  BY <1>1 DEF Inv, TypeOK, LeaseExclusive, OnWorker
<1>8. BatchShape' /\ BatchNumbered'
  BY <1>1 DEF Inv, TypeOK, BatchShape, BatchNumbered
<1>9. /\ \A j \in Indices : ThisJob(j)' = ThisJob(j)
      /\ \A f : Older(f)' <=> Older(f)
  BY <1>1 DEF ThisJob, Older
<1>10. FilesNumbered'
  <2>1. ASSUME NEW v \in Workers, NEW j \in Indices
        PROVE  /\ caseFile'[v][j][1] <= batch
               /\ size > 0 => \/ Older(caseFile'[v][j])
                              \/ lease[j] = v /\ task'[j] \in {"extracting", "done"}
    <3>1. CASE v # w \/ j # i
      BY <1>1, <1>5, <2>1, <3>1 DEF Inv, TypeOK, FilesNumbered
    <3>2. CASE v = w /\ j = i
      BY <1>1, <1>2, <1>5, <2>1, <3>2 DEF Inv, TypeOK, FilesNumbered
    <3> QED
      BY <3>1, <3>2
  <2>2. \A v \in Workers : workFile'[v][1] <= batch'
    BY <1>1 DEF Inv, FilesNumbered
  <2> QED
    BY <1>1, <1>9, <2>1, <2>2 DEF FilesNumbered
<1>11. ArtifactsFollow'
  <2> SUFFICES ASSUME NEW j \in Indices
      PROVE  /\ task'[j] = "ran" => ~intoJobDir'
             /\ task'[j] = "ran" /\ outcome'[j] = "success" =>
                   workFile'[lease'[j]] = ThisJob(j)'
             /\ task'[j] = "extracting" /\ outcome'[j] = "success" =>
                   OwnOrLeft(j, caseFile[lease[j]][j])'
    BY DEF ArtifactsFollow
  <2>1. CASE j = i
    BY <1>1, <1>5, <1>9, <2>1 DEF Inv, TypeOK, OwnOrLeft
  <2>2. CASE j # i
    <3>1. task'[j] = task[j]
      BY <1>1, <2>2 DEF Inv, TypeOK
    <3>2. task[j] \in OnWorker => lease[j] \in Workers
      BY DEF Inv, LeaseExclusive
    <3> QED
      BY <1>1, <1>5, <1>9, <2>2, <3>1, <3>2 DEF Inv, ArtifactsFollow, OnWorker, OwnOrLeft
  <2> QED
    BY <2>1, <2>2
<1>12. ResultsFollow'
  <2> SUFFICES ASSUME NEW j \in Indices, Succeeded(j)'
      PROVE  /\ result'[j].dir = CaseDir(lease[j])
             /\ OwnOrLeft(j, caseFile[lease[j]][j])'
             /\ result'[j].metrics = "ok" => OwnOrLeft(j, result[j].source)'
    BY <1>1 DEF ResultsFollow, BatchArtifactsIntact, SuccessMetricsAreOwn, CaseDir
  <2>1. j # i /\ Succeeded(j)
    BY <1>1 DEF Inv, TypeOK, Succeeded
  <2>2. lease[j] # NoWorker /\ lease[j] \in Workers
    BY <2>1, RefusedIsRefused DEF Inv, TypeOK, BatchShape, Succeeded
  <2>3. caseFile'[lease[j]][j] = caseFile[lease[j]][j]
    BY <1>5, <2>1, <2>2
  <2> QED
    BY <1>1, <1>5, <1>9, <2>1, <2>3
       DEF Inv, ResultsFollow, BatchArtifactsIntact, SuccessMetricsAreOwn, OwnOrLeft
<1> QED
  BY <1>6, <1>7, <1>8, <1>10, <1>11, <1>12 DEF Inv

-------------------------------------------------------------------------------
(* The theorems.                                                           *)

LEMMA NextInv == Inv /\ [Next]_vars => Inv'
<1> SUFFICES ASSUME Inv, [Next]_vars PROVE Inv'
  OBVIOUS
<1>1. CASE UNCHANGED vars
  <2>1. UNCHANGED jobVars /\ TypeOK'
    BY <1>1 DEF vars, jobVars, Inv, TypeOK
  <2> QED
    BY <2>1, JobsUntouched DEF Inv
<1>2. CASE StartAll \/ Shutdown \/ ShutdownReturns \/ \E w \in Workers : StopWorker(w)
  BY <1>2, LifecycleInv
<1>3. CASE RunBatch
  BY <1>3, RunBatchInv
<1>4. CASE BatchReturns
  BY <1>4, BatchReturnsInv
<1>5. ASSUME NEW i \in Indices, JobStep(i) PROVE Inv'
  BY <1>5, LeaseInv, RefuseInv, SessionRunsInv, ThrowInv, SnapshotInv, ExtractInv
     DEF JobStep
<1> QED
  BY <1>1, <1>2, <1>3, <1>4, <1>5 DEF Next

\* The inductive invariant holds in every reachable state.
THEOREM InvHolds == Spec => []Inv
<1> QED
  BY InitInv, NextInv, PTL DEF Spec

\* Type correctness: whatever happens, every result names a directory of the workspace
\* and of a worker that exists.
THEOREM TypeCorrect == Spec => []TypeOK
<1>1. Inv => TypeOK
  BY DEF Inv
<1> QED
  BY <1>1, InvHolds, PTL

\* A worker, with its session and its directory, serves one job at a time.
THEOREM LeasesExclusive == Spec => []LeaseExclusive
<1>1. Inv => LeaseExclusive
  BY DEF Inv
<1> QED
  BY <1>1, InvHolds, PTL

\* For any number of workers and jobs, the directory of a success holds its own artifacts
\* as long as the batch lasts, or, if they did not get there, what an earlier batch left;
\* another job of the batch never overwrites it.
THEOREM ArtifactsIntact == Spec => []BatchArtifactsIntact
<1>1. Inv => BatchArtifactsIntact
  BY DEF Inv, ResultsFollow
<1> QED
  BY <1>1, InvHolds, PTL

\* The metrics of a success, if it has any, are those of its own simulation, or, if its
\* artifacts did not get into its directory, of an earlier batch's.
THEOREM MetricsOfSuccessOwn == Spec => []SuccessMetricsAreOwn
<1>1. Inv => SuccessMetricsAreOwn
  BY DEF Inv, ResultsFollow
<1> QED
  BY <1>1, InvHolds, PTL

-------------------------------------------------------------------------------
(* The pool implements BatchService.                                       *)

slots == [i \in Indices |-> SlotOf(i)]

\* A step that moves one task moves one slot.
LEMMA OneSlot ==
    ASSUME Inv, NEW i \in Indices, NEW t \in TaskStates, NEW new,
           task' = [task EXCEPT ![i] = t],
           \A j \in Indices : j # i => lease'[j] = lease[j],
           new = SlotOf(i)'
    PROVE  slots' = [slots EXCEPT ![i] = new]
<1>1. \A j \in Indices : j # i => SlotOf(j)' = SlotOf(j)
  BY DEF SlotOf, Inv, TypeOK
<1> QED
  BY <1>1 DEF slots

LEMMA JobStepRefines ==
    ASSUME Inv, NEW i \in Indices, JobStep(i)
    PROVE  [Service!SNext]_(Service!svars)
<1>0. UNCHANGED size /\ UNCHANGED started
  BY DEF JobStep, Lease, Refuse, SessionRuns, SessionThrows, Snapshot, Extract,
         ExtractThrows
<1>1. CASE \E w \in Workers : Lease(i, w)
  <2>1. PICK w \in Workers : Lease(i, w)
    BY <1>1
  <2>2. SlotOf(i) = "waiting" /\ SlotOf(i)' = "taken"
    BY <2>1 DEF Lease, SlotOf, OnWorker, Inv, TypeOK
  <2>3. slots' = [slots EXCEPT ![i] = "taken"]
    BY <2>1, <2>2, OneSlot DEF Lease, TaskStates, Inv, TypeOK
  <2>4. Service!STake(i)
    BY <1>0, <2>1, <2>2, <2>3 DEF Service!STake, Lease, slots
  <2> QED
    BY <2>4 DEF Service!SNext, Service!Indices, Indices
<1>2. CASE Refuse(i)
  <2>1. lease[i] = NoWorker /\ task[i] = "queued"
    BY <1>2 DEF Refuse, Inv, BatchShape
  <2>2. SlotOf(i) = "waiting" /\ SlotOf(i)' = "refused"
    BY <1>2, <2>1 DEF Refuse, SlotOf, OnWorker, Inv, TypeOK
  <2>3. slots' = [slots EXCEPT ![i] = "refused"]
    BY <1>2, <2>2, OneSlot DEF Refuse, TaskStates
  <2>4. Service!SRefuse(i)
    BY <1>0, <2>2, <2>3 DEF Service!SRefuse, slots
  <2> QED
    BY <2>4 DEF Service!SNext, Service!Indices, Indices
<1>3. CASE SessionRuns(i) \/ Snapshot(i)
  \* Still on its worker: the service does not see it.
  <2>1. PICK t \in {"ran", "extracting"} : task' = [task EXCEPT ![i] = t]
    BY <1>3 DEF SessionRuns, Snapshot
  <2>2. UNCHANGED lease /\ task[i] \in OnWorker
    BY <1>3 DEF SessionRuns, Snapshot, OnWorker
  <2>3. SlotOf(i) = "taken" /\ SlotOf(i)' = "taken"
    BY <2>1, <2>2 DEF SlotOf, OnWorker, Inv, TypeOK
  <2>4. slots' = [slots EXCEPT ![i] = "taken"]
    BY <2>1, <2>2, <2>3, OneSlot DEF TaskStates
  <2>5. slots' = slots
    BY <2>3, <2>4 DEF slots
  <2> QED
    BY <1>0, <2>5 DEF Service!svars, slots
<1>4. CASE SessionThrows(i) \/ Extract(i) \/ ExtractThrows(i)
  <2>1. task[i] \in OnWorker /\ task' = [task EXCEPT ![i] = "done"] /\ UNCHANGED lease
    BY <1>4 DEF SessionThrows, Extract, ExtractThrows, Finish, OnWorker
  <2>2. lease[i] # NoWorker
    BY <2>1, WorkersAssumption DEF Inv, LeaseExclusive
  <2>3. SlotOf(i) = "taken" /\ SlotOf(i)' = "ran"
    BY <2>1, <2>2 DEF SlotOf, OnWorker, Inv, TypeOK
  <2>4. slots' = [slots EXCEPT ![i] = "ran"]
    BY <2>1, <2>3, OneSlot DEF TaskStates
  <2>5. Service!SAnswer(i)
    BY <1>0, <2>3, <2>4 DEF Service!SAnswer, slots
  <2> QED
    BY <2>5 DEF Service!SNext, Service!Indices, Indices
<1> QED
  BY <1>1, <1>2, <1>3, <1>4 DEF JobStep

LEMMA BatchStepRefines ==
    ASSUME Inv, RunBatch \/ BatchReturns
    PROVE  Service!SNext
<1>1. CASE RunBatch
  <2>1. PICK n \in 1..MaxJobs :
           size' = n /\ task' = [i \in Indices |-> IF i < n THEN "queued" ELSE "none"]
    BY <1>1 DEF RunBatch
  <2>2. \A i \in Indices : SlotOf(i)' = IF i < n THEN "waiting" ELSE "none"
    BY <2>1 DEF SlotOf, OnWorker
  <2>3. slots' = [i \in Indices |-> IF i < n THEN "waiting" ELSE "none"]
    BY <2>2 DEF slots
  <2>4. started /\ size = 0 /\ UNCHANGED started
    BY <1>1 DEF RunBatch
  <2>5. Service!SSubmit
    BY <2>1, <2>3, <2>4 DEF Service!SSubmit, Service!Indices, Indices, slots
  <2> QED
    BY <2>5 DEF Service!SNext
<1>2. CASE BatchReturns
  <2>1. \A i \in Indices : SlotOf(i)' = "none"
    BY <1>2 DEF BatchReturns, SlotOf, OnWorker
  <2>2. slots' = [i \in Indices |-> "none"]
    BY <2>1 DEF slots
  <2>3. \A i \in 0..(size - 1) : i \in Indices /\ task[i] = "done"
    BY <1>2, BoundsAssumption DEF BatchReturns, InBatch, Indices, Inv, TypeOK
  <2>4. \A i \in 0..(size - 1) : slots[i] \in {"ran", "refused"}
    BY <2>3 DEF slots, SlotOf, OnWorker
  <2>5. size > 0 /\ size' = 0 /\ UNCHANGED started
    BY <1>2 DEF BatchReturns
  <2>6. Service!SReturn
    BY <2>2, <2>4, <2>5 DEF Service!SReturn, Service!Indices, Indices, slots
  <2> QED
    BY <2>6 DEF Service!SNext
<1> QED
  BY <1>1, <1>2

LEMMA LifecycleRefines ==
    ASSUME TypeOK,
           StartAll \/ Shutdown \/ ShutdownReturns \/ (\E w \in Workers : StopWorker(w))
    PROVE  [Service!SNext]_(Service!svars)
<1>1. UNCHANGED <<size, task, lease>>
  BY DEF StartAll, Shutdown, ShutdownReturns, StopWorker
<1>2. UNCHANGED slots
  BY <1>1 DEF slots, SlotOf
<1>3. CASE UNCHANGED started
  BY <1>1, <1>2, <1>3 DEF Service!svars, slots
<1>4. CASE StartAll /\ started' = TRUE
  <2>1. Service!SOpen
    BY <1>2, <1>4 DEF StartAll, Service!SOpen, slots
  <2> QED
    BY <2>1 DEF Service!SNext
<1>5. CASE Shutdown
  <2>1. Service!SClose
    BY <1>2, <1>5 DEF Shutdown, Service!SClose, slots
  <2> QED
    BY <2>1 DEF Service!SNext
<1>6. CASE StartAll /\ started' = FALSE
  <2>1. UNCHANGED started
    BY <1>6 DEF StartAll, TypeOK
  <2> QED
    BY <1>3, <2>1
<1>7. CASE StartAll
  BY <1>4, <1>6, <1>7 DEF StartAll
<1>8. CASE ShutdownReturns \/ \E w \in Workers : StopWorker(w)
  <2>1. UNCHANGED started
    BY <1>8 DEF ShutdownReturns, StopWorker
  <2> QED
    BY <1>3, <2>1
<1> QED
  BY <1>5, <1>7, <1>8

\* For any number of workers and jobs the pool does what BatchService promises.
THEOREM PoolImplementsService == Spec => ImplementsBatchService
<1>1. Init => Service!SInit
  <2> SUFFICES ASSUME Init PROVE Service!SInit
    OBVIOUS
  <2>1. \A i \in Indices : SlotOf(i) = "none"
    BY DEF Init, SlotOf, OnWorker
  <2>2. slots = [i \in Indices |-> "none"]
    BY <2>1 DEF slots
  <2> QED
    BY <2>2 DEF Init, Service!SInit, Service!Indices, Indices, slots
<1>2. Inv /\ [Next]_vars => [Service!SNext]_(Service!svars)
  <2> SUFFICES ASSUME Inv, [Next]_vars PROVE [Service!SNext]_(Service!svars)
    OBVIOUS
  <2>1. CASE UNCHANGED vars
    BY <2>1 DEF vars, Service!svars, SlotOf
  <2>2. CASE StartAll \/ Shutdown \/ ShutdownReturns \/ \E w \in Workers : StopWorker(w)
    BY <2>2, LifecycleRefines DEF Inv
  <2>3. CASE RunBatch \/ BatchReturns
    BY <2>3, BatchStepRefines
  <2>4. ASSUME NEW i \in Indices, JobStep(i)
        PROVE  [Service!SNext]_(Service!svars)
    BY <2>4, JobStepRefines
  <2> QED
    BY <2>1, <2>2, <2>3, <2>4 DEF Next
<1> QED
  BY <1>1, <1>2, InvHolds, PTL DEF Spec, ImplementsBatchService, Service!SSpec
===============================================================================
