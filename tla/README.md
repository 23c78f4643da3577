# SPICEUnion in TLA+

SPICEUnion runs batches of circuit simulations on a pool of simulator processes
and reads metrics out of the files they leave.  This directory holds a TLA+ model
of the parts of it where order, failure and time matter, the TLC runs that check
the model on small instances, and proofs, checked by TLAPS, that the main safety
properties hold for every value of the constants.

Everything is translated from `src/`.  `PROJECT.json` maps each definition to the
lines it stands for, and lists the components, runs, hazards, findings and
theorems in a form tools can read.

## The system

| Component | Source | State it keeps | Operations | Hard parts |
|---|---|---|---|---|
| Spectre session | `src/session/spectre_session.cpp` | child pid, two pipe descriptors, `active_`, recent output | `start`, `run`, `stop`, destructor | a live process that prints late, in pieces, or dies between any two steps; retries; SIGPIPE; zombies |
| Spectre protocol | `src/session/spectre_protocol.cpp` | none (a flag of the caller) | format a run command, classify an output line | verdicts found by substring |
| Simulator pool | `src/pool/simulator_pool.cpp` | workers with one session and one directory each | start all, evaluate a batch, shut down | jobs on threads of their own, leases, directories used again, exceptions, shutdown under a batch |
| OrderedConcurrentPool | not in the repository | idle workers, open flag | lease, run, return | external: modelled from its use |
| Evaluator | `src/core/evaluator.cpp` | the pool, the workspace name | run, cleanup, reload | workspace names across process restarts |
| Ngspice session | `src/session/ngspice_session.cpp` | `started_`, the job directory | `start`, `set_job_work_dir`, `run`, `stop` | a process per run that may outlive its deadline; verdict from files that may be old |
| Ngspice netlists, wrdata readers | the same file | none | configuration from a state, render, read | defaults, validation, truncated files |
| Simulation workflow | `src/workflow/simulation.cpp` | declared parameters, the workspace, a lazily created evaluator | construct, add_parameter, run, cleanup, destroy, read_* | failed starts, cleanup and run again, processes that are killed and whose ids come back |
| Metrics extraction | `src/core/metrics.cpp` | none | extract_metrics | one of several requests failing; whose artifacts are read |
| Result readers | `src/parse/*.cpp` | none | find a directory, dispatch on format, read, derive | format declared against format found; crossings, phase and settling at the edges of a sweep |
| Toolchain probe | `src/toolchain/simulator_probe.cpp` | none | find_simulator | environment against PATH, order of the search |
| Python bindings, CLI, doctor | `bindings/python` | none of their own | conversions | the GIL is released during `run` |

How they interact: `Simulation` normalises cases and calls `Evaluator::run`, which
hands the batch to `SimulatorPool`.  The pool gives every job a worker.  The worker
calls its session (`SpectreSession` or `NgspiceSession`), moves the artifacts into
the job directory if the session could not write there itself, and extracts the
metrics from that directory before the worker is given back.  Sessions talk to
their simulator by pipes (Spectre) or by an exit code and a file (Ngspice).

What makes each part correct:

* a session never reports for one job what another job printed or wrote, never
  simulates a job twice at once, never leaks a process or a descriptor, and always
  returns;
* the pool gives a session one user at a time, answers every job once and in order,
  keeps the artifacts of a successful job apart from every other job's, and comes
  to an end under failures, exceptions and shutdown;
* extraction reads the artifacts of the job it is for, and its failure is told
  apart from a failed simulation;
* a Simulation checks a batch before it starts anything, gives every case all its
  parameters, uses the evaluator only as the pool expects to be used, and never shares
  a generated workspace, so that a result's directory stays its own;
* what a user reads on demand is what the worker extracted.

## Modules

| Module | Models | Uses |
|---|---|---|
| `SpectreProtocol` | classification of output lines, the scripts a run may print | |
| `SessionService` | what a session promises the worker that owns it, without processes, pipes or files (abstract specification) | |
| `SpectreSession` | one Spectre session, its simulator process, the pipes and the process table; refines `SessionService` | `SpectreProtocol`, `SessionService` (INSTANCE) |
| `SpectreSessionProofs` | its theorems | `SpectreSession`, TLAPS |
| `SpectreVerdictProofs` | the theorem on verdicts and the refinement | `SpectreSessionProofs` |
| `BatchService` | what `evaluate_batch` promises, without workers (abstract specification) | |
| `SimulatorPool` | the pool adapter, its workers, directories and callers; refines `BatchService` | `BatchService` (INSTANCE) |
| `SimulatorPoolProofs` | its theorems, the refinement among them | `SimulatorPool`, TLAPS |
| `NgspiceConfig` | configurations of the built-in tasks and which of them render | |
| `NgspiceSession` | one Ngspice session, the process of every run, the job directories; refines `SessionService` | `NgspiceConfig`, `SessionService` (INSTANCE) |
| `NgspiceSessionProofs` | its theorems, the refinement among them | `NgspiceSession`, TLAPS |
| `WorkerArtifacts` | the files of one worker with a fixed directory: the declared format, the snapshot file by file, what metrics are read | |
| `WorkerArtifactsProofs` | its theorems | `WorkerArtifacts`, TLAPS |
| `Workflow` | `Simulation` and `Evaluator` in processes that share a file system; uses the pool as a `BatchService` | `BatchService` (INSTANCE), `SimulatorProbe` |
| `WorkflowProofs` | its theorems | `Workflow`, TLAPS |
| `SimulatorProbe` | which executable `find_simulator` chooses | |
| `ResultFacade` | reading results on demand, looking up metrics by name | `MetricsExtraction` |
| `DerivedMetrics` | what is computed from a response or waveform: AC view, unity-gain crossing, phase margin, settling time | |
| `DerivedMetricsProofs` | its theorems | `DerivedMetrics`, TLAPS |
| `ResultReaders` | result directories, dispatch on the declared format, the PSF ASCII, libpsf and wrdata readers | `DerivedMetrics` |
| `MetricsExtraction` | `extract_metrics`: the requests of one job, one step each | `ResultReaders` |
| `MetricsExtractionProofs` | its theorems and those of `ResultFacade` | `ResultFacade`, `DerivedMetricsProofs` |
| `MC*` | the constants TLC needs | |

### SessionService

A `SimulatorSession` as its worker sees it: one call at a time, and a run that gives its
job to a simulator, again only once nothing is left of the last time, returns what that
simulation came to or one of `RunFailures`, and leaves nothing of the job for a later call
to meet.  `fresh` says whether an earlier job's verdict can be mistaken for this one's;
only where it can may `CAnswerStale` return one.  A success that is known may end as a
timeout, the answer having raced the deadline, but not as a failed simulation.

Both sessions refine it (`ImplementsSessionService`).  `Simulation` is the mapping of the
job.  For Spectre it is submitted while a command of this job is in the pipe or carried
out, and is what its own lines say once they are to be read; `fresh` is always true.  For
Ngspice it is submitted while the run's process is alive, and has succeeded if that exited
with 0 and left a whole output; `fresh` is `unused`, that the directory held no output
before.  The service is also what `SessionRuns` of the pool takes a session for: one step,
after which the job has a verdict or has failed and the session is free.

### SpectreSession

The session is sequential, so `pc` says where the call in progress stands, and one
action is the code between two points at which the outside can change something.
`CheckAlive` and `CheckDead` are the head of the attempt loop in `run()`;
`Launch` is `launch_process`; `Handshake*` is `wait_for_handshake`; `WriteInit*`
the command that makes a session active; `Dispatch*` and `Run*` are `run_once` and
`wait_for_completion`; `DiscardProcess` is `discard_process`, after which `Resume`
goes on as `after` says: return, start, rethrow into `run()`, or take the next
attempt.  `child`, `active` and `pipes` are `child_pid_`, `active_` and the two
descriptors, which the code always sets and closes together; `procs` is the process
table and `fdsOpen` counts descriptors whether or not the session still knows them,
so that a leak can be seen.

The simulator is not scheduled by the session.  It reads commands, prints whole
lines or pieces of lines, falls silent, and exits at any step.  Lines carry the run
that printed them (`own`), which is a ghost the code cannot see: `VerdictIsTheRuns`
compares it with the verdict.  `read_line_with_timeout` is modelled with what it
loses: a line that stalls half way for more than its one second of `select` is
dropped, and the rest of it arrives as a line without a marker (`Torn`).

A write into the pipe of a simulator that has exited succeeds (a sibling worker's
simulator has inherited the read end), fails with EPIPE, or kills the host with
SIGPIPE; `sigIgn` says which hosts are immune.

### SimulatorPool

`task[i]` says where job `i` of the batch stands, `lease[i]` which worker it has.
`SessionRuns` and `SessionThrows` are `session_->run` seen from outside, `Snapshot`
is `snapshot_artifacts` for sessions with a fixed directory, `Extract` and
`ExtractThrows` are `extract_metrics`, each a step of its own, since other workers
run between them.  An artifact is abstracted to the job that wrote it, which is
enough to tell a result's own files from another job's.

Job directories are never emptied, and each batch uses them again, so that a success need
not have its own artifacts.  An Ngspice session may succeed on what an earlier batch left
(`Runs`, the run `ngspice_stale_output`), and a snapshot may fail in whole or in part, as
its errors are dropped.  `missed` remembers the jobs to which either happened.  Metrics of a
success may fail: the format may be unsupported, the signal absent, the file cut.
`BatchArtifactsIntact` and `SuccessMetricsAreOwn` say what is left of "own artifacts" then:
the job's own, or, only for a job in `missed`, an earlier batch's, and in no case those of
another job of the batch.

`StartAll`, `Shutdown`, `StopWorker` and `ShutdownReturns` are the evaluator's lifecycle;
a shutdown may come from another thread at any moment.  Batches are submitted one at a
time, as `Simulation::run` does.

### WorkerArtifacts

`SimulatorPool` sees the files of a job as one artifact; here they are apart.  `work` is
the session's fixed directory and `cases` the job directories below it, each file with
the run that wrote it.  `SessionSucceeds` and `SessionFails` are a job's run, with the
format that `infer_actual_result_format` declares after a success: the scan is recursive
and so sees the job directories as well.  `SnapshotArtifacts` copies what it can; a copy
that fails leaves the old file, or the beginning of the new one, and `lost`, a ghost,
remembers it.  `ExtractMetrics` reads the job directory by the declared format.
`StartSession` is also the start in a later process on a workspace with a chosen name,
where the files of the earlier one are still there.

### Workflow

Simulations live in processes (`host`); a process has an id that may come back
(`boots` counts how often), and a counter that starts at 0.  `Construct`, `AddParameter`,
the three ways into `run()` (`RunNothing`, `RunRefused`, `RunBegins`), `Cleanup` and
`Destroy` are the calls of a user; the refused calls change nothing.  `Completed` and
`ValidCase` are `normalize_cases`.  Within `run()`, `MakeEvaluator` and
`MakeEvaluatorFails` are the evaluator made on demand, and `Submit`, the `Job*`
actions and `RunReturns` are the pool as `BatchService` describes it, each step of which
`UsesBatchService` shows to be one of that specification's.  `Crash` kills a process:
its objects go, its files stay, and simulators it had running become `orphans`, each of
which may still write.  `disk` says what is in each job directory: the batch and the
state it was simulated for.  As in the pool, a job may succeed without artifacts of its own
(`JobMisses`, `missed`), with Spectre because the snapshot failed, with Ngspice because it
wrote none and something was there, from an earlier batch or from an earlier process with the
same id.  A failed Spectre job may be given whatever its worker's directory has (`Around`).

`SimulatorProbe` has no state of its own: `FindSimulator` is the search.  `Workflow` extends
it, since a session that is started begins with it; `ProbeFindsFirstOffer` is checked in the
initial state of the workflow run, for every machine of a family.  `ResultFacade` extends
`MetricsExtraction` with what a user sees: the `Read*` operators, with the choice of the
file for the simulator at hand, and `Metric` and `Metrics` as Python has them.  Its `disk` is
the work directory as the user finds it: once the values are extracted, later batches may
leave anything of `Later` there (`Overwrite`), since they use the same job directories.  So
`ExtractedIsReadOnDemand` promises the same number on demand only as long as the file it is
read from is as the worker left it (`Untouched`), and the number by name in any case.

### NgspiceSession

Every run has a process of its own.  A session that is not started, in `start` or within
`run`, looks for its executable and waits until `ngspice --version` has ended
(`StartQueries`, then `Queried`); that wait has no deadline, and nothing says that it
ends.  `Prepare` makes the job directory and renders the netlist (through
`NgspiceConfig`), `Launch` forks, `Reap`, `WaitFails` and `Terminate` are the three ways
out of the wait loop, `ReadOutput` is the reading of the wrdata file after exit code 0.
`out` is the task's output file in every directory, with the run that wrote it and how
much of it there is; one that is `odd` is complete but has a value that is not finite, on
which the reader fails.  A kill at the deadline leaves no process, but if a signal cuts
the wait short it leaves a zombie (`Terminate`), which is never reaped.  Directories
outlive runs and may be given to several of them, as the pool does.  The host may ignore
SIGCHLD (`autoReap`): then children vanish unreaped and `waitpid` fails.

### MetricsExtraction, ResultReaders and DerivedMetrics

Extraction is sequential and nobody writes the files meanwhile (`LeaseExclusive` of
the pool), so a step is one request: `RejectUnnamed`, `ExtractDcValue`,
`ExtractDcSweep`, `ExtractAc` and `ExtractTran` are the branches of the loop in
`extract_metrics`, and `Outcome` is what each ends with, `merge_status` included.
Readers and computations are operators that return a status and a value, as
`ReadResult` does, in the order in which the code tests its conditions.

A file is what a backend makes of it.  PSF ASCII is its lines, each with what it parses
to, so that axis and samples are collected apart as the readers do and a file may end
between any two lines.  For libpsf it is a data set with the kind of its axis, for wrdata
its rows and the numbers on each; a row with a number that is not finite does not parse.
A transient with a PSFXL file beside it is refused before it is opened.  Samples are
integers, responses are in decibels and degrees, and results of interpolation are exact
quotients; the rounding of floating point is not modelled.  Only an overflow is: the
magnitude of finite parts may be infinite, which `Viewable` refuses.  `Principal` is what
`atan2` leaves of an angle.

The properties do not repeat the computation: `input.truth`, a ghost, is what the
simulator wrote, and a reported value is compared with that, through whatever file and
reader it came (`Wrote`, `Holds`): the bandwidth with the straight lines through the
samples, the margin with the angle at the bandwidth, the settling time with every earlier
time.  The names `<signal>_first` and `<signal>_last` of a sweep hold the ends of its
axis, not of the signal; that is what the code does, and no document says otherwise.  Of a
sweep only these two and the number of points are reported, so `SweepIsOfWholeSamples`
cannot see which sample belongs to which point; that the readers pair them rightly shows
in the bandwidths and settling times, which are derived from the pairs.

## Runs

All with deadlock checking unless said.

| Run | Checks | Instance |
|---|---|---|
| `spectre_session` | `TypeOK`, `NoLeak`, `SettledWhenIdle`, `VerdictIsTheRuns`, `OneSimulationPerJob`, `RetryOnlyAfterTransportFailure`, `ImplementsSessionService`, `EveryCallReturns` | two pids, three attempts, seven scripts, pipes of three lines |
| `simulator_pool` | `TypeOK`, `LeaseExclusive`, `BatchArtifactsIntact`, `SuccessMetricsAreOwn`, `ImplementsBatchService`, `BatchEventuallyReturns`, `ShutdownCompletes` | two workers, two batches of up to two jobs, successes without artifacts, failing snapshots, throwing readers |
| `ngspice_session` | `TypeOK`, `NoProcessLeft`, `FreshInUnusedDir`, `OutputsSettled`, `ImplementsSessionService`, `EveryCallReturns` | two directories, three runs, five parameter states, a version query that may hang; 798,476 states |
| `metrics_extraction` | `TypeOK`, `OkIsComplete`, `SweepIsOfWholeSamples`, `UgbwIsFirstCrossing`, `MarginIsOfTheCrossing`, `SettlingTimeIsLeast`, `ExtractedIsReadOnDemand` | responses of up to three samples, waveforms of up to four, cut files, pairs of requests, five formats, three later contents of the directory; 14,809 states |
| `workflow` | `TypeOK`, `GeneratedRootsDistinct`, `ResultsAreOfTheirCases`, `InvalidBatchStartsNothing`, `ProbeFindsFirstOffer`, `UsesBatchService`, `NoEarlierValueShows`, `EveryRunReturns` | two Simulations, two process ids, two process starts, two batches of up to two cases, one Simulation with each simulator, workspaces with generated names; 3,072 machines for the probe; 511,448 states |
| `worker_artifacts` | `TypeOK`, `MetricsOwnUnlessLost`, `OnePsfxlSilencesAll` | an operating point and a transient, two job directories, two jobs |
| the others | one property each, a promise of the repository's documents that the code does not keep | as above |

Why the bounds are enough.  Two pids let a new simulator be launched while an old one is,
wrongly, still there.  Three attempts give a first, a middle and a last one. A pipe of
three lines holds a whole run's output, so that a following job could find an earlier
one's verdict in it; the script `Closing` goes on after the line that decides it, and what
it still prints meets the next job.  Two workers and two jobs give two jobs on one worker
and one job on each; the second batch is the first that can meet directories of an earlier
one.  `CallerKeeps` is whether the caller keeps the results of a batch beyond it; only
`HeldArtifactsIntact` is about such results, and they would multiply the states of the
other runs.  Three runs over two directories give a directory used twice, with a run in
the other between.  A crossing or a settling depends on one sample and its neighbours, so
three frequencies and four times give every position it can have, with samples above, at
and below 0 dB, within, on the edge of and outside the band, and angles of more and of
less than half a turn; two requests give a failure before and after a success. Two
Simulations may be in one process or in two, at once or one after the other with the same
id; two process starts are what it takes for an id to come back.  Two batches give one
before and one after a declaration, a cleanup or a failed start, and the batches offered
have a valid case before an invalid one, a case that gives a value and one that leaves it
to the default, and an undeclared name.  The workspaces of that run have generated names,
and each Simulation has a simulator of its own; for names that callers choose, and for any
choice of simulators, the theorems speak.  `Later` has a directory without files, one
whose files are all there and one of them different, and one without the file of one
request: a number's own file may be gone, changed or untouched while others change.  In
`worker_artifacts` one job leaves a PSFXL file or a partial copy and the next one meets
it, in the same job directory or in the other. The counters bounded by the model are
`attempt` (by the code), `batch` (`MaxBatches`), `size` (`MaxJobs`), `run` and `runs`
(`MaxRuns`), `batches`, `starts` and `counter` of the workflow (`MaxBatches`, `MaxStarts`,
`MaxCount`), and the lines and commands in a pipe (`PipeCapacity`).

The runs of the Spectre session and `workflow` turn deadlock checking off: a host killed
by SIGPIPE stops, and every process may end for good.  `LibPsf` is the build option;
`metrics_missing_signal` runs without it, as the default build does.  Time is one bit,
`late`: the deadline has passed; it may become true at any step of a wait, so every race
of a deadline with an answer is covered.

### Fairness

* `SpectreSession`: the thread inside a call goes on (`WF(Session)`), time passes
  (`WF(Tick)`), and the simulator, having begun a line, finishes it, stalls or exits.
  The last is needed because the deadline is looked at between lines only: a
  simulator that trickled one line for ever would keep `run` from returning, and
  the hazard list says so.  Nothing else is assumed of the simulator.
* `SimulatorPool`: threads of jobs, of the shutdown and of the caller go on; that a
  session's `run` returns is what `EveryCallReturns` of the two session modules says.
* `NgspiceSession`: the thread inside a call goes on and time passes; nothing of the
  simulator, and nothing of the version query: `EveryCallReturns` says that every call
  returns unless it hangs in that query for ever.
* `Workflow`: a call of `run()` goes on while its process lives (`WF(RunStep(s))` for
  every Simulation).  That the sessions start or fail to, and that every job is answered,
  is `EveryCallReturns` of the sessions, for Ngspice if its version query ends, and
  `BatchEventuallyReturns` of the pool.
  Callers, crashes and orphans are under no obligation.

### Assumptions about the outside

* A Spectre run decides once (`DecideOnce`): it prints no line that tells the wrong
  result, and after one that can end it neither statistics nor a clean closing line.
  It may print anything else there, which stays in the pipe for the next job; more than
  that the code could not tell from the next job's own output.
* Ngspice does not exit with code 0 while a file it has begun is unfinished, though
  it may exit with 0 without having begun one.
* A Spectre session that reports success has written its artifacts (`SimulatorPool`,
  `Workflow`, `WorkerArtifacts`).  Of Ngspice this is not assumed: `FreshInUnusedDir` shows it
  for a directory that held no output before, and in one that did a success may have written
  nothing.  Nor is it assumed that the readers accept what a success has in its directory.
* A worker's directories are empty when its pool is made (`SimulatorPool`).  What an earlier
  process with the same id left is a matter of `Workflow`.
* The rest of a line that stalled half way is not by itself the line `t` or `nil`
  (`SpectreSession`, `Torn`): the reader would take it for a verdict.
* One thread at a time uses a Simulation (`Workflow`), as its unguarded members require;
  other threads of the process have Simulations of their own.
* Callers who choose the name of a workspace do not choose one of the generated form, and
  may well share theirs, so `ResultsAreOfTheirCases` is about generated names.
* The directories of a workspace's workers are merged in `Workflow`: a job directory is
  known by its index, which one worker of a batch has.  With directories apart there is
  less to overwrite.
* A simulator that outlives its killed process writes at most once more, at any time.
  This is why a workspace whose process id was used before is excepted: nothing in the
  code can tell such a write from the job's own.
* Requests are well formed, and only Spectre's jobs have `.raw` directories
  (`InputsAssumption`).  Where the simulator wrote a signal that a request names, the file
  has what it wrote, as far as it goes (`Holds`): it may be cut short anywhere, with the
  axis one sample ahead, or be absent, be of another format or lack the signal.  Frequencies
  increase, times increase from 0 or later (`Wrote`).  The one signal of a wrdata file is
  the one asked for; what happens when it is not is `metrics_missing_signal`.  Of a signal
  the simulator did not write nothing is assumed, and nothing is said.
* `NotFinite`, an infinity or a NaN, is no integer (`NotFiniteAssumption`); the directories
  of `PATH` are a sequence (`MachinesAssumption`).
* The scan for PSFXL files does not fail (`WorkerArtifacts`).

## Findings

Each is a run that expects a violation, with the document it contradicts quoted in
`PROJECT.json`.

* `spectre_host_survives`: a simulator that exits just before a command is written
  kills a host that has not ignored SIGPIPE; documents promise a transport failure.
* `spectre_ten_errors`: "10 errors" contains "0 errors" and is a success.
* `pool_metrics_match_input`: a failed Spectre job can carry metrics, with status ok,
  of the job before it.
* `pool_held_artifacts`: every batch numbers its jobs from 0, so a second batch
  overwrites the directories that results of the first one name.
* `ngspice_stale_output`: in a directory used again, an old output file is taken for
  the result of a run that wrote none.
* `metrics_missing_signal`: the wrdata readers never look for the requested signal,
  so a request for an absent one succeeds with the values of another.

Five more, which need no run to be seen.  The model has the code's behaviour in each:

* a start that fails inside `run` is reported as `kTransportFailure`, never as
  `kStartupFailed` (`spectre_session.cpp:164`, against the milestone record M1, line 107);
* an exception of a reader leaves the worker's run and turns a successful simulation into
  `kException` (`simulator_pool.cpp:101`, against design record 07, line 144);
* `metric(name)` of Python gives 0.0 for a value that could not be read
  (`spiceunion_py.cpp:480`, against record 04_M4, line 150, and design record 07, line 96);
* the scan for PSFXL files is to go by the artifacts of the run, says its comment
  (`spectre_session.cpp:89`), but it also finds what earlier jobs left in their job
  directories: `OnePsfxlSilencesAll` states what follows;
* a version query that fails does not affect the main path, says the comment before it
  (`simulator_probe.cpp:90`), but one that does not end keeps `start` and `run` from
  returning: `EveryCallReturns` of Ngspice excepts it.

## Proofs

| Module | Theorem | Says |
|---|---|---|
| `SpectreSessionProofs` | `TypeCorrect`, `NothingLeaks`, `Settles`, `SimulatesOnce`, `RetriesAreSafe` | `[]TypeOK`, `[]NoLeak`, `[]SettledWhenIdle`, `[]OneSimulationPerJob`, `RetryOnlyAfterTransportFailure` |
| `SpectreVerdictProofs` | `VerdictsAreTrue`, `SpectreImplementsService` | `[]VerdictIsTheRuns` and `ImplementsSessionService`, for scripts that decide once |
| `SimulatorPoolProofs` | `TypeCorrect`, `LeasesExclusive`, `ArtifactsIntact`, `MetricsOfSuccessOwn`, `PoolImplementsService` | the safety properties of the pool and that it implements `BatchService` |
| `NgspiceSessionProofs` | `TypeCorrect`, `NothingOutlives`, `SuccessIsFresh`, `OutputsAreSettled`, `NgspiceImplementsService` | `[]TypeOK`, `[]NoProcessLeft`, `[]FreshInUnusedDir`, `OutputsSettled`, `ImplementsSessionService` |
| `WorkflowProofs` | `TypeCorrect`, `RootsDistinct`, `ResultsOwn`, `InvalidStartsNothing`, `UsesService`, `NothingShows`, `ProbeFindsFirst` | `[]TypeOK`, `[]GeneratedRootsDistinct`, `[]ResultsAreOfTheirCases`, `[]InvalidBatchStartsNothing`, `UsesBatchService`, `NoEarlierValueShows`, `[]ProbeFindsFirstOffer` |
| `WorkerArtifactsProofs` | `TypeCorrect`, `OwnUnlessLost`, `PsfxlSilences` | `[]TypeOK`, `[]MetricsOwnUnlessLost`, `[]OnePsfxlSilencesAll` |
| `MetricsExtractionProofs` | `ExtractionTypeOK`, `OkOutcomesAreComplete`, `SweepsAreOfWholeSamples`, `BandwidthsAreFirstCrossings`, `MarginsAreOfTheCrossing`, `SettlingTimesAreLeast`, `ExtractedIsOnDemand` | `[]TypeOK`, `[]OkIsComplete`, `[]SweepIsOfWholeSamples`, `[]UgbwIsFirstCrossing`, `[]MarginIsOfTheCrossing`, `[]SettlingTimeIsLeast`, `[]ExtractedIsReadOnDemand` |
| `DerivedMetricsProofs` | `BandwidthIsFirstCrossing`, `MarginIsAtTheBandwidth`, `SettlingTimeIsLeastTime` | what the formulas compute is what they are to find, for responses and waveforms of any length |

The theorems about modules with states follow from an inductive invariant that is proved
from `Init` and one step per action.

* `SpectreSession!Inv` adds `Shape` (how much of the session is up at every point of
  a call: before a launch it is wholly up or wholly down, from the launch to the
  first write it has pipes and a child but is not active, in a run it is up),
  `CallShape` (which calls reach which points, and that a failed attempt knows what
  failed), and `NothingSubmitted` (before the run command of an attempt is written,
  the simulator has none of this job's commands or output).  `NoLeak` alone is not
  inductive: that a launch does not overwrite a live child needs `Shape`.
* `SpectreSession!VerdictInv` is about all the session can still read, `Pending`: the
  lines in the pipe, a piece of one, and what the run in progress is still to print.
  Lines of earlier jobs come before the job's own and tell nothing (`GoodItems`); once
  there are own lines, or own statistics were seen, no run is queued and only a request
  to quit can be (`OnlyQuits`, `QueueOK`).  Almost every step leaves a later part of
  `Pending`, with torn lines losing their marker (`Weakens`), and needs no more argument
  than that; the rest are the launch, the discard, the commands and the deciding line.
  `DecideOnce` is the theorem's assumption; it holds of the scripts of `spectre_session`
  and fails for those of `spectre_ten_errors`, where the verdict is indeed wrong.
* `SpectreSession!ServiceInv` is what the refinement needs besides: what is to be read of
  the job has one outcome (`OneOutcome`), so that a line read, torn or lost can only keep or
  lose what the job came to, never change it; and between calls there is none of it
  (`QuietWhenIdle`), so that a new run starts from nothing.  Again a step that weakens
  `Pending` needs one lemma; a submission needs `NothingSubmitted`, a return that a failure
  has discarded the process.
* `SimulatorPool!Inv` adds `BatchShape`; `FilesNumbered`, that no file is of a batch to come
  and that in a batch only a job's own worker brings files of it into the job's directory, so
  that what a job finds there and did not write is of an earlier batch; and `ArtifactsFollow`,
  where the artifacts of a successful run are between its end and its result.
* `NgspiceSession!Inv` adds `ProcShape` (processes start in the order of the runs,
  and a run that is not waiting has none alive) and `OutputShape` (what may be in a
  directory that was unused, and that exit code 0 means a whole file or none).  The
  refinement needs no more than these, with the exit code that is known before the output
  is read as a part of `ProcShape`.
* `Workflow` needs six parts, each in its own lemmas.  `SetupInv`: a Simulation that is
  there is in a live process whose counter has passed every name it generated, from which
  `GeneratedRootsDistinct` follows.  `BatchInv`: jobs in the pool are those of a valid
  batch whose call has not returned.  `LifeInv`: the id of a live process has been used at
  least once, and a Simulation in use has a process and a workspace.  `CaseInv`: what was
  sent is made of what was given.  `LeftInv`: no file is of a batch to come, while a batch runs
  a job without a result has nothing of that batch in its directory, which is what a job that
  succeeds without artifacts is left with, and an orphan writes under an id that is dead or has
  been used again; this last clause is why a late write meets only results whose process id was
  used before.  `FileInv`: every successful result has its file or what was left.  `DomainsInv`, for
  `NoEarlierValueShows`, says that states set declared parameters only; declarations are
  never taken back, and a batch sets all there are.
* `WorkerArtifacts!ArtifactsInv` adds `FilesFollow`, where the files of a success are
  between its run and its metrics, and `FormatFollows`, that the declared format was made
  of every PSFXL file there was and the snapshot adds no other.

`DerivedMetricsProofs` has no states: its theorems are about the operators, for every
finite response over increasing frequencies and every finite waveform over increasing
times.  They rest on `FirstBelowIsFirst` and `LastOutOfBandIsLast`, that the sample the
code's loop stops at is the first or last of its kind, and on `Interpolation`, that the
crossing it interpolates lies between its two samples and on the line through them.
`BandwidthIsFirstCrossing` also shows that the code's refusal of equal magnitudes around
the crossing can never be reached.

`MetricsExtractionProofs` takes these to the extracted values, for any requests and files
of any length that keep to `InputsAssumption`.  Neither that an outcome which is ok is
complete nor that a value is right is inductive alone.  `IInv` says that every earlier
request has all its values unless the status is no longer ok (`Complete`), and that every
value that is ok came from a read of its own request that succeeded (`FromRead`).  Each
branch of the loop is shown to answer its request in full or with a failure (`Answered`);
that is all the invariant's step needs.  What such a read gives is the readers' part, where
no states are involved: `AsciiWaveReads`, `LibWaveReads` and `WrdataReads` say that a read
which is ok gives all the whole samples of the signal, whatever was cut off, and
`SweepReads`, `AcReads` and `TranReads` take that through the dispatch on the format.
`LineOfAngles` accounts for the whole turns that `atan2` takes off two angles, as long as
it takes the same number off both.  For reading on demand, the two ways to choose a file
come to the same read as long as the file is untouched (`SameRead`), and what is looked up by
name is the value that was extracted (`LookedUp`).  An overwritten directory changes no value:
`FacadeExtracts` takes the invariant of the extraction to `FacadeSpec`.

`ProbeFindsFirst` has no states either: `ChoiceIsFirstOffer` follows the search through
the environment variable and through `PATH`, of any length.

The theorems assume only the named ASSUMEs of the modules, which every run evaluates, and
`DecideOnce` where that is said.

Only model-checked are the liveness properties (`EveryCallReturns` of both sessions,
`BatchEventuallyReturns`, `ShutdownCompletes`, `EveryRunReturns`), which are beyond the
prover; every safety property of a passing run has its theorem.  `DecideOnce` itself is
checked on the scripts the runs use.

## Not modelled

* Netlist text, output excerpts, units and messages; how one line of PSF ASCII is split,
  and so a file that ends within a number.
* Output of a Spectre run that could decide a second time, and output that trickles for
  ever: the hazard list has both.
* The six digits with which parameters are sent to Spectre.
* The version that the probe reads from `ngspice --version`; only that the query need not end
  is.
* `cleanup()` in one thread while another is in `run()` of the same Simulation: undefined
  in the code, which promises nothing there.
* `reload_workers`, which nothing in the repository calls, and moved-from objects.
* `FD_SETSIZE`, descriptors shared between workers beyond their effect on writes and
  ends of file, and undefined behaviour of that kind.
* The command line, the doctor, packaging, tests and benchmarks.

## Plan

1. The pool's worker as a caller of `SessionService`: its `SessionRuns` shown to be a call
   of that service, as `Workflow` is shown to use `BatchService`.
2. `reload_workers`, as a second life of a pool, in `SimulatorPool`.
