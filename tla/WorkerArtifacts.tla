--------------------------- MODULE WorkerArtifacts ----------------------------
(***************************************************************************)
(* The files of one worker whose session writes into a fixed directory, as *)
(* Spectre's does: what the simulator leaves there, what a job's result is *)
(* declared to be (src/session/spectre_session.cpp), the snapshot of it in *)
(* the job's own directory (src/pool/simulator_pool.cpp) and what metrics  *)
(* are then read.  SimulatorPool sees all files of a job as one; here they *)
(* are apart, and a copy may fail.                                         *)
(*                                                                         *)
(* The job directories lie in the worker's.  Files stay from job to job,   *)
(* and in a workspace with a name also from one session to the next.       *)
(***************************************************************************)
EXTENDS Integers

CONSTANTS
    Analyses,   \* analyses of the netlist; each has a result file
    Transients, \* those whose results Spectre may write as PSFXL, next to that file
    MaxJobs,    \* bound on the length of a batch
    MaxRuns     \* bound on the jobs the worker is given

ASSUME AnalysesAssumption == Transients \subseteq Analyses
ASSUME BoundsAssumption == MaxJobs \in Nat \ {0} /\ MaxRuns \in Nat

VARIABLES
    requested, \* requested_format_, set when the session starts
    work,      \* what each file of the fixed directory was last written by
    cases,     \* the same for each job directory
    runs,      \* how many jobs the worker was given
    index,     \* the index of the last of them in its batch
    stage,     \* how far the worker is with it
    status,    \* what its session returned
    format,    \* the format declared of its results
    lost,      \* those of the fixed directory whose copy failed
    metrics    \* what was read for each analysis

vars == <<requested, work, cases, runs, index, stage, status, format, lost, metrics>>

-------------------------------------------------------------------------------
Indices == 0..(MaxJobs - 1)
Data(a) == <<a, "data">>
Sidecar(a) == <<a, "psfxl">>
Files == {Data(a) : a \in Analyses} \cup {Sidecar(a) : a \in Transients}

NoFile == [run |-> 0, whole |-> FALSE]
Written(n, whole) == [run |-> n, whole |-> whole]
Content == [run : 0..MaxRuns, whole : BOOLEAN]
Empty == [f \in Files |-> NoFile]
Present(dir) == {f \in Files : dir[f] # NoFile}

Formats == {"unknown", "psf_ascii", "bin_psf", "psfxl"}

\* Mutant: the format goes by the name it has in the netlist.
RequestedFormat_AsNamed(option, named) ==
    CASE option # "unknown" -> option
      [] option = "unknown" /\ "psf_ascii" \in named -> "psfascii"
      [] option = "unknown" /\ named = {"bin_psf"} -> "psfbin"
      [] OTHER -> "unknown"

\* start(): what the options say, else the first format the text of the netlist names; the
\* netlist may be unreadable, which is as if it named none.
RequestedFormat(option, named) ==
    CASE option # "unknown" -> option
      [] option = "unknown" /\ "psf_ascii" \in named -> "psf_ascii"
      [] option = "unknown" /\ named = {"bin_psf"} -> "bin_psf"
      [] OTHER -> "unknown"

StartFormats ==
    {RequestedFormat(option, named) :
        option \in Formats, named \in SUBSET {"psf_ascii", "bin_psf"}}

NoMetric == [status |-> "none", run |-> 0]
NoMetrics == [a \in Analyses |-> NoMetric]

Init ==
    /\ requested \in StartFormats
    /\ work = Empty /\ cases = [i \in Indices |-> Empty]
    /\ runs = 0 /\ index = 0 /\ stage = "idle" /\ status = "none" /\ format = "unknown"
    /\ lost = {} /\ metrics = NoMetrics

\* The session is started again: after a failure, a cleanup(), or in another process after
\* the last one was killed in the middle of a job, whose result is then nobody's.
StartSession ==
    /\ requested' \in StartFormats
    /\ stage' = "idle" /\ status' = "none" /\ format' = "unknown"
    /\ lost' = {} /\ metrics' = NoMetrics
    /\ UNCHANGED <<work, cases, runs, index>>

-------------------------------------------------------------------------------
(* The run of a job.                                                       *)

HasSidecar(dir) == \E a \in Transients : Sidecar(a) \in Present(dir)

\* Mutant: the job directories are left out of the scan.
InferActualFormat_TopLevel(dir, jobs) ==
    CASE HasSidecar(dir) -> "psfxl"
      [] ~HasSidecar(dir) /\ requested # "unknown" -> requested
      [] OTHER -> "bin_psf"

\* infer_actual_result_format: the scan goes through all the worker has, the directories
\* of its earlier jobs included.
InferActualFormat(dir, jobs) ==
    LET seen == HasSidecar(dir) \/ \E i \in Indices : HasSidecar(jobs[i])
    IN  CASE seen -> "psfxl"
          [] ~seen /\ requested # "unknown" -> requested
          [] OTHER -> "bin_psf"

JobBegins(i) ==
    /\ stage = "idle" /\ runs < MaxRuns
    /\ runs' = runs + 1 /\ index' = i /\ stage' = "ran"
    /\ lost' = {} /\ metrics' = NoMetrics
    /\ UNCHANGED <<requested, cases>>

\* The simulator writes every result file, and as PSFXL those of some transients.  What
\* else was there it may remove or leave.
SessionSucceeds(i) ==
    /\ JobBegins(i)
    /\ \E large \in SUBSET Transients, clears \in BOOLEAN :
          work' = [f \in Files |->
                IF f \in {Data(a) : a \in Analyses} \cup {Sidecar(a) : a \in large}
                THEN Written(runs + 1, TRUE)
                ELSE IF clears THEN NoFile ELSE work[f]]
    /\ status' = "success"
    /\ format' = InferActualFormat(work', cases)

\* A failure declares no format; the simulator may have been killed at any point.
SessionFails(i) ==
    /\ JobBegins(i)
    /\ \E written \in SUBSET Files, whole \in BOOLEAN :
          work' = [f \in Files |->
                IF f \in written THEN Written(runs + 1, whole) ELSE work[f]]
    /\ status' = "failed" /\ format' = "unknown"

-------------------------------------------------------------------------------
(* After the run, on the same worker.                                      *)

\* Mutant: a file that is already in the job directory is not written again.
Copied_SkipExisting(i, f) == IF cases[i][f] = NoFile THEN work[f] ELSE cases[i][f]

Copied(i, f) == work[f]

\* snapshot_artifacts copies file by file; the error of a copy is dropped by the next
\* step of the iteration, one of the iteration ends it.  A copy that fails leaves what
\* was there before, or the beginning of a file.
SnapshotArtifacts ==
    /\ stage = "ran"
    /\ \E saved \in SUBSET Present(work) : \E torn \in SUBSET (Present(work) \ saved) :
          /\ lost' = Present(work) \ saved
          /\ cases' = [cases EXCEPT ![index] = [f \in Files |->
                CASE f \in saved -> Copied(index, f)
                  [] f \in torn -> [work[f] EXCEPT !.whole = FALSE]
                  [] OTHER -> cases[index][f]]]
    /\ stage' = "saved"
    /\ UNCHANGED <<requested, work, runs, index, status, format, metrics>>

\* What reading a file by the declared format can give: an unknown format may turn out to
\* be any, and a file that is there may lack the signal or be of another format.
Unsupported == [status |-> "unsupported_format", run |-> 0]
ReadFailed == [status |-> "read_failed", run |-> 0]
ReadAs(a, dir) ==
    {ReadFailed} \cup
    (IF format # "psf_ascii" THEN {Unsupported} ELSE {}) \cup
    (IF Data(a) \in Present(dir)
     THEN {[status |-> "ok", run |-> dir[Data(a)].run]} ELSE {})

\* The declared PSFXL is refused before any file is looked for.
Reading(a, dir) == IF format = "psfxl" THEN {Unsupported} ELSE ReadAs(a, dir)

ExtractMetrics ==
    /\ stage = "saved"
    /\ metrics' \in [Analyses -> UNION {Reading(a, cases[index]) : a \in Analyses}]
    /\ \A a \in Analyses : metrics'[a] \in Reading(a, cases[index])
    /\ stage' = "idle"
    /\ UNCHANGED <<requested, work, cases, runs, index, status, format, lost>>

Next ==
    \/ StartSession
    \/ \E i \in Indices : SessionSucceeds(i) \/ SessionFails(i)
    \/ SnapshotArtifacts \/ ExtractMetrics

Spec == Init /\ [][Next]_vars

-------------------------------------------------------------------------------
(* Properties.                                                             *)

\* Every variable keeps to its domain.
TypeOK ==
    /\ requested \in Formats /\ format \in Formats
    /\ work \in [Files -> Content] /\ cases \in [Indices -> [Files -> Content]]
    /\ runs \in 0..MaxRuns /\ index \in Indices
    /\ stage \in {"idle", "ran", "saved"} /\ status \in {"none", "success", "failed"}
    /\ lost \subseteq Files
    /\ metrics \in [Analyses -> [status : {"none", "ok", "read_failed", "unsupported_format"},
                                 run : 0..MaxRuns]]

\* A metric of a successful job was read from a file of its own run, unless the copy of
\* that very file failed, which nothing reports: neither the fixed directory nor what an
\* earlier batch left in the job directory shows through.
MetricsOwnUnlessLost ==
    stage = "idle" /\ status = "success" =>
        \A a \in Analyses : metrics[a].status = "ok" /\ Data(a) \notin lost =>
            /\ metrics[a].run = runs
            /\ cases[index][Data(a)] = Written(runs, TRUE)

\* While there is a PSFXL file in any job directory of the worker, no success has
\* metrics: one job that left one takes them from all that follow, whatever these write.
OnePsfxlSilencesAll ==
    stage = "idle" /\ status = "success" /\ (\E i \in Indices : HasSidecar(cases[i])) =>
        \A a \in Analyses : metrics[a].status # "ok"

-------------------------------------------------------------------------------
(***************************************************************************)
(* The inductive invariant behind the two: what a success has left, and    *)
(* what its format was made of, on the way from the run to the metrics.    *)
(***************************************************************************)

AnySidecar == \E i \in Indices : HasSidecar(cases[i])

\* The files of a successful run are in the fixed directory, then in the job's.
FilesFollow ==
    /\ stage = "ran" /\ status = "success" =>
          \A a \in Analyses : work[Data(a)] = Written(runs, TRUE)
    /\ stage = "saved" /\ status = "success" =>
          \A a \in Analyses :
             Data(a) \notin lost => cases[index][Data(a)] = Written(runs, TRUE)

\* The scan saw every PSFXL file there was, and the snapshot adds no other.
FormatFollows ==
    /\ stage = "ran" /\ status = "success" /\ (HasSidecar(work) \/ AnySidecar) =>
          format = "psfxl"
    /\ stage = "saved" /\ status = "success" /\ AnySidecar => format = "psfxl"

ArtifactsInv ==
    /\ TypeOK /\ FilesFollow /\ FormatFollows
    /\ MetricsOwnUnlessLost /\ OnePsfxlSilencesAll
===============================================================================
