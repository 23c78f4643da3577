---------------------------- MODULE NgspiceSession ----------------------------
(***************************************************************************)
(* One NgspiceSession (src/session/ngspice_session.cpp).  Unlike a Spectre *)
(* session it keeps no simulator between runs: every run renders a netlist *)
(* into the job directory, starts `ngspice -b` there, waits for it to exit *)
(* or kills it at the deadline, and takes the verdict from the exit code   *)
(* and from the wrdata file it then reads back from the job directory.     *)
(* A session that starts, alone or within a run, also asks the executable  *)
(* for its version, and waits for the answer without a deadline.           *)
(*                                                                         *)
(* The simulator is another process: it opens, fills and closes its output *)
(* file and exits whenever it likes, between any two steps of the session. *)
(* Job directories outlive runs, and the caller may give a directory to    *)
(* several runs, as the pool does when it numbers every batch from 0.      *)
(*                                                                         *)
(* Time is abstracted to one bit: `late` says that the deadline of the run *)
(* has passed, and may become true at any moment of the wait.              *)
(***************************************************************************)
EXTENDS Integers, NgspiceConfig

CONSTANTS
    Dirs,    \* job directories
    Task,    \* the built-in task of the session
    States,  \* parameter states a job may have
    MaxRuns  \* bound on the number of runs

ASSUME TaskAssumption == Task \in Tasks
ASSUME RunsAssumption == MaxRuns \in Nat

VARIABLES
    autoReap, \* the host ignores SIGCHLD, so children vanish when they exit; never changes
    started,  \* started_
    pc,       \* where the call in progress stands; "idle" between calls
    run,      \* number of the current run, or of the last one
    dir,      \* the directory of that run
    late,     \* the deadline has passed
    status,   \* what the last call returned
    unused,   \* ghost: the directory held no output when the run began
    made,     \* directories that exist
    out,      \* the output file of the task in every directory
    proc,     \* kernel: the simulator process of every run
    home,     \* kernel: the directory it was started in
    code      \* kernel: how it exited

session == <<autoReap, started, pc, run, dir, late, status, unused>>
system == <<made, out, proc, home, code>>
vars == <<session, system>>

-------------------------------------------------------------------------------
Runs == 1..MaxRuns

\* An output file: the run whose simulator wrote it and how much of it there is.  One that
\* is odd is complete too, but has a row that is not of finite numbers.
Extents == {"none", "empty", "partial", "whole", "odd"}
File == [by : 0..MaxRuns, extent : Extents]
NoFile == [by |-> 0, extent |-> "none"]
Written(r) == [by |-> r, extent |-> "whole"]

\* Exit code 0, one of 126 and 127, another one, or a signal.
Codes == {"zero", "exec", "nonzero", "signal"}

Init ==
    /\ autoReap \in BOOLEAN
    /\ started = FALSE /\ pc = "idle"
    /\ run = 0 /\ dir \in Dirs /\ late = FALSE
    /\ status = "stopped" /\ unused = TRUE
    /\ made = {} /\ out = [d \in Dirs |-> NoFile]
    /\ proc = [r \in Runs |-> "none"]
    /\ home \in [Runs -> {dir}]
    /\ code = [r \in Runs |-> "zero"]

Return(s) == pc' = "idle" /\ status' = s

-------------------------------------------------------------------------------
(* The caller.                                                             *)

\* start() of a session that is not started: a directory or an executable that is missing
\* throws, and an executable that is found is asked for its version.
StartThrows == ~started
StartQueries(at) == ~started /\ pc' = at /\ status' = "none"

CallStart ==
    /\ pc = "idle"
    /\ \/ started /\ Return("started")
       \/ StartThrows /\ Return("exception")
       \/ StartQueries("start")
    /\ UNCHANGED <<autoReap, started, run, dir, late, unused, system>>

CallStop ==
    /\ pc = "idle"
    /\ started' = FALSE /\ Return("stopped")
    /\ UNCHANGED <<autoReap, run, dir, late, unused, system>>

\* set_job_work_dir and run(), which starts a session that is not started.
CallRun(d) ==
    /\ pc = "idle" /\ run < MaxRuns
    /\ run' = run + 1 /\ dir' = d /\ late' = FALSE
    /\ unused' = (out[d] = NoFile)
    /\ \/ started /\ pc' = "prepare" /\ status' = "none"
       \/ StartThrows /\ Return("exception")
       \/ StartQueries("probe")
    /\ UNCHANGED <<autoReap, started, system>>

\* `ngspice --version` ends, or could not be run; whatever it says, the session is started.
Queried ==
    /\ pc \in {"start", "probe"}
    /\ started' = TRUE
    /\ \/ pc = "start" /\ Return("started")
       \/ pc = "probe" /\ pc' = "prepare" /\ UNCHANGED status
    /\ UNCHANGED <<autoReap, run, dir, late, unused, system>>

-------------------------------------------------------------------------------
(* run_*_task                                                              *)

\* make_directories(job_dir) and the rendering and writing of the netlist.
Prepare ==
    /\ pc = "prepare"
    /\ \/ dir \notin made /\ Return("startup_failed") /\ UNCHANGED made
       \/ /\ made' = made \cup {dir}
          /\ \E s \in States :
                IF Renders(Task, ConfigFromState(Task, s))
                THEN Return("transport") \/ (pc' = "launch" /\ UNCHANGED status)
                ELSE Return("exception")
    /\ UNCHANGED <<autoReap, started, run, dir, late, unused, out, proc, home, code>>

Launch ==
    /\ pc = "launch"
    /\ pc' = "wait"
    /\ proc' = [proc EXCEPT ![run] = "running"]
    /\ home' = [home EXCEPT ![run] = dir]
    /\ UNCHANGED <<autoReap, started, run, dir, late, status, unused, made, out,
                   code>>

\* The log cannot be opened, or fork fails: exit code -1, which is not zero.
LaunchFails ==
    /\ pc = "launch"
    /\ Return("sim_failed")
    /\ UNCHANGED <<autoReap, started, run, dir, late, unused, system>>

Tick ==
    /\ pc = "wait" /\ ~late
    /\ late' = TRUE
    /\ UNCHANGED <<autoReap, started, pc, run, dir, status, unused, system>>

\* Mutant: the exit code of a failed run is returned in place of a status.
Exited_RawCode(c) ==
    \/ c = "zero" /\ pc' = "read" /\ UNCHANGED status
    \/ c # "zero" /\ Return(c)

\* What an exit code stands for; 0 has the output file read.
Exited(c) ==
    \/ c = "zero" /\ pc' = "read" /\ UNCHANGED status
    \/ c = "exec" /\ Return("startup_failed")
    \/ c \in {"nonzero", "signal"} /\ Return("sim_failed")

\* waitpid finds that the simulator has exited.
Reap ==
    /\ pc = "wait" /\ ~late
    /\ proc[run] = "exited"
    /\ proc' = [proc EXCEPT ![run] = "gone"]
    /\ Exited(code[run])
    /\ UNCHANGED <<autoReap, started, run, dir, late, unused, made, out, home, code>>

\* waitpid fails with ECHILD: the exit code is lost and -1 stands for it.
WaitFails ==
    /\ pc = "wait" /\ ~late
    /\ proc[run] = "gone"
    /\ Return("sim_failed")
    /\ UNCHANGED <<autoReap, started, run, dir, late, unused, system>>

\* Mutant: SIGTERM is taken to have done it.
Terminate_NoKill ==
    /\ pc = "wait" /\ late
    /\ \/ UNCHANGED proc
       \/ proc' = [proc EXCEPT ![run] = "gone"]
    /\ Return("timeout")
    /\ UNCHANGED <<autoReap, started, run, dir, late, unused, made, out, home, code>>

\* Mutant: the session waits for the simulator to obey SIGTERM.
Terminate_WaitsForExit ==
    /\ pc = "wait" /\ late /\ proc[run] # "running"
    /\ proc' = [proc EXCEPT ![run] = "gone"]
    /\ Return("timeout")
    /\ UNCHANGED <<autoReap, started, run, dir, late, unused, made, out, home, code>>

\* SIGTERM, 50 ms, and if it is still there SIGKILL and a wait, which a signal may cut
\* short: it is gone in any case, but then not reaped.  The deadline is looked at before
\* the process is, so one that has just exited is late.
Terminate ==
    /\ pc = "wait" /\ late
    /\ \/ proc' = [proc EXCEPT ![run] = "gone"]
       \/ /\ proc[run] = "running" /\ ~autoReap
          /\ proc' = [proc EXCEPT ![run] = "zombie"]
    /\ Return("timeout")
    /\ UNCHANGED <<autoReap, started, run, dir, late, unused, made, out, home, code>>

\* Whether read_ngspice_wrdata_* can succeed on a file; one cut short may still parse.
MayRead(f) == f.extent \in {"partial", "whole"}
MayNotRead(f) == f.extent # "whole"

\* Mutant: a missing or unreadable output file is not an error.
ReadOutput_TrustsExitCode ==
    /\ pc = "read"
    /\ Return("success")
    /\ UNCHANGED <<autoReap, started, run, dir, late, unused, system>>

ReadOutput ==
    /\ pc = "read"
    /\ \/ MayRead(out[dir]) /\ Return("success")
       \/ MayNotRead(out[dir]) /\ Return("sim_failed")
    /\ UNCHANGED <<autoReap, started, run, dir, late, unused, system>>

-------------------------------------------------------------------------------
(* The simulator of run r, in the directory it was started in.             *)

Begun(r) == out[home[r]].by = r

\* It opens its output file, which truncates it, writes to it, and closes it.
SimWrites(r) ==
    /\ proc[r] = "running"
    /\ \/ /\ ~Begun(r)
          /\ out' = [out EXCEPT ![home[r]] = [by |-> r, extent |-> "empty"]]
       \/ /\ Begun(r) /\ out[home[r]].extent = "empty"
          /\ out' = [out EXCEPT ![home[r]] = [by |-> r, extent |-> "partial"]]
       \/ /\ Begun(r) /\ out[home[r]].extent = "partial"
          /\ \E e \in {"whole", "odd"} :
                out' = [out EXCEPT ![home[r]] = [by |-> r, extent |-> e]]
    /\ UNCHANGED <<session, made, proc, home, code>>

\* It exits, with code 0 also when the analysis failed and it has written nothing, but
\* never with a file it has begun and not closed; 126 and 127 mean it never ran.
SimExits(r) ==
    /\ proc[r] = "running"
    /\ proc' = [proc EXCEPT ![r] = IF autoReap THEN "gone" ELSE "exited"]
    /\ \E c \in Codes :
          /\ c = "zero" /\ Begun(r) => out[home[r]].extent \in {"whole", "odd"}
          /\ c = "exec" => ~Begun(r)
          /\ code' = [code EXCEPT ![r] = c]
    /\ UNCHANGED <<session, made, out, home>>

-------------------------------------------------------------------------------
Session ==
    \/ Prepare \/ Launch \/ LaunchFails \/ Reap \/ WaitFails \/ Terminate \/ ReadOutput

Next ==
    \/ CallStart \/ CallStop \/ \E d \in Dirs : CallRun(d)
    \/ Queried \/ Session \/ Tick
    \/ \E r \in Runs : SimWrites(r) \/ SimExits(r)

Spec == Init /\ [][Next]_vars

(***************************************************************************)
(* Fairness: the thread inside a call goes on and time passes.  Nothing is *)
(* assumed of the simulator, neither of the one that runs a job nor of the *)
(* one that is asked for its version.                                      *)
(***************************************************************************)
FairSpec == Spec /\ WF_vars(Session) /\ WF_vars(Tick)

-------------------------------------------------------------------------------
(* Properties.                                                             *)

CallStatus == {"none", "started", "stopped", "exception", "startup_failed", "transport",
               "sim_failed", "timeout", "success"}

\* Every variable keeps to its domain.
TypeOK ==
    /\ autoReap \in BOOLEAN /\ started \in BOOLEAN
    /\ pc \in {"idle", "start", "probe", "prepare", "launch", "wait", "read"}
    /\ run \in 0..MaxRuns /\ dir \in Dirs
    /\ late \in BOOLEAN /\ status \in CallStatus /\ unused \in BOOLEAN
    /\ made \subseteq Dirs
    /\ out \in [Dirs -> File]
    /\ proc \in [Runs -> {"none", "running", "exited", "zombie", "gone"}]
    /\ home \in [Runs -> Dirs]
    /\ code \in [Runs -> Codes]

\* No simulator outlives its run: a run that timed out, was signalled or failed leaves
\* nothing behind that could write.  At most the zombie of one that was killed is left.
NoProcessLeft ==
    \A r \in Runs : proc[r] \in {"running", "exited"} => r = run /\ pc = "wait"

\* An output file changes only while the run that was given its directory waits, and then
\* at the hands of that run's own simulator: a late write of an earlier run never gets
\* into the directory of a later one, nor into one whose result has been returned.
OutputsSettled ==
    [][\A d \in Dirs : out'[d] # out[d] =>
          pc = "wait" /\ d = dir /\ out'[d].by = run]_vars

Succeeded == pc = "idle" /\ status = "success"

\* A success in a directory that held no output before means that this run's simulator
\* wrote its output there, to the end.
FreshInUnusedDir == Succeeded /\ unused => out[dir] = Written(run)

\* Every call returns, as the deadline ends the wait whatever the simulator does; but the
\* first call after a stop hangs for as long as the version query does.
EveryCallReturns == []<>(pc = "idle") \/ <>[](pc \in {"start", "probe"})

-------------------------------------------------------------------------------
(***************************************************************************)
(* The inductive invariant behind NoProcessLeft, OutputsSettled and        *)
(* FreshInUnusedDir.                                                       *)
(***************************************************************************)

\* Processes are started in the order of the runs, by the run they belong to.
ProcShape ==
    /\ pc \notin {"idle", "start"} => run \in Runs
    /\ \A r \in Runs : r > run => proc[r] = "none"
    /\ pc \in {"probe", "prepare", "launch"} => proc[run] = "none"
    /\ pc \in {"wait", "read"} => home[run] = dir
    /\ pc = "read" => proc[run] = "gone" /\ code[run] = "zero"

\* In a directory that was unused there is nothing but this run's output, and a
\* simulator that has exited with code 0 has left it complete.
OutputShape ==
    /\ \A d \in Dirs : out[d].by <= run
    /\ pc \in {"probe", "prepare", "launch"} => out[dir].by # run
    /\ unused /\ pc \in {"probe", "prepare", "launch", "wait", "read"} =>
          out[dir] = NoFile \/ out[dir].by = run
    /\ \/ pc = "wait" /\ proc[run] = "exited" /\ code[run] = "zero"
       \/ pc = "read"
       => (out[dir].by = run => out[dir].extent \in {"whole", "odd"})

Inv == TypeOK /\ NoProcessLeft /\ ProcShape /\ OutputShape /\ FreshInUnusedDir

-------------------------------------------------------------------------------
(***************************************************************************)
(* The session as a SessionService.  A simulation has succeeded when its   *)
(* process has exited with code 0 and left its output whole; the exit of a *)
(* child that vanishes unreaped is lost.                                   *)
(***************************************************************************)
CallInProgress == IF pc = "idle" THEN "none" ELSE IF pc = "start" THEN "start" ELSE "run"

Simulation ==
    IF pc = "wait" /\ proc[run] = "running" THEN "submitted"
    ELSE IF (pc = "wait" /\ proc[run] = "exited") \/ pc = "read"
    THEN IF code[run] = "zero" /\ out[dir] = Written(run) THEN "success" ELSE "sim_failed"
    ELSE "none"

Promised == INSTANCE SessionService WITH
    RunFailures <- {"exception", "startup_failed", "transport", "sim_failed", "timeout"},
    call <- CallInProgress, fresh <- unused, job <- Simulation, answer <- status

\* Every step of the session and its simulators is one of the service or none: a job has
\* one simulation, a success that is reported is its own unless the directory held an
\* output before, and one that is known is not reported as a failed simulation.
ImplementsSessionService == Promised!CSpec

-------------------------------------------------------------------------------
(* A promise of the documentation that the code does not keep.             *)

\* One process per job leaves no residue: a success is this run's own output.
SuccessIsOwn == Succeeded => out[dir].by = run
===============================================================================
