---------------------------- MODULE SpectreSession ----------------------------
(***************************************************************************)
(* One SpectreSession (src/session/spectre_session.cpp) and the simulator  *)
(* process it drives through a pair of pipes.                              *)
(*                                                                         *)
(* The session is sequential: a caller invokes start(), run() or stop(),   *)
(* and `pc` says where that call stands.  The simulator is another process *)
(* and takes its steps between any two steps of the session: it may print  *)
(* its banner late or never, print a line in two pieces, fall silent, or   *)
(* exit at any moment.  The kernel hands out process ids and keeps a child *)
(* that has exited as a zombie until it is waited for.                     *)
(*                                                                         *)
(* Time is abstracted to one bit: `late` says that the deadline of the     *)
(* current wait has passed, and may become true at any moment.             *)
(***************************************************************************)
EXTENDS Integers, Sequences, SpectreProtocol

CONSTANTS
    Pids,            \* process ids the kernel hands out
    NoPid,           \* child_pid_ = -1
    RestartAttempts, \* options_.restart_attempts
    Scripts,         \* what one run of the simulator may print
    PipeCapacity     \* lines the stdout pipe holds, and commands the stdin pipe holds

ASSUME NoPidAssumption == NoPid \notin Pids
ASSUME RestartAssumption == RestartAttempts \in Int
ASSUME ScriptsAssumption == Scripts \subseteq [lines : Seq(Line), ok : BOOLEAN]
ASSUME CapacityAssumption == PipeCapacity \in Nat \ {0}

VARIABLES
    sigIgn,   \* the host ignores SIGPIPE, as the Python interpreter does; never changes
    op,       \* the call in progress, or the last one: "start", "run" or "stop"
    pc,       \* where it stands; "idle" between calls, "killed" after a fatal signal
    after,    \* why discard_process was called, which is what happens after it
    attempt,  \* the loop counter of run()
    active,   \* active_
    child,    \* child_pid_
    pipes,    \* stdin_fd_ and stdout_fd_ are valid: set and closed together
    fdsOpen,  \* ends of simulator pipes this process holds open, tracked or not
    late,     \* the deadline of the current wait has passed
    seen,     \* seen_resource_stats
    status,   \* what the last call returned
    basis,    \* ghost: which run the verdict line belonged to, and whether it was clean
    why,      \* what the error message of the last failure says
    procs,    \* kernel: state of every process id
    cmds,     \* simulator: the stdin pipe
    sim,      \* simulator: what is left to print of the run in progress
    mid,      \* simulator: at most one line of which only a first piece is in the pipe
    stalled,  \* simulator: no byte has been written for longer than the select timeout
    out       \* simulator: the complete lines in the stdout pipe

session == <<sigIgn, op, pc, after, attempt, active, child, pipes, fdsOpen, late, seen,
             status, basis, why>>
simulator == <<cmds, sim, mid, stalled, out>>
vars == <<session, procs, simulator>>

-------------------------------------------------------------------------------
MaxAttempts == IF RestartAttempts < 0 THEN 1 ELSE RestartAttempts + 1

\* A line in the pipe, tagged with the run it was printed by: the current job's
\* or an earlier one's, clean or not.
Item == [line : Line, own : BOOLEAN, ok : BOOLEAN]
Command == [name : {"init", "run", "quit"}, own : BOOLEAN]

NoBasis == [own |-> TRUE, ok |-> TRUE]
NoSim == [lines |-> <<>>, own |-> FALSE, ok |-> FALSE]

\* A simulator that has just been launched still has its banner to print.
Booting == [lines |-> <<Marker("handshake")>>, own |-> FALSE, ok |-> FALSE]

Running(p) == p # NoPid /\ procs[p] = "running"
Exited(p) == p # NoPid /\ procs[p] = "exited"

\* waitpid on the child: its entry in the process table is gone.
Reap(p) == [procs EXCEPT ![p] = "free"]

\* What is in the pipes when the next job is submitted.
StaleItems(s) == [i \in DOMAIN s |-> [line |-> s[i].line, own |-> FALSE, ok |-> s[i].ok]]
StaleCommands(s) == [i \in DOMAIN s |-> [name |-> s[i].name, own |-> FALSE]]
StaleRun(r) == [lines |-> r.lines, own |-> FALSE, ok |-> r.ok]

-------------------------------------------------------------------------------
Init ==
    /\ sigIgn \in BOOLEAN
    /\ op = "stop" /\ pc = "idle" /\ after = "stop" /\ attempt = 1
    /\ active = FALSE /\ child = NoPid /\ pipes = FALSE /\ fdsOpen = 0
    /\ late = FALSE /\ seen = FALSE
    /\ status = "stopped" /\ basis = NoBasis /\ why = "none"
    /\ procs = [p \in Pids |-> "free"]
    /\ cmds = <<>> /\ sim = NoSim
    /\ mid = <<>> /\ stalled = FALSE /\ out = <<>>

-------------------------------------------------------------------------------
(***************************************************************************)
(* Writing a command.  A command written while the simulator runs reaches  *)
(* its stdin.  Once it has exited the write fails with EPIPE, or vanishes  *)
(* if a sibling worker's child inherited the read end (the pipes are not   *)
(* close-on-exec).  EPIPE comes with SIGPIPE, whose default is fatal.      *)
(***************************************************************************)
Write(name) ==
    \/ /\ Running(child)
       /\ Len(cmds) < PipeCapacity
       /\ cmds' = Append(cmds, [name |-> name, own |-> TRUE])
    \/ /\ ~Running(child)
       /\ UNCHANGED cmds

WriteFails == ~Running(child) /\ sigIgn

SigPipeKills ==
    /\ ~Running(child) /\ ~sigIgn
    /\ pc' = "killed"
    /\ UNCHANGED <<sigIgn, op, after, attempt, active, child, pipes, fdsOpen, late,
                   seen, status, basis, why, procs, simulator>>

Discard(reason) == pc' = "discard" /\ after' = reason

Return(s) == pc' = "idle" /\ status' = s

-------------------------------------------------------------------------------
(* The caller: the pool worker that owns the session.                      *)

CallStart ==
    /\ pc = "idle"
    /\ op' = "start" /\ pc' = "start" /\ status' = "none"
    /\ UNCHANGED <<sigIgn, after, attempt, active, child, pipes, fdsOpen, late, seen,
                   basis, why, procs, simulator>>

\* run() with a new job: whatever an earlier job left in the pipes is now stale.
CallRun ==
    /\ pc = "idle"
    /\ op' = "run" /\ pc' = "check" /\ attempt' = 1 /\ status' = "none"
    /\ basis' = NoBasis /\ why' = "none"
    /\ cmds' = StaleCommands(cmds) /\ out' = StaleItems(out) /\ mid' = StaleItems(mid)
    /\ sim' = StaleRun(sim)
    /\ UNCHANGED <<sigIgn, after, active, child, pipes, fdsOpen, late, seen, procs,
                   stalled>>

\* stop(true): a started simulator is asked to quit, then discarded.
CallStop ==
    /\ pc = "idle"
    /\ op' = "stop" /\ status' = "none"
    /\ UNCHANGED <<sigIgn, attempt, active, child, pipes, fdsOpen, late, seen, basis,
                   why, procs, sim, mid, stalled, out>>
    /\ \/ /\ active /\ pipes
          /\ \/ Write("quit") /\ Discard("stop")
             \/ WriteFails /\ Discard("stop") /\ UNCHANGED cmds
             \/ /\ ~Running(child) /\ ~sigIgn
                /\ pc' = "killed" /\ UNCHANGED <<after, cmds>>
       \/ /\ ~(active /\ pipes)
          /\ Discard("stop") /\ UNCHANGED cmds

-------------------------------------------------------------------------------
(* run(): the head of the attempt loop, and start().                       *)

CheckAlive ==
    /\ pc = "check"
    /\ active /\ Running(child)
    /\ pc' = "dispatch"
    /\ UNCHANGED <<sigIgn, op, after, attempt, active, child, pipes, fdsOpen, late,
                   seen, status, basis, why, procs, simulator>>

\* Mutant: a dead session is started again without discarding it first.
CheckDead_NoDiscard ==
    /\ pc = "check"
    /\ ~(active /\ Running(child))
    /\ IF active /\ Exited(child)
       THEN procs' = Reap(child) /\ child' = NoPid
       ELSE UNCHANGED <<procs, child>>
    /\ active' = FALSE
    /\ pc' = "start"
    /\ UNCHANGED <<sigIgn, op, after, attempt, pipes, fdsOpen, late, seen, status,
                   basis, why, simulator>>

\* !active_ || process_exited(); the latter reaps a child that has exited.
CheckDead ==
    /\ pc = "check"
    /\ ~(active /\ Running(child))
    /\ IF active /\ Exited(child)
       THEN procs' = Reap(child) /\ child' = NoPid
       ELSE UNCHANGED <<procs, child>>
    /\ active' = FALSE
    /\ Discard("start")
    /\ UNCHANGED <<sigIgn, op, attempt, pipes, fdsOpen, late, seen, status, basis, why,
                   simulator>>

\* Only a direct call finds the session active: run() discards before it starts.
StartAlreadyActive ==
    /\ pc = "start" /\ active
    /\ Return("started")
    /\ UNCHANGED <<sigIgn, op, after, attempt, active, child, pipes, fdsOpen, late,
                   seen, basis, why, procs, simulator>>

\* An exception leaves start(): the caller of start() sees it, run() catches it.
StartThrows ==
    /\ why' = "startup"
    /\ IF op = "start" THEN Return("exception") /\ UNCHANGED after
                       ELSE Discard("retry") /\ UNCHANGED status

\* prepare_workspace, pipe() or fork() fails; nothing is left open.
StartFails ==
    /\ pc = "start" /\ ~active
    /\ StartThrows
    /\ UNCHANGED <<sigIgn, op, attempt, active, child, pipes, fdsOpen, late, seen,
                   basis, procs, simulator>>

\* launch_process: child_pid_ and both descriptors are overwritten.
Launch ==
    /\ pc = "start" /\ ~active
    /\ \E p \in Pids :
          /\ procs[p] = "free"
          /\ procs' = [procs EXCEPT ![p] = "running"]
          /\ child' = p
    /\ pipes' = TRUE /\ fdsOpen' = fdsOpen + 2
    /\ late' = FALSE /\ pc' = "handshake"
    /\ cmds' = <<>> /\ sim' = Booting
    /\ mid' = <<>> /\ stalled' = FALSE /\ out' = <<>>
    /\ UNCHANGED <<sigIgn, op, after, attempt, active, seen, status, basis, why>>

-------------------------------------------------------------------------------
(***************************************************************************)
(* read_line_with_timeout.  It returns a line when one is complete, and    *)
(* nothing when select times out or at end of file.  If a piece of a line  *)
(* has been read when select times out, the piece is lost: what arrives    *)
(* later of that line no longer carries its marker.  Assumed of Spectre:   *)
(* the rest decides nothing either, though the code takes a line of just   *)
(* "t" or "nil" for a verdict whatever it was the end of.  While bytes     *)
(* keep coming and no newline does, it does not return.                    *)
(***************************************************************************)
Torn(m) ==
    [i \in DOMAIN m |-> [line |-> Marker("noise"), own |-> m[i].own, ok |-> m[i].ok]]

ReadsNothing ==
    /\ out = <<>>
    /\ mid = <<>> \/ stalled
    /\ mid' = Torn(mid)
    /\ UNCHANGED <<cmds, sim, stalled, out>>

ReadsLine ==
    /\ out # <<>>
    /\ out' = Tail(out)
    /\ UNCHANGED <<cmds, sim, mid, stalled>>

\* The deadline of the wait in progress passes.
Tick ==
    /\ pc \in {"handshake", "hspoll", "wait", "waitpoll"}
    /\ ~late /\ late' = TRUE
    /\ UNCHANGED <<sigIgn, op, pc, after, attempt, active, child, pipes, fdsOpen, seen,
                   status, basis, why, procs, simulator>>

-------------------------------------------------------------------------------
(* wait_for_handshake, and the initial command that makes a session active. *)

HandshakeDeadline ==
    /\ pc = "handshake" /\ late
    /\ Discard("rethrow") /\ why' = "startup"
    /\ UNCHANGED <<sigIgn, op, attempt, active, child, pipes, fdsOpen, late, seen,
                   status, basis, procs, simulator>>

HandshakeReadsLine ==
    /\ pc = "handshake" /\ ~late
    /\ ReadsLine
    /\ pc' = IF Head(out).line.kind = "handshake" THEN "init" ELSE "handshake"
    /\ UNCHANGED <<sigIgn, op, after, attempt, active, child, pipes, fdsOpen, late,
                   seen, status, basis, why, procs>>

HandshakeReadsNothing ==
    /\ pc = "handshake" /\ ~late
    /\ ReadsNothing
    /\ pc' = "hspoll"
    /\ UNCHANGED <<sigIgn, op, after, attempt, active, child, pipes, fdsOpen, late,
                   seen, status, basis, why, procs>>

HandshakePollAlive ==
    /\ pc = "hspoll" /\ Running(child)
    /\ pc' = "handshake"
    /\ UNCHANGED <<sigIgn, op, after, attempt, active, child, pipes, fdsOpen, late,
                   seen, status, basis, why, procs, simulator>>

HandshakePollExited ==
    /\ pc = "hspoll" /\ Exited(child)
    /\ procs' = Reap(child) /\ child' = NoPid
    /\ Discard("rethrow") /\ why' = "startup"
    /\ UNCHANGED <<sigIgn, op, attempt, active, pipes, fdsOpen, late, seen, status,
                   basis, simulator>>

WriteInit ==
    /\ pc = "init"
    /\ Write("init")
    /\ active' = TRUE
    /\ IF op = "start" THEN Return("started") ELSE pc' = "dispatch" /\ UNCHANGED status
    /\ UNCHANGED <<sigIgn, op, after, attempt, child, pipes, fdsOpen, late, seen, basis,
                   why, procs, sim, mid, stalled, out>>

WriteInitFails ==
    /\ pc = "init" /\ WriteFails
    /\ Discard("rethrow") /\ why' = "startup"
    /\ UNCHANGED <<sigIgn, op, attempt, active, child, pipes, fdsOpen, late, seen,
                   status, basis, procs, simulator>>

WriteInitKills == pc = "init" /\ SigPipeKills

-------------------------------------------------------------------------------
(* run_once and wait_for_completion.                                       *)

Dispatch ==
    /\ pc = "dispatch"
    /\ Write("run")
    /\ pc' = "wait" /\ late' = FALSE /\ seen' = FALSE
    /\ UNCHANGED <<sigIgn, op, after, attempt, active, child, pipes, fdsOpen, status,
                   basis, why, procs, sim, mid, stalled, out>>

DispatchFails ==
    /\ pc = "dispatch" /\ WriteFails
    /\ Discard("retry") /\ why' = "transport"
    /\ UNCHANGED <<sigIgn, op, attempt, active, child, pipes, fdsOpen, late, seen,
                   status, basis, procs, simulator>>

DispatchKills == pc = "dispatch" /\ SigPipeKills

\* Mutants: a run that times out leaves the simulator running; is retried like a
\* transport failure; is retried on the simulator that is still busy with it.
RunDeadline_NoDiscard ==
    /\ pc = "wait" /\ late
    /\ Return("timeout") /\ why' = "timeout"
    /\ UNCHANGED <<sigIgn, op, after, attempt, active, child, pipes, fdsOpen, late,
                   seen, basis, procs, simulator>>

RunDeadline_Retries ==
    /\ pc = "wait" /\ late
    /\ Discard("retry") /\ why' = "timeout"
    /\ UNCHANGED <<sigIgn, op, attempt, active, child, pipes, fdsOpen, late, seen,
                   status, basis, procs, simulator>>

RunDeadline_RetriesInPlace ==
    /\ pc = "wait" /\ late
    /\ attempt < MaxAttempts /\ attempt' = attempt + 1
    /\ pc' = "check" /\ why' = "transport"
    /\ UNCHANGED <<sigIgn, op, after, active, child, pipes, fdsOpen, late, seen, status,
                   basis, procs, simulator>>

\* The deadline is looked at between lines only.
RunDeadline ==
    /\ pc = "wait" /\ late
    /\ Discard("timeout") /\ why' = "timeout"
    /\ UNCHANGED <<sigIgn, op, attempt, active, child, pipes, fdsOpen, late, seen,
                   status, basis, procs, simulator>>

RunReadsLine ==
    /\ pc = "wait" /\ ~late
    /\ ReadsLine
    /\ LET item == Head(out)
           verdict == Classify(item.line, seen)
       IN /\ seen' = SeesResourceStats(item.line, seen)
          /\ \/ /\ verdict = "continue"
                /\ UNCHANGED <<pc, status, basis>>
             \/ /\ verdict # "continue"
                /\ Return(IF verdict = "succeeded" THEN "success" ELSE "sim_failed")
                /\ basis' = [own |-> item.own, ok |-> item.ok]
    /\ UNCHANGED <<sigIgn, op, after, attempt, active, child, pipes, fdsOpen, late, why,
                   procs>>

RunReadsNothing ==
    /\ pc = "wait" /\ ~late
    /\ ReadsNothing
    /\ pc' = "waitpoll"
    /\ UNCHANGED <<sigIgn, op, after, attempt, active, child, pipes, fdsOpen, late,
                   seen, status, basis, why, procs>>

\* Mutant: the deadline is computed anew at every turn of the loop.
RunPollAlive_RestartsClock ==
    /\ pc = "waitpoll" /\ Running(child)
    /\ pc' = "wait" /\ late' = FALSE
    /\ UNCHANGED <<sigIgn, op, after, attempt, active, child, pipes, fdsOpen, seen,
                   status, basis, why, procs, simulator>>

RunPollAlive ==
    /\ pc = "waitpoll" /\ Running(child)
    /\ pc' = "wait"
    /\ UNCHANGED <<sigIgn, op, after, attempt, active, child, pipes, fdsOpen, late,
                   seen, status, basis, why, procs, simulator>>

RunPollExited ==
    /\ pc = "waitpoll" /\ Exited(child)
    /\ procs' = Reap(child) /\ child' = NoPid /\ active' = FALSE
    /\ Discard("retry") /\ why' = "transport"
    /\ UNCHANGED <<sigIgn, op, attempt, pipes, fdsOpen, late, seen, status, basis,
                   simulator>>

-------------------------------------------------------------------------------
(***************************************************************************)
(* discard_process: poll for up to two seconds, then SIGKILL and wait;     *)
(* close the descriptors; forget the process.  Then what `after` says.     *)
(***************************************************************************)
\* Mutant: active_ is not reset.
CloseAndForget_KeepsActive ==
    /\ procs' = IF child = NoPid THEN procs ELSE Reap(child)
    /\ child' = NoPid /\ pipes' = FALSE /\ UNCHANGED active
    /\ fdsOpen' = IF pipes THEN fdsOpen - 2 ELSE fdsOpen
    /\ cmds' = <<>> /\ sim' = NoSim
    /\ mid' = <<>> /\ stalled' = FALSE /\ out' = <<>>

CloseAndForget ==
    /\ procs' = IF child = NoPid THEN procs ELSE Reap(child)
    /\ child' = NoPid /\ active' = FALSE /\ pipes' = FALSE
    /\ fdsOpen' = IF pipes THEN fdsOpen - 2 ELSE fdsOpen
    /\ cmds' = <<>> /\ sim' = NoSim
    /\ mid' = <<>> /\ stalled' = FALSE /\ out' = <<>>

\* Mutant: the loop runs once too often.
NextAttempt_OffByOne ==
    \/ /\ attempt > MaxAttempts
       /\ Return("transport") /\ UNCHANGED <<attempt, after>>
    \/ /\ attempt <= MaxAttempts
       /\ attempt' = attempt + 1 /\ pc' = "check" /\ UNCHANGED <<status, after>>

\* The attempt loop after a failed attempt: the next one, or the failure is returned.
NextAttempt ==
    \/ /\ attempt = MaxAttempts
       /\ Return("transport") /\ UNCHANGED <<attempt, after>>
    \/ /\ attempt < MaxAttempts
       /\ attempt' = attempt + 1 /\ pc' = "check" /\ UNCHANGED <<status, after>>

Resume ==
    \/ after = "start" /\ pc' = "start" /\ UNCHANGED <<status, attempt, after>>
    \/ /\ after = "rethrow" /\ op = "start"
       /\ Return("exception") /\ UNCHANGED <<attempt, after>>
    \/ /\ after = "rethrow" /\ op = "run"
       /\ Discard("retry") /\ UNCHANGED <<status, attempt>>
    \/ after = "retry" /\ NextAttempt
    \/ after = "timeout" /\ Return("timeout") /\ UNCHANGED <<attempt, after>>
    \/ after = "stop" /\ Return("stopped") /\ UNCHANGED <<attempt, after>>

\* The child is gone, or goes within the two seconds it is given, or is killed.
DiscardProcess ==
    /\ pc = "discard"
    /\ CloseAndForget
    /\ Resume
    /\ UNCHANGED <<sigIgn, op, late, seen, basis, why>>

-------------------------------------------------------------------------------
(***************************************************************************)
(* The simulator.                                                          *)
(***************************************************************************)
SimUnchanged == UNCHANGED <<session, procs>>

\* What the interpreter prints for the initial command: the circuit handle, or nil.
Echo(k) == [lines |-> <<Marker(k)>>, own |-> FALSE, ok |-> FALSE]

SimReadsCommand ==
    /\ Running(child)
    /\ sim.lines = <<>> /\ mid = <<>> /\ cmds # <<>>
    /\ cmds' = Tail(cmds)
    /\ \/ /\ Head(cmds).name = "init"
          /\ \E k \in {"noise", "nil"} : sim' = Echo(k)
          /\ UNCHANGED procs
       \/ /\ Head(cmds).name = "run"
          /\ \E s \in Scripts :
                sim' = [lines |-> s.lines, own |-> Head(cmds).own, ok |-> s.ok]
          /\ UNCHANGED procs
       \/ /\ Head(cmds).name = "quit"
          /\ procs' = [procs EXCEPT ![child] = "exited"]
          /\ UNCHANGED sim
    /\ UNCHANGED <<session, mid, stalled, out>>

Rest(r) == [lines |-> Tail(r.lines), own |-> r.own, ok |-> r.ok]
NextItem == [line |-> Head(sim.lines), own |-> sim.own, ok |-> sim.ok]

SimPrintsLine ==
    /\ Running(child) /\ sim.lines # <<>> /\ mid = <<>>
    /\ Len(out) < PipeCapacity
    /\ out' = Append(out, NextItem)
    /\ sim' = Rest(sim)
    /\ SimUnchanged /\ UNCHANGED <<cmds, mid, stalled>>

\* Only a first piece of the line gets into the pipe.
SimPrintsPiece ==
    /\ Running(child) /\ sim.lines # <<>> /\ mid = <<>>
    /\ Len(out) < PipeCapacity
    /\ mid' = <<NextItem>> /\ stalled' = FALSE
    /\ sim' = Rest(sim)
    /\ SimUnchanged /\ UNCHANGED <<cmds, out>>

SimStalls ==
    /\ Running(child) /\ mid # <<>> /\ ~stalled
    /\ stalled' = TRUE
    /\ SimUnchanged /\ UNCHANGED <<cmds, sim, mid, out>>

SimFinishesLine ==
    /\ Running(child) /\ mid # <<>>
    /\ out' = out \o mid /\ mid' = <<>> /\ stalled' = FALSE
    /\ SimUnchanged /\ UNCHANGED <<cmds, sim>>

(***************************************************************************)
(* The simulator exits: on its own, crashing, or because exec failed.  An  *)
(* unfinished line is returned at end of file, unless a sibling's child    *)
(* still holds the write end, in which case no end of file is ever seen.   *)
(***************************************************************************)
SimExits ==
    /\ Running(child)
    /\ procs' = [procs EXCEPT ![child] = "exited"]
    /\ cmds' = <<>> /\ sim' = NoSim /\ mid' = <<>> /\ stalled' = FALSE
    /\ out' = out \o mid \/ out' = out
    /\ UNCHANGED session

-------------------------------------------------------------------------------
Caller == CallStart \/ CallRun \/ CallStop

Session ==
    \/ CheckAlive \/ CheckDead
    \/ StartAlreadyActive \/ StartFails \/ Launch
    \/ HandshakeDeadline \/ HandshakeReadsLine \/ HandshakeReadsNothing
    \/ HandshakePollAlive \/ HandshakePollExited
    \/ WriteInit \/ WriteInitFails \/ WriteInitKills
    \/ Dispatch \/ DispatchFails \/ DispatchKills
    \/ RunDeadline \/ RunReadsLine \/ RunReadsNothing
    \/ RunPollAlive \/ RunPollExited
    \/ DiscardProcess

Simulator ==
    \/ SimReadsCommand \/ SimPrintsLine
    \/ SimPrintsPiece \/ SimStalls \/ SimFinishesLine \/ SimExits

Next == Caller \/ Session \/ Tick \/ Simulator

Spec == Init /\ [][Next]_vars

(***************************************************************************)
(* Fairness.  The thread inside a call keeps running and time passes.  Of  *)
(* the simulator only this is assumed: having begun a line, it finishes    *)
(* it, falls silent or exits; it does not trickle one line for ever.       *)
(***************************************************************************)
SimLeavesLine == mid # <<>> /\ ~stalled /\ (SimStalls \/ SimFinishesLine \/ SimExits)

Fairness ==
    /\ WF_vars(Session)
    /\ WF_vars(Tick)
    /\ WF_vars(SimLeavesLine)

FairSpec == Spec /\ Fairness

-------------------------------------------------------------------------------
(***************************************************************************)
(* Properties.                                                             *)
(***************************************************************************)
OpenStatus == {"none", "started", "stopped", "exception", "success", "sim_failed",
               "timeout", "transport"}

ControlOK ==
    /\ sigIgn \in BOOLEAN
    /\ op \in {"start", "run", "stop"}
    /\ pc \in {"idle", "check", "start", "handshake", "hspoll", "init", "dispatch",
               "wait", "waitpoll", "discard", "killed"}
    /\ after \in {"start", "rethrow", "retry", "timeout", "stop"}
    /\ attempt \in 1..MaxAttempts
    /\ late \in BOOLEAN /\ seen \in BOOLEAN
    /\ status \in OpenStatus
    /\ basis \in [own : BOOLEAN, ok : BOOLEAN]
    /\ why \in {"none", "startup", "transport", "timeout"}

ProcsOK ==
    /\ active \in BOOLEAN /\ pipes \in BOOLEAN
    /\ child \in Pids \cup {NoPid}
    /\ fdsOpen \in Nat
    /\ procs \in [Pids -> {"free", "running", "exited"}]

PipesOK ==
    /\ cmds \in Seq(Command)
    /\ sim \in [lines : Seq(Line), own : BOOLEAN, ok : BOOLEAN]
    /\ mid \in Seq(Item) /\ stalled \in BOOLEAN /\ out \in Seq(Item)

\* Every variable keeps to its domain; in particular the attempt counter of run()
\* never exceeds restart_attempts + 1.
TypeOK == ControlOK /\ ProcsOK /\ PipesOK

\* However calls, failed starts, crashes and retries follow one another, the only
\* process in the process table is the one child_pid_ names (no simulator is orphaned
\* and no zombie is left behind), and no pipe descriptor is lost.
NoLeak ==
    /\ \A p \in Pids : procs[p] # "free" => p = child
    /\ fdsOpen = IF pipes THEN 2 ELSE 0

\* Between calls a session is either fully up (active, with pipes and a child) or fully
\* down, and a call that ended in a failure of its own has left it down: a late answer
\* of a run that timed out has no pipe left to arrive by.
SettledWhenIdle ==
    pc = "idle" =>
        /\ active <=> pipes
        /\ active <=> child # NoPid
        /\ status \in {"exception", "timeout", "transport", "stopped"} =>
               ~active /\ out = <<>> /\ sim.lines = <<>>

Answered == pc = "idle" /\ status \in {"success", "sim_failed"}

\* A verdict is read from output of the very run it is reported for, and is what that
\* run came to: classify_spectre_completion_line on the lines of this job, not on what an
\* earlier job left in the pipe.
VerdictIsTheRuns ==
    Answered => /\ basis.own
                /\ (status = "success") = basis.ok

OwnCommands == {i \in DOMAIN cmds : cmds[i].name = "run" /\ cmds[i].own}

\* However often run() retries, at most one simulation of the current job is queued or
\* under way.
OneSimulationPerJob ==
    /\ \A i, j \in OwnCommands : i = j
    /\ (sim.lines # <<>> /\ sim.own) => OwnCommands = {}

\* run() submits a job again only after a failure to start or to talk to the simulator,
\* and only once the simulator that had the job is gone.  A timeout is final.
RetryOnlyAfterTransportFailure ==
    [][ (op = "run" /\ op' = "run" /\ attempt' > attempt) =>
          /\ why \in {"startup", "transport"}
          /\ \A p \in Pids : procs'[p] = "free" ]_vars

\* Every call returns: the deadlines of the handshake and of the run bound each wait,
\* and the attempts are bounded, whatever the simulator does.  (A host that SIGPIPE kills
\* returns from nothing.)
EveryCallReturns == (pc # "idle" /\ sigIgn) ~> (pc = "idle")

-------------------------------------------------------------------------------
(***************************************************************************)
(* The inductive invariant behind NoLeak, SettledWhenIdle,                 *)
(* OneSimulationPerJob and RetryOnlyAfterTransportFailure.                 *)
(***************************************************************************)
Up == active /\ pipes /\ child # NoPid
Down == ~active /\ ~pipes /\ child = NoPid

\* How much of the session is up at each point of a call.
Shape ==
    /\ pc \in {"idle", "check", "start"} => Up \/ Down
    /\ pc \in {"handshake", "hspoll", "init"} => ~active /\ pipes /\ child # NoPid
    /\ pc \in {"dispatch", "wait", "waitpoll"} => Up
    /\ child # NoPid => pipes /\ procs[child] # "free"
    /\ ~pipes => out = <<>> /\ sim = NoSim

\* Which calls get where, and a failed attempt knows what failed.
CallShape ==
    /\ pc \in {"check", "dispatch", "wait", "waitpoll"} => op = "run"
    /\ pc \in {"start", "handshake", "hspoll", "init"} => op # "stop"
    /\ pc = "discard" /\ after \in {"start", "retry", "timeout"} => op = "run"
    /\ pc = "discard" /\ after = "rethrow" => op # "stop"
    /\ pc = "discard" /\ after = "stop" => op = "stop"
    /\ pc = "start" /\ op = "run" => ~active
    /\ pc = "discard" /\ after \in {"rethrow", "retry"} => why \in {"startup", "transport"}

\* Before the run command of an attempt is written, the simulator has none of this job's.
NothingSubmitted ==
    op = "run" /\ pc \in {"check", "start", "handshake", "hspoll", "init", "dispatch"} =>
        OwnCommands = {} /\ ~sim.own

Inv ==
    /\ TypeOK /\ NoLeak /\ Shape /\ SettledWhenIdle
    /\ CallShape /\ NothingSubmitted /\ OneSimulationPerJob

-------------------------------------------------------------------------------
(***************************************************************************)
(* What VerdictIsTheRuns needs of the scripts, and the inductive invariant *)
(* behind it.                                                              *)
(***************************************************************************)

\* Lines that can end a run, and lines that bring a later verdict about: a result alone
\* means nothing before the statistics.
Clean(line) == line.kind = "completes" /\ ContainsZeroErrors(line.errors)
Decides(line) == line.kind \in {"t", "nil"} \/ Clean(line)
Tells(line) == line.kind = "stats" \/ Clean(line)
Truthful(line, ok) == IF ok THEN line.kind # "nil" ELSE line.kind # "t" /\ ~Clean(line)

\* No line tells the wrong result, and after one that can end a run there is none that
\* could lead to another verdict: neither statistics nor a clean closing line.
DecideOnce(scripts) ==
    \A s \in scripts : \A i \in DOMAIN s.lines :
        /\ Truthful(s.lines[i], s.ok)
        /\ \A j \in DOMAIN s.lines : i < j /\ Decides(s.lines[i]) => ~Tells(s.lines[j])

\* All the session can still read: whole lines, a piece, and what is left of the run.
ToPrint(run) ==
    [i \in DOMAIN run.lines |-> [line |-> run.lines[i], own |-> run.own, ok |-> run.ok]]
Output(lines, piece, run) == lines \o piece \o ToPrint(run)
Pending == Output(out, mid, sim)

\* What was left for the job tells it nothing, and comes before what is the job's own.
GoodItems(items) ==
    \A i \in DOMAIN items :
        /\ ~items[i].own => ~Tells(items[i].line)
        /\ items[i].own => Truthful(items[i].line, items[i].ok)
        /\ \A j \in DOMAIN items : i < j /\ items[i].own =>
              items[j].own /\ (Decides(items[i].line) => ~Tells(items[j].line))

AllOwn(items) == \A i \in DOMAIN items : items[i].own
NoneOwn(items) == \A i \in DOMAIN items : ~items[i].own
NoneTells(items) == \A i \in DOMAIN items : ~Tells(items[i].line)

Waiting == pc \in {"wait", "waitpoll"}
NoRunQueued == \A i \in DOMAIN cmds : cmds[i].name # "run"
OnlyQuits == \A i \in DOMAIN cmds : cmds[i].name = "quit"

\* A run that is queued is the job's and the last thing asked of the simulator, until it
\* is told to quit.
QueueOK ==
    \A i \in DOMAIN cmds : cmds[i].name = "run" =>
        /\ cmds[i].own
        /\ \A j \in DOMAIN cmds : i < j => cmds[j].name = "quit"

\* From the first own line on there is nothing of earlier jobs to come, and statistics
\* that were seen are the job's; outside a run, nothing in the pipe tells anything.
VerdictInv ==
    /\ GoodItems(Pending) /\ QueueOK
    /\ ~NoneOwn(Pending) \/ (Waiting /\ seen) => OnlyQuits
    /\ Waiting /\ seen => AllOwn(Pending)
    /\ pc \notin {"wait", "waitpoll", "discard", "killed"} =>
          NoRunQueued /\ NoneTells(Pending)
    /\ pc \in {"handshake", "hspoll", "init", "dispatch"} => NoneOwn(Pending)
    /\ pc \in {"check", "start"} /\ op = "run" => NoneOwn(Pending)
    /\ VerdictIsTheRuns

-------------------------------------------------------------------------------
(***************************************************************************)
(* The session as a SessionService.  A job is submitted while its command  *)
(* is in the queue; from then on what it came to is what its lines say,    *)
(* for as long as one of them is there to be read.                         *)
(***************************************************************************)
Outcomes(items) == {items[i].ok : i \in {j \in DOMAIN items : items[j].own}}

CallInProgress == IF pc = "idle" THEN "none" ELSE op

Simulation ==
    IF op # "run" \/ Answered THEN "none"
    ELSE IF TRUE \in Outcomes(Pending) THEN "success"
    ELSE IF FALSE \in Outcomes(Pending) THEN "sim_failed"
    ELSE IF OwnCommands # {} THEN "submitted" ELSE "none"

Promised == INSTANCE SessionService WITH
    RunFailures <- {"timeout", "transport"},
    call <- CallInProgress, fresh <- TRUE, job <- Simulation, answer <- status

\* Every step of the session and its simulator is one of the service or none: a job is
\* submitted when nothing of an earlier attempt is left, its verdict is what that one
\* simulation came to, and a run that failed has left nothing to be read.
ImplementsSessionService == Promised!CSpec

\* What is to be read of the job was printed by one simulation of it, and between calls
\* nothing of a job is with the simulator or to be read but what follows a verdict.
OneOutcome == Outcomes(Pending) # BOOLEAN
QuietWhenIdle == pc = "idle" => Simulation = "none"
ServiceInv == OneOutcome /\ QuietWhenIdle

-------------------------------------------------------------------------------
(* Promises of the documentation that the code does not keep.              *)

\* A simulator that goes away costs the caller a transport failure, not its process.
HostSurvives == pc # "killed"
===============================================================================
