------------------------- MODULE NgspiceSessionProofs -------------------------
(***************************************************************************)
(* Proofs about NgspiceSession, for any set of directories, any number of  *)
(* runs and any parameter states.                                          *)
(***************************************************************************)
EXTENDS NgspiceSession, TLAPS

\* What an exit code leads to.
LEMMA ExitedCases ==
    ASSUME NEW c, Exited(c)
    PROVE  \/ c = "zero" /\ pc' = "read" /\ status' = status
           \/ pc' = "idle" /\ status' \in {"startup_failed", "sim_failed"}
BY DEF Exited, Return

\* Initially the invariant holds.
LEMMA InitInv == Init => Inv
<1> SUFFICES ASSUME Init PROVE Inv
  OBVIOUS
<1>1. NoFile \in File /\ NoFile.by = 0
  BY RunsAssumption DEF NoFile, File, Extents
<1>2. TypeOK
  <2>1. \A r \in Runs : proc[r] = "none" /\ code[r] \in Codes /\ home[r] \in Dirs
    BY DEF Init, Codes
  <2>2. out \in [Dirs -> File] BY <1>1 DEF Init
  <2>3. home \in [Runs -> Dirs] BY DEF Init
  <2>4. 0 \in 0..MaxRuns BY RunsAssumption
  <2> QED BY <2>1, <2>2, <2>3, <2>4 DEF Init, TypeOK, CallStatus, Codes
<1>3. NoProcessLeft /\ ProcShape /\ FreshInUnusedDir
  BY DEF Init, NoProcessLeft, ProcShape, FreshInUnusedDir, Succeeded
<1>4. OutputShape
  BY <1>1 DEF Init, OutputShape
<1> QED BY <1>2, <1>3, <1>4 DEF Inv

\* The calls: no process runs between calls, and none is started by the call itself or by
\* the end of the version query.
LEMMA CallStep ==
    ASSUME Inv, CallStart \/ CallStop \/ Queried \/ \E d \in Dirs : CallRun(d)
    PROVE  Inv'
<1> USE RunsAssumption DEF Return, StartThrows, StartQueries, session, system
<1>1. CASE CallStart
  BY <1>1 DEF CallStart, Inv, TypeOK, NoProcessLeft, ProcShape, OutputShape,
              FreshInUnusedDir, Succeeded, CallStatus
<1>2. CASE CallStop
  BY <1>2 DEF CallStop, Inv, TypeOK, NoProcessLeft, ProcShape, OutputShape,
              FreshInUnusedDir, Succeeded, CallStatus
<1>3. ASSUME NEW d \in Dirs, CallRun(d) PROVE Inv'
  <2>1. TypeOK'
    <3>1. /\ run \in 0..MaxRuns /\ run < MaxRuns /\ run' = run + 1
          /\ dir' = d /\ late' = FALSE /\ unused' \in BOOLEAN
          /\ pc' \in {"idle", "probe", "prepare"} /\ status' \in {"none", "exception"}
          /\ UNCHANGED <<autoReap, started, made, out, proc, home, code>>
      BY <1>3 DEF CallRun, Inv, TypeOK
    <3>2. run' \in 0..MaxRuns BY <3>1
    <3> QED BY <3>1, <3>2 DEF Inv, TypeOK, CallStatus
  <2>2. NoProcessLeft'
    BY <1>3 DEF CallRun, Inv, TypeOK, NoProcessLeft, Runs
  <2>3. ProcShape'
    <3>1. /\ run \in 0..MaxRuns /\ run < MaxRuns /\ run' = run + 1
          /\ pc' \in {"idle", "probe", "prepare"} /\ UNCHANGED <<proc, home>>
      BY <1>3 DEF CallRun, Inv, TypeOK
    <3>2. run' \in Runs /\ run' > run BY <3>1 DEF Runs
    <3>3. \A r \in Runs : r > run => proc[r] = "none" BY DEF Inv, ProcShape
    <3> QED BY <3>1, <3>2, <3>3 DEF ProcShape, Runs
  <2>4. OutputShape'
    <3>1. /\ run \in 0..MaxRuns /\ run' = run + 1 /\ out' = out /\ dir' = d
          /\ pc' \in {"idle", "probe", "prepare"}
          /\ \A e \in Dirs : out[e].by <= run /\ out[e].by \in 0..MaxRuns
      BY <1>3 DEF CallRun, Inv, TypeOK, OutputShape, File
    <3>2. unused' => out'[dir'] = NoFile
      BY <1>3, Zenon DEF CallRun, system
    <3>3. \A e \in Dirs : out'[e].by <= run' /\ out'[e].by # run'
      BY <3>1
    <3> QED BY <3>1, <3>2, <3>3 DEF OutputShape
  <2>5. FreshInUnusedDir'
    BY <1>3 DEF CallRun, FreshInUnusedDir, Succeeded
  <2> QED BY <2>1, <2>2, <2>3, <2>4, <2>5 DEF Inv
<1>4. CASE Queried
  BY <1>4 DEF Queried, Inv, TypeOK, NoProcessLeft, ProcShape, OutputShape,
              FreshInUnusedDir, Succeeded, CallStatus
<1> QED BY <1>1, <1>2, <1>3, <1>4

\* The steps of run() before there is a process, and the reading of its output.
LEMMA QuietStep ==
    ASSUME Inv, Prepare \/ LaunchFails \/ ReadOutput \/ Tick
    PROVE  Inv'
<1> USE RunsAssumption DEF Return, session, system
<1>1. CASE Prepare
  <2>1. /\ pc = "prepare" /\ pc' \in {"idle", "launch"}
        /\ UNCHANGED <<autoReap, started, run, dir, late, unused, out, proc, home, code>>
        /\ made' \in {made, made \cup {dir}}
        /\ \/ status' \in {"startup_failed", "transport", "exception"}
           \/ status' = status /\ pc' = "launch"
    BY <1>1 DEF Prepare
  <2>2. TypeOK'
    BY <2>1 DEF Inv, TypeOK, CallStatus
  <2> QED
    BY <2>1, <2>2 DEF Inv, NoProcessLeft, ProcShape, OutputShape, FreshInUnusedDir,
                      Succeeded, TypeOK, Runs
<1>2. CASE LaunchFails
  BY <1>2 DEF LaunchFails, Inv, TypeOK, NoProcessLeft, ProcShape, OutputShape,
              FreshInUnusedDir, Succeeded, CallStatus
<1>3. CASE ReadOutput
  <2>1. TypeOK' /\ NoProcessLeft' /\ ProcShape' /\ OutputShape'
    BY <1>3 DEF ReadOutput, Inv, TypeOK, NoProcessLeft, ProcShape, OutputShape,
                CallStatus
  <2>2. FreshInUnusedDir'
    <3>1. SUFFICES ASSUME Succeeded', unused'
                   PROVE  out'[dir'] = Written(run')
      BY DEF FreshInUnusedDir
    <3>2. MayRead(out[dir]) /\ UNCHANGED <<unused, out, dir, run>> /\ pc = "read"
      BY <1>3, <3>1 DEF ReadOutput, Succeeded
    <3>3. out[dir].by = run /\ out[dir].extent = "whole"
      BY <3>1, <3>2 DEF Inv, OutputShape, MayRead, NoFile
    <3>4. out[dir] \in File
      BY DEF Inv, TypeOK
    <3> QED BY <3>2, <3>3, <3>4 DEF File, Written
  <2> QED BY <2>1, <2>2 DEF Inv
<1>4. CASE Tick
  BY <1>4 DEF Tick, Inv, TypeOK, NoProcessLeft, ProcShape, OutputShape,
              FreshInUnusedDir, Succeeded
<1> QED BY <1>1, <1>2, <1>3, <1>4

LEMMA LaunchStep == ASSUME Inv, Launch PROVE Inv'
<1> USE RunsAssumption DEF Launch
<1>1. TypeOK' BY DEF Inv, TypeOK, ProcShape
<1>2. NoProcessLeft' BY DEF Inv, TypeOK, NoProcessLeft, ProcShape
<1>3. ProcShape' BY DEF Inv, TypeOK, ProcShape, Runs
<1>4. OutputShape' BY DEF Inv, TypeOK, ProcShape, OutputShape
<1>5. FreshInUnusedDir' BY DEF FreshInUnusedDir, Succeeded
<1> QED BY <1>1, <1>2, <1>3, <1>4, <1>5 DEF Inv

\* The three ways in which the wait for the simulator ends: it is gone afterwards, but for
\* its zombie.
LEMMA WaitEnds ==
    ASSUME Inv, Reap \/ WaitFails \/ Terminate
    PROVE  Inv'
<1> USE RunsAssumption DEF Return, session, system
<1>1. /\ pc = "wait" /\ run \in Runs
      /\ UNCHANGED <<autoReap, started, run, dir, late, unused, made, out, home, code>>
      /\ \E left \in {"gone", "zombie"} : proc' = [proc EXCEPT ![run] = left]
      /\ pc' = "read" => proc' = [proc EXCEPT ![run] = "gone"]
      /\ \/ pc' = "idle" /\ status' \in {"startup_failed", "sim_failed", "timeout"}
         \/ /\ pc' = "read" /\ status' = status
            /\ proc[run] = "exited" /\ code[run] = "zero"
  BY ExitedCases DEF Reap, WaitFails, Terminate, Inv, ProcShape, TypeOK
<1>2. TypeOK' BY <1>1 DEF Inv, TypeOK, CallStatus
<1>3. NoProcessLeft' BY <1>1 DEF Inv, TypeOK, NoProcessLeft
<1>4. ProcShape' BY <1>1 DEF Inv, TypeOK, ProcShape, Runs
<1>5. OutputShape' BY <1>1 DEF Inv, TypeOK, OutputShape
<1>6. FreshInUnusedDir' BY <1>1 DEF FreshInUnusedDir, Succeeded
<1> QED BY <1>2, <1>3, <1>4, <1>5, <1>6 DEF Inv

\* Only the simulator of the current run takes steps, in the directory of that run.
LEMMA OnlyCurrent ==
    ASSUME Inv, NEW r \in Runs, proc[r] = "running"
    PROVE  r = run /\ pc = "wait" /\ home[r] = dir /\ r \in 1..MaxRuns
BY DEF Inv, NoProcessLeft, ProcShape, Runs

LEMMA WritesStep == ASSUME Inv, NEW r \in Runs, SimWrites(r) PROVE Inv'
<1> USE RunsAssumption DEF session
<1>1. r = run /\ pc = "wait" /\ home[r] = dir /\ proc[r] = "running"
  BY OnlyCurrent DEF SimWrites
<1>2. PICK f \in File : out' = [out EXCEPT ![dir] = f] /\ f.by = run
  <2>1. PICK e \in {"empty", "partial", "whole", "odd"} :
          out' = [out EXCEPT ![dir] = [by |-> run, extent |-> e]]
    BY <1>1 DEF SimWrites, Written
  <2>2. run \in 0..MaxRuns BY <1>1 DEF Runs
  <2>3. [by |-> run, extent |-> e] \in File BY <2>2 DEF File, Extents
  <2> QED BY <2>1, <2>3
<1>3. UNCHANGED <<session, made, proc, home, code>> BY DEF SimWrites
<1>4. TypeOK' BY <1>2, <1>3 DEF Inv, TypeOK
<1>5. NoProcessLeft' /\ ProcShape' BY <1>3 DEF Inv, NoProcessLeft, ProcShape
<1>6. OutputShape' BY <1>1, <1>2, <1>3 DEF Inv, TypeOK, OutputShape, Runs
<1>7. FreshInUnusedDir' BY <1>1, <1>3 DEF FreshInUnusedDir, Succeeded
<1> QED BY <1>4, <1>5, <1>6, <1>7 DEF Inv

LEMMA ExitsStep == ASSUME Inv, NEW r \in Runs, SimExits(r) PROVE Inv'
<1> USE RunsAssumption DEF session
<1>1. r = run /\ pc = "wait" /\ home[r] = dir /\ proc[r] = "running"
  BY OnlyCurrent DEF SimExits
<1>2. PICK c \in Codes : /\ code' = [code EXCEPT ![r] = c]
                         /\ c = "zero" /\ Begun(r) => out[home[r]].extent \in {"whole", "odd"}
  BY DEF SimExits
<1>3. UNCHANGED <<session, made, out, home>> /\ proc' \in {[proc EXCEPT ![r] = "gone"],
                                                      [proc EXCEPT ![r] = "exited"]}
  BY DEF SimExits
<1>4. TypeOK' BY <1>2, <1>3 DEF Inv, TypeOK
<1>5. NoProcessLeft' BY <1>1, <1>3 DEF Inv, TypeOK, NoProcessLeft
<1>6. ProcShape' BY <1>1, <1>3 DEF Inv, TypeOK, ProcShape, Runs
<1>7. OutputShape' BY <1>1, <1>2, <1>3 DEF Inv, TypeOK, OutputShape, Begun
<1>8. FreshInUnusedDir' BY <1>1, <1>3 DEF FreshInUnusedDir, Succeeded
<1> QED BY <1>4, <1>5, <1>6, <1>7, <1>8 DEF Inv

LEMMA NextInv == Inv /\ [Next]_vars => Inv'
<1> SUFFICES ASSUME Inv, [Next]_vars PROVE Inv'
  OBVIOUS
<1>1. CASE UNCHANGED vars
  BY <1>1 DEF vars, session, system, Inv, TypeOK, NoProcessLeft, ProcShape, OutputShape,
              FreshInUnusedDir, Succeeded
<1>2. CASE Next
  BY <1>2, CallStep, QuietStep, LaunchStep, WaitEnds, WritesStep, ExitsStep
     DEF Next, Session
<1> QED BY <1>1, <1>2

\* The inductive invariant holds in every reachable state.
THEOREM InvHolds == Spec => []Inv
<1>1. QED BY InitInv, NextInv, PTL DEF Spec

\* Every variable keeps to its domain.
THEOREM TypeCorrect == Spec => []TypeOK
<1>1. Inv => TypeOK BY DEF Inv
<1> QED BY <1>1, InvHolds, PTL

\* No ngspice process outlives the run it was started for, but for the zombie of one that
\* was killed.
THEOREM NothingOutlives == Spec => []NoProcessLeft
<1>1. Inv => NoProcessLeft BY DEF Inv
<1> QED BY <1>1, InvHolds, PTL

\* A success in a directory without earlier output is this run's own, complete output.
THEOREM SuccessIsFresh == Spec => []FreshInUnusedDir
<1>1. Inv => FreshInUnusedDir BY DEF Inv
<1> QED BY <1>1, InvHolds, PTL

\* Only the simulator of the run that waits writes, and only in that run's directory.
LEMMA WriteStep ==
    Inv /\ [Next]_vars =>
      [\A d \in Dirs : out'[d] # out[d] =>
          pc = "wait" /\ d = dir /\ out'[d].by = run]_vars
<1> SUFFICES ASSUME Inv, Next, NEW d \in Dirs, out'[d] # out[d]
             PROVE  pc = "wait" /\ d = dir /\ out'[d].by = run
  BY DEF vars
<1>1. PICK r \in Runs : SimWrites(r)
  BY DEF Next, Session, CallStart, CallStop, CallRun, Queried, Prepare, Launch, LaunchFails, Reap,
         WaitFails, Terminate, ReadOutput, Tick, SimExits, system
<1>2. r = run /\ pc = "wait" /\ home[r] = dir
  BY <1>1, OnlyCurrent DEF SimWrites
<1>3. out \in [Dirs -> File] BY DEF Inv, TypeOK
<1> QED BY <1>1, <1>2, <1>3 DEF SimWrites, Written

\* Output files change only while their own run waits: nothing is written late.
THEOREM OutputsAreSettled == Spec => OutputsSettled
<1>1. QED BY WriteStep, InvHolds, PTL DEF Spec, OutputsSettled

-------------------------------------------------------------------------------
(* The session as a SessionService.                                        *)

\* Between the call and the launch no simulation is there, and while the process runs it
\* is submitted.
LEMMA SimulationIs ==
    ASSUME Inv
    PROVE  /\ pc \in {"idle", "start", "probe", "prepare", "launch"} => Simulation = "none"
           /\ pc = "wait" /\ proc[run] = "running" => Simulation = "submitted"
           /\ pc = "wait" /\ proc[run] \in {"none", "gone"} => Simulation = "none"
           /\ (pc = "wait" /\ proc[run] = "exited") \/ pc = "read" =>
                 Simulation \in {"success", "sim_failed"}
           /\ Simulation = "success" => out[dir] = Written(run)
           /\ pc = "read" /\ out[dir] = Written(run) => Simulation = "success"
BY DEF Inv, ProcShape, Simulation

\* The calls and the steps before the launch.
LEMMA BeforeLaunchKeeps ==
    ASSUME Inv, Inv',
           \/ CallStart \/ CallStop \/ (\E d \in Dirs : CallRun(d)) \/ Queried
           \/ Prepare \/ LaunchFails
    PROVE  Promised!CNext \/ UNCHANGED Promised!cvars
<1>1. Simulation = "none" /\ Simulation' = "none"
  <2>1. /\ pc \in {"idle", "start", "probe", "prepare", "launch"}
        /\ pc' \in {"idle", "start", "probe", "prepare", "launch"}
    BY DEF CallStart, CallStop, CallRun, Queried, Prepare, LaunchFails, Return, StartQueries
  <2>2. Simulation = "none"
    BY <2>1, SimulationIs
  <2> QED BY <2>1, <2>2 DEF Simulation
<1>2. CASE CallStart \/ CallStop
  <2>1. /\ pc = "idle" /\ unused' = unused /\ unused \in BOOLEAN
        /\ \/ pc' = "idle" /\ status' \in {"started", "stopped", "exception"}
           \/ pc' = "start" /\ status' = "none"
    BY <1>2 DEF CallStart, CallStop, Return, StartQueries, Inv, TypeOK
  <2>2. Promised!CAtOnce \/ Promised!CCall
    BY <1>1, <2>1 DEF Promised!CAtOnce, Promised!CCall, CallInProgress
  <2> QED BY <2>2 DEF Promised!CNext
<1>3. ASSUME NEW d \in Dirs, CallRun(d) PROVE Promised!CNext
  <2>1. /\ pc = "idle" /\ unused' \in BOOLEAN
        /\ \/ pc' \in {"probe", "prepare"} /\ status' = "none"
           \/ pc' = "idle" /\ status' = "exception"
    BY <1>3 DEF CallRun, Return, StartQueries, Inv, TypeOK
  <2>2. Promised!CCall \/ Promised!CAtOnce
    BY <1>1, <2>1 DEF Promised!CCall, Promised!CAtOnce, CallInProgress
  <2> QED BY <2>2 DEF Promised!CNext
<1>4. CASE Prepare \/ LaunchFails
  <2>1. /\ pc \in {"prepare", "launch"} /\ unused' = unused
        /\ \/ pc' = "launch" /\ status' = status
           \/ pc' = "idle" /\ status' \in {"startup_failed", "transport", "exception", "sim_failed"}
    BY <1>4 DEF Prepare, LaunchFails, Return
  <2>2. CASE pc' = "launch" /\ status' = status
    BY <1>1, <2>1, <2>2 DEF Promised!cvars, CallInProgress
  <2>3. CASE pc' = "idle" /\ status' \in {"startup_failed", "transport", "exception", "sim_failed"}
    <3>1. Promised!CFail
      BY <1>1, <2>1, <2>3 DEF Promised!CFail, Promised!CReturn, Promised!Endings, CallInProgress
    <3> QED BY <3>1 DEF Promised!CNext
  <2> QED BY <2>1, <2>2, <2>3
<1>5. CASE Queried
  <2>1. /\ unused' = unused
        /\ \/ pc = "start" /\ pc' = "idle" /\ status' = "started"
           \/ pc = "probe" /\ pc' = "prepare" /\ status' = status
    BY <1>5 DEF Queried, Return
  <2>2. CASE pc = "start"
    <3>1. Promised!CFail
      BY <1>1, <2>1, <2>2 DEF Promised!CFail, Promised!CReturn, Promised!Endings, CallInProgress
    <3> QED BY <3>1 DEF Promised!CNext
  <2>3. CASE pc = "probe"
    BY <1>1, <2>1, <2>3 DEF Promised!cvars, CallInProgress
  <2> QED BY <2>1, <2>2, <2>3
<1> QED BY <1>2, <1>3, <1>4, <1>5

\* The wait and the reading of the output: a call that ends tells what the simulation came
\* to, or that it cannot.
LEMMA EndsKeep ==
    ASSUME Inv, Inv', Launch \/ Tick \/ Reap \/ WaitFails \/ Terminate \/ ReadOutput
    PROVE  Promised!CNext \/ UNCHANGED Promised!cvars
<1> USE DEF CallInProgress
<1>0. run \in Runs /\ proc \in [Runs -> {"none", "running", "exited", "zombie", "gone"}]
      /\ unused' = unused
  BY DEF Inv, ProcShape, TypeOK, Launch, Tick, Reap, WaitFails, Terminate, ReadOutput
<1>1. CASE Launch
  <2>1. /\ Simulation = "none" /\ Simulation' = "submitted"
        /\ pc = "launch" /\ pc' = "wait" /\ status' = status
    BY <1>0, <1>1, SimulationIs DEF Launch, Simulation
  <2>2. Promised!CSubmit
    BY <1>0, <2>1 DEF Promised!CSubmit
  <2> QED BY <2>2 DEF Promised!CNext
<1>2. CASE Tick
  BY <1>2 DEF Tick, system, Simulation, Written, Promised!cvars
<1>3. CASE WaitFails \/ Terminate
  <2>1. /\ pc = "wait" /\ pc' = "idle" /\ Simulation' = "none"
        /\ \/ status' = "timeout"
           \/ status' = "sim_failed" /\ Simulation = "none"
    BY <1>0, <1>3, SimulationIs DEF WaitFails, Terminate, Return, Simulation
  <2>2. Promised!CFail
    BY <1>0, <2>1 DEF Promised!CFail, Promised!CReturn, Promised!Endings
  <2> QED BY <2>2 DEF Promised!CNext
<1>4. CASE Reap
  <2>1. /\ pc = "wait" /\ proc[run] = "exited" /\ Exited(code[run])
        /\ UNCHANGED <<run, dir, out, code>>
    BY <1>4 DEF Reap
  <2>2. CASE code[run] = "zero" /\ pc' = "read" /\ status' = status
    <3>1. Simulation' = Simulation
      BY <2>1, <2>2 DEF Simulation, Written
    <3> QED BY <1>0, <2>1, <2>2, <3>1 DEF Promised!cvars
  <2>3. CASE code[run] # "zero"
    <3>1. pc' = "idle" /\ status' \in {"startup_failed", "sim_failed"}
      BY <2>1, <2>3, ExitedCases
    <3>2. Simulation = "sim_failed" /\ Simulation' = "none"
      BY <2>1, <2>3, <3>1 DEF Simulation
    <3>3. Promised!CFail
      BY <1>0, <2>1, <3>1, <3>2 DEF Promised!CFail, Promised!CReturn, Promised!Endings
    <3> QED BY <3>3 DEF Promised!CNext
  <2> QED BY <2>1, <2>2, <2>3 DEF Exited
<1>5. CASE ReadOutput
  <2>1. /\ pc = "read" /\ pc' = "idle" /\ Simulation' = "none"
        /\ Simulation \in {"success", "sim_failed"}
        /\ \/ MayRead(out[dir]) /\ status' = "success"
           \/ MayNotRead(out[dir]) /\ status' = "sim_failed"
    BY <1>5, SimulationIs DEF ReadOutput, Return, Simulation
  <2>2. CASE MayRead(out[dir]) /\ status' = "success"
    <3>1. ~unused \/ Simulation = "success"
      <4>1. CASE unused
        <5>1. out[dir] \in File /\ out[dir] # NoFile
          BY <2>2 DEF Inv, TypeOK, MayRead, NoFile
        <5>2. out[dir].by = run /\ out[dir].extent = "whole"
          BY <2>1, <2>2, <4>1, <5>1 DEF Inv, OutputShape, MayRead
        <5>3. out[dir] = Written(run)
          BY <5>1, <5>2 DEF File, Written
        <5> QED BY <2>1, <5>3, SimulationIs
      <4> QED BY <4>1
    <3>2. Promised!CAnswer \/ Promised!CAnswerStale
      BY <1>0, <2>1, <2>2, <3>1 DEF Promised!CAnswer, Promised!CAnswerStale,
         Promised!CReturn, Promised!Verdicts, Inv, TypeOK
    <3> QED BY <3>2 DEF Promised!CNext
  <2>3. CASE MayNotRead(out[dir]) /\ status' = "sim_failed"
    <3>1. Simulation # "success"
      BY <2>3, SimulationIs DEF MayNotRead, Written
    <3>2. Promised!CFail
      BY <1>0, <2>1, <2>3, <3>1 DEF Promised!CFail, Promised!CReturn, Promised!Endings
    <3> QED BY <3>2 DEF Promised!CNext
  <2> QED BY <2>1, <2>2, <2>3
<1> QED BY <1>1, <1>2, <1>3, <1>4, <1>5

\* The simulator of the run submits nothing and answers nothing: it comes to an end.
LEMMA SimulatorKeeps ==
    ASSUME Inv, Inv', NEW r \in Runs, SimWrites(r) \/ SimExits(r)
    PROVE  Promised!CNext \/ UNCHANGED Promised!cvars
<1>1. r = run /\ pc = "wait" /\ home[r] = dir /\ proc[run] = "running"
  BY OnlyCurrent DEF SimWrites, SimExits
<1>2. UNCHANGED session
  BY DEF SimWrites, SimExits
<1>3. Simulation = "submitted"
  BY <1>1, SimulationIs
<1>4. CASE SimWrites(r)
  <2>1. Simulation' = "submitted"
    BY <1>1, <1>2, <1>4 DEF SimWrites, session, Simulation
  <2> QED BY <1>2, <1>3, <2>1 DEF session, Promised!cvars, CallInProgress
<1>5. CASE SimExits(r)
  <2>1. pc' = "wait" /\ run' = run /\ proc'[run'] \in {"exited", "gone"}
    BY <1>1, <1>2, <1>5 DEF SimExits, session, Inv, TypeOK
  <2>2. Simulation' \in {"none", "success", "sim_failed"}
    BY <2>1 DEF Simulation
  <2>3. Promised!CLose \/ Promised!CFinish
    BY <1>2, <1>3, <2>2 DEF session, Promised!CLose, Promised!CFinish, Promised!Verdicts,
       CallInProgress
  <2> QED BY <2>3 DEF Promised!CNext
<1> QED BY <1>4, <1>5

\* The session does what a SessionService does: a verdict is that of the one simulation
\* the job was given to, and a success is its own output unless the directory held one.
THEOREM NgspiceImplementsService == Spec => ImplementsSessionService
<1>1. Init => Promised!CInit
  BY DEF Init, Promised!CInit, CallInProgress, Simulation
<1>2. Inv /\ Inv' /\ [Next]_vars => [Promised!CNext]_(Promised!cvars)
  <2> SUFFICES ASSUME Inv, Inv', [Next]_vars
               PROVE  Promised!CNext \/ UNCHANGED Promised!cvars
    OBVIOUS
  <2>1. CASE UNCHANGED vars
    BY <2>1 DEF vars, session, system, Promised!cvars, CallInProgress, Simulation, Written
  <2>2. CASE Next
    BY <2>2, BeforeLaunchKeeps, EndsKeep, SimulatorKeeps DEF Next, Session
  <2> QED BY <2>1, <2>2
<1> QED BY <1>1, <1>2, InvHolds, PTL DEF Spec, ImplementsSessionService, Promised!CSpec
===============================================================================
