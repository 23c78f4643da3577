-------------------------- MODULE SpectreSessionProofs --------------------------
(***************************************************************************)
(* Proofs about SpectreSession, for any set of process ids, any number of  *)
(* restart attempts, any scripts and any capacity of the pipes: the        *)
(* inductive invariant Inv, and what follows from it.                      *)
(***************************************************************************)
EXTENDS SpectreSession, TLAPS, SequenceTheorems

-------------------------------------------------------------------------------
(* What the pipes hold.                                                    *)

\* Commands left for the next job are commands.
LEMMA StaleCommandsType ==
    ASSUME NEW s \in Seq(Command)
    PROVE  StaleCommands(s) \in Seq(Command)
<1>1. DOMAIN s = 1..Len(s) /\ Len(s) \in Nat
  BY LenProperties
<1>2. \A i \in 1..Len(s) : [name |-> s[i].name, own |-> FALSE] \in Command
  BY ElementOfSeq DEF Command
<1>3. StaleCommands(s) \in [1..Len(s) -> Command]
  BY <1>1, <1>2 DEF StaleCommands
<1> QED
  BY <1>1, <1>3, SeqDef

\* Lines left for the next job are lines.
LEMMA StaleItemsType ==
    ASSUME NEW s \in Seq(Item)
    PROVE  StaleItems(s) \in Seq(Item)
<1>1. DOMAIN s = 1..Len(s) /\ Len(s) \in Nat
  BY LenProperties
<1>2. \A i \in 1..Len(s) : [line |-> s[i].line, own |-> FALSE, ok |-> s[i].ok] \in Item
  BY ElementOfSeq DEF Item
<1>3. StaleItems(s) \in [1..Len(s) -> Item]
  BY <1>1, <1>2 DEF StaleItems
<1> QED
  BY <1>1, <1>3, SeqDef

\* So is a line whose first piece was lost.
LEMMA TornType ==
    ASSUME NEW s \in Seq(Item)
    PROVE  Torn(s) \in Seq(Item)
<1>1. DOMAIN s = 1..Len(s) /\ Len(s) \in Nat
  BY LenProperties
<1>2. \A i \in 1..Len(s) :
          [line |-> Marker("noise"), own |-> s[i].own, ok |-> s[i].ok] \in Item
  <2>1. Marker("noise") \in Line
    BY DEF Marker, Line, LineKinds
  <2> QED
    BY <2>1, ElementOfSeq DEF Item
<1>3. Torn(s) \in [1..Len(s) -> Item]
  BY <1>1, <1>2 DEF Torn
<1> QED
  BY <1>1, <1>3, SeqDef

\* discard_process leaves no process, no descriptor and nothing in the pipes.
LEMMA CloseAndForgetDrops ==
    ASSUME ProcsOK, NoLeak, Shape, CloseAndForget
    PROVE  /\ ProcsOK' /\ NoLeak' /\ Down'
           /\ out' = <<>> /\ sim' = NoSim /\ cmds' = <<>>
           /\ \A p \in Pids : procs'[p] = "free"
<1>1. /\ fdsOpen' = 0 /\ ~pipes' /\ ~active' /\ child' = NoPid
      /\ out' = <<>> /\ sim' = NoSim /\ cmds' = <<>>
  BY DEF CloseAndForget, NoLeak, ProcsOK
<1>2. procs' \in [Pids -> {"free", "running", "exited"}]
  BY NoPidAssumption DEF CloseAndForget, ProcsOK, Reap
<1>3. ASSUME NEW p \in Pids PROVE procs'[p] = "free"
  BY <1>3, NoPidAssumption DEF CloseAndForget, Reap, NoLeak, ProcsOK
<1>4. active' \in BOOLEAN /\ pipes' \in BOOLEAN
  BY DEF CloseAndForget
<1>5. ProcsOK'
  BY <1>1, <1>2, <1>4 DEF ProcsOK
<1>6. NoLeak'
  BY <1>1, <1>3 DEF NoLeak
<1> QED
  BY <1>1, <1>3, <1>5, <1>6 DEF Down

-------------------------------------------------------------------------------
(* Each part of the invariant, step by step.                               *)

\* The process table, the descriptors and how much of the session is up: only the
\* actions that launch, reap, close or activate change any of it, each with the rest.
LEMMA ProcsStep ==
    ASSUME ProcsOK, NoLeak, Shape, Next
    PROVE  ProcsOK' /\ NoLeak' /\ Shape'
<1>1. CASE CallStart
  BY <1>1, NoPidAssumption DEF CallStart, ProcsOK, NoLeak, Shape, Up, Down, Running,
     Exited, session, simulator
<1>2. CASE CallRun
  <2>1. StaleItems(<<>>) = <<>> /\ StaleRun(NoSim) = NoSim
    BY DEF StaleItems, StaleRun, NoSim
  <2> QED
    BY <1>2, <2>1 DEF CallRun, ProcsOK, NoLeak, Shape, Up, Down
<1>3. CASE CallStop
  BY <1>3, NoPidAssumption DEF CallStop, Write, WriteFails, Discard, ProcsOK,
     NoLeak, Shape, Up, Down, Running, Exited, session, simulator
<1>4. CASE CheckAlive
  BY <1>4, NoPidAssumption DEF CheckAlive, ProcsOK, NoLeak, Shape, Up, Down,
     Running, Exited, session, simulator
<1>5. CASE CheckDead
  BY <1>5, NoPidAssumption DEF CheckDead, Discard, Reap, ProcsOK, NoLeak, Shape, Up,
     Down, Running, Exited, session, simulator
<1>6. CASE StartAlreadyActive
  BY <1>6, NoPidAssumption DEF StartAlreadyActive, Return, ProcsOK, NoLeak, Shape,
     Up, Down, Running, Exited, session, simulator
<1>7. CASE StartFails
  BY <1>7, NoPidAssumption DEF StartFails, StartThrows, Return, Discard, ProcsOK,
     NoLeak, Shape, Up, Down, Running, Exited, session, simulator
<1>8. CASE Launch
  BY <1>8, NoPidAssumption DEF Launch, ProcsOK, NoLeak, Shape, Up, Down, Running,
     Exited, session, simulator
<1>9. CASE HandshakeDeadline
  BY <1>9, NoPidAssumption DEF HandshakeDeadline, Discard, ProcsOK, NoLeak, Shape,
     Up, Down, Running, Exited, session, simulator
<1>10. CASE HandshakeReadsLine
  BY <1>10, NoPidAssumption DEF HandshakeReadsLine, ReadsLine, ProcsOK, NoLeak,
     Shape, Up, Down, Running, Exited, session, simulator
<1>11. CASE HandshakeReadsNothing
  BY <1>11, NoPidAssumption DEF HandshakeReadsNothing, ReadsNothing, ProcsOK,
     NoLeak, Shape, Up, Down, Running, Exited, session, simulator
<1>12. CASE HandshakePollAlive
  BY <1>12, NoPidAssumption DEF HandshakePollAlive, ProcsOK, NoLeak, Shape, Up,
     Down, Running, Exited, session, simulator
<1>13. CASE HandshakePollExited
  BY <1>13, NoPidAssumption DEF HandshakePollExited, Discard, Reap, ProcsOK, NoLeak,
     Shape, Up, Down, Running, Exited, session, simulator
<1>14. CASE WriteInit
  BY <1>14, NoPidAssumption DEF WriteInit, Write, Return, ProcsOK, NoLeak, Shape,
     Up, Down, Running, Exited, session, simulator
<1>15. CASE WriteInitFails
  BY <1>15, NoPidAssumption DEF WriteInitFails, WriteFails, Discard, ProcsOK,
     NoLeak, Shape, Up, Down, Running, Exited, session, simulator
<1>16. CASE WriteInitKills
  BY <1>16, NoPidAssumption DEF WriteInitKills, SigPipeKills, ProcsOK, NoLeak,
     Shape, Up, Down, Running, Exited, session, simulator
<1>17. CASE Dispatch
  BY <1>17, NoPidAssumption DEF Dispatch, Write, ProcsOK, NoLeak, Shape, Up, Down,
     Running, Exited, session, simulator
<1>18. CASE DispatchFails
  BY <1>18, NoPidAssumption DEF DispatchFails, WriteFails, Discard, ProcsOK, NoLeak,
     Shape, Up, Down, Running, Exited, session, simulator
<1>19. CASE DispatchKills
  BY <1>19, NoPidAssumption DEF DispatchKills, SigPipeKills, ProcsOK, NoLeak, Shape,
     Up, Down, Running, Exited, session, simulator
<1>20. CASE RunDeadline
  BY <1>20, NoPidAssumption DEF RunDeadline, Discard, ProcsOK, NoLeak, Shape, Up,
     Down, Running, Exited, session, simulator
<1>21. CASE RunReadsLine
  BY <1>21, NoPidAssumption DEF RunReadsLine, ReadsLine, Return, ProcsOK, NoLeak,
     Shape, Up, Down, Running, Exited, session, simulator
<1>22. CASE RunReadsNothing
  BY <1>22, NoPidAssumption DEF RunReadsNothing, ReadsNothing, ProcsOK, NoLeak,
     Shape, Up, Down, Running, Exited, session, simulator
<1>23. CASE RunPollAlive
  BY <1>23, NoPidAssumption DEF RunPollAlive, ProcsOK, NoLeak, Shape, Up, Down,
     Running, Exited, session, simulator
<1>24. CASE RunPollExited
  BY <1>24, NoPidAssumption DEF RunPollExited, Discard, Reap, ProcsOK, NoLeak,
     Shape, Up, Down, Running, Exited, session, simulator
<1>25. CASE DiscardProcess
  <2>1. ProcsOK' /\ NoLeak' /\ Down' /\ out' = <<>> /\ sim' = NoSim
    BY <1>25, CloseAndForgetDrops DEF DiscardProcess
  <2>2. pc' \in {"idle", "check", "start", "discard"}
    BY <1>25 DEF DiscardProcess, Resume, NextAttempt, Return, Discard
  <2> QED
    BY <2>1, <2>2 DEF Shape, Down
<1>26. CASE Tick
  BY <1>26, NoPidAssumption DEF Tick, ProcsOK, NoLeak, Shape, Up, Down, Running,
     Exited, session, simulator
<1>27. CASE SimReadsCommand
  BY <1>27, NoPidAssumption DEF SimReadsCommand, ProcsOK, NoLeak, Shape, Up, Down,
     Running, Exited, session, simulator
<1>28. CASE SimPrintsLine
  BY <1>28, NoPidAssumption DEF SimPrintsLine, SimUnchanged, ProcsOK, NoLeak, Shape,
     Up, Down, Running, Exited, session, simulator
<1>29. CASE SimPrintsPiece
  BY <1>29, NoPidAssumption DEF SimPrintsPiece, SimUnchanged, ProcsOK, NoLeak,
     Shape, Up, Down, Running, Exited, session, simulator
<1>30. CASE SimStalls
  BY <1>30, NoPidAssumption DEF SimStalls, SimUnchanged, ProcsOK, NoLeak, Shape, Up,
     Down, Running, Exited, session, simulator
<1>31. CASE SimFinishesLine
  BY <1>31, NoPidAssumption DEF SimFinishesLine, SimUnchanged, ProcsOK, NoLeak,
     Shape, Up, Down, Running, Exited, session, simulator
<1>32. CASE SimExits
  BY <1>32, NoPidAssumption DEF SimExits, ProcsOK, NoLeak, Shape, Up, Down, Running,
     Exited, session, simulator
<1> QED
  BY <1>1, <1>2, <1>3, <1>4, <1>5, <1>6, <1>7, <1>8, <1>9, <1>10, <1>11, <1>12,
     <1>13, <1>14, <1>15, <1>16, <1>17, <1>18, <1>19, <1>20, <1>21, <1>22, <1>23,
     <1>24, <1>25, <1>26, <1>27, <1>28, <1>29, <1>30, <1>31, <1>32 DEF Next, Caller,
     Session, Simulator

\* The attempts of a run are numbered from 1.
LEMMA AttemptsPositive == MaxAttempts \in Nat /\ MaxAttempts >= 1
BY RestartAssumption DEF MaxAttempts

\* The loop of run() never counts past its last attempt.
LEMMA NextAttemptType ==
    ASSUME ControlOK, NextAttempt
    PROVE  attempt' \in 1..MaxAttempts
BY AttemptsPositive DEF NextAttempt, ControlOK

\* The control variables keep to their domains.
LEMMA ControlStep ==
    ASSUME TypeOK, Next
    PROVE  ControlOK'
<1>1. CASE CallStart
  BY <1>1 DEF CallStart, TypeOK, ControlOK, OpenStatus, session
<1>2. CASE CallRun
  <2>1. attempt' \in 1..MaxAttempts
    BY <1>2, AttemptsPositive DEF CallRun
  <2>2. basis' \in [own : BOOLEAN, ok : BOOLEAN]
    BY <1>2 DEF CallRun, NoBasis
  <2> QED
    BY <1>2, <2>1, <2>2 DEF CallRun, TypeOK, ControlOK, OpenStatus
<1>3. CASE CallStop
  BY <1>3 DEF CallStop, Write, WriteFails, Discard, TypeOK, ControlOK, OpenStatus,
     session
<1>4. CASE CheckAlive
  BY <1>4 DEF CheckAlive, TypeOK, ControlOK, OpenStatus, session
<1>5. CASE CheckDead
  BY <1>5 DEF CheckDead, Discard, Reap, TypeOK, ControlOK, OpenStatus, session
<1>6. CASE StartAlreadyActive
  BY <1>6 DEF StartAlreadyActive, Return, TypeOK, ControlOK, OpenStatus, session
<1>7. CASE StartFails
  BY <1>7 DEF StartFails, StartThrows, Return, Discard, TypeOK, ControlOK,
     OpenStatus, session
<1>8. CASE Launch
  <2>1. /\ UNCHANGED <<sigIgn, op, after, attempt, seen, status, basis, why>>
        /\ late' = FALSE /\ pc' = "handshake"
    BY <1>8 DEF Launch
  <2> QED
    BY <2>1 DEF TypeOK, ControlOK
<1>9. CASE HandshakeDeadline
  BY <1>9 DEF HandshakeDeadline, Discard, TypeOK, ControlOK, OpenStatus, session
<1>10. CASE HandshakeReadsLine
  BY <1>10 DEF HandshakeReadsLine, ReadsLine, TypeOK, ControlOK, OpenStatus, session
<1>11. CASE HandshakeReadsNothing
  BY <1>11 DEF HandshakeReadsNothing, ReadsNothing, TypeOK, ControlOK, OpenStatus,
     session
<1>12. CASE HandshakePollAlive
  BY <1>12 DEF HandshakePollAlive, TypeOK, ControlOK, OpenStatus, session
<1>13. CASE HandshakePollExited
  BY <1>13 DEF HandshakePollExited, Discard, Reap, TypeOK, ControlOK, OpenStatus,
     session
<1>14. CASE WriteInit
  <2>1. /\ UNCHANGED <<sigIgn, op, after, attempt, late, seen, basis, why>>
        /\ \/ pc' = "idle" /\ status' = "started"
           \/ pc' = "dispatch" /\ UNCHANGED status
    BY <1>14, Zenon DEF WriteInit, Return
  <2> QED
    BY <2>1 DEF TypeOK, ControlOK, OpenStatus
<1>15. CASE WriteInitFails
  BY <1>15 DEF WriteInitFails, WriteFails, Discard, TypeOK, ControlOK, OpenStatus,
     session
<1>16. CASE WriteInitKills
  BY <1>16 DEF WriteInitKills, SigPipeKills, TypeOK, ControlOK, OpenStatus, session
<1>17. CASE Dispatch
  <2>1. /\ UNCHANGED <<sigIgn, op, after, attempt, status, basis, why>>
        /\ pc' = "wait" /\ late' = FALSE /\ seen' = FALSE
    BY <1>17, Zenon DEF Dispatch
  <2> QED
    BY <2>1 DEF TypeOK, ControlOK
<1>18. CASE DispatchFails
  BY <1>18 DEF DispatchFails, WriteFails, Discard, TypeOK, ControlOK, OpenStatus,
     session
<1>19. CASE DispatchKills
  BY <1>19 DEF DispatchKills, SigPipeKills, TypeOK, ControlOK, OpenStatus, session
<1>20. CASE RunDeadline
  BY <1>20 DEF RunDeadline, Discard, TypeOK, ControlOK, OpenStatus, session
<1>21. CASE RunReadsLine
  <2> DEFINE item == Head(out)
             verdict == Classify(item.line, seen)
  <2>1. item \in Item
    BY <1>21, HeadTailProperties DEF RunReadsLine, ReadsLine, TypeOK, PipesOK
  <2>2. basis' \in [own : BOOLEAN, ok : BOOLEAN]
    <3>1. [own |-> item.own, ok |-> item.ok] \in [own : BOOLEAN, ok : BOOLEAN]
      BY <2>1 DEF Item
    <3>2. basis' = basis \/ basis' = [own |-> item.own, ok |-> item.ok]
      BY <1>21 DEF RunReadsLine
    <3> QED
      BY <3>1, <3>2 DEF TypeOK, ControlOK
  <2>3. seen' \in BOOLEAN
    BY <1>21 DEF RunReadsLine, SeesResourceStats, TypeOK, ControlOK
  <2>4. /\ pc' \in {"idle", "wait"}
        /\ status' \in {status, "success", "sim_failed"}
        /\ UNCHANGED <<sigIgn, op, after, attempt, late, why>>
    BY <1>21 DEF RunReadsLine, Return
  <2> QED
    BY <2>2, <2>3, <2>4 DEF TypeOK, ControlOK, OpenStatus
<1>22. CASE RunReadsNothing
  BY <1>22 DEF RunReadsNothing, ReadsNothing, TypeOK, ControlOK, OpenStatus, session
<1>23. CASE RunPollAlive
  BY <1>23 DEF RunPollAlive, TypeOK, ControlOK, OpenStatus, session
<1>24. CASE RunPollExited
  BY <1>24 DEF RunPollExited, Discard, Reap, TypeOK, ControlOK, OpenStatus, session
<1>25. CASE DiscardProcess
  <2>1. UNCHANGED <<sigIgn, op, late, seen, basis, why>> /\ Resume
    BY <1>25 DEF DiscardProcess
  <2>2. attempt' \in 1..MaxAttempts
    BY <2>1, NextAttemptType DEF Resume, TypeOK, ControlOK
  <2>3. /\ pc' \in {"idle", "check", "start", "discard"}
        /\ after' \in {after, "retry"}
        /\ status' \in {status, "exception", "transport", "timeout", "stopped"}
    BY <2>1 DEF Resume, NextAttempt, Return, Discard
  <2> QED
    BY <2>1, <2>2, <2>3 DEF TypeOK, ControlOK, OpenStatus
<1>26. CASE Tick
  BY <1>26 DEF Tick, TypeOK, ControlOK, OpenStatus, session
<1>27. CASE SimReadsCommand
  BY <1>27 DEF SimReadsCommand, TypeOK, ControlOK, OpenStatus, session
<1>28. CASE SimPrintsLine
  BY <1>28 DEF SimPrintsLine, SimUnchanged, TypeOK, ControlOK, OpenStatus, session
<1>29. CASE SimPrintsPiece
  BY <1>29 DEF SimPrintsPiece, SimUnchanged, TypeOK, ControlOK, OpenStatus, session
<1>30. CASE SimStalls
  BY <1>30 DEF SimStalls, SimUnchanged, TypeOK, ControlOK, OpenStatus, session
<1>31. CASE SimFinishesLine
  BY <1>31 DEF SimFinishesLine, SimUnchanged, TypeOK, ControlOK, OpenStatus, session
<1>32. CASE SimExits
  BY <1>32 DEF SimExits, TypeOK, ControlOK, OpenStatus, session
<1> QED
  BY <1>1, <1>2, <1>3, <1>4, <1>5, <1>6, <1>7, <1>8, <1>9, <1>10, <1>11, <1>12,
     <1>13, <1>14, <1>15, <1>16, <1>17, <1>18, <1>19, <1>20, <1>21, <1>22, <1>23,
     <1>24, <1>25, <1>26, <1>27, <1>28, <1>29, <1>30, <1>31, <1>32 DEF Next, Caller,
     Session, Simulator

\* What the simulator is launched with, and left with, is well formed.
LEMMA SimTypes ==
    LET Run == [lines : Seq(Line), own : BOOLEAN, ok : BOOLEAN]
    IN  /\ NoSim \in Run /\ Booting \in Run
        /\ \A k \in LineKinds : Echo(k) \in Run
<1>1. \A k \in LineKinds : Marker(k) \in Line
  BY DEF Marker, Line
<1>2. "handshake" \in LineKinds
  BY DEF LineKinds
<1>3. \A k \in LineKinds : <<Marker(k)>> \in Seq(Line)
  <2>1. ASSUME NEW e \in Line PROVE <<e>> \in Seq(Line)
    OBVIOUS
  <2> QED
    BY <1>1, <2>1
<1>4. <<>> \in Seq(Line)
  OBVIOUS
<1> QED
  BY <1>2, <1>3, <1>4 DEF NoSim, Booting, Echo

\* A command that is written leaves a sequence of commands in the pipe.
LEMMA WriteType ==
    ASSUME PipesOK, NEW name \in {"init", "run", "quit"}, Write(name)
    PROVE  cmds' \in Seq(Command)
<1>1. [name |-> name, own |-> TRUE] \in Command
  BY DEF Command
<1>2. cmds \in Seq(Command)
  BY DEF PipesOK
<1>3. \A c \in Command : Append(cmds, c) \in Seq(Command)
  BY <1>2
<1> QED
  BY <1>1, <1>2, <1>3 DEF Write

\* The line the simulator prints next is one, and what is left to print stays well formed.
LEMMA NextLineType ==
    ASSUME PipesOK, sim.lines # <<>>
    PROVE  /\ NextItem \in Item
           /\ Rest(sim) \in [lines : Seq(Line), own : BOOLEAN, ok : BOOLEAN]
<1>1. Head(sim.lines) \in Line /\ Tail(sim.lines) \in Seq(Line)
  BY HeadTailProperties DEF PipesOK
<1> QED
  BY <1>1 DEF NextItem, Rest, Item, PipesOK

\* The pipes and the simulator hold well-formed commands and lines.
LEMMA PipesStep ==
    ASSUME PipesOK, Next
    PROVE  PipesOK'
<1>1. CASE CallStart
  BY <1>1, TornType, HeadTailProperties DEF CallStart, PipesOK, simulator
<1>2. CASE CallRun
  <2>1. sim' \in [lines : Seq(Line), own : BOOLEAN, ok : BOOLEAN]
    BY <1>2 DEF CallRun, StaleRun, PipesOK
  <2> QED
    BY <1>2, <2>1, StaleItemsType, StaleCommandsType DEF CallRun, PipesOK
<1>3. CASE CallStop
  <2>1. cmds' \in Seq(Command)
    BY <1>3, WriteType DEF CallStop, PipesOK
  <2> QED
    BY <1>3, <2>1 DEF CallStop, PipesOK
<1>4. CASE CheckAlive
  BY <1>4, TornType, HeadTailProperties DEF CheckAlive, PipesOK, simulator
<1>5. CASE CheckDead
  BY <1>5, TornType, HeadTailProperties DEF CheckDead, Discard, Reap, PipesOK,
     simulator
<1>6. CASE StartAlreadyActive
  BY <1>6, TornType, HeadTailProperties DEF StartAlreadyActive, Return, PipesOK,
     simulator
<1>7. CASE StartFails
  BY <1>7, TornType, HeadTailProperties DEF StartFails, StartThrows, Return,
     Discard, PipesOK, simulator
<1>8. CASE Launch
  <2>1. cmds' = <<>> /\ sim' = Booting /\ mid' = <<>> /\ stalled' = FALSE /\ out' = <<>>
    BY <1>8 DEF Launch
  <2> QED
    BY <2>1, SimTypes, EmptySeq DEF PipesOK
<1>9. CASE HandshakeDeadline
  BY <1>9, TornType, HeadTailProperties DEF HandshakeDeadline, Discard, PipesOK,
     simulator
<1>10. CASE HandshakeReadsLine
  BY <1>10, TornType, HeadTailProperties DEF HandshakeReadsLine, ReadsLine, PipesOK,
     simulator
<1>11. CASE HandshakeReadsNothing
  BY <1>11, TornType, HeadTailProperties DEF HandshakeReadsNothing, ReadsNothing,
     PipesOK, simulator
<1>12. CASE HandshakePollAlive
  BY <1>12, TornType, HeadTailProperties DEF HandshakePollAlive, PipesOK, simulator
<1>13. CASE HandshakePollExited
  BY <1>13, TornType, HeadTailProperties DEF HandshakePollExited, Discard, Reap,
     PipesOK, simulator
<1>14. CASE WriteInit
  BY <1>14, WriteType DEF WriteInit, PipesOK
<1>15. CASE WriteInitFails
  BY <1>15, TornType, HeadTailProperties DEF WriteInitFails, WriteFails, Discard,
     PipesOK, simulator
<1>16. CASE WriteInitKills
  BY <1>16, TornType, HeadTailProperties DEF WriteInitKills, SigPipeKills, PipesOK,
     simulator
<1>17. CASE Dispatch
  BY <1>17, WriteType DEF Dispatch, PipesOK
<1>18. CASE DispatchFails
  BY <1>18, TornType, HeadTailProperties DEF DispatchFails, WriteFails, Discard,
     PipesOK, simulator
<1>19. CASE DispatchKills
  BY <1>19, TornType, HeadTailProperties DEF DispatchKills, SigPipeKills, PipesOK,
     simulator
<1>20. CASE RunDeadline
  BY <1>20, TornType, HeadTailProperties DEF RunDeadline, Discard, PipesOK,
     simulator
<1>21. CASE RunReadsLine
  BY <1>21, TornType, HeadTailProperties DEF RunReadsLine, ReadsLine, Return,
     PipesOK, simulator
<1>22. CASE RunReadsNothing
  BY <1>22, TornType, HeadTailProperties DEF RunReadsNothing, ReadsNothing, PipesOK,
     simulator
<1>23. CASE RunPollAlive
  BY <1>23, TornType, HeadTailProperties DEF RunPollAlive, PipesOK, simulator
<1>24. CASE RunPollExited
  BY <1>24, TornType, HeadTailProperties DEF RunPollExited, Discard, Reap, PipesOK,
     simulator
<1>25. CASE DiscardProcess
  <2>1. cmds' = <<>> /\ sim' = NoSim /\ mid' = <<>> /\ stalled' = FALSE /\ out' = <<>>
    BY <1>25 DEF DiscardProcess, CloseAndForget
  <2> QED
    BY <2>1, SimTypes, EmptySeq DEF PipesOK
<1>26. CASE Tick
  BY <1>26, TornType, HeadTailProperties DEF Tick, PipesOK, simulator
<1>27. CASE SimReadsCommand
  <2>1. cmds' \in Seq(Command) /\ Head(cmds) \in Command
    BY <1>27, HeadTailProperties DEF SimReadsCommand, PipesOK
  <2>2. ASSUME NEW s \in Scripts
        PROVE  [lines |-> s.lines, own |-> Head(cmds).own, ok |-> s.ok] \in
                   [lines : Seq(Line), own : BOOLEAN, ok : BOOLEAN]
    <3>1. s \in [lines : Seq(Line), ok : BOOLEAN]
      BY <2>2, ScriptsAssumption
    <3> QED
      BY <2>1, <3>1 DEF Command
  <2>3. sim' \in [lines : Seq(Line), own : BOOLEAN, ok : BOOLEAN]
    <3>1. CASE sim' = sim
      BY <3>1 DEF PipesOK
    <3>2. CASE \E k \in {"noise", "nil"} : sim' = Echo(k)
      BY <3>2, SimTypes DEF LineKinds
    <3>3. CASE \E s \in Scripts :
                  sim' = [lines |-> s.lines, own |-> Head(cmds).own, ok |-> s.ok]
      BY <2>2, <3>3
    <3> QED
      BY <1>27, <3>1, <3>2, <3>3 DEF SimReadsCommand
  <2>4. mid' = mid /\ stalled' = stalled /\ out' = out
    BY <1>27 DEF SimReadsCommand
  <2> QED
    BY <2>1, <2>3, <2>4 DEF PipesOK
<1>28. CASE SimPrintsLine
  <2>1. NextItem \in Item /\ sim' \in [lines : Seq(Line), own : BOOLEAN, ok : BOOLEAN]
    BY <1>28, NextLineType DEF SimPrintsLine
  <2>2. out' \in Seq(Item)
    BY <1>28, <2>1, AppendProperties DEF SimPrintsLine, PipesOK
  <2> QED
    BY <1>28, <2>1, <2>2 DEF SimPrintsLine, PipesOK
<1>29. CASE SimPrintsPiece
  <2>1. NextItem \in Item /\ sim' \in [lines : Seq(Line), own : BOOLEAN, ok : BOOLEAN]
    BY <1>29, NextLineType DEF SimPrintsPiece
  <2>2. mid' \in Seq(Item)
    BY <1>29, <2>1 DEF SimPrintsPiece
  <2> QED
    BY <1>29, <2>1, <2>2 DEF SimPrintsPiece, PipesOK
<1>30. CASE SimStalls
  BY <1>30, TornType, HeadTailProperties DEF SimStalls, SimUnchanged, PipesOK,
     simulator
<1>31. CASE SimFinishesLine
  <2>1. out' \in Seq(Item) /\ mid' \in Seq(Item)
    BY <1>31, ConcatProperties DEF SimFinishesLine, PipesOK
  <2> QED
    BY <1>31, <2>1 DEF SimFinishesLine, PipesOK
<1>32. CASE SimExits
  <2>1. out \o mid \in Seq(Item)
    BY ConcatProperties DEF PipesOK
  <2> QED
    BY <1>32, <2>1, SimTypes, EmptySeq DEF SimExits, PipesOK
<1> QED
  BY <1>1, <1>2, <1>3, <1>4, <1>5, <1>6, <1>7, <1>8, <1>9, <1>10, <1>11, <1>12,
     <1>13, <1>14, <1>15, <1>16, <1>17, <1>18, <1>19, <1>20, <1>21, <1>22, <1>23,
     <1>24, <1>25, <1>26, <1>27, <1>28, <1>29, <1>30, <1>31, <1>32 DEF Next, Caller,
     Session, Simulator

\* A call that returns leaves the session up or down, and down if it failed.
LEMMA SettledStep ==
    ASSUME ProcsOK, NoLeak, Shape, SettledWhenIdle, Next
    PROVE  SettledWhenIdle'
<1>1. CASE CallStart
  BY <1>1 DEF CallStart, ProcsOK, Shape, SettledWhenIdle, Up, Down, NoSim, Running,
     session, simulator
<1>2. CASE CallRun
  BY <1>2 DEF CallRun, ProcsOK, Shape, SettledWhenIdle, Up, Down, NoSim, Running,
     session, simulator
<1>3. CASE CallStop
  BY <1>3 DEF CallStop, Write, WriteFails, Discard, ProcsOK, Shape, SettledWhenIdle,
     Up, Down, NoSim, Running, session, simulator
<1>4. CASE CheckAlive
  BY <1>4 DEF CheckAlive, ProcsOK, Shape, SettledWhenIdle, Up, Down, NoSim, Running,
     session, simulator
<1>5. CASE CheckDead
  BY <1>5 DEF CheckDead, Discard, Reap, ProcsOK, Shape, SettledWhenIdle, Up, Down,
     NoSim, Running, session, simulator
<1>6. CASE StartAlreadyActive
  BY <1>6 DEF StartAlreadyActive, Return, ProcsOK, Shape, SettledWhenIdle, Up, Down,
     NoSim, Running, session, simulator
<1>7. CASE StartFails
  BY <1>7 DEF StartFails, StartThrows, Return, Discard, ProcsOK, Shape,
     SettledWhenIdle, Up, Down, NoSim, Running, session, simulator
<1>8. CASE Launch
  BY <1>8 DEF Launch, ProcsOK, Shape, SettledWhenIdle, Up, Down, NoSim, Running,
     session, simulator
<1>9. CASE HandshakeDeadline
  BY <1>9 DEF HandshakeDeadline, Discard, ProcsOK, Shape, SettledWhenIdle, Up, Down,
     NoSim, Running, session, simulator
<1>10. CASE HandshakeReadsLine
  BY <1>10 DEF HandshakeReadsLine, ReadsLine, ProcsOK, Shape, SettledWhenIdle, Up,
     Down, NoSim, Running, session, simulator
<1>11. CASE HandshakeReadsNothing
  BY <1>11 DEF HandshakeReadsNothing, ReadsNothing, ProcsOK, Shape, SettledWhenIdle,
     Up, Down, NoSim, Running, session, simulator
<1>12. CASE HandshakePollAlive
  BY <1>12 DEF HandshakePollAlive, ProcsOK, Shape, SettledWhenIdle, Up, Down, NoSim,
     Running, session, simulator
<1>13. CASE HandshakePollExited
  BY <1>13 DEF HandshakePollExited, Discard, Reap, ProcsOK, Shape, SettledWhenIdle,
     Up, Down, NoSim, Running, session, simulator
<1>14. CASE WriteInit
  BY <1>14 DEF WriteInit, Write, Return, ProcsOK, Shape, SettledWhenIdle, Up, Down,
     NoSim, Running, session, simulator
<1>15. CASE WriteInitFails
  BY <1>15 DEF WriteInitFails, WriteFails, Discard, ProcsOK, Shape, SettledWhenIdle,
     Up, Down, NoSim, Running, session, simulator
<1>16. CASE WriteInitKills
  BY <1>16 DEF WriteInitKills, SigPipeKills, ProcsOK, Shape, SettledWhenIdle, Up,
     Down, NoSim, Running, session, simulator
<1>17. CASE Dispatch
  BY <1>17 DEF Dispatch, Write, ProcsOK, Shape, SettledWhenIdle, Up, Down, NoSim,
     Running, session, simulator
<1>18. CASE DispatchFails
  BY <1>18 DEF DispatchFails, WriteFails, Discard, ProcsOK, Shape, SettledWhenIdle,
     Up, Down, NoSim, Running, session, simulator
<1>19. CASE DispatchKills
  BY <1>19 DEF DispatchKills, SigPipeKills, ProcsOK, Shape, SettledWhenIdle, Up,
     Down, NoSim, Running, session, simulator
<1>20. CASE RunDeadline
  BY <1>20 DEF RunDeadline, Discard, ProcsOK, Shape, SettledWhenIdle, Up, Down,
     NoSim, Running, session, simulator
<1>21. CASE RunReadsLine
  <2>1. Up' /\ (pc' = "idle" => status' \in {"success", "sim_failed"})
    BY <1>21 DEF RunReadsLine, Return, Shape, Up
  <2> QED
    BY <2>1 DEF SettledWhenIdle, Up
<1>22. CASE RunReadsNothing
  BY <1>22 DEF RunReadsNothing, ReadsNothing, ProcsOK, Shape, SettledWhenIdle, Up,
     Down, NoSim, Running, session, simulator
<1>23. CASE RunPollAlive
  BY <1>23 DEF RunPollAlive, ProcsOK, Shape, SettledWhenIdle, Up, Down, NoSim,
     Running, session, simulator
<1>24. CASE RunPollExited
  BY <1>24 DEF RunPollExited, Discard, Reap, ProcsOK, Shape, SettledWhenIdle, Up,
     Down, NoSim, Running, session, simulator
<1>25. CASE DiscardProcess
  <2>1. Down' /\ out' = <<>> /\ sim' = NoSim
    BY <1>25, CloseAndForgetDrops DEF DiscardProcess
  <2> QED
    BY <2>1 DEF SettledWhenIdle, Down, NoSim
<1>26. CASE Tick
  BY <1>26 DEF Tick, ProcsOK, Shape, SettledWhenIdle, Up, Down, NoSim, Running,
     session, simulator
<1>27. CASE SimReadsCommand
  BY <1>27 DEF SimReadsCommand, ProcsOK, Shape, SettledWhenIdle, Up, Down, NoSim,
     Running, session, simulator
<1>28. CASE SimPrintsLine
  BY <1>28 DEF SimPrintsLine, SimUnchanged, ProcsOK, Shape, SettledWhenIdle, Up,
     Down, NoSim, Running, session, simulator
<1>29. CASE SimPrintsPiece
  BY <1>29 DEF SimPrintsPiece, SimUnchanged, ProcsOK, Shape, SettledWhenIdle, Up,
     Down, NoSim, Running, session, simulator
<1>30. CASE SimStalls
  BY <1>30 DEF SimStalls, SimUnchanged, ProcsOK, Shape, SettledWhenIdle, Up, Down,
     NoSim, Running, session, simulator
<1>31. CASE SimFinishesLine
  BY <1>31 DEF SimFinishesLine, SimUnchanged, ProcsOK, Shape, SettledWhenIdle, Up,
     Down, NoSim, Running, session, simulator
<1>32. CASE SimExits
  BY <1>32 DEF SimExits, ProcsOK, Shape, SettledWhenIdle, Up, Down, NoSim, Running,
     session, simulator
<1> QED
  BY <1>1, <1>2, <1>3, <1>4, <1>5, <1>6, <1>7, <1>8, <1>9, <1>10, <1>11, <1>12,
     <1>13, <1>14, <1>15, <1>16, <1>17, <1>18, <1>19, <1>20, <1>21, <1>22, <1>23,
     <1>24, <1>25, <1>26, <1>27, <1>28, <1>29, <1>30, <1>31, <1>32 DEF Next, Caller,
     Session, Simulator

\* Only run() checks, dispatches, waits and retries.
LEMMA CallShapeStep ==
    ASSUME ControlOK, CallShape, Next
    PROVE  CallShape'
<1>1. CASE CallStart
  BY <1>1 DEF CallStart, ControlOK, CallShape, session
<1>2. CASE CallRun
  BY <1>2 DEF CallRun, ControlOK, CallShape, session
<1>3. CASE CallStop
  BY <1>3 DEF CallStop, Write, WriteFails, Discard, ControlOK, CallShape, session
<1>4. CASE CheckAlive
  BY <1>4 DEF CheckAlive, ControlOK, CallShape, session
<1>5. CASE CheckDead
  BY <1>5 DEF CheckDead, Discard, Reap, ControlOK, CallShape, session
<1>6. CASE StartAlreadyActive
  BY <1>6 DEF StartAlreadyActive, Return, ControlOK, CallShape, session
<1>7. CASE StartFails
  BY <1>7 DEF StartFails, StartThrows, Return, Discard, ControlOK, CallShape,
     session
<1>8. CASE Launch
  BY <1>8 DEF Launch, ControlOK, CallShape, session
<1>9. CASE HandshakeDeadline
  BY <1>9 DEF HandshakeDeadline, Discard, ControlOK, CallShape, session
<1>10. CASE HandshakeReadsLine
  BY <1>10 DEF HandshakeReadsLine, ReadsLine, ControlOK, CallShape, session
<1>11. CASE HandshakeReadsNothing
  BY <1>11 DEF HandshakeReadsNothing, ReadsNothing, ControlOK, CallShape, session
<1>12. CASE HandshakePollAlive
  BY <1>12 DEF HandshakePollAlive, ControlOK, CallShape, session
<1>13. CASE HandshakePollExited
  BY <1>13 DEF HandshakePollExited, Discard, Reap, ControlOK, CallShape, session
<1>14. CASE WriteInit
  BY <1>14 DEF WriteInit, Write, Return, ControlOK, CallShape, session
<1>15. CASE WriteInitFails
  BY <1>15 DEF WriteInitFails, WriteFails, Discard, ControlOK, CallShape, session
<1>16. CASE WriteInitKills
  BY <1>16 DEF WriteInitKills, SigPipeKills, ControlOK, CallShape, session
<1>17. CASE Dispatch
  BY <1>17 DEF Dispatch, Write, ControlOK, CallShape, session
<1>18. CASE DispatchFails
  BY <1>18 DEF DispatchFails, WriteFails, Discard, ControlOK, CallShape, session
<1>19. CASE DispatchKills
  BY <1>19 DEF DispatchKills, SigPipeKills, ControlOK, CallShape, session
<1>20. CASE RunDeadline
  BY <1>20 DEF RunDeadline, Discard, ControlOK, CallShape, session
<1>21. CASE RunReadsLine
  BY <1>21 DEF RunReadsLine, ReadsLine, Return, ControlOK, CallShape, session
<1>22. CASE RunReadsNothing
  BY <1>22 DEF RunReadsNothing, ReadsNothing, ControlOK, CallShape, session
<1>23. CASE RunPollAlive
  BY <1>23 DEF RunPollAlive, ControlOK, CallShape, session
<1>24. CASE RunPollExited
  BY <1>24 DEF RunPollExited, Discard, Reap, ControlOK, CallShape, session
<1>25. CASE DiscardProcess
  BY <1>25 DEF DiscardProcess, CloseAndForget, Resume, NextAttempt, Return, Discard,
     Reap, ControlOK, CallShape, session
<1>26. CASE Tick
  BY <1>26 DEF Tick, ControlOK, CallShape, session
<1>27. CASE SimReadsCommand
  BY <1>27 DEF SimReadsCommand, ControlOK, CallShape, session
<1>28. CASE SimPrintsLine
  BY <1>28 DEF SimPrintsLine, SimUnchanged, ControlOK, CallShape, session
<1>29. CASE SimPrintsPiece
  BY <1>29 DEF SimPrintsPiece, SimUnchanged, ControlOK, CallShape, session
<1>30. CASE SimStalls
  BY <1>30 DEF SimStalls, SimUnchanged, ControlOK, CallShape, session
<1>31. CASE SimFinishesLine
  BY <1>31 DEF SimFinishesLine, SimUnchanged, ControlOK, CallShape, session
<1>32. CASE SimExits
  BY <1>32 DEF SimExits, ControlOK, CallShape, session
<1> QED
  BY <1>1, <1>2, <1>3, <1>4, <1>5, <1>6, <1>7, <1>8, <1>9, <1>10, <1>11, <1>12,
     <1>13, <1>14, <1>15, <1>16, <1>17, <1>18, <1>19, <1>20, <1>21, <1>22, <1>23,
     <1>24, <1>25, <1>26, <1>27, <1>28, <1>29, <1>30, <1>31, <1>32 DEF Next, Caller,
     Session, Simulator

\* Commands written for an earlier job are not this job's.
LEMMA StaleIsNotOwn ==
    ASSUME PipesOK, cmds' = StaleCommands(cmds)
    PROVE  OwnCommands' = {}
<1>1. \A i \in DOMAIN cmds : StaleCommands(cmds)[i].own = FALSE
  BY DEF StaleCommands
<1>2. DOMAIN StaleCommands(cmds) = DOMAIN cmds
  BY DEF StaleCommands
<1> QED
  BY <1>1, <1>2 DEF OwnCommands

\* An empty pipe holds no command.
LEMMA EmptyIsNotOwn ==
    ASSUME cmds' = <<>>
    PROVE  OwnCommands' = {}
BY DEF OwnCommands

\* Writing a command that is not a run command adds no simulation.
LEMMA OtherWriteAddsNone ==
    ASSUME PipesOK, NEW name \in {"init", "quit"}, Write(name)
    PROVE  OwnCommands' = OwnCommands
<1>1. CASE cmds' = Append(cmds, [name |-> name, own |-> TRUE])
  <2>1. [name |-> name, own |-> TRUE] \in Command
    BY DEF Command
  <2>2. /\ DOMAIN cmds = 1..Len(cmds) /\ DOMAIN cmds' = 1..(Len(cmds) + 1)
        /\ Len(cmds) \in Nat
    BY <1>1, <2>1, AppendProperties, LenProperties DEF PipesOK
  <2>3. \A i \in 1..Len(cmds) : cmds'[i] = cmds[i]
    BY <1>1, <2>1, AppendProperties DEF PipesOK
  <2>4. cmds'[Len(cmds) + 1].name = name
    BY <1>1, <2>1, AppendProperties DEF PipesOK
  <2> QED
    BY <2>2, <2>3, <2>4 DEF OwnCommands
<1>2. CASE cmds' = cmds
  BY <1>2 DEF OwnCommands
<1> QED
  BY <1>1, <1>2 DEF Write

\* Writing the run command of a job that has none adds at most one.
LEMMA RunWriteAddsOne ==
    ASSUME PipesOK, OwnCommands = {}, Write("run")
    PROVE  \A i, j \in OwnCommands' : i = j
<1>1. CASE cmds' = Append(cmds, [name |-> "run", own |-> TRUE])
  <2>1. [name |-> "run", own |-> TRUE] \in Command
    BY DEF Command
  <2>2. /\ DOMAIN cmds = 1..Len(cmds) /\ DOMAIN cmds' = 1..(Len(cmds) + 1)
        /\ Len(cmds) \in Nat
    BY <1>1, <2>1, AppendProperties, LenProperties DEF PipesOK
  <2>3. \A i \in 1..Len(cmds) : cmds'[i] = cmds[i]
    BY <1>1, <2>1, AppendProperties DEF PipesOK
  <2> QED
    BY <2>2, <2>3 DEF OwnCommands
<1>2. CASE cmds' = cmds
  BY <1>2 DEF OwnCommands
<1> QED
  BY <1>1, <1>2 DEF Write

\* The commands behind the first one, after that has been read.
LEMMA ReadShiftsOwn ==
    ASSUME PipesOK, cmds # <<>>, cmds' = Tail(cmds)
    PROVE  /\ \A i \in OwnCommands' : i \in Nat /\ i >= 1 /\ i + 1 \in OwnCommands
           /\ Head(cmds) \in Command
           /\ Head(cmds).name = "run" /\ Head(cmds).own => 1 \in OwnCommands
<1>1. /\ Len(cmds) \in Nat /\ Len(cmds) > 0
      /\ DOMAIN cmds = 1..Len(cmds) /\ DOMAIN cmds' = 1..(Len(cmds) - 1)
  BY HeadTailProperties, LenProperties, EmptySeq DEF PipesOK
<1>2. \A i \in 1..(Len(cmds) - 1) : cmds'[i] = cmds[i + 1]
  BY HeadTailProperties, LenProperties DEF PipesOK
<1>3. Head(cmds) = cmds[1] /\ Head(cmds) \in Command
  BY HeadTailProperties DEF PipesOK
<1> QED
  BY <1>1, <1>2, <1>3 DEF OwnCommands

\* The run command of a job is written when the simulator has none of that job's: a new
\* job makes what is in the pipes stale, a discard empties them.
LEMMA SubmittedStep ==
    ASSUME PipesOK, CallShape, NothingSubmitted, OneSimulationPerJob, Next
    PROVE  NothingSubmitted' /\ OneSimulationPerJob'
<1>1. CASE CallStart
  BY <1>1 DEF CallStart, NothingSubmitted, OneSimulationPerJob, OwnCommands,
     session, simulator
<1>2. CASE CallRun
  <2>1. OwnCommands' = {} /\ sim'.own = FALSE
    BY <1>2, StaleIsNotOwn DEF CallRun, StaleRun
  <2> QED
    BY <2>1 DEF NothingSubmitted, OneSimulationPerJob
<1>3. CASE CallStop
  <2>1. OwnCommands' = OwnCommands
    <3>1. CASE Write("quit")
      BY <3>1, OtherWriteAddsNone
    <3>2. CASE UNCHANGED cmds
      BY <3>2 DEF OwnCommands
    <3> QED
      BY <1>3, <3>1, <3>2 DEF CallStop
  <2>2. op' = "stop" /\ sim' = sim
    BY <1>3 DEF CallStop
  <2> QED
    BY <2>1, <2>2 DEF NothingSubmitted, OneSimulationPerJob
<1>4. CASE CheckAlive
  BY <1>4 DEF CheckAlive, NothingSubmitted, OneSimulationPerJob, OwnCommands,
     session, simulator
<1>5. CASE CheckDead
  BY <1>5 DEF CheckDead, Discard, Reap, NothingSubmitted, OneSimulationPerJob,
     OwnCommands, session, simulator
<1>6. CASE StartAlreadyActive
  BY <1>6 DEF StartAlreadyActive, Return, NothingSubmitted, OneSimulationPerJob,
     OwnCommands, session, simulator
<1>7. CASE StartFails
  BY <1>7 DEF StartFails, StartThrows, Return, Discard, NothingSubmitted,
     OneSimulationPerJob, OwnCommands, session, simulator
<1>8. CASE Launch
  <2>1. OwnCommands' = {} /\ sim'.own = FALSE
    BY <1>8, EmptyIsNotOwn DEF Launch, Booting
  <2> QED
    BY <2>1 DEF NothingSubmitted, OneSimulationPerJob
<1>9. CASE HandshakeDeadline
  BY <1>9 DEF HandshakeDeadline, Discard, NothingSubmitted, OneSimulationPerJob,
     OwnCommands, session, simulator
<1>10. CASE HandshakeReadsLine
  BY <1>10 DEF HandshakeReadsLine, ReadsLine, NothingSubmitted, OneSimulationPerJob,
     OwnCommands, session, simulator
<1>11. CASE HandshakeReadsNothing
  BY <1>11 DEF HandshakeReadsNothing, ReadsNothing, NothingSubmitted,
     OneSimulationPerJob, OwnCommands, session, simulator
<1>12. CASE HandshakePollAlive
  BY <1>12 DEF HandshakePollAlive, NothingSubmitted, OneSimulationPerJob,
     OwnCommands, session, simulator
<1>13. CASE HandshakePollExited
  BY <1>13 DEF HandshakePollExited, Discard, Reap, NothingSubmitted,
     OneSimulationPerJob, OwnCommands, session, simulator
<1>14. CASE WriteInit
  <2>1. OwnCommands' = OwnCommands
    BY <1>14, OtherWriteAddsNone DEF WriteInit
  <2>2. op' = op /\ sim' = sim /\ pc = "init"
    BY <1>14 DEF WriteInit
  <2> QED
    BY <2>1, <2>2 DEF NothingSubmitted, OneSimulationPerJob
<1>15. CASE WriteInitFails
  BY <1>15 DEF WriteInitFails, WriteFails, Discard, NothingSubmitted,
     OneSimulationPerJob, OwnCommands, session, simulator
<1>16. CASE WriteInitKills
  BY <1>16 DEF WriteInitKills, SigPipeKills, NothingSubmitted, OneSimulationPerJob,
     OwnCommands, session, simulator
<1>17. CASE Dispatch
  <2>1. OwnCommands = {} /\ ~sim.own
    BY <1>17 DEF Dispatch, NothingSubmitted, CallShape
  <2>2. \A i, j \in OwnCommands' : i = j
    BY <1>17, <2>1, RunWriteAddsOne DEF Dispatch
  <2>3. sim' = sim /\ pc' = "wait"
    BY <1>17 DEF Dispatch
  <2> QED
    BY <2>1, <2>2, <2>3 DEF NothingSubmitted, OneSimulationPerJob
<1>18. CASE DispatchFails
  BY <1>18 DEF DispatchFails, WriteFails, Discard, NothingSubmitted,
     OneSimulationPerJob, OwnCommands, session, simulator
<1>19. CASE DispatchKills
  BY <1>19 DEF DispatchKills, SigPipeKills, NothingSubmitted, OneSimulationPerJob,
     OwnCommands, session, simulator
<1>20. CASE RunDeadline
  BY <1>20 DEF RunDeadline, Discard, NothingSubmitted, OneSimulationPerJob,
     OwnCommands, session, simulator
<1>21. CASE RunReadsLine
  BY <1>21 DEF RunReadsLine, ReadsLine, Return, NothingSubmitted,
     OneSimulationPerJob, OwnCommands, session, simulator
<1>22. CASE RunReadsNothing
  BY <1>22 DEF RunReadsNothing, ReadsNothing, NothingSubmitted, OneSimulationPerJob,
     OwnCommands, session, simulator
<1>23. CASE RunPollAlive
  BY <1>23 DEF RunPollAlive, NothingSubmitted, OneSimulationPerJob, OwnCommands,
     session, simulator
<1>24. CASE RunPollExited
  BY <1>24 DEF RunPollExited, Discard, Reap, NothingSubmitted, OneSimulationPerJob,
     OwnCommands, session, simulator
<1>25. CASE DiscardProcess
  <2>1. OwnCommands' = {} /\ sim'.own = FALSE
    BY <1>25, EmptyIsNotOwn DEF DiscardProcess, CloseAndForget, NoSim
  <2> QED
    BY <2>1 DEF NothingSubmitted, OneSimulationPerJob
<1>26. CASE Tick
  BY <1>26 DEF Tick, NothingSubmitted, OneSimulationPerJob, OwnCommands, session,
     simulator
<1>27. CASE SimReadsCommand
  <2>1. /\ \A i \in OwnCommands' : i \in Nat /\ i >= 1 /\ i + 1 \in OwnCommands
        /\ Head(cmds) \in Command
        /\ Head(cmds).name = "run" /\ Head(cmds).own => 1 \in OwnCommands
    BY <1>27, ReadShiftsOwn DEF SimReadsCommand
  <2>2. \A i, j \in OwnCommands : i = j
    BY DEF OneSimulationPerJob
  <2>3. \A i, j \in OwnCommands' : i = j
    BY <2>1, <2>2
  <2>4. 1 \in OwnCommands => OwnCommands' = {}
    BY <2>1, <2>2
  <2>5. sim'.own => 1 \in OwnCommands \/ sim' = sim
    BY <1>27, <2>1 DEF SimReadsCommand, Echo
  <2>6. sim.lines = <<>> /\ op' = op /\ pc' = pc
    BY <1>27 DEF SimReadsCommand, session
  <2> QED
    BY <2>1, <2>3, <2>4, <2>5, <2>6 DEF NothingSubmitted, OneSimulationPerJob
<1>28. CASE SimPrintsLine
  <2>1. sim'.own = sim.own /\ cmds' = cmds /\ op' = op /\ pc' = pc /\ sim.lines # <<>>
    BY <1>28 DEF SimPrintsLine, Rest, SimUnchanged, session
  <2> QED
    BY <2>1 DEF NothingSubmitted, OneSimulationPerJob, OwnCommands
<1>29. CASE SimPrintsPiece
  <2>1. sim'.own = sim.own /\ cmds' = cmds /\ op' = op /\ pc' = pc /\ sim.lines # <<>>
    BY <1>29 DEF SimPrintsPiece, Rest, SimUnchanged, session
  <2> QED
    BY <2>1 DEF NothingSubmitted, OneSimulationPerJob, OwnCommands
<1>30. CASE SimStalls
  BY <1>30 DEF SimStalls, SimUnchanged, NothingSubmitted, OneSimulationPerJob,
     OwnCommands, session, simulator
<1>31. CASE SimFinishesLine
  BY <1>31 DEF SimFinishesLine, SimUnchanged, NothingSubmitted, OneSimulationPerJob,
     OwnCommands, session, simulator
<1>32. CASE SimExits
  <2>1. OwnCommands' = {} /\ sim'.own = FALSE
    BY <1>32, EmptyIsNotOwn DEF SimExits, NoSim
  <2> QED
    BY <2>1 DEF NothingSubmitted, OneSimulationPerJob
<1> QED
  BY <1>1, <1>2, <1>3, <1>4, <1>5, <1>6, <1>7, <1>8, <1>9, <1>10, <1>11, <1>12,
     <1>13, <1>14, <1>15, <1>16, <1>17, <1>18, <1>19, <1>20, <1>21, <1>22, <1>23,
     <1>24, <1>25, <1>26, <1>27, <1>28, <1>29, <1>30, <1>31, <1>32 DEF Next, Caller,
     Session, Simulator

-------------------------------------------------------------------------------
(* The invariant, and what follows from it.                                *)

\* A session that has not been used is down, and nothing is in its pipes.
LEMMA InitInv == Init => Inv
<1> SUFFICES ASSUME Init PROVE Inv
  OBVIOUS
<1>1. ControlOK
  <2>1. attempt \in 1..MaxAttempts
    BY AttemptsPositive DEF Init
  <2>2. basis \in [own : BOOLEAN, ok : BOOLEAN]
    BY DEF Init, NoBasis
  <2> QED
    BY <2>1, <2>2 DEF Init, ControlOK, OpenStatus
<1>2. ProcsOK
  BY DEF Init, ProcsOK
<1>3. PipesOK
  BY SimTypes, EmptySeq DEF Init, PipesOK
<1>4. NoLeak /\ Shape /\ SettledWhenIdle
  BY DEF Init, NoLeak, Shape, SettledWhenIdle, Up, Down, NoSim
<1>5. CallShape /\ NothingSubmitted /\ OneSimulationPerJob
  BY DEF Init, CallShape, NothingSubmitted, OneSimulationPerJob, OwnCommands
<1> QED
  BY <1>1, <1>2, <1>3, <1>4, <1>5 DEF Inv, TypeOK

\* Every step of the session, its caller, its clock or its simulator preserves it.
LEMMA NextInv == Inv /\ [Next]_vars => Inv'
<1> SUFFICES ASSUME Inv, [Next]_vars PROVE Inv'
  OBVIOUS
<1>1. CASE Next
  <2>1. ControlOK' /\ PipesOK'
    BY <1>1, ControlStep, PipesStep DEF Inv, TypeOK
  <2>2. ProcsOK' /\ NoLeak' /\ Shape'
    BY <1>1, ProcsStep DEF Inv, TypeOK
  <2>3. SettledWhenIdle'
    BY <1>1, SettledStep DEF Inv, TypeOK
  <2>4. CallShape' /\ NothingSubmitted' /\ OneSimulationPerJob'
    BY <1>1, CallShapeStep, SubmittedStep DEF Inv, TypeOK
  <2> QED
    BY <2>1, <2>2, <2>3, <2>4 DEF Inv, TypeOK
<1>2. CASE UNCHANGED vars
  <2>1. ControlOK' /\ ProcsOK' /\ PipesOK'
    BY <1>2 DEF vars, session, simulator, Inv, TypeOK, ControlOK, ProcsOK, PipesOK
  <2>2. NoLeak' /\ Shape' /\ SettledWhenIdle'
    BY <1>2 DEF vars, session, simulator, Inv, NoLeak, Shape, SettledWhenIdle, Up, Down
  <2>3. CallShape' /\ NothingSubmitted' /\ OneSimulationPerJob'
    BY <1>2 DEF vars, session, simulator, Inv, CallShape, NothingSubmitted,
                OneSimulationPerJob, OwnCommands
  <2> QED
    BY <2>1, <2>2, <2>3 DEF Inv, TypeOK
<1> QED
  BY <1>1, <1>2

\* The inductive invariant holds in every state of every behaviour.
THEOREM InvHolds == Spec => []Inv
BY InitInv, NextInv, PTL DEF Spec

\* Every variable keeps to its domain; run() never counts past restart_attempts + 1.
THEOREM TypeCorrect == Spec => []TypeOK
<1>1. Inv => TypeOK
  BY DEF Inv
<1> QED
  BY <1>1, InvHolds, PTL

\* No simulator is orphaned, no zombie left behind and no descriptor lost, for any
\* number of process ids and any bound on the attempts.
THEOREM NothingLeaks == Spec => []NoLeak
<1>1. Inv => NoLeak
  BY DEF Inv
<1> QED
  BY <1>1, InvHolds, PTL

\* Between calls the session is fully up or fully down, and down after a failure.
THEOREM Settles == Spec => []SettledWhenIdle
<1>1. Inv => SettledWhenIdle
  BY DEF Inv
<1> QED
  BY <1>1, InvHolds, PTL

\* However often run() retries, a job is simulated at most once at a time.
THEOREM SimulatesOnce == Spec => []OneSimulationPerJob
<1>1. Inv => OneSimulationPerJob
  BY DEF Inv
<1> QED
  BY <1>1, InvHolds, PTL

\* Only discard_process, having cleared the process table, starts another attempt.
LEMMA RetryStep ==
    ASSUME Inv, Next, op = "run", op' = "run", attempt' > attempt
    PROVE  why \in {"startup", "transport"} /\ \A p \in Pids : procs'[p] = "free"
<1>1. attempt >= 1
  BY DEF Inv, TypeOK, ControlOK
<1>2. CASE Caller
  BY <1>1, <1>2 DEF Caller, CallStart, CallRun, CallStop, Inv, TypeOK, ControlOK
<1>3. CASE Simulator \/ Tick
  BY <1>3 DEF Simulator, Tick, SimReadsCommand, SimPrintsLine, SimPrintsPiece, SimStalls,
              SimFinishesLine, SimExits, SimUnchanged, session, Inv, TypeOK, ControlOK
<1>4. CASE DiscardProcess
  <2>1. \A p \in Pids : procs'[p] = "free"
    BY <1>4, CloseAndForgetDrops DEF DiscardProcess, Inv, TypeOK
  <2>2. pc = "discard" /\ after = "retry"
    BY <1>4 DEF DiscardProcess, Resume, Inv, TypeOK, ControlOK
  <2> QED
    BY <2>1, <2>2 DEF Inv, CallShape
<1>5. CASE Session /\ ~DiscardProcess
  <2>1. UNCHANGED attempt
    BY <1>5 DEF Session, CheckAlive, CheckDead, StartAlreadyActive, StartFails, Launch,
       HandshakeDeadline, HandshakeReadsLine, HandshakeReadsNothing, HandshakePollAlive,
       HandshakePollExited, WriteInit, WriteInitFails, WriteInitKills, SigPipeKills,
       Dispatch, DispatchFails, DispatchKills, RunDeadline, RunReadsLine,
       RunReadsNothing, RunPollAlive, RunPollExited
  <2> QED
    BY <2>1 DEF Inv, TypeOK, ControlOK
<1> QED
  BY <1>2, <1>3, <1>4, <1>5 DEF Next, Session

\* A job is submitted again only after a failure to start or to talk to the simulator,
\* and only once the simulator that had it is gone; a timeout is final.
THEOREM RetriesAreSafe == Spec => RetryOnlyAfterTransportFailure
<1>1. Inv /\ [Next]_vars =>
          [ (op = "run" /\ op' = "run" /\ attempt' > attempt) =>
              /\ why \in {"startup", "transport"}
              /\ \A p \in Pids : procs'[p] = "free" ]_vars
  BY RetryStep
<1> QED
  BY <1>1, InvHolds, PTL DEF Spec, RetryOnlyAfterTransportFailure
===============================================================================
