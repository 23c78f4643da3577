---------------------------- MODULE WorkflowProofs ----------------------------
(***************************************************************************)
(* Proofs about Workflow, for any processes, Simulations, parameters and   *)
(* batches, and about the probe, which its sessions start with, for any    *)
(* machines.                                                               *)
(***************************************************************************)
EXTENDS Workflow, FiniteSetTheorems, WellFoundedInduction, TLAPS

Phases == {"none", "ready", "running", "gone"}
Simulators == {NoSimulator, "spectre", "ngspice"}

\* The end of a job that got a worker.
JobEnds(s, i) == JobSucceeds(s, i) \/ JobMisses(s, i) \/ JobFails(s, i)

\* A Simulation that is there is in a live process, whose counter has passed the names
\* it generated.
SetupInv ==
    /\ alive \subseteq Hosts /\ counter \in [Hosts -> 0..MaxCount]
    /\ host \in [Sims -> Hosts \cup {NoHost}]
    /\ root \in [Sims -> Roots \cup {NoRoot}]
    /\ simulator \in [Sims -> Simulators]
    /\ phase \in [Sims -> Phases]
    /\ \A s \in Sims :
          /\ phase[s] = "none" => host[s] = NoHost
          /\ host[s] # NoHost => host[s] \in alive
          /\ host[s] # NoHost /\ root[s] \in Generated =>
                root[s][1] = host[s] /\ root[s][2] < counter[host[s]]
    /\ GeneratedRootsDistinct

ProcessStep == \E h \in Hosts : HostStarts(h) \/ Crash(h)

\* Only processes and the constructor write these variables, but for the phase.
LEMMA SetupUnchanged ==
    ASSUME SetupInv, UNCHANGED <<alive, counter, host, root, simulator>>, phase' \in [Sims -> Phases],
           \A s \in Sims : phase'[s] = "none" => phase[s] = "none"
    PROVE  SetupInv'
BY DEF SetupInv, GeneratedRootsDistinct, Constructed

LEMMA SetupInit == Init => SetupInv
BY BoundsAssumption DEF Init, SetupInv, GeneratedRootsDistinct, Constructed, Phases,
                           Simulators

LEMMA SetupHostStarts ==
    ASSUME SetupInv, NEW h \in Hosts, HostStarts(h)
    PROVE  SetupInv'
<1>1. /\ h \notin alive /\ alive' = alive \cup {h}
      /\ counter' = [counter EXCEPT ![h] = 0] /\ UNCHANGED <<host, root, simulator, phase>>
  BY DEF HostStarts, setup
<1>2. \A s \in Sims : host[s] # NoHost => host[s] # h /\ counter'[host[s]] = counter[host[s]]
  BY <1>1 DEF SetupInv
<1>3. 0 \in 0..MaxCount
  BY BoundsAssumption
<1> QED
  BY <1>1, <1>2, <1>3 DEF SetupInv, GeneratedRootsDistinct, Constructed

LEMMA SetupCrash ==
    ASSUME SetupInv, NEW h \in Hosts, Crash(h)
    PROVE  SetupInv'
<1>1. /\ alive' = alive \ {h} /\ UNCHANGED counter
      /\ host' = [s \in Sims |-> IF host[s] = h THEN NoHost ELSE host[s]]
      /\ root' = [s \in Sims |-> IF host[s] = h THEN NoRoot ELSE root[s]]
      /\ simulator' = [s \in Sims |-> IF host[s] = h THEN NoSimulator ELSE simulator[s]]
      /\ phase' = [s \in Sims |-> IF host[s] = h THEN "gone" ELSE phase[s]]
  BY DEF Crash
<1>2. \A s \in Sims : host'[s] # NoHost =>
          host[s] # h /\ host[s] # NoHost /\ host'[s] = host[s] /\ root'[s] = root[s]
  BY <1>1
<1>3. /\ host' \in [Sims -> Hosts \cup {NoHost}] /\ root' \in [Sims -> Roots \cup {NoRoot}]
      /\ simulator' \in [Sims -> Simulators] /\ phase' \in [Sims -> Phases]
  BY <1>1 DEF SetupInv, Phases, Simulators
<1> QED
  BY <1>1, <1>2, <1>3, NoneAssumption DEF SetupInv, GeneratedRootsDistinct, Constructed, Phases

LEMMA SetupConstruct ==
    ASSUME SetupInv, NEW s \in Sims, NEW h \in Hosts, NEW o \in OptionSets[s],
           Construct(s, h, o)
    PROVE  SetupInv'
<1>1. /\ phase[s] = "none" /\ h \in alive /\ UNCHANGED alive
      /\ host' = [host EXCEPT ![s] = h] /\ phase' = [phase EXCEPT ![s] = "ready"]
      /\ simulator' = [simulator EXCEPT ![s] = o.simulator]
      /\ o.simulator \in {"spectre", "ngspice"}
  BY DEF Construct, ValidOptions
<1>2. /\ host' \in [Sims -> Hosts \cup {NoHost}] /\ phase' \in [Sims -> Phases]
      /\ simulator' \in [Sims -> Simulators]
      /\ host'[s] = h /\ phase'[s] = "ready" /\ host[s] = NoHost
      /\ \A t \in Sims : t # s => host'[t] = host[t] /\ phase'[t] = phase[t]
  BY <1>1 DEF SetupInv, Phases, Simulators
<1>3. CASE o.name = ""
  <2>1. /\ counter[h] < MaxCount /\ root' = [root EXCEPT ![s] = <<h, counter[h]>>]
        /\ counter' = [counter EXCEPT ![h] = @ + 1]
    BY <1>3 DEF Construct
  <2>2. /\ counter[h] \in 0..MaxCount /\ counter[h] + 1 \in 0..MaxCount
        /\ counter[h] \in 0..(MaxCount - 1)
    BY <2>1, BoundsAssumption DEF SetupInv
  <2>3. /\ counter' \in [Hosts -> 0..MaxCount] /\ counter'[h] = counter[h] + 1
        /\ \A g \in Hosts : g # h => counter'[g] = counter[g]
    BY <2>1, <2>2 DEF SetupInv
  <2>4. /\ root' \in [Sims -> Roots \cup {NoRoot}] /\ root'[s] = <<h, counter[h]>>
        /\ \A t \in Sims : t # s => root'[t] = root[t]
    BY <2>1, <2>2 DEF SetupInv, Roots, Generated
  <2>5. \A t \in Sims : t # s /\ host[t] # NoHost /\ root[t] \in Generated =>
            root[t] # <<h, counter[h]>> /\ root[t][2] < counter'[host[t]]
    <3> SUFFICES ASSUME NEW t \in Sims, t # s, host[t] # NoHost, root[t] \in Generated
                 PROVE  root[t] # <<h, counter[h]>> /\ root[t][2] < counter'[host[t]]
      OBVIOUS
    <3>1. /\ root[t][1] = host[t] /\ root[t][2] < counter[host[t]] /\ host[t] \in Hosts
          /\ root[t][2] \in Nat /\ counter[host[t]] \in Nat
      BY DEF SetupInv, Generated
    <3>2. CASE host[t] = h
      BY <3>1, <3>2, <2>3
    <3>3. CASE host[t] # h
      BY <3>1, <3>3, <2>3
    <3> QED BY <3>2, <3>3
  <2>6. GeneratedRootsDistinct'
    BY <1>2, <2>4, <2>5 DEF SetupInv, GeneratedRootsDistinct, Constructed
  <2>7. ASSUME NEW t \in Sims
        PROVE  /\ phase'[t] = "none" => host'[t] = NoHost
               /\ host'[t] # NoHost => host'[t] \in alive'
               /\ host'[t] # NoHost /\ root'[t] \in Generated =>
                     root'[t][1] = host'[t] /\ root'[t][2] < counter'[host'[t]]
    <3>1. CASE t = s
      <4>1. root'[t][1] = h /\ root'[t][2] = counter[h]
        BY <3>1, <2>4
      <4> QED BY <3>1, <4>1, <1>1, <1>2, <2>2, <2>3
    <3>2. CASE t # s
      BY <3>2, <1>1, <1>2, <2>4, <2>5 DEF SetupInv
    <3> QED BY <3>1, <3>2
  <2> QED BY <1>1, <1>2, <2>3, <2>4, <2>6, <2>7 DEF SetupInv
<1>4. CASE o.name # ""
  <2>1. /\ root' = [root EXCEPT ![s] = o.name] /\ UNCHANGED counter
        /\ o.name \in UserRoots /\ o.name \notin Generated
    BY <1>4, NamesAssumption DEF Construct, Generated
  <2>2. /\ root' \in [Sims -> Roots \cup {NoRoot}] /\ root'[s] = o.name
        /\ \A t \in Sims : t # s => root'[t] = root[t]
    BY <2>1 DEF SetupInv, Roots
  <2>3. GeneratedRootsDistinct'
    BY <1>2, <2>1, <2>2 DEF SetupInv, GeneratedRootsDistinct, Constructed
  <2> QED
    BY <1>1, <1>2, <2>1, <2>2, <2>3 DEF SetupInv
<1> QED
  BY <1>3, <1>4

\* What a step of a Simulation other than its construction does to its phase.
LEMMA PhaseStep ==
    ASSUME SetupInv, NEW s \in Sims,
           \/ \E p \in Params : \/ \E kind \in {"required", "default"} : AddParameter(s, p, kind)
                                \/ AddParameterAgain(s, p)
           \/ \E b \in Batches : RunNothing(s, b) \/ RunRefused(s, b) \/ RunBegins(s, b)
           \/ Cleanup(s) \/ Destroy(s) \/ RunStep(s)
    PROVE  /\ UNCHANGED <<alive, counter, host, root, simulator>>
           /\ \/ UNCHANGED phase
              \/ \E to \in {"ready", "running", "gone"} : phase' = [phase EXCEPT ![s] = to]
BY DEF AddParameter, AddParameterAgain, RunNothing, RunRefused, RunBegins, Cleanup, Destroy,
       RunStep, MakeEvaluator, MakeEvaluatorFails, Submit, RunReturns, JobStarts, JobSucceeds,
       JobMisses, JobFails, Ends, JobRefused, Job, NothingHappens, vars, processes, setup

LEMMA SetupNext == SetupInv /\ [Next]_vars => SetupInv'
<1> SUFFICES ASSUME SetupInv, [Next]_vars PROVE SetupInv'
  OBVIOUS
<1>1. CASE UNCHANGED vars
  <2>1. UNCHANGED <<alive, counter, host, root, simulator, phase>>
    BY <1>1 DEF vars, processes, setup
  <2> QED BY <2>1, SetupUnchanged DEF SetupInv
<1>2. ASSUME NEW h \in Hosts, HostStarts(h) \/ Crash(h) PROVE SetupInv'
  BY <1>2, SetupHostStarts, SetupCrash
<1>3. ASSUME NEW o \in orphans, OrphanWrites(o) PROVE SetupInv'
  <2>1. UNCHANGED <<alive, counter, host, root, simulator, phase>>
    BY <1>3 DEF OrphanWrites, processes, setup
  <2> QED BY <2>1, SetupUnchanged DEF SetupInv
<1>4. ASSUME NEW s \in Sims, NEW h \in Hosts, NEW o \in OptionSets[s],
             Construct(s, h, o) \/ ConstructRefused(s, h, o)
      PROVE  SetupInv'
  <2>1. CASE Construct(s, h, o)
    BY <2>1, SetupConstruct
  <2>2. CASE ConstructRefused(s, h, o)
    BY <2>2, <1>1 DEF ConstructRefused, NothingHappens
  <2> QED BY <1>4, <2>1, <2>2
<1>5. ASSUME NEW s \in Sims,
             \/ \E p \in Params :
                   \/ \E kind \in {"required", "default"} : AddParameter(s, p, kind)
                   \/ AddParameterAgain(s, p)
             \/ \E b \in Batches : RunNothing(s, b) \/ RunRefused(s, b) \/ RunBegins(s, b)
             \/ Cleanup(s) \/ Destroy(s) \/ RunStep(s)
      PROVE  SetupInv'
  <2>1. /\ UNCHANGED <<alive, counter, host, root, simulator>>
        /\ \/ UNCHANGED phase
           \/ \E to \in {"ready", "running", "gone"} : phase' = [phase EXCEPT ![s] = to]
    BY <1>5, PhaseStep
  <2>2. /\ phase' \in [Sims -> Phases]
        /\ \A t \in Sims : phase'[t] = "none" => phase[t] = "none"
    BY <2>1 DEF SetupInv, Phases
  <2> QED BY <2>1, <2>2, SetupUnchanged
<1> QED
  BY <1>1, <1>2, <1>3, <1>4, <1>5 DEF Next, Call

\* No Simulation shares a workspace whose name was generated.
THEOREM RootsDistinct == Spec => []GeneratedRootsDistinct
<1>1. SetupInv => GeneratedRootsDistinct
  BY DEF SetupInv
<1> QED
  BY SetupInit, SetupNext, <1>1, PTL DEF Spec

-------------------------------------------------------------------------------
(* Batches.                                                                *)

IsValid(s) ==
    /\ number[s] > 0 /\ ValidBatch(s, given[s])
    /\ Len(sent[s]) = Len(given[s]) /\ Len(sent[s]) \in 1..MaxJobs

\* A batch in the evaluator is the valid batch of a call of run() that has not returned,
\* and the evaluator is there.
BatchOk(s) ==
    /\ phase[s] = "running" => IsValid(s)
    /\ size[s] > 0 => phase[s] = "running" /\ open[s] /\ size[s] = Len(sent[s])
    /\ open[s] => number[s] > 0
    /\ \A i \in Indices : slot[s][i] # "none" => size[s] > 0 /\ i < size[s]

BatchTypes ==
    /\ phase \in [Sims -> Phases]
    /\ declared \in [Sims -> [Params -> {"no", "required", "default"}]]
    /\ DOMAIN given = Sims /\ DOMAIN sent = Sims
    /\ batches \in Nat /\ number \in [Sims -> Nat]
    /\ open \in [Sims -> BOOLEAN] /\ size \in [Sims -> 0..MaxJobs]
    /\ slot \in [Sims -> [Indices -> SlotStates]]

BatchInv == BatchTypes /\ \A s \in Sims : BatchOk(s)

LEMMA BatchInit == Init => BatchInv
BY BoundsAssumption
   DEF Init, BatchInv, BatchTypes, BatchOk, Phases, Undeclared, NoSlots, SlotStates

\* A Simulation whose batch is not touched keeps what holds of it.
LEMMA BatchOkKept ==
    ASSUME NEW t \in Sims, BatchOk(t),
           phase'[t] = phase[t], declared'[t] = declared[t], given'[t] = given[t],
           sent'[t] = sent[t], number'[t] = number[t], open'[t] = open[t],
           size'[t] = size[t], slot'[t] = slot[t]
    PROVE  BatchOk(t)'
BY DEF BatchOk, IsValid, ValidBatch, ValidCase

LEMMA BatchUnchanged ==
    ASSUME BatchInv, UNCHANGED <<phase, declared, given, sent, batches, number, open, size, slot>>
    PROVE  BatchInv'
<1>1. BatchTypes'
  BY DEF BatchInv, BatchTypes
<1>2. \A t \in Sims : BatchOk(t)'
  BY BatchOkKept DEF BatchInv
<1> QED
  BY <1>1, <1>2 DEF BatchInv

LEMMA BatchCrash ==
    ASSUME BatchInv, NEW h \in Hosts, Crash(h)
    PROVE  BatchInv'
<1>1. /\ phase' = [s \in Sims |-> IF host[s] = h THEN "gone" ELSE phase[s]]
      /\ declared' = [s \in Sims |-> IF host[s] = h THEN Undeclared ELSE declared[s]]
      /\ given' = [s \in Sims |-> IF host[s] = h THEN <<>> ELSE given[s]]
      /\ sent' = [s \in Sims |-> IF host[s] = h THEN <<>> ELSE sent[s]]
      /\ number' = [s \in Sims |-> IF host[s] = h THEN 0 ELSE number[s]]
      /\ open' = [s \in Sims |-> IF host[s] = h THEN FALSE ELSE open[s]]
      /\ size' = [s \in Sims |-> IF host[s] = h THEN 0 ELSE size[s]]
      /\ slot' = [s \in Sims |-> IF host[s] = h THEN NoSlots ELSE slot[s]]
      /\ UNCHANGED batches
  BY DEF Crash
<1>2. BatchTypes'
  <2>1. /\ Undeclared \in [Params -> {"no", "required", "default"}]
        /\ NoSlots \in [Indices -> SlotStates] /\ 0 \in 0..MaxJobs /\ 0 \in Nat
    BY BoundsAssumption DEF Undeclared, NoSlots, SlotStates
  <2>2. /\ phase' \in [Sims -> Phases] /\ number' \in [Sims -> Nat]
        /\ open' \in [Sims -> BOOLEAN] /\ size' \in [Sims -> 0..MaxJobs]
    BY <1>1, <2>1 DEF BatchInv, BatchTypes, Phases
  <2>3. /\ slot' \in [Sims -> [Indices -> SlotStates]]
        /\ declared' \in [Sims -> [Params -> {"no", "required", "default"}]]
    BY <1>1, <2>1 DEF BatchInv, BatchTypes
  <2> QED BY <1>1, <2>2, <2>3 DEF BatchInv, BatchTypes
<1>3. ASSUME NEW t \in Sims PROVE BatchOk(t)'
  <2>1. CASE host[t] = h
    BY <1>1, <2>1 DEF BatchOk, NoSlots
  <2>2. CASE host[t] # h
    BY <1>1, <2>2, BatchOkKept DEF BatchInv
  <2> QED BY <2>1, <2>2
<1> QED
  BY <1>2, <1>3 DEF BatchInv

LEMMA BatchConstruct ==
    ASSUME BatchInv, NEW s \in Sims, NEW h \in Hosts, NEW o \in OptionSets[s],
           Construct(s, h, o)
    PROVE  BatchInv'
<1>1. /\ phase[s] = "none" /\ phase' = [phase EXCEPT ![s] = "ready"]
      /\ UNCHANGED <<declared, given, sent, batches, number, open, size, slot>>
  BY DEF Construct, batch, pool
<1>2. BatchTypes'
  BY <1>1 DEF BatchInv, BatchTypes, Phases
<1>3. ASSUME NEW t \in Sims PROVE BatchOk(t)'
  <2>1. CASE t = s
    BY <1>1, <2>1 DEF BatchOk, BatchInv, BatchTypes
  <2>2. CASE t # s
    BY <1>1, <2>2, BatchOkKept DEF BatchInv, BatchTypes
  <2> QED BY <2>1, <2>2
<1> QED
  BY <1>2, <1>3 DEF BatchInv

LEMMA BatchAddParameter ==
    ASSUME BatchInv, NEW s \in Sims, NEW p \in Params, NEW kind \in {"required", "default"},
           AddParameter(s, p, kind)
    PROVE  BatchInv'
<1>1. /\ phase[s] = "ready" /\ declared' = [declared EXCEPT ![s][p] = kind]
      /\ UNCHANGED <<phase, given, sent, batches, number, open, size, slot>>
  BY DEF AddParameter, batch, pool
<1>2. BatchTypes'
  BY <1>1 DEF BatchInv, BatchTypes
<1>3. ASSUME NEW t \in Sims PROVE BatchOk(t)'
  <2>1. CASE t = s
    BY <1>1, <2>1 DEF BatchOk, BatchInv
  <2>2. CASE t # s
    BY <1>1, <2>2, BatchOkKept DEF BatchInv, BatchTypes
  <2> QED BY <2>1, <2>2
<1> QED
  BY <1>2, <1>3 DEF BatchInv

LEMMA BatchBegins ==
    ASSUME BatchInv, NEW s \in Sims, NEW b \in Batches, RunBegins(s, b)
    PROVE  BatchInv'
<1>1. /\ phase[s] = "ready" /\ b # <<>> /\ ValidBatch(s, b)
      /\ given' = [given EXCEPT ![s] = b]
      /\ sent' = [sent EXCEPT ![s] = [i \in 1..Len(b) |-> Completed(s, b[i])]]
      /\ batches' = batches + 1 /\ number' = [number EXCEPT ![s] = batches + 1]
      /\ phase' = [phase EXCEPT ![s] = "running"]
      /\ UNCHANGED <<declared, open, size, slot>>
  BY DEF RunBegins, setup, pool
<1>2. BatchTypes'
  BY <1>1 DEF BatchInv, BatchTypes, Phases
<1>3. ASSUME NEW t \in Sims PROVE BatchOk(t)'
  <2>1. CASE t = s
    <3>1. Len(b) \in 1..MaxJobs
      BY <1>1, BatchesAssumption, BoundsAssumption
    <3>2. given'[s] = b /\ sent'[s] = [i \in 1..Len(b) |-> Completed(s, b[i])]
          /\ number'[s] > 0
      BY <1>1 DEF BatchInv, BatchTypes
    <3>3. Len(sent'[s]) = Len(b)
      BY <3>1, <3>2
    <3>4. ValidBatch(s, b)'
      BY <1>1 DEF ValidBatch, ValidCase
    <3>5. IsValid(s)'
      BY <3>1, <3>2, <3>3, <3>4 DEF IsValid, ValidBatch, ValidCase
    <3>6. size[s] = 0 /\ \A i \in Indices : slot[s][i] = "none"
      BY <1>1 DEF BatchInv, BatchTypes, BatchOk
    <3>7. size'[s] = 0 /\ \A i \in Indices : slot'[s][i] = "none"
      BY <1>1, <3>6
    <3> QED BY <2>1, <3>2, <3>5, <3>7 DEF BatchOk
  <2>2. CASE t # s
    BY <1>1, <2>2, BatchOkKept DEF BatchInv, BatchTypes
  <2> QED BY <2>1, <2>2
<1> QED
  BY <1>2, <1>3 DEF BatchInv

\* The steps of a call of run(), and the end of an evaluator.
LEMMA BatchRunStep ==
    ASSUME BatchInv, NEW s \in Sims, RunStep(s) \/ Cleanup(s) \/ Destroy(s)
    PROVE  BatchInv'
<1>1. UNCHANGED <<declared, given, sent, batches, number>>
  BY DEF RunStep, MakeEvaluator, MakeEvaluatorFails, Submit, RunReturns, JobStarts,
         JobSucceeds, JobMisses, JobFails, Ends, JobRefused, Job, Cleanup, Destroy, setup, batch
<1> DEFINE Makes == /\ phase[s] = "running" /\ ~open[s] /\ open' = [open EXCEPT ![s] = TRUE]
                    /\ UNCHANGED <<phase, size, slot>>
           Fails == /\ phase[s] = "running" /\ ~open[s]
                    /\ phase' = [phase EXCEPT ![s] = "ready"]
                    /\ UNCHANGED <<open, size, slot>>
           Submits == /\ phase[s] = "running" /\ open[s] /\ size[s] = 0
                      /\ size' = [size EXCEPT ![s] = Len(sent[s])]
                      /\ slot' = [slot EXCEPT ![s] = [i \in Indices |->
                            IF i < Len(sent[s]) THEN "waiting" ELSE "none"]]
                      /\ UNCHANGED <<phase, open>>
           Returns == /\ size[s] > 0 /\ size' = [size EXCEPT ![s] = 0]
                      /\ slot' = [slot EXCEPT ![s] = NoSlots]
                      /\ phase' = [phase EXCEPT ![s] = "ready"]
                      /\ UNCHANGED open
           Works == \E i \in Indices, to \in SlotStates :
                      /\ slot[s][i] # "none" /\ slot' = [slot EXCEPT ![s][i] = to]
                      /\ UNCHANGED <<phase, open, size>>
           Closes == /\ phase[s] = "ready" /\ open' = [open EXCEPT ![s] = FALSE]
                     /\ phase' \in {phase, [phase EXCEPT ![s] = "gone"]}
                     /\ UNCHANGED <<size, slot>>
<1>2. Makes \/ Fails \/ Submits \/ Returns \/ Works \/ Closes
  <2>1. CASE MakeEvaluator(s) \/ MakeEvaluatorFails(s) \/ Submit(s) \/ RunReturns(s)
    BY <2>1 DEF MakeEvaluator, MakeEvaluatorFails, Submit, RunReturns, pool
  <2>2. ASSUME NEW i \in Indices, JobStarts(s, i) \/ JobEnds(s, i) \/ JobRefused(s, i)
        PROVE  Works
    BY <2>2 DEF JobStarts, JobEnds, JobSucceeds, JobMisses, JobFails, Ends, JobRefused,
                Job, SlotStates
  <2>3. CASE Cleanup(s) \/ Destroy(s)
    BY <2>3 DEF Cleanup, Destroy
  <2> QED BY <2>1, <2>2, <2>3 DEF RunStep, JobEnds
<1>3. IsValid(s) <=> IsValid(s)'
  BY <1>1 DEF IsValid, ValidBatch, ValidCase
<1>4. phase[s] = "running" => Len(sent[s]) \in 1..MaxJobs /\ number[s] > 0
  BY DEF BatchInv, BatchOk, IsValid
<1>5. /\ phase' \in [Sims -> Phases] /\ open' \in [Sims -> BOOLEAN]
      /\ size' \in [Sims -> 0..MaxJobs] /\ slot' \in [Sims -> [Indices -> SlotStates]]
  <2> USE DEF BatchInv, BatchTypes
  <2>1. CASE Makes \/ Fails \/ Closes
    BY <2>1 DEF Phases
  <2>2. CASE Submits
    <3>1. [i \in Indices |-> IF i < Len(sent[s]) THEN "waiting" ELSE "none"]
             \in [Indices -> SlotStates]
      BY DEF SlotStates
    <3> QED BY <2>2, <3>1, <1>4
  <2>3. CASE Returns
    <3>1. NoSlots \in [Indices -> SlotStates]
      BY DEF NoSlots, SlotStates
    <3> QED BY <2>3, <3>1, BoundsAssumption DEF Phases
  <2>4. CASE Works
    BY <2>4
  <2> QED BY <1>2, <2>1, <2>2, <2>3, <2>4
<1>6. BatchOk(s)'
  <2>0. BatchOk(s)
    BY DEF BatchInv
  <2>1. CASE Makes \/ Fails \/ Closes
    BY <1>1, <1>3, <1>4, <2>0, <2>1 DEF BatchOk, BatchInv, BatchTypes
  <2>2. CASE Submits
    <3>1. /\ size'[s] = Len(sent'[s]) /\ size'[s] > 0
          /\ \A i \in Indices : slot'[s][i] # "none" => i < size'[s]
      BY <1>1, <1>4, <2>2 DEF BatchInv, BatchTypes
    <3> QED BY <1>1, <1>3, <2>0, <2>2, <3>1 DEF BatchOk
  <2>3. CASE Returns
    <3>1. /\ phase'[s] = "ready" /\ size'[s] = 0
          /\ \A i \in Indices : slot'[s][i] = "none"
      BY <2>3 DEF BatchInv, BatchTypes, NoSlots
    <3> QED BY <1>1, <2>0, <2>3, <3>1 DEF BatchOk
  <2>4. CASE Works
    <3>1. \A i \in Indices : slot'[s][i] # "none" => slot[s][i] # "none"
      BY <2>4 DEF BatchInv, BatchTypes
    <3> QED BY <1>1, <1>3, <2>0, <2>4, <3>1 DEF BatchOk
  <2> QED BY <1>2, <2>1, <2>2, <2>3, <2>4
<1>7. ASSUME NEW t \in Sims, t # s PROVE BatchOk(t)'
  <2>1. /\ phase'[t] = phase[t] /\ open'[t] = open[t]
        /\ size'[t] = size[t] /\ slot'[t] = slot[t]
    BY <1>2, <1>7 DEF BatchInv, BatchTypes
  <2> QED BY <1>1, <2>1, BatchOkKept DEF BatchInv
<1> QED
  BY <1>1, <1>5, <1>6, <1>7 DEF BatchInv, BatchTypes

LEMMA BatchNext == BatchInv /\ [Next]_vars => BatchInv'
<1> SUFFICES ASSUME BatchInv, [Next]_vars PROVE BatchInv'
  OBVIOUS
<1> USE DEF processes, setup, batch, pool, files
<1>1. CASE UNCHANGED vars
  BY <1>1, BatchUnchanged DEF vars
<1>2. ASSUME NEW h \in Hosts, HostStarts(h) \/ Crash(h) PROVE BatchInv'
  BY <1>2, BatchUnchanged, BatchCrash DEF HostStarts
<1>3. ASSUME NEW o \in orphans, OrphanWrites(o) PROVE BatchInv'
  BY <1>3, BatchUnchanged DEF OrphanWrites
<1>4. ASSUME NEW s \in Sims, Call(s) PROVE BatchInv'
  <2>1. ASSUME NEW h \in Hosts, NEW o \in OptionSets[s],
               Construct(s, h, o) \/ ConstructRefused(s, h, o)
        PROVE  BatchInv'
    BY <2>1, <1>1, BatchConstruct DEF ConstructRefused, NothingHappens
  <2>2. ASSUME NEW p \in Params, NEW kind \in {"required", "default"}, AddParameter(s, p, kind)
        PROVE  BatchInv'
    BY <2>2, BatchAddParameter
  <2>3. ASSUME NEW p \in Params, AddParameterAgain(s, p)
        PROVE  BatchInv'
    BY <2>3, <1>1 DEF AddParameterAgain, NothingHappens
  <2>4. ASSUME NEW b \in Batches, RunNothing(s, b) \/ RunRefused(s, b) \/ RunBegins(s, b)
        PROVE  BatchInv'
    BY <2>4, <1>1, BatchUnchanged, BatchBegins DEF RunNothing, RunRefused, NothingHappens
  <2>5. CASE Cleanup(s) \/ Destroy(s)
    BY <2>5, BatchRunStep
  <2> QED BY <1>4, <2>1, <2>2, <2>3, <2>4, <2>5 DEF Call
<1>5. ASSUME NEW s \in Sims, RunStep(s) PROVE BatchInv'
  BY <1>5, BatchRunStep
<1> QED
  BY <1>1, <1>2, <1>3, <1>4, <1>5 DEF Next

\* A batch with an invalid case starts nothing.
THEOREM InvalidStartsNothing == Spec => []InvalidBatchStartsNothing
<1>1. BatchInv => InvalidBatchStartsNothing
  BY DEF BatchInv, BatchOk, IsValid, ValidBatch, ValidCase, InvalidBatchStartsNothing
<1> QED
  BY BatchInit, BatchNext, <1>1, PTL DEF Spec
-------------------------------------------------------------------------------
(* The evaluator as a BatchService.                                        *)

KeepsTo(s) ==
    /\ Service(s)!SNext \/ UNCHANGED <<open[s], size[s], slot[s]>>
    /\ open[s] /\ ~open'[s] => size[s] = 0

LEMMA KeepsToRunStep ==
    ASSUME BatchInv, NEW s \in Sims, RunStep(s)
    PROVE  KeepsTo(s)
<1> USE DEF BatchInv, BatchTypes
<1>0. BatchOk(s)
  OBVIOUS
<1>1. CASE MakeEvaluator(s)
  <2>1. Service(s)!SOpen
    BY <1>0, <1>1 DEF MakeEvaluator, BatchOk, Service!SOpen
  <2> QED BY <2>1 DEF KeepsTo, Service!SNext, Service!SOpen
<1>2. CASE MakeEvaluatorFails(s)
  BY <1>2 DEF MakeEvaluatorFails, pool, KeepsTo
<1>3. CASE Submit(s)
  <2>1. Service(s)!SSubmit
    BY <1>0, <1>3 DEF Submit, BatchOk, IsValid, Service!SSubmit, Service!Indices, Indices
  <2> QED BY <2>1 DEF KeepsTo, Service!SNext, Service!SSubmit
<1>4. CASE RunReturns(s)
  <2>1. Service(s)!SReturn
    BY <1>4 DEF RunReturns, NoSlots, Service!SReturn, Service!Indices, Indices
  <2> QED BY <2>1 DEF KeepsTo, Service!SNext, Service!SReturn
<1>5. ASSUME NEW i \in Indices, JobStarts(s, i) \/ JobEnds(s, i) \/ JobRefused(s, i)
      PROVE  KeepsTo(s)
  <2>1. i \in Service(s)!Indices
    BY DEF Indices, Service!Indices
  <2>2. open[s] /\ UNCHANGED <<open, size>>
    BY <1>0, <1>5 DEF BatchOk, JobStarts, JobEnds, JobSucceeds, JobMisses, JobFails, Ends,
                      JobRefused, Job
  <2>3. Service(s)!STake(i) \/ Service(s)!SAnswer(i) \/ Service(s)!SRefuse(i)
    BY <1>5, <2>2 DEF JobStarts, JobEnds, JobSucceeds, JobMisses, JobFails, Ends,
                      JobRefused, Job, Service!STake, Service!SAnswer, Service!SRefuse
  <2> QED BY <2>1, <2>2, <2>3 DEF KeepsTo, Service!SNext
<1> QED
  BY <1>1, <1>2, <1>3, <1>4, <1>5 DEF RunStep, JobEnds

LEMMA KeepsToEnd ==
    ASSUME BatchInv, NEW s \in Sims, Cleanup(s) \/ Destroy(s)
    PROVE  KeepsTo(s)
<1>1. /\ open' = [open EXCEPT ![s] = FALSE] /\ UNCHANGED <<size, slot>> /\ size[s] = 0
  BY DEF Cleanup, Destroy, BatchInv, BatchTypes, BatchOk
<1>2. CASE open[s]
  <2>1. Service(s)!SClose
    BY <1>1, <1>2 DEF Service!SClose, BatchInv, BatchTypes
  <2> QED BY <1>1, <2>1 DEF KeepsTo, Service!SNext
<1>3. CASE ~open[s]
  BY <1>1, <1>3 DEF KeepsTo, BatchInv, BatchTypes
<1> QED
  BY <1>2, <1>3

\* No step touches the evaluator of another Simulation but the end of its process.
LEMMA OthersKeep ==
    ASSUME BatchInv, NEW s \in Sims, NEW t \in Sims, t # s, Call(s) \/ RunStep(s)
    PROVE  UNCHANGED <<open[t], size[t], slot[t]>>
<1> USE DEF BatchInv, BatchTypes
<1>1. CASE Cleanup(s) \/ Destroy(s)
  BY <1>1 DEF Cleanup, Destroy
<1>2. CASE Call(s) /\ ~(Cleanup(s) \/ Destroy(s))
  BY <1>2 DEF Call, Construct, ConstructRefused, AddParameter, AddParameterAgain, RunNothing,
              RunRefused, RunBegins, NothingHappens, vars, pool
<1>3. CASE MakeEvaluator(s) \/ MakeEvaluatorFails(s) \/ Submit(s) \/ RunReturns(s)
  BY <1>3 DEF MakeEvaluator, MakeEvaluatorFails, Submit, RunReturns, pool
<1>4. ASSUME NEW i \in Indices, JobStarts(s, i) \/ JobEnds(s, i) \/ JobRefused(s, i)
      PROVE  UNCHANGED <<open[t], size[t], slot[t]>>
  BY <1>4 DEF JobStarts, JobEnds, JobSucceeds, JobMisses, JobFails, Ends, JobRefused, Job
<1> QED
  BY <1>1, <1>2, <1>3, <1>4 DEF RunStep, JobEnds

LEMMA KeepsToNext ==
    ASSUME SetupInv, BatchInv, [Next]_vars, NEW t \in Sims, host[t] \in alive'
    PROVE  KeepsTo(t)
<1>1. CASE UNCHANGED <<open[t], size[t], slot[t]>>
  BY <1>1 DEF KeepsTo
<1>2. CASE UNCHANGED vars
  BY <1>1, <1>2 DEF vars, pool
<1>3. ASSUME NEW h \in Hosts, HostStarts(h) \/ Crash(h) PROVE KeepsTo(t)
  <2>1. CASE HostStarts(h)
    BY <1>1, <2>1 DEF HostStarts, pool
  <2>2. CASE Crash(h)
    <3>1. alive' = alive \ {h} /\ host[t] # h
      BY <2>2 DEF Crash
    <3>2. /\ open' = [s \in Sims |-> IF host[s] = h THEN FALSE ELSE open[s]]
          /\ size' = [s \in Sims |-> IF host[s] = h THEN 0 ELSE size[s]]
          /\ slot' = [s \in Sims |-> IF host[s] = h THEN NoSlots ELSE slot[s]]
      BY <2>2 DEF Crash
    <3> QED BY <1>1, <3>1, <3>2
  <2> QED BY <1>3, <2>1, <2>2
<1>4. ASSUME NEW o \in orphans, OrphanWrites(o) PROVE KeepsTo(t)
  BY <1>1, <1>4 DEF OrphanWrites, pool
<1>5. ASSUME NEW s \in Sims, Call(s) \/ RunStep(s) PROVE KeepsTo(t)
  <2>1. CASE t # s
    BY <1>1, <1>5, <2>1, OthersKeep
  <2>2. CASE t = s /\ (RunStep(s) \/ Cleanup(s) \/ Destroy(s))
    BY <2>2, KeepsToRunStep, KeepsToEnd
  <2>3. CASE t = s /\ ~(RunStep(s) \/ Cleanup(s) \/ Destroy(s))
    <3>1. UNCHANGED pool
      BY <1>5, <2>3 DEF Call, Construct, ConstructRefused, AddParameter, AddParameterAgain,
                        RunNothing, RunRefused, RunBegins, NothingHappens, vars
    <3> QED BY <1>1, <3>1 DEF pool
  <2> QED BY <2>1, <2>2, <2>3
<1> QED
  BY <1>2, <1>3, <1>4, <1>5 DEF Next

\* A Simulation uses its evaluator as a BatchService until its process ends.
THEOREM UsesService == Spec => UsesBatchService
<1>1. SetupInv /\ BatchInv /\ [Next]_vars =>
          [\A s \in Sims : host[s] \in alive' =>
              /\ Service(s)!SNext \/ UNCHANGED <<open[s], size[s], slot[s]>>
              /\ open[s] /\ ~open'[s] => size[s] = 0]_vars
  BY KeepsToNext DEF KeepsTo
<1> QED
  BY SetupInit, SetupNext, BatchInit, BatchNext, <1>1, PTL DEF Spec, UsesBatchService
-------------------------------------------------------------------------------
(* Processes: how often an id was used.                                    *)

LifeInv ==
    /\ starts \in 0..MaxStarts /\ boots \in [Hosts -> 0..MaxStarts]
    /\ \A h \in Hosts : boots[h] <= starts /\ (h \in alive => boots[h] >= 1)
    /\ \A s \in Sims :
          /\ phase[s] \in {"ready", "running"} => host[s] # NoHost
          /\ host[s] # NoHost => root[s] \in Roots

LEMMA LifeInit == Init => LifeInv
BY BoundsAssumption DEF Init, LifeInv

LEMMA LifeHostStarts ==
    ASSUME LifeInv, NEW h \in Hosts, HostStarts(h)
    PROVE  LifeInv'
<1>1. /\ starts < MaxStarts /\ starts' = starts + 1 /\ alive' = alive \cup {h}
      /\ boots' = [boots EXCEPT ![h] = @ + 1] /\ UNCHANGED <<host, root, phase>>
  BY DEF HostStarts, setup
<1>2. starts' \in 0..MaxStarts
  BY <1>1, BoundsAssumption DEF LifeInv
<1>3. ASSUME NEW g \in Hosts
      PROVE  /\ boots'[g] \in 0..MaxStarts /\ boots'[g] <= starts'
             /\ g \in alive' => boots'[g] >= 1
  <2>1. CASE g = h
    BY <1>1, <2>1, BoundsAssumption DEF LifeInv
  <2>2. CASE g # h
    BY <1>1, <2>2 DEF LifeInv
  <2> QED BY <2>1, <2>2
<1>4. boots' \in [Hosts -> 0..MaxStarts]
  BY <1>1, <1>3 DEF LifeInv
<1> QED
  BY <1>1, <1>2, <1>3, <1>4 DEF LifeInv

LEMMA LifeCrash ==
    ASSUME SetupInv, LifeInv, NEW h \in Hosts, Crash(h)
    PROVE  LifeInv'
<1>1. /\ alive' = alive \ {h} /\ UNCHANGED <<starts, boots>>
      /\ host' = [s \in Sims |-> IF host[s] = h THEN NoHost ELSE host[s]]
      /\ root' = [s \in Sims |-> IF host[s] = h THEN NoRoot ELSE root[s]]
      /\ phase' = [s \in Sims |-> IF host[s] = h THEN "gone" ELSE phase[s]]
  BY DEF Crash
<1> QED
  BY <1>1 DEF LifeInv

LEMMA LifeConstruct ==
    ASSUME SetupInv, LifeInv, NEW s \in Sims, NEW h \in Hosts, NEW o \in OptionSets[s],
           Construct(s, h, o)
    PROVE  LifeInv'
<1>1. /\ UNCHANGED <<alive, starts, boots>>
      /\ host' = [host EXCEPT ![s] = h] /\ phase' = [phase EXCEPT ![s] = "ready"]
  BY DEF Construct
<1>2. \E r \in Roots : root' = [root EXCEPT ![s] = r]
  <2>1. CASE o.name = ""
    <3>1. counter[h] < MaxCount /\ root' = [root EXCEPT ![s] = <<h, counter[h]>>]
      BY <2>1 DEF Construct
    <3>2. counter[h] \in 0..(MaxCount - 1)
      BY <3>1, BoundsAssumption DEF SetupInv
    <3>3. <<h, counter[h]>> \in Roots
      BY <3>2 DEF Roots, Generated
    <3> QED BY <3>1, <3>3
  <2>2. CASE o.name # ""
    BY <2>2, NamesAssumption DEF Construct, Roots
  <2> QED BY <2>1, <2>2
<1>3. h # NoHost
  BY NoneAssumption
<1> QED
  BY <1>1, <1>2, <1>3 DEF LifeInv, SetupInv

\* Simulations do not start or end processes.
LEMMA ProcessesKept ==
    ASSUME NEW s \in Sims, Call(s) \/ RunStep(s)
    PROVE  UNCHANGED <<alive, starts, boots>>
<1>1. CASE Call(s)
  BY <1>1 DEF Call, Construct, ConstructRefused, AddParameter, AddParameterAgain, RunNothing,
              RunRefused, RunBegins, Cleanup, Destroy, NothingHappens, vars, processes
<1>2. CASE RunStep(s)
  BY <1>2 DEF RunStep, MakeEvaluator, MakeEvaluatorFails, Submit, RunReturns, JobStarts,
              JobSucceeds, JobMisses, JobFails, Ends, JobRefused, Job, processes
<1> QED
  BY <1>1, <1>2

LEMMA LifeNext == SetupInv /\ BatchInv /\ LifeInv /\ [Next]_vars => LifeInv'
<1> SUFFICES ASSUME SetupInv, BatchInv, LifeInv, [Next]_vars PROVE LifeInv'
  OBVIOUS
<1> USE DEF processes, setup
<1>1. CASE UNCHANGED vars
  BY <1>1 DEF vars, LifeInv
<1>2. ASSUME NEW h \in Hosts, HostStarts(h) \/ Crash(h) PROVE LifeInv'
  BY <1>2, LifeHostStarts, LifeCrash
<1>3. ASSUME NEW o \in orphans, OrphanWrites(o) PROVE LifeInv'
  BY <1>3 DEF OrphanWrites, LifeInv
<1>4. ASSUME NEW s \in Sims, NEW h \in Hosts, NEW o \in OptionSets[s],
             Construct(s, h, o) \/ ConstructRefused(s, h, o)
      PROVE  LifeInv'
  BY <1>1, <1>4, LifeConstruct DEF ConstructRefused, NothingHappens
<1>5. ASSUME NEW s \in Sims,
             \/ \E p \in Params :
                   \/ \E kind \in {"required", "default"} : AddParameter(s, p, kind)
                   \/ AddParameterAgain(s, p)
             \/ \E b \in Batches : RunNothing(s, b) \/ RunRefused(s, b) \/ RunBegins(s, b)
             \/ Cleanup(s) \/ Destroy(s) \/ RunStep(s)
      PROVE  LifeInv'
  <2>1. /\ UNCHANGED <<alive, host, root>>
        /\ \/ UNCHANGED phase
           \/ \E to \in {"ready", "running", "gone"} : phase' = [phase EXCEPT ![s] = to]
    BY <1>5, PhaseStep
  <2>2. UNCHANGED <<starts, boots>>
    BY <1>5, ProcessesKept DEF Call
  <2>3. UNCHANGED phase \/ phase[s] \in {"ready", "running"}
    BY <1>5 DEF AddParameter, AddParameterAgain, RunNothing, RunRefused, RunBegins, Cleanup,
                Destroy, RunStep, MakeEvaluator, MakeEvaluatorFails, Submit, RunReturns,
                NothingHappens, vars
  <2>4. \A t \in Sims : phase'[t] \in {"ready", "running"} => phase[t] \in {"ready", "running"}
    BY <2>1, <2>3 DEF SetupInv
  <2> QED BY <2>1, <2>2, <2>4 DEF LifeInv
<1> QED
  BY <1>1, <1>2, <1>3, <1>4, <1>5 DEF Next, Call
-------------------------------------------------------------------------------
(* What is simulated.                                                      *)

CaseOk(s) ==
    /\ given[s] \in Batches \cup {<<>>}
    /\ Len(sent[s]) = Len(given[s]) /\ Len(sent[s]) \in 0..MaxJobs
    /\ \A i \in 1..Len(sent[s]) : sent[s][i] \in States /\ IsOfCase(sent[s][i], given[s][i])

CaseInv ==
    /\ batches \in 0..MaxBatches /\ number \in [Sims -> 0..MaxBatches]
    /\ \A s \in Sims : CaseOk(s)

LEMMA CaseInit == Init => CaseInv
<1>1. Len(<<>>) = 0
  OBVIOUS
<1> QED
  BY <1>1, BoundsAssumption DEF Init, CaseInv, CaseOk

\* The state made of a valid case of a batch.
LEMMA CompletedCase ==
    ASSUME BatchTypes, NEW s \in Sims, NEW b \in Batches, NEW i \in DOMAIN b,
           ValidCase(s, b[i])
    PROVE  Completed(s, b[i]) \in States /\ IsOfCase(Completed(s, b[i]), b[i])
<1> DEFINE D == {q \in Params : declared[s][q] # "no"}
<1>1. Completed(s, b[i]) = [p \in D |-> IF p \in DOMAIN b[i] THEN b[i][p] ELSE DefaultValue]
  BY DEF Completed
<1>2. DOMAIN b[i] \subseteq D
  BY DEF ValidCase
<1>3. \A p \in DOMAIN b[i] : b[i][p] \in Values \ {NotFinite}
  BY DEF ValidCase, Values
<1>4. DefaultValue \in Values \ {NotFinite}
  BY NotFiniteAssumption DEF Values
<1> HIDE DEF D
<1>5. Completed(s, b[i]) \in [D -> Values \ {NotFinite}]
  BY <1>1, <1>3, <1>4
<1>6. D \in SUBSET Params
  BY DEF D
<1> QED
  BY <1>1, <1>2, <1>5, <1>6 DEF States, IsOfCase

LEMMA CaseBegins ==
    ASSUME BatchInv, CaseInv, NEW s \in Sims, NEW b \in Batches, RunBegins(s, b)
    PROVE  CaseInv'
<1>1. /\ ValidBatch(s, b) /\ batches < MaxBatches
      /\ given' = [given EXCEPT ![s] = b]
      /\ sent' = [sent EXCEPT ![s] = [i \in 1..Len(b) |-> Completed(s, b[i])]]
      /\ batches' = batches + 1 /\ number' = [number EXCEPT ![s] = batches + 1]
  BY DEF RunBegins
<1>2. DOMAIN b = 1..Len(b) /\ Len(b) \in 0..MaxJobs
  BY BatchesAssumption
<1>3. /\ given'[s] = b /\ sent'[s] = [i \in 1..Len(b) |-> Completed(s, b[i])]
      /\ \A t \in Sims : t # s => given'[t] = given[t] /\ sent'[t] = sent[t]
  BY <1>1 DEF BatchInv, BatchTypes
<1>4. Len(sent'[s]) = Len(b)
  BY <1>2, <1>3, BoundsAssumption
<1>5. \A i \in 1..Len(b) : ValidCase(s, b[i])
  BY <1>1 DEF ValidBatch
<1>6. \A i \in 1..Len(b) : /\ Completed(s, b[i]) \in States
                           /\ IsOfCase(Completed(s, b[i]), b[i])
  BY <1>2, <1>5, CompletedCase DEF BatchInv
<1>7. \A i \in 1..Len(b) : sent'[s][i] \in States /\ IsOfCase(sent'[s][i], given'[s][i])
  BY <1>3, <1>6
<1>8. CaseOk(s)'
  BY <1>2, <1>3, <1>4, <1>7 DEF CaseOk, IsOfCase
<1>9. \A t \in Sims : t # s => CaseOk(t)'
  BY <1>3 DEF CaseInv, CaseOk, IsOfCase
<1>10. batches' \in 0..MaxBatches /\ number' \in [Sims -> 0..MaxBatches]
  BY <1>1, BoundsAssumption DEF CaseInv
<1> QED
  BY <1>8, <1>9, <1>10 DEF CaseInv

LEMMA CaseCrash ==
    ASSUME CaseInv, NEW h \in Hosts, Crash(h)
    PROVE  CaseInv'
<1>1. /\ given' = [s \in Sims |-> IF host[s] = h THEN <<>> ELSE given[s]]
      /\ sent' = [s \in Sims |-> IF host[s] = h THEN <<>> ELSE sent[s]]
      /\ number' = [s \in Sims |-> IF host[s] = h THEN 0 ELSE number[s]]
      /\ UNCHANGED batches
  BY DEF Crash
<1>2. ASSUME NEW t \in Sims PROVE CaseOk(t)'
  <2>1. CASE host[t] = h
    <3>1. given'[t] = <<>> /\ sent'[t] = <<>> /\ Len(<<>>) = 0
      BY <1>1, <2>1
    <3> QED BY <3>1, BoundsAssumption DEF CaseOk
  <2>2. CASE host[t] # h
    BY <1>1, <2>2 DEF CaseInv, CaseOk, IsOfCase
  <2> QED BY <2>1, <2>2
<1>3. number' \in [Sims -> 0..MaxBatches]
  BY <1>1, BoundsAssumption DEF CaseInv
<1> QED
  BY <1>1, <1>2, <1>3 DEF CaseInv

\* No other step writes these variables.
LEMMA CaseOthers ==
    ASSUME NEW s \in Sims,
           \/ \E h \in Hosts, o \in OptionSets[s] :
                 Construct(s, h, o) \/ ConstructRefused(s, h, o)
           \/ \E p \in Params : \/ \E kind \in {"required", "default"} : AddParameter(s, p, kind)
                                \/ AddParameterAgain(s, p)
           \/ \E b \in Batches : RunNothing(s, b) \/ RunRefused(s, b)
           \/ Cleanup(s) \/ Destroy(s) \/ RunStep(s)
    PROVE  UNCHANGED <<given, sent, batches, number>>
BY DEF Construct, ConstructRefused, AddParameter, AddParameterAgain, RunNothing, RunRefused,
       Cleanup, Destroy, RunStep, MakeEvaluator, MakeEvaluatorFails, Submit, RunReturns,
       JobStarts, JobSucceeds, JobMisses, JobFails, Ends, JobRefused, Job, NothingHappens, vars,
       batch

LEMMA CaseNext == BatchInv /\ CaseInv /\ [Next]_vars => CaseInv'
<1> SUFFICES ASSUME BatchInv, CaseInv, [Next]_vars PROVE CaseInv'
  OBVIOUS
<1>1. CASE UNCHANGED <<given, sent, batches, number>>
  BY <1>1 DEF CaseInv, CaseOk, IsOfCase
<1>2. CASE UNCHANGED vars \/ \E o \in orphans : OrphanWrites(o)
  BY <1>1, <1>2 DEF vars, batch, OrphanWrites
<1>3. ASSUME NEW h \in Hosts, HostStarts(h) \/ Crash(h) PROVE CaseInv'
  BY <1>1, <1>3, CaseCrash DEF HostStarts, batch
<1>4. ASSUME NEW s \in Sims, NEW b \in Batches, RunBegins(s, b) PROVE CaseInv'
  BY <1>4, CaseBegins
<1>5. ASSUME NEW s \in Sims, Call(s) \/ RunStep(s),
             ~ \E b \in Batches : RunBegins(s, b)
      PROVE  CaseInv'
  <2>1. UNCHANGED <<given, sent, batches, number>>
    BY <1>5, CaseOthers DEF Call
  <2> QED BY <2>1, <1>1
<1> QED
  BY <1>2, <1>3, <1>4, <1>5 DEF Next
-------------------------------------------------------------------------------
(* What is written.                                                        *)

\* What a job directory holds is of no batch to come, and a simulator that outlived its
\* process wrote where an id was used before.
LeftOk(file, r) ==
    /\ file.batch <= batches
    /\ file.late /\ r \in Generated =>
          boots[r[1]] >= 1 /\ (r[1] \in alive => boots[r[1]] > 1)

\* While a batch runs, a directory whose job has no result holds nothing of the batch.
PendingOk(s) ==
    phase[s] = "running" =>
        \A i \in Indices :
           /\ slot[s][i] \in {"none", "waiting", "taken"} => result[s][i] = "none"
           /\ result[s][i] = "none" /\ root[s] \in Generated =>
                 disk[root[s]][i].late \/ disk[root[s]][i].batch < number[s]

LeftInv ==
    /\ \A s \in Sims : number[s] <= batches
    /\ \A o \in orphans : o.file.late /\ LeftOk(o.file, o.root)
    /\ \A r \in Roots, i \in Indices : LeftOk(disk[r][i], r)
    /\ \A s \in Sims : PendingOk(s)

FileTypes ==
    /\ result \in [Sims -> [Indices -> {"none", "success", "failed"}]]
    /\ missed \in [Sims -> SUBSET Indices]
    /\ disk \in [Roots -> [Indices -> Files]]
    /\ orphans \subseteq Orphans

ResultOk(s) ==
    /\ host[s] = NoHost => \A i \in Indices : result[s][i] # "success"
    /\ \A i \in Indices :
          result[s][i] = "success" /\ root[s] \in Generated =>
            LET file == disk[root[s]][i]
            IN  \/ file.late /\ boots[host[s]] > 1
                \/ /\ ~file.late /\ file.batch = number[s]
                   /\ IsOfCase(file.state, given[s][i + 1])
                \/ ~file.late /\ i \in missed[s] /\ file.batch < number[s]

FileInv == FileTypes /\ \A s \in Sims : ResultOk(s)

WorkflowInv == SetupInv /\ BatchInv /\ LifeInv /\ CaseInv /\ LeftInv /\ FileInv

LEMMA FileInit == Init => LeftInv /\ FileInv
<1> SUFFICES ASSUME Init PROVE LeftInv /\ FileInv
  OBVIOUS
<1>1. <<>> \in States
  <2>1. <<>> \in [{} -> Values \ {NotFinite}]
    OBVIOUS
  <2> QED BY <2>1 DEF States
<1>2. NoFile \in Files /\ NoFile.batch = 0 /\ ~NoFile.late
  BY <1>1, BoundsAssumption DEF NoFile, Files
<1>3. disk \in [Roots -> [Indices -> Files]]
  BY <1>2 DEF Init
<1>4. \A r \in Roots, i \in Indices : LeftOk(disk[r][i], r)
  BY <1>2 DEF Init, LeftOk
<1> QED
  BY <1>3, <1>4 DEF Init, FileInv, FileTypes, NoResult, ResultOk, LeftInv, PendingOk

\* Batches are counted, and an id comes into use with one more process.
LEMMA ProcessesStep ==
    ASSUME SetupInv, LifeInv, CaseInv, [Next]_vars
    PROVE  /\ batches \in Nat /\ batches' \in Nat /\ batches <= batches'
           /\ \A h \in Hosts :
                 /\ boots[h] \in Nat /\ boots'[h] \in Nat /\ boots[h] <= boots'[h]
                 /\ h \in alive' /\ h \notin alive => boots[h] < boots'[h]
<1>0. batches \in Nat /\ \A h \in Hosts : boots[h] \in Nat
  BY BoundsAssumption DEF CaseInv, LifeInv
<1>1. CASE UNCHANGED <<alive, boots, batches>>
  BY <1>0, <1>1
<1>2. CASE UNCHANGED vars \/ \E o \in orphans : OrphanWrites(o)
  BY <1>1, <1>2 DEF vars, processes, batch, OrphanWrites
<1>3. ASSUME NEW h \in Hosts, HostStarts(h)
      PROVE  /\ batches' = batches /\ alive' = alive \cup {h}
             /\ \A g \in Hosts : boots'[g] = IF g = h THEN boots[g] + 1 ELSE boots[g]
  BY <1>3 DEF HostStarts, batch, LifeInv
<1>4. ASSUME NEW h \in Hosts, Crash(h)
      PROVE  batches' = batches /\ alive' \subseteq alive /\ boots' = boots
  BY <1>4 DEF Crash
<1>5. ASSUME NEW s \in Sims, Call(s) \/ RunStep(s)
      PROVE  alive' = alive /\ boots' = boots /\ batches' \in {batches, batches + 1}
  <2>1. CASE \E b \in Batches : RunBegins(s, b)
    BY <1>5, <2>1, ProcessesKept DEF RunBegins
  <2>2. CASE ~ \E b \in Batches : RunBegins(s, b)
    BY <1>5, <2>2, ProcessesKept, CaseOthers DEF Call
  <2> QED BY <2>1, <2>2
<1> QED
  BY <1>0, <1>2, <1>3, <1>4, <1>5 DEF Next

\* What holds of a file in a directory holds of it as long as it is there.
LEMMA LeftKept ==
    ASSUME SetupInv, LifeInv, CaseInv, [Next]_vars, NEW file \in Files, NEW r \in Roots,
           LeftOk(file, r)
    PROVE  LeftOk(file, r)'
<1>1. file.batch \in Nat
  BY BoundsAssumption DEF Files
<1>2. r \in Generated => r[1] \in Hosts
  BY DEF Generated
<1> QED
  BY <1>1, <1>2, ProcessesStep DEF LeftOk

\* What holds of a Simulation whose batch and directories are not touched.
LEMMA PendingKept ==
    ASSUME NEW s \in Sims, PendingOk(s), phase'[s] = phase[s], slot'[s] = slot[s],
           result'[s] = result[s], number'[s] = number[s], root'[s] = root[s],
           root[s] \in Generated => disk'[root[s]] = disk[root[s]]
    PROVE  PendingOk(s)'
BY DEF PendingOk

LEMMA ResultKept ==
    ASSUME NEW s \in Sims, ResultOk(s), host'[s] = host[s], root'[s] = root[s],
           result'[s] = result[s], missed'[s] = missed[s], number'[s] = number[s],
           given'[s] = given[s],
           host[s] # NoHost => boots'[host[s]] >= boots[host[s]],
           host[s] # NoHost => boots[host[s]] \in Nat /\ boots'[host[s]] \in Nat,
           root[s] \in Generated => disk'[root[s]] = disk[root[s]]
    PROVE  ResultOk(s)'
BY DEF ResultOk, IsOfCase

LEMMA FileUnchanged ==
    ASSUME FileInv, LifeInv, SetupInv,
           UNCHANGED <<result, missed, disk, orphans, host, root, number, given, boots>>
    PROVE  FileInv'
<1>1. ASSUME NEW s \in Sims PROVE ResultOk(s)'
  <2>1. host[s] # NoHost => boots[host[s]] \in Nat
    BY BoundsAssumption DEF LifeInv, SetupInv
  <2> QED BY <2>1, ResultKept DEF FileInv
<1> QED
  BY <1>1 DEF FileInv, FileTypes

LEMMA FileHostStarts ==
    ASSUME FileInv, LifeInv, SetupInv, NEW h \in Hosts, HostStarts(h)
    PROVE  FileInv'
<1>1. /\ boots' = [boots EXCEPT ![h] = @ + 1]
      /\ UNCHANGED <<result, missed, disk, orphans, host, root, number, given>>
  BY DEF HostStarts, setup, batch, files
<1>2. \A g \in Hosts : boots[g] \in Nat /\ boots'[g] \in Nat /\ boots'[g] >= boots[g]
  BY <1>1, BoundsAssumption DEF LifeInv
<1>3. ASSUME NEW s \in Sims PROVE ResultOk(s)'
  <2>1. host[s] # NoHost => host[s] \in Hosts
    BY DEF SetupInv
  <2> QED BY <1>1, <1>2, <2>1, ResultKept DEF FileInv
<1> QED
  BY <1>1, <1>3 DEF FileInv, FileTypes

\* A job that is taken up has a state.
LEMMA TakenState ==
    ASSUME BatchInv, CaseInv, NEW s \in Sims, NEW i \in Indices, slot[s][i] # "none"
    PROVE  phase[s] = "running" /\ i + 1 \in 1..Len(sent[s])
<1>1. size[s] > 0 /\ i < size[s]
  BY DEF BatchInv, BatchOk
<1>2. phase[s] = "running" /\ size[s] = Len(sent[s])
  BY <1>1 DEF BatchInv, BatchOk
<1>3. Len(sent[s]) \in Nat /\ i \in Nat
  BY BoundsAssumption DEF CaseInv, CaseOk, Indices
<1> QED
  BY <1>1, <1>2, <1>3

\* What a simulator that outlives its process will write.
LEMMA OrphanIs ==
    ASSUME WorkflowInv, NEW h \in Hosts, Crash(h), NEW o \in {Orphan(j) : j \in Running(h)}
    PROVE  /\ o \in Orphans /\ o.file.late /\ o.file.batch <= batches
           /\ o.root \in Generated => o.root[1] = h
<1> USE DEF WorkflowInv
<1>1. PICK j \in Running(h) : o = Orphan(j)
  OBVIOUS
<1>2. PICK s \in Sims, i \in Indices :
          j[1] = s /\ j[2] = i /\ host[s] = h /\ slot[s][i] = "taken"
  BY DEF Running, Of
<1>3. i + 1 \in 1..Len(sent[s])
  BY <1>2, TakenState
<1>4. sent[s][i + 1] \in States /\ number[s] \in 0..MaxBatches /\ number[s] <= batches
  BY <1>3 DEF CaseInv, CaseOk, LeftInv
<1>5. root[s] \in Roots /\ (root[s] \in Generated => root[s][1] = h)
  BY <1>2, NoneAssumption DEF LifeInv, SetupInv
<1>6. o = [root |-> root[s], index |-> i,
         file |-> [batch |-> number[s], state |-> sent[s][i + 1], late |-> TRUE]]
  BY <1>1, <1>2 DEF Orphan
<1> QED
  BY <1>2, <1>4, <1>5, <1>6 DEF Orphans, Files

LEMMA FileCrash ==
    ASSUME WorkflowInv, NEW h \in Hosts, Crash(h)
    PROVE  FileInv'
<1> USE DEF WorkflowInv
<1>1. orphans' = orphans \cup {Orphan(j) : j \in Running(h)} /\ UNCHANGED <<boots, disk>>
  BY DEF Crash
<1>2. /\ host' = [s \in Sims |-> IF host[s] = h THEN NoHost ELSE host[s]]
      /\ root' = [s \in Sims |-> IF host[s] = h THEN NoRoot ELSE root[s]]
      /\ given' = [s \in Sims |-> IF host[s] = h THEN <<>> ELSE given[s]]
      /\ number' = [s \in Sims |-> IF host[s] = h THEN 0 ELSE number[s]]
      /\ result' = [s \in Sims |-> IF host[s] = h THEN NoResult ELSE result[s]]
      /\ missed' = [s \in Sims |-> IF host[s] = h THEN {} ELSE missed[s]]
  BY DEF Crash
<1>3. ASSUME NEW s \in Sims PROVE ResultOk(s)'
  <2>1. CASE host[s] = h
    BY <1>2, <2>1 DEF ResultOk, NoResult
  <2>2. CASE host[s] # h
    <3>1. host[s] # NoHost => boots[host[s]] \in Nat
      BY BoundsAssumption DEF LifeInv, SetupInv
    <3>2. /\ host'[s] = host[s] /\ root'[s] = root[s] /\ given'[s] = given[s]
          /\ number'[s] = number[s] /\ result'[s] = result[s] /\ missed'[s] = missed[s]
      BY <1>2, <2>2
    <3>3. ResultOk(s)
      BY DEF FileInv
    <3> QED BY <1>1, <3>1, <3>2, <3>3, ResultKept
  <2> QED BY <2>1, <2>2
<1>4. /\ result' \in [Sims -> [Indices -> {"none", "success", "failed"}]]
      /\ missed' \in [Sims -> SUBSET Indices]
  BY <1>2 DEF FileInv, FileTypes, NoResult
<1>5. orphans' \subseteq Orphans /\ disk' \in [Roots -> [Indices -> Files]]
  BY <1>1, OrphanIs DEF FileInv, FileTypes
<1> QED
  BY <1>3, <1>4, <1>5 DEF FileInv, FileTypes

LEMMA FileOrphanWrites ==
    ASSUME WorkflowInv, NEW o \in orphans, OrphanWrites(o)
    PROVE  FileInv'
<1> USE DEF WorkflowInv
<1>1. /\ disk' = [disk EXCEPT ![o.root][o.index] = o.file] /\ orphans' = orphans \ {o}
      /\ UNCHANGED <<alive, boots, host, root, result, missed, number, given>>
  BY DEF OrphanWrites, processes, setup, batch
<1>2. /\ o.root \in Roots /\ o.index \in Indices /\ o.file \in Files
      /\ o.file.late /\ LeftOk(o.file, o.root)
  BY DEF FileInv, FileTypes, LeftInv, Orphans
<1>3. disk' \in [Roots -> [Indices -> Files]]
  BY <1>1, <1>2 DEF FileInv, FileTypes
<1>4. ASSUME NEW s \in Sims PROVE ResultOk(s)'
  <2>1. host[s] # NoHost => host[s] \in alive /\ boots[host[s]] \in Nat
    BY BoundsAssumption DEF LifeInv, SetupInv
  <2>2. CASE root[s] # o.root \/ root[s] \notin Generated \/ host[s] = NoHost
    <3>1. root[s] \in Generated /\ host[s] # NoHost => disk'[root[s]] = disk[root[s]]
      BY <1>1, <2>2 DEF FileInv, FileTypes, Roots
    <3>2. CASE host[s] = NoHost
      BY <1>1, <3>2 DEF FileInv, ResultOk
    <3>3. CASE host[s] # NoHost
      BY <1>1, <2>1, <3>1, <3>3, ResultKept DEF FileInv
    <3> QED BY <3>2, <3>3
  <2>3. CASE root[s] = o.root /\ root[s] \in Generated /\ host[s] # NoHost
    <3>1. boots[host[s]] > 1
      BY <1>2, <2>1, <2>3 DEF LeftOk, SetupInv
    <3>2. disk'[root[s]][o.index].late
      BY <1>1, <1>2, <2>3 DEF FileInv, FileTypes
    <3>3. \A i \in Indices : i # o.index => disk'[root[s]][i] = disk[root[s]][i]
      BY <1>1, <1>2, <2>3 DEF FileInv, FileTypes
    <3> QED BY <1>1, <2>3, <3>1, <3>2, <3>3 DEF FileInv, ResultOk, IsOfCase
  <2> QED BY <2>2, <2>3
<1> QED
  BY <1>1, <1>3, <1>4 DEF FileInv, FileTypes

LEMMA FileConstruct ==
    ASSUME FileInv, LifeInv, SetupInv, NEW s \in Sims, NEW h \in Hosts,
           NEW o \in OptionSets[s], Construct(s, h, o)
    PROVE  FileInv'
<1>1. /\ phase[s] = "none" /\ host' = [host EXCEPT ![s] = h]
      /\ \E r : root' = [root EXCEPT ![s] = r]
      /\ UNCHANGED <<alive, boots, disk, orphans, result, missed, number, given>>
  BY DEF Construct, batch, files
<1>2. ASSUME NEW t \in Sims PROVE ResultOk(t)'
  <2>1. CASE t = s
    <3>1. \A i \in Indices : result'[t][i] # "success"
      BY <1>1, <2>1 DEF SetupInv, FileInv, ResultOk
    <3> QED BY <3>1 DEF ResultOk
  <2>2. CASE t # s
    <3>1. host[t] # NoHost => boots[host[t]] \in Nat
      BY BoundsAssumption DEF LifeInv, SetupInv
    <3>2. host'[t] = host[t] /\ root'[t] = root[t]
      BY <1>1, <2>2 DEF SetupInv
    <3> QED BY <1>1, <3>1, <3>2, ResultKept DEF FileInv
  <2> QED BY <2>1, <2>2
<1> QED
  BY <1>1, <1>2 DEF FileInv, FileTypes

LEMMA FileBegins ==
    ASSUME FileInv, LifeInv, SetupInv, BatchInv, NEW s \in Sims, NEW b \in Batches,
           RunBegins(s, b)
    PROVE  FileInv'
<1>1. /\ result' = [result EXCEPT ![s] = NoResult] /\ missed' = [missed EXCEPT ![s] = {}]
      /\ number' = [number EXCEPT ![s] = batches + 1] /\ given' = [given EXCEPT ![s] = b]
      /\ UNCHANGED <<alive, boots, host, root, disk, orphans>>
  BY DEF RunBegins, processes, setup, files
<1>2. ASSUME NEW t \in Sims PROVE ResultOk(t)'
  <2>1. CASE t = s
    <3>1. \A i \in Indices : result'[t][i] = "none"
      BY <1>1, <2>1 DEF FileInv, FileTypes, NoResult
    <3> QED BY <3>1 DEF ResultOk
  <2>2. CASE t # s
    <3>1. host[t] # NoHost => boots[host[t]] \in Nat
      BY BoundsAssumption DEF LifeInv, SetupInv
    <3>2. /\ result'[t] = result[t] /\ missed'[t] = missed[t]
          /\ number'[t] = number[t] /\ given'[t] = given[t]
      BY <1>1, <2>2 DEF FileInv, FileTypes, BatchInv, BatchTypes
    <3> QED BY <1>1, <3>1, <3>2, ResultKept DEF FileInv
  <2> QED BY <2>1, <2>2
<1>3. NoResult \in [Indices -> {"none", "success", "failed"}]
  BY DEF NoResult
<1>4. /\ result' \in [Sims -> [Indices -> {"none", "success", "failed"}]]
      /\ missed' \in [Sims -> SUBSET Indices]
  BY <1>1, <1>3 DEF FileInv, FileTypes
<1> QED
  BY <1>1, <1>2, <1>4 DEF FileInv, FileTypes

\* What the end of a job does: it writes one entry of the results and at most one
\* directory, and not both its own artifacts and a miss.
JobEffect(s, i) ==
    /\ slot[s][i] \in {"waiting", "taken"}
    /\ \E to \in {"ran", "refused"} : slot' = [slot EXCEPT ![s][i] = to]
    /\ UNCHANGED <<phase, boots, host, root, orphans, number, given>>
    /\ \/ /\ result' = [result EXCEPT ![s][i] = "success"] /\ UNCHANGED missed
          /\ disk' = [disk EXCEPT ![root[s]][i] = Written(s, i)]
       \/ /\ result' = [result EXCEPT ![s][i] = "success"]
          /\ missed' = [missed EXCEPT ![s] = @ \cup {i}] /\ UNCHANGED disk
       \/ /\ result' = [result EXCEPT ![s][i] = "failed"] /\ UNCHANGED missed
          /\ \/ UNCHANGED disk
             \/ \E f \in Around(s) : disk' = [disk EXCEPT ![root[s]][i] = f]

LEMMA JobEffectIs ==
    ASSUME BatchInv, CaseInv, NEW s \in Sims, NEW i \in Indices,
           JobEnds(s, i) \/ JobRefused(s, i)
    PROVE  JobEffect(s, i)
<1>1. /\ slot[s][i] \in {"waiting", "taken"}
      /\ \E to \in {"ran", "refused"} : slot' = [slot EXCEPT ![s][i] = to]
      /\ UNCHANGED <<phase, boots, host, root, orphans, number, given>>
  BY DEF JobEnds, JobSucceeds, JobMisses, JobFails, Ends, JobRefused, Job, processes, setup
<1>2. Written(s, i) \in Around(s)
  <2>1. i + 1 \in 1..Len(sent[s]) /\ Len(sent[s]) \in Nat /\ i \in Nat
    BY <1>1, TakenState, BoundsAssumption DEF CaseInv, CaseOk, Indices
  <2>2. i \in 0..(Len(sent[s]) - 1)
    BY <2>1
  <2> QED BY <2>2 DEF Around
<1>3. CASE JobSucceeds(s, i)
  BY <1>1, <1>3 DEF JobSucceeds, Ends, JobEffect
<1>4. CASE JobMisses(s, i)
  BY <1>1, <1>4 DEF JobMisses, Ends, JobEffect
<1>5. CASE JobFails(s, i)
  BY <1>1, <1>2, <1>5 DEF JobFails, Ends, JobEffect
<1>6. CASE JobRefused(s, i)
  BY <1>1, <1>6 DEF JobRefused, JobEffect
<1> QED
  BY <1>3, <1>4, <1>5, <1>6 DEF JobEnds

\* Other jobs, Simulations and directories are not touched.
LEMMA JobLeaves ==
    ASSUME WorkflowInv, NEW s \in Sims, NEW i \in Indices, JobEffect(s, i)
    PROVE  /\ \A t \in Sims : t # s => result'[t] = result[t] /\ missed'[t] = missed[t]
           /\ \A k \in Indices : k # i =>
                 /\ slot'[s][k] = slot[s][k] /\ result'[s][k] = result[s][k]
                 /\ k \in missed'[s] <=> k \in missed[s]
           /\ \A r \in Roots, k \in Indices :
                 r # root[s] \/ k # i => disk'[r][k] = disk[r][k]
           /\ result'[s][i] \in {"success", "failed"} /\ slot'[s][i] \in {"ran", "refused"}
           /\ result' \in [Sims -> [Indices -> {"none", "success", "failed"}]]
           /\ missed' \in [Sims -> SUBSET Indices]
<1> USE DEF WorkflowInv, FileInv, FileTypes, BatchInv, BatchTypes
<1>1. PICK status \in {"success", "failed"} : result' = [result EXCEPT ![s][i] = status]
  BY DEF JobEffect
<1>2. missed' = missed \/ missed' = [missed EXCEPT ![s] = @ \cup {i}]
  BY DEF JobEffect
<1>3. UNCHANGED disk \/ \E f : disk' = [disk EXCEPT ![root[s]][i] = f]
  BY DEF JobEffect
<1>4. PICK to \in {"ran", "refused"} : slot' = [slot EXCEPT ![s][i] = to]
  BY DEF JobEffect
<1>5. /\ \A t \in Sims : t # s => result'[t] = result[t]
      /\ \A k \in Indices : k # i => result'[s][k] = result[s][k]
      /\ result'[s][i] = status
      /\ result' \in [Sims -> [Indices -> {"none", "success", "failed"}]]
  BY <1>1
<1>6. /\ \A t \in Sims : t # s => missed'[t] = missed[t]
      /\ \A k \in Indices : k # i => (k \in missed'[s] <=> k \in missed[s])
      /\ missed' \in [Sims -> SUBSET Indices]
  <2>1. CASE missed' = missed
    BY <2>1
  <2>2. CASE missed' = [missed EXCEPT ![s] = @ \cup {i}]
    <3>1. missed[s] \cup {i} \in SUBSET Indices
      OBVIOUS
    <3> QED BY <2>2, <3>1
  <2> QED BY <1>2, <2>1, <2>2
<1>7. \A r \in Roots, k \in Indices : r # root[s] \/ k # i => disk'[r][k] = disk[r][k]
  <2>1. CASE UNCHANGED disk
    BY <2>1
  <2>2. ASSUME NEW f, disk' = [disk EXCEPT ![root[s]][i] = f]
        PROVE  \A r \in Roots, k \in Indices :
                  r # root[s] \/ k # i => disk'[r][k] = disk[r][k]
    BY <2>2
  <2> QED BY <1>3, <2>1, <2>2
<1>8. slot'[s][i] = to /\ \A k \in Indices : k # i => slot'[s][k] = slot[s][k]
  BY <1>4
<1> QED
  BY <1>5, <1>6, <1>7, <1>8

\* What a worker of a Simulation may have in its directory.
LEMMA AroundIs ==
    ASSUME WorkflowInv, NEW s \in Sims, phase[s] = "running", NEW f \in Around(s)
    PROVE  /\ f \in Files
           /\ \/ ~f.late /\ f.batch = number[s]
              \/ \E k \in Indices : f = disk[root[s]][k]
<1> USE DEF WorkflowInv
<1>1. root[s] \in Roots
  BY DEF LifeInv
<1>2. CASE \E k \in Indices : f = disk[root[s]][k]
  BY <1>1, <1>2 DEF FileInv, FileTypes
<1>3. ASSUME NEW k \in 0..(Len(sent[s]) - 1), f = Written(s, k)
      PROVE  f \in Files /\ ~f.late /\ f.batch = number[s]
  <2>1. Len(sent[s]) \in Nat
    BY BoundsAssumption DEF CaseInv, CaseOk
  <2>2. k + 1 \in 1..Len(sent[s])
    BY <2>1
  <2>3. sent[s][k + 1] \in States /\ number[s] \in 0..MaxBatches
    BY <2>2 DEF CaseInv, CaseOk
  <2> QED BY <1>3, <2>3 DEF Written, Files
<1> QED
  BY <1>2, <1>3 DEF Around

LEMMA FileJob ==
    ASSUME WorkflowInv, NEW s \in Sims, NEW i \in Indices, JobEffect(s, i)
    PROVE  FileInv'
<1> USE DEF WorkflowInv
<1>1. /\ slot[s][i] \in {"waiting", "taken"}
      /\ UNCHANGED <<boots, host, root, orphans, number, given>>
  BY DEF JobEffect
<1>2. phase[s] = "running" /\ i + 1 \in 1..Len(sent[s])
  BY <1>1, TakenState
<1>3. host[s] # NoHost /\ root[s] \in Roots
  BY <1>2 DEF LifeInv
<1>4. /\ Written(s, i) \in Files /\ ~Written(s, i).late /\ Written(s, i).batch = number[s]
      /\ IsOfCase(Written(s, i).state, given[s][i + 1])
  <2>1. /\ sent[s][i + 1] \in States /\ IsOfCase(sent[s][i + 1], given[s][i + 1])
        /\ number[s] \in 0..MaxBatches
    BY <1>2 DEF CaseInv, CaseOk
  <2> QED BY <2>1 DEF Written, Files
<1>5. \/ UNCHANGED disk
      \/ \E f \in Files : disk' = [disk EXCEPT ![root[s]][i] = f]
  BY <1>2, <1>4, AroundIs DEF JobEffect
<1>6. disk' \in [Roots -> [Indices -> Files]]
  <2>1. CASE UNCHANGED disk
    BY <2>1 DEF FileInv, FileTypes
  <2>2. ASSUME NEW f \in Files, disk' = [disk EXCEPT ![root[s]][i] = f]
        PROVE  disk' \in [Roots -> [Indices -> Files]]
    <3>1. [disk[root[s]] EXCEPT ![i] = f] \in [Indices -> Files]
      BY <1>3, <2>2 DEF FileInv, FileTypes
    <3> QED BY <2>2, <3>1 DEF FileInv, FileTypes
  <2> QED BY <1>5, <2>1, <2>2
<1>7. /\ result' \in [Sims -> [Indices -> {"none", "success", "failed"}]]
      /\ missed' \in [Sims -> SUBSET Indices]
  BY JobLeaves
<1>8. ResultOk(s)'
  <2>1. ASSUME NEW k \in Indices, k # i, root[s] \in Generated
        PROVE  /\ result'[s][k] = result[s][k] /\ disk'[root[s]][k] = disk[root[s]][k]
               /\ k \in missed'[s] <=> k \in missed[s]
    BY <1>3, <2>1, JobLeaves
  <2>2. ASSUME result'[s][i] = "success", root[s] \in Generated
        PROVE  LET file == disk'[root[s]][i]
               IN  \/ file.late /\ boots[host[s]] > 1
                   \/ /\ ~file.late /\ file.batch = number[s]
                      /\ IsOfCase(file.state, given[s][i + 1])
                   \/ ~file.late /\ i \in missed'[s] /\ file.batch < number[s]
    <3>1. CASE disk' = [disk EXCEPT ![root[s]][i] = Written(s, i)]
      <4>1. disk'[root[s]][i] = Written(s, i)
        BY <1>3, <3>1 DEF FileInv, FileTypes
      <4> QED BY <1>4, <4>1
    <3>2. CASE missed' = [missed EXCEPT ![s] = @ \cup {i}] /\ UNCHANGED disk
      <4>1. i \in missed'[s]
        BY <3>2 DEF FileInv, FileTypes
      <4>2. disk[root[s]][i].late \/ disk[root[s]][i].batch < number[s]
        BY <1>1, <1>2, <2>2 DEF LeftInv, PendingOk
      <4>3. LeftOk(disk[root[s]][i], root[s])
        BY <1>3 DEF LeftInv
      <4>4. root[s][1] = host[s] /\ host[s] \in alive
        BY <1>3, <2>2 DEF SetupInv
      <4> QED BY <2>2, <3>2, <4>1, <4>2, <4>3, <4>4 DEF LeftOk
    <3>3. result'[s][i] # "failed"
      BY <2>2
    <3> QED BY <3>1, <3>2, <3>3 DEF JobEffect, FileInv, FileTypes
  <2> QED BY <1>1, <1>3, <2>1, <2>2 DEF FileInv, ResultOk, IsOfCase
<1>9. ASSUME NEW t \in Sims, t # s PROVE ResultOk(t)'
  <2>1. result'[t] = result[t] /\ missed'[t] = missed[t]
    BY <1>9, JobLeaves
  <2>2. CASE host[t] = NoHost
    BY <1>1, <2>1, <2>2 DEF FileInv, ResultOk
  <2>3. CASE host[t] # NoHost
    <3>1. boots[host[t]] \in Nat
      BY <2>3, BoundsAssumption DEF LifeInv, SetupInv
    <3>2. root[t] \in Generated => root[t] # root[s]
      BY <1>3, <1>9, <2>3 DEF SetupInv, GeneratedRootsDistinct, Constructed
    <3>3. root[t] \in Generated => disk'[root[t]] = disk[root[t]]
      BY <1>5, <3>2 DEF FileInv, FileTypes, Roots
    <3> QED BY <1>1, <2>1, <3>1, <3>3, ResultKept DEF FileInv
  <2> QED BY <2>2, <2>3
<1> QED
  BY <1>1, <1>6, <1>7, <1>8, <1>9 DEF FileInv, FileTypes

\* The steps that are not of processes, constructors, batches that begin or jobs that end.
Elsewhere == UNCHANGED <<result, missed, disk, orphans, host, root, number, given, boots>>

LEMMA OtherSteps ==
    ASSUME [Next]_vars,
           ~ \E h \in Hosts : HostStarts(h) \/ Crash(h),
           ~ \E o \in orphans : OrphanWrites(o),
           ~ \E s \in Sims, h \in Hosts : \E o \in OptionSets[s] : Construct(s, h, o),
           ~ \E s \in Sims, b \in Batches : RunBegins(s, b),
           ~ \E s \in Sims, i \in Indices : JobEnds(s, i) \/ JobRefused(s, i)
    PROVE  Elsewhere
<1> USE DEF Elsewhere, processes, setup, batch, files
<1>1. CASE UNCHANGED vars
  BY <1>1 DEF vars
<1>2. ASSUME NEW s \in Sims, Call(s) PROVE Elsewhere
  BY <1>2 DEF Call, ConstructRefused, AddParameter, AddParameterAgain, RunNothing, RunRefused,
              Cleanup, Destroy, NothingHappens, vars
<1>3. ASSUME NEW s \in Sims, RunStep(s) PROVE Elsewhere
  BY <1>3 DEF RunStep, MakeEvaluator, MakeEvaluatorFails, Submit, RunReturns, JobStarts, Job,
              JobEnds
<1> QED
  BY <1>1, <1>2, <1>3 DEF Next

LEMMA FileNext == WorkflowInv /\ [Next]_vars => FileInv'
<1> SUFFICES ASSUME WorkflowInv, [Next]_vars PROVE FileInv'
  OBVIOUS
<1> USE DEF WorkflowInv
<1>1. CASE Elsewhere
  BY <1>1, FileUnchanged DEF Elsewhere
<1>2. ASSUME NEW h \in Hosts, HostStarts(h) \/ Crash(h) PROVE FileInv'
  BY <1>2, FileHostStarts, FileCrash
<1>3. ASSUME NEW o \in orphans, OrphanWrites(o) PROVE FileInv'
  BY <1>3, FileOrphanWrites
<1>4. ASSUME NEW s \in Sims, NEW h \in Hosts, NEW o \in OptionSets[s], Construct(s, h, o)
      PROVE  FileInv'
  BY <1>4, FileConstruct
<1>5. ASSUME NEW s \in Sims, NEW b \in Batches, RunBegins(s, b) PROVE FileInv'
  BY <1>5, FileBegins
<1>6. ASSUME NEW s \in Sims, NEW i \in Indices, JobEnds(s, i) \/ JobRefused(s, i)
      PROVE  FileInv'
  BY <1>6, JobEffectIs, FileJob
<1> QED
  BY <1>1, <1>2, <1>3, <1>4, <1>5, <1>6, OtherSteps

\* Where what a directory holds came from.
LEMMA DiskOrigin ==
    ASSUME WorkflowInv, [Next]_vars, NEW r \in Roots, NEW i \in Indices
    PROVE  \/ \E k \in Indices : disk'[r][i] = disk[r][k]
           \/ \E o \in orphans : o.root = r /\ disk'[r][i] = o.file
           \/ \E s \in Sims : ~disk'[r][i].late /\ disk'[r][i].batch = number[s]
<1> USE DEF WorkflowInv
<1>1. CASE UNCHANGED disk
  BY <1>1
<1>2. ASSUME NEW h \in Hosts, HostStarts(h) \/ Crash(h) PROVE UNCHANGED disk
  BY <1>2 DEF HostStarts, Crash, files
<1>3. ASSUME NEW o \in orphans, OrphanWrites(o)
      PROVE  disk'[r][i] = disk[r][i] \/ (o.root = r /\ disk'[r][i] = o.file)
  BY <1>3 DEF OrphanWrites, FileInv, FileTypes, Orphans
<1>4. ASSUME NEW s \in Sims, NEW h \in Hosts, NEW o \in OptionSets[s], Construct(s, h, o)
      PROVE  UNCHANGED disk
  BY <1>4 DEF Construct, files
<1>5. ASSUME NEW s \in Sims, NEW b \in Batches, RunBegins(s, b) PROVE UNCHANGED disk
  BY <1>5 DEF RunBegins, files
<1>6. ASSUME NEW s \in Sims, NEW j \in Indices, JobEnds(s, j) \/ JobRefused(s, j)
      PROVE  \/ disk'[r][i] = disk[r][i]
             \/ \E k \in Indices : disk'[r][i] = disk[r][k]
             \/ ~disk'[r][i].late /\ disk'[r][i].batch = number[s]
  <2>1. JobEffect(s, j)
    BY <1>6, JobEffectIs
  <2>2. phase[s] = "running"
    BY <2>1, TakenState DEF JobEffect
  <2>3. \/ UNCHANGED disk
        \/ disk' = [disk EXCEPT ![root[s]][j] = Written(s, j)]
        \/ \E f \in Around(s) : disk' = [disk EXCEPT ![root[s]][j] = f]
    BY <2>1 DEF JobEffect
  <2>4. CASE UNCHANGED disk \/ r # root[s] \/ i # j
    BY <2>1, <2>4, JobLeaves
  <2>5. CASE disk' = [disk EXCEPT ![root[s]][j] = Written(s, j)] /\ r = root[s] /\ i = j
    <3>1. disk'[r][i] = Written(s, j)
      BY <2>5 DEF FileInv, FileTypes
    <3> QED BY <3>1 DEF Written
  <2>6. ASSUME NEW f \in Around(s), disk' = [disk EXCEPT ![root[s]][j] = f], r = root[s], i = j
        PROVE  \/ \E k \in Indices : disk'[r][i] = disk[r][k]
               \/ ~disk'[r][i].late /\ disk'[r][i].batch = number[s]
    <3>1. disk'[r][i] = f
      BY <2>6 DEF FileInv, FileTypes
    <3> QED BY <2>2, <2>6, <3>1, AroundIs
  <2> QED BY <2>3, <2>4, <2>5, <2>6
<1> QED
  BY <1>1, <1>2, <1>3, <1>4, <1>5, <1>6, OtherSteps DEF Elsewhere

LEMMA LeftFiles ==
    ASSUME WorkflowInv, [Next]_vars
    PROVE  /\ \A s \in Sims : number'[s] <= batches'
           /\ \A r \in Roots, i \in Indices : LeftOk(disk[r][i], r)'
           /\ \A o \in orphans' : o.file.late /\ LeftOk(o.file, o.root)'
<1> USE DEF WorkflowInv
<1>0. /\ batches \in Nat /\ batches' \in Nat /\ batches <= batches'
      /\ \A s \in Sims : number[s] \in Nat /\ number[s] <= batches
  BY ProcessesStep DEF LeftInv, BatchInv, BatchTypes
<1>1. ASSUME NEW s \in Sims PROVE number'[s] <= batches'
  <2>1. number'[s] \in {0, number[s]} \/ number'[s] = batches'
    <3>1. CASE Elsewhere
      BY <3>1 DEF Elsewhere
    <3>2. ASSUME NEW h \in Hosts, HostStarts(h) \/ Crash(h) PROVE number'[s] \in {0, number[s]}
      BY <3>2 DEF HostStarts, Crash, batch
    <3>3. ASSUME NEW o \in orphans, OrphanWrites(o) PROVE number' = number
      BY <3>3 DEF OrphanWrites, batch
    <3>4. ASSUME NEW t \in Sims, NEW h \in Hosts, NEW o \in OptionSets[t], Construct(t, h, o)
          PROVE  number' = number
      BY <3>4 DEF Construct, batch
    <3>5. ASSUME NEW t \in Sims, NEW b \in Batches, RunBegins(t, b)
          PROVE  number'[s] = number[s] \/ number'[s] = batches'
      BY <3>5 DEF RunBegins, BatchInv, BatchTypes
    <3>6. ASSUME NEW t \in Sims, NEW i \in Indices, JobEnds(t, i) \/ JobRefused(t, i)
          PROVE  number' = number
      BY <3>6, JobEffectIs DEF JobEffect
    <3> QED BY <3>1, <3>2, <3>3, <3>4, <3>5, <3>6, OtherSteps
  <2> QED BY <1>0, <2>1
<1>2. ASSUME NEW r \in Roots, NEW i \in Indices PROVE LeftOk(disk[r][i], r)'
  <2>1. ASSUME NEW f \in Files, LeftOk(f, r), disk'[r][i] = f
        PROVE  LeftOk(disk[r][i], r)'
    <3>1. LeftOk(f, r)'
      BY <2>1, LeftKept
    <3> QED BY <2>1, <3>1 DEF LeftOk
  <2>2. ASSUME NEW k \in Indices PROVE disk[r][k] \in Files /\ LeftOk(disk[r][k], r)
    BY DEF LeftInv, FileInv, FileTypes
  <2>3. ASSUME NEW o \in orphans, o.root = r PROVE o.file \in Files /\ LeftOk(o.file, r)
    BY <2>3 DEF LeftInv, FileInv, FileTypes, Orphans
  <2>4. ASSUME NEW s \in Sims, ~disk'[r][i].late, disk'[r][i].batch = number[s]
        PROVE  LeftOk(disk[r][i], r)'
    BY <1>0, <2>4 DEF LeftOk
  <2> QED BY <2>1, <2>2, <2>3, <2>4, DiskOrigin
<1>3. ASSUME NEW o \in orphans' PROVE o.file.late /\ LeftOk(o.file, o.root)'
  <2>1. CASE o \in orphans
    <3>1. o.file \in Files /\ o.root \in Roots /\ o.file.late /\ LeftOk(o.file, o.root)
      BY <2>1 DEF LeftInv, FileInv, FileTypes, Orphans
    <3> QED BY <3>1, LeftKept
  <2>2. ASSUME NEW h \in Hosts, Crash(h), o \in {Orphan(j) : j \in Running(h)}
        PROVE  o.file.late /\ LeftOk(o.file, o.root)'
    <3>1. /\ o.file.late /\ o.file.batch <= batches
          /\ o.root \in Generated => o.root[1] = h
      BY <2>2, OrphanIs
    <3>2. h \in alive /\ h \notin alive' /\ boots' = boots /\ batches' = batches
      BY <2>2 DEF Crash
    <3>3. boots[h] >= 1
      BY <3>2 DEF LifeInv
    <3> QED BY <3>1, <3>2, <3>3 DEF LeftOk
  <2>3. o \in orphans \/ \E h \in Hosts : Crash(h) /\ o \in {Orphan(j) : j \in Running(h)}
    <3>1. CASE Elsewhere
      BY <3>1 DEF Elsewhere
    <3>2. ASSUME NEW h \in Hosts, HostStarts(h) PROVE o \in orphans
      BY <3>2 DEF HostStarts, files
    <3>3. ASSUME NEW h \in Hosts, Crash(h)
          PROVE  o \in orphans \/ o \in {Orphan(j) : j \in Running(h)}
      BY <3>3 DEF Crash
    <3>4. ASSUME NEW q \in orphans, OrphanWrites(q) PROVE o \in orphans
      BY <3>4 DEF OrphanWrites
    <3>5. ASSUME NEW t \in Sims, NEW h \in Hosts, NEW p \in OptionSets[t], Construct(t, h, p)
          PROVE  o \in orphans
      BY <3>5 DEF Construct, files
    <3>6. ASSUME NEW t \in Sims, NEW b \in Batches, RunBegins(t, b) PROVE o \in orphans
      BY <3>6 DEF RunBegins, files
    <3>7. ASSUME NEW t \in Sims, NEW i \in Indices, JobEnds(t, i) \/ JobRefused(t, i)
          PROVE  o \in orphans
      BY <3>7, JobEffectIs DEF JobEffect
    <3> QED BY <3>1, <3>2, <3>3, <3>4, <3>5, <3>6, <3>7, OtherSteps
  <2> QED BY <2>1, <2>2, <2>3
<1> QED
  BY <1>1, <1>2, <1>3

\* Of a call of run(), only the submission and its jobs touch the slots of a batch that
\* goes on.
LEMMA PendingRunStep ==
    ASSUME WorkflowInv, NEW s \in Sims, RunStep(s)
    PROVE  PendingOk(s)'
<1> USE DEF WorkflowInv
<1>0. PendingOk(s) /\ phase[s] = "running" /\ root[s] \in Roots
  BY DEF LeftInv, RunStep, LifeInv
<1>1. CASE MakeEvaluator(s)
  BY <1>0, <1>1, PendingKept DEF MakeEvaluator, setup, batch, files
<1>2. CASE MakeEvaluatorFails(s) \/ RunReturns(s)
  <2>1. phase'[s] = "ready"
    BY <1>2 DEF MakeEvaluatorFails, RunReturns, SetupInv
  <2> QED BY <2>1 DEF PendingOk
<1>3. CASE Submit(s)
  <2>1. \A i \in Indices : slot[s][i] = "none"
    BY <1>3 DEF Submit, BatchInv, BatchOk
  <2>2. UNCHANGED <<phase, result, number, root, disk>>
    BY <1>3 DEF Submit, setup, batch, files
  <2> QED BY <1>0, <2>1, <2>2 DEF PendingOk
<1>4. ASSUME NEW i \in Indices, JobStarts(s, i) PROVE PendingOk(s)'
  <2>1. /\ slot[s][i] = "waiting" /\ slot' = [slot EXCEPT ![s][i] = "taken"]
        /\ UNCHANGED <<phase, result, number, root, disk>>
    BY <1>4 DEF JobStarts, Job, setup
  <2>2. \A k \in Indices : slot'[s][k] \in {"none", "waiting", "taken"} =>
            slot[s][k] \in {"none", "waiting", "taken"}
    BY <2>1 DEF BatchInv, BatchTypes
  <2> QED BY <1>0, <2>1, <2>2 DEF PendingOk
<1>5. ASSUME NEW i \in Indices, JobEnds(s, i) \/ JobRefused(s, i) PROVE PendingOk(s)'
  <2>1. JobEffect(s, i)
    BY <1>5, JobEffectIs
  <2>2. /\ slot'[s][i] \in {"ran", "refused"} /\ result'[s][i] \in {"success", "failed"}
        /\ UNCHANGED <<phase, number, root>>
    BY <2>1, JobLeaves DEF JobEffect
  <2>3. \A k \in Indices : k # i =>
            /\ slot'[s][k] = slot[s][k] /\ result'[s][k] = result[s][k]
            /\ disk'[root[s]][k] = disk[root[s]][k]
    BY <1>0, <2>1, JobLeaves
  <2> QED BY <1>0, <2>2, <2>3 DEF PendingOk
<1> QED
  BY <1>1, <1>2, <1>3, <1>4, <1>5 DEF RunStep, JobEnds

\* No step of another Simulation touches the results or the directories of a batch.
LEMMA PendingOthers ==
    ASSUME WorkflowInv, [Next]_vars, NEW s \in Sims, NEW t \in Sims, t # s,
           Call(s) \/ RunStep(s)
    PROVE  PendingOk(t)'
<1> USE DEF WorkflowInv
<1>0. PendingOk(t) /\ slot'[t] = slot[t]
  BY OthersKeep DEF LeftInv
<1>1. ASSUME phase'[t] = "running"
      PROVE  phase[t] = "running" /\ root'[t] = root[t]
  <2>1. CASE \E h \in Hosts, o \in OptionSets[s] : Construct(s, h, o)
    BY <1>1, <2>1 DEF Construct, SetupInv
  <2>2. CASE \E h \in Hosts, o \in OptionSets[s] : ConstructRefused(s, h, o)
    BY <1>1, <2>2 DEF ConstructRefused, NothingHappens, vars, setup
  <2>3. CASE ~ \E h \in Hosts, o \in OptionSets[s] :
                 Construct(s, h, o) \/ ConstructRefused(s, h, o)
    <3>1. /\ UNCHANGED root
          /\ \/ UNCHANGED phase
             \/ \E to \in {"ready", "running", "gone"} : phase' = [phase EXCEPT ![s] = to]
      BY <2>3, PhaseStep DEF Call
    <3> QED BY <1>1, <3>1 DEF SetupInv
  <2> QED BY <2>1, <2>2, <2>3
<1>2. CASE Elsewhere
  BY <1>0, <1>1, <1>2, PendingKept DEF Elsewhere, PendingOk
<1>3. ASSUME NEW h \in Hosts, NEW o \in OptionSets[s], Construct(s, h, o) PROVE PendingOk(t)'
  BY <1>0, <1>1, <1>3, PendingKept DEF Construct, batch, files, PendingOk
<1>4. ASSUME NEW b \in Batches, RunBegins(s, b) PROVE PendingOk(t)'
  <2>1. result'[t] = result[t] /\ number'[t] = number[t] /\ UNCHANGED disk
    BY <1>4 DEF RunBegins, files, BatchInv, BatchTypes, FileInv, FileTypes
  <2> QED BY <1>0, <1>1, <2>1, PendingKept DEF PendingOk
<1>5. ASSUME NEW i \in Indices, JobEnds(s, i) \/ JobRefused(s, i) PROVE PendingOk(t)'
  <2>1. JobEffect(s, i)
    BY <1>5, JobEffectIs
  <2>0. slot[s][i] # "none"
    BY <2>1 DEF JobEffect
  <2>5. phase[s] = "running"
    BY <2>0, TakenState
  <2>2. result'[t] = result[t] /\ number'[t] = number[t]
    BY <2>1, JobLeaves DEF JobEffect
  <2>3. phase[t] = "running" /\ root[t] \in Generated => root[t] # root[s]
    BY <2>5 DEF LifeInv, SetupInv, GeneratedRootsDistinct, Constructed
  <2>4. phase[t] = "running" /\ root[t] \in Generated => disk'[root[t]] = disk[root[t]]
    BY <2>1, <2>3 DEF JobEffect, FileInv, FileTypes, Roots
  <2> QED BY <1>0, <1>1, <2>2, <2>4, PendingKept DEF PendingOk
<1>6. CASE \/ \E h \in Hosts, o \in OptionSets[s] : ConstructRefused(s, h, o)
           \/ \E p \in Params : \/ \E kind \in {"required", "default"} : AddParameter(s, p, kind)
                                \/ AddParameterAgain(s, p)
           \/ \E b \in Batches : RunNothing(s, b) \/ RunRefused(s, b)
           \/ Cleanup(s) \/ Destroy(s)
           \/ MakeEvaluator(s) \/ MakeEvaluatorFails(s) \/ Submit(s) \/ RunReturns(s)
           \/ \E i \in Indices : JobStarts(s, i)
  <2>1. UNCHANGED <<result, number, disk>>
    BY <1>6 DEF ConstructRefused, AddParameter, AddParameterAgain, RunNothing, RunRefused,
                Cleanup, Destroy, NothingHappens, vars, MakeEvaluator, MakeEvaluatorFails,
                Submit, RunReturns, JobStarts, Job, batch, files
  <2> QED BY <1>0, <1>1, <2>1, PendingKept DEF PendingOk
<1> QED
  BY <1>3, <1>4, <1>5, <1>6 DEF Call, RunStep, JobEnds

LEMMA LeftNext == WorkflowInv /\ [Next]_vars => LeftInv'
<1> SUFFICES ASSUME WorkflowInv, [Next]_vars PROVE LeftInv'
  OBVIOUS
<1> USE DEF WorkflowInv
<1>1. ASSUME NEW t \in Sims PROVE PendingOk(t)'
  <2>0. PendingOk(t)
    BY DEF LeftInv
  <2>1. CASE UNCHANGED vars \/ \E h \in Hosts : HostStarts(h)
    BY <2>0, <2>1, PendingKept DEF vars, HostStarts, setup, batch, pool, files
  <2>2. ASSUME NEW h \in Hosts, Crash(h) PROVE PendingOk(t)'
    <3>1. CASE host[t] = h
      BY <2>2, <3>1 DEF Crash, PendingOk
    <3>2. CASE host[t] # h
      BY <2>0, <2>2, <3>2, PendingKept DEF Crash
    <3> QED BY <3>1, <3>2
  <2>3. ASSUME NEW o \in orphans, OrphanWrites(o) PROVE PendingOk(t)'
    <3>1. /\ UNCHANGED <<phase, slot, result, number, root>>
          /\ disk' = [disk EXCEPT ![o.root][o.index] = o.file] /\ o.file.late
      BY <2>3 DEF OrphanWrites, setup, batch, pool, LeftInv
    <3>2. ASSUME NEW i \in Indices, root[t] \in Generated
          PROVE  disk'[root[t]][i] = disk[root[t]][i] \/ disk'[root[t]][i].late
      BY <3>1, <3>2 DEF FileInv, FileTypes, Orphans, Roots
    <3> QED BY <2>0, <3>1, <3>2 DEF PendingOk
  <2>4. ASSUME NEW s \in Sims, Call(s) \/ RunStep(s) PROVE PendingOk(t)'
    <3>1. CASE s # t
      BY <2>4, <3>1, PendingOthers
    <3>2. CASE s = t /\ RunStep(s)
      BY <3>2, PendingRunStep
    <3>3. ASSUME NEW b \in Batches, RunBegins(t, b) PROVE PendingOk(t)'
      <4>1. /\ number'[t] = batches + 1 /\ UNCHANGED <<root, disk>>
            /\ \A i \in Indices : result'[t][i] = "none"
        BY <3>3 DEF RunBegins, setup, files, BatchInv, BatchTypes, FileInv, FileTypes, NoResult
      <4>2. batches \in Nat
        BY DEF BatchInv, BatchTypes
      <4>3. ASSUME NEW i \in Indices, root[t] \in Generated
            PROVE  disk[root[t]][i].batch < batches + 1
        <5>1. LeftOk(disk[root[t]][i], root[t]) /\ disk[root[t]][i] \in Files
          BY <4>3 DEF LeftInv, FileInv, FileTypes, Roots
        <5> QED BY <4>2, <5>1, BoundsAssumption DEF LeftOk, Files
      <4> QED BY <4>1, <4>3 DEF PendingOk
    <3>4. CASE s = t /\ Call(s) /\ ~ \E b \in Batches : RunBegins(s, b)
      <4>1. phase'[t] # "running" \/ UNCHANGED vars
        <5>1. CASE \E h \in Hosts, o \in OptionSets[t] :
                      Construct(t, h, o) \/ ConstructRefused(t, h, o)
          BY <5>1 DEF Construct, ConstructRefused, NothingHappens, SetupInv
        <5>2. CASE \E p \in Params :
                      \/ \E kind \in {"required", "default"} : AddParameter(t, p, kind)
                      \/ AddParameterAgain(t, p)
          BY <5>2 DEF AddParameter, AddParameterAgain, NothingHappens
        <5>3. CASE \E b \in Batches : RunNothing(t, b) \/ RunRefused(t, b)
          BY <5>3 DEF RunNothing, RunRefused, NothingHappens, vars
        <5>4. CASE Cleanup(t) \/ Destroy(t)
          BY <5>4 DEF Cleanup, Destroy, SetupInv
        <5> QED BY <3>4, <5>1, <5>2, <5>3, <5>4 DEF Call
      <4> QED BY <2>1, <4>1 DEF PendingOk
    <3> QED BY <2>4, <3>1, <3>2, <3>3, <3>4
  <2> QED BY <2>1, <2>2, <2>3, <2>4 DEF Next
<1> QED
  BY <1>1, LeftFiles DEF LeftInv

LEMMA InductiveInvariant == Spec => []WorkflowInv
<1>1. Init => WorkflowInv
  BY SetupInit, BatchInit, LifeInit, CaseInit, FileInit DEF WorkflowInv
<1>2. WorkflowInv /\ [Next]_vars => WorkflowInv'
  BY SetupNext, BatchNext, LifeNext, CaseNext, LeftNext, FileNext DEF WorkflowInv
<1> QED
  BY <1>1, <1>2, PTL DEF Spec

\* Every variable keeps to its domain.
THEOREM TypeCorrect == Spec => []TypeOK
<1>1. WorkflowInv => TypeOK
  BY DEF WorkflowInv, SetupInv, BatchInv, BatchTypes, LifeInv, CaseInv, CaseOk, FileInv,
         FileTypes, TypeOK, Phases, Simulators
<1> QED
  BY InductiveInvariant, <1>1, PTL

\* The directory that a successful result names holds the artifacts of its case, unless
\* they did not get there or a simulator of an earlier process with the same id wrote over
\* them; never those of another case of the batch.
THEOREM ResultsOwn == Spec => []ResultsAreOfTheirCases
<1>1. WorkflowInv => ResultsAreOfTheirCases
  BY DEF WorkflowInv, FileInv, ResultOk, ResultsAreOfTheirCases
<1> QED
  BY InductiveInvariant, <1>1, PTL

-------------------------------------------------------------------------------
(* What cases can see of one another.                                      *)

\* A state sets declared parameters only; that they are all of those that were declared
\* when its batch came is for RunBegins to show, since declarations are never taken back.
Sets(s) == {p \in Params : declared[s][p] # "no"}
DomainsInv == \A s \in Sims : \A j \in 1..Len(sent[s]) : DOMAIN sent[s][j] \subseteq Sets(s)

LEMMA DomainsBegins ==
    ASSUME BatchInv, NEW s \in Sims, NEW b \in Batches, RunBegins(s, b)
    PROVE  /\ UNCHANGED declared
           /\ \A t \in Sims : t # s => sent'[t] = sent[t]
           /\ \A i \in 1..Len(sent'[s]) : DOMAIN sent'[s][i] = Sets(s)
<1>1. /\ sent' = [sent EXCEPT ![s] = [i \in 1..Len(b) |-> Completed(s, b[i])]]
      /\ UNCHANGED declared
  BY DEF RunBegins, setup
<1>2. /\ \A t \in Sims : t # s => sent'[t] = sent[t]
      /\ sent'[s] = [i \in 1..Len(b) |-> Completed(s, b[i])]
  BY <1>1 DEF BatchInv, BatchTypes
<1>3. Len(b) \in Nat
  BY BatchesAssumption, BoundsAssumption
<1>4. Len(sent'[s]) = Len(b)
  BY <1>2, <1>3
<1>5. ASSUME NEW i \in 1..Len(b) PROVE DOMAIN sent'[s][i] = Sets(s)
  BY <1>2 DEF Completed, Sets
<1> QED
  BY <1>1, <1>2, <1>4, <1>5

\* Any other step adds declarations to a Simulation, or takes its states away with them.
LEMMA DomainsOther ==
    ASSUME BatchInv, [Next]_vars, ~ \E s \in Sims, b \in Batches : RunBegins(s, b),
           NEW t \in Sims
    PROVE  \/ sent'[t] = sent[t] /\ Sets(t) \subseteq Sets(t)'
           \/ Len(sent'[t]) = 0
<1>1. CASE UNCHANGED <<declared, sent>>
  BY <1>1 DEF Sets
<1>2. CASE UNCHANGED vars \/ \E o \in orphans : OrphanWrites(o)
  BY <1>1, <1>2 DEF vars, setup, batch, OrphanWrites
<1>3. ASSUME NEW h \in Hosts, HostStarts(h)
      PROVE  UNCHANGED <<declared, sent>>
  BY <1>3 DEF HostStarts, setup, batch
<1>4. ASSUME NEW h \in Hosts, Crash(h)
      PROVE  \/ sent'[t] = sent[t] /\ declared'[t] = declared[t]
             \/ Len(sent'[t]) = 0
  <2>1. /\ sent' = [s \in Sims |-> IF host[s] = h THEN <<>> ELSE sent[s]]
        /\ declared' = [s \in Sims |-> IF host[s] = h THEN Undeclared ELSE declared[s]]
    BY <1>4 DEF Crash
  <2>2. Len(<<>>) = 0
    OBVIOUS
  <2> QED BY <2>1, <2>2
<1>5. ASSUME NEW s \in Sims, NEW p \in Params, NEW kind \in {"required", "default"},
             AddParameter(s, p, kind)
      PROVE  UNCHANGED sent /\ Sets(t) \subseteq Sets(t)'
  <2>1. /\ declared' = [declared EXCEPT ![s][p] = kind] /\ UNCHANGED sent
    BY <1>5 DEF AddParameter, batch
  <2>2. \A q \in Params : declared[t][q] # "no" => declared'[t][q] # "no"
    BY <2>1 DEF BatchInv, BatchTypes
  <2> QED BY <2>1, <2>2 DEF Sets
<1>6. ASSUME NEW s \in Sims, Call(s) \/ RunStep(s),
             ~ \E p \in Params, kind \in {"required", "default"} : AddParameter(s, p, kind)
      PROVE  UNCHANGED <<declared, sent>>
  <2>1. CASE \E h \in Hosts, o \in OptionSets[s] :
                 Construct(s, h, o) \/ ConstructRefused(s, h, o)
    BY <2>1, Zenon DEF Construct, ConstructRefused, NothingHappens, vars, setup, batch
  <2>2. CASE RunStep(s)
    BY <2>2, Zenon DEF RunStep, MakeEvaluator, MakeEvaluatorFails, Submit, RunReturns, JobStarts,
                JobSucceeds, JobMisses, JobFails, Ends, JobRefused, Job, setup, batch
  <2>3. CASE Call(s) /\ ~ \E h \in Hosts, o \in OptionSets[s] :
                 Construct(s, h, o) \/ ConstructRefused(s, h, o)
    BY <1>6, <2>3 DEF Call, AddParameterAgain, RunNothing, RunRefused, Cleanup, Destroy,
                      NothingHappens, vars, setup, batch
  <2> QED BY <1>6, <2>1, <2>2, <2>3
<1>7. CASE \E h \in Hosts : Crash(h)
  BY <1>4, <1>7 DEF Sets
<1>8. CASE \E s \in Sims, p \in Params, kind \in {"required", "default"} :
              AddParameter(s, p, kind)
  BY <1>5, <1>8
<1> QED
  BY <1>1, <1>2, <1>3, <1>6, <1>7, <1>8 DEF Next

LEMMA DomainsNext == BatchInv /\ DomainsInv /\ [Next]_vars => DomainsInv'
<1> SUFFICES ASSUME BatchInv, DomainsInv, [Next]_vars, NEW t \in Sims,
                    NEW j \in 1..Len(sent'[t])
             PROVE  DOMAIN sent'[t][j] \subseteq Sets(t)'
  BY DEF DomainsInv
<1>1. ASSUME NEW s \in Sims, NEW b \in Batches, RunBegins(s, b)
      PROVE  DOMAIN sent'[t][j] \subseteq Sets(t)'
  BY <1>1, DomainsBegins DEF DomainsInv, Sets
<1>2. CASE ~ \E s \in Sims, b \in Batches : RunBegins(s, b)
  BY <1>2, DomainsOther DEF DomainsInv
<1> QED
  BY <1>1, <1>2

\* A state sets all that the states of its batch and of the batch before set.
THEOREM NothingShows == Spec => NoEarlierValueShows
<1>1. Init => BatchInv /\ DomainsInv
  BY BatchInit DEF Init, DomainsInv
<1>2. BatchInv /\ DomainsInv /\ [Next]_vars => BatchInv' /\ DomainsInv'
  BY BatchNext, DomainsNext
<1>3. ASSUME BatchInv, DomainsInv, [Next]_vars, NEW t \in Sims, sent'[t] # sent[t],
             NEW i \in 1..Len(sent'[t])
      PROVE  /\ \A j \in 1..Len(sent[t]) : DOMAIN sent[t][j] \subseteq DOMAIN sent'[t][i]
             /\ \A j \in 1..Len(sent'[t]) : DOMAIN sent'[t][j] \subseteq DOMAIN sent'[t][i]
  <2>1. PICK s \in Sims, b \in Batches : RunBegins(s, b)
    BY <1>3, DomainsOther
  <2>2. t = s /\ \A j \in 1..Len(sent'[s]) : DOMAIN sent'[s][j] = Sets(s)
    BY <1>3, <2>1, DomainsBegins
  <2> QED BY <1>3, <2>2 DEF DomainsInv
<1>4. BatchInv /\ DomainsInv /\ [Next]_vars =>
          [\A s \in Sims : sent'[s] # sent[s] =>
             \A i \in 1..Len(sent'[s]) :
                /\ \A j \in 1..Len(sent[s]) : DOMAIN sent[s][j] \subseteq DOMAIN sent'[s][i]
                /\ \A j \in 1..Len(sent'[s]) :
                      DOMAIN sent'[s][j] \subseteq DOMAIN sent'[s][i]]_vars
  BY <1>3
<1> QED
  BY <1>1, <1>2, <1>4, PTL DEF Spec, NoEarlierValueShows
-------------------------------------------------------------------------------
(* The probe.                                                              *)

\* A set of positions has a first one.
LEMMA FirstPosition ==
  ASSUME NEW T, T \subseteq Nat, T # {}
  PROVE  Min(T) \in T /\ \A k \in T : Min(T) <= k
<1> DEFINE Initial == {0..k : k \in T}
           Smaller == StrictSubsetOrdering(Nat)
           Finite == FiniteSubsetsOf(Nat)
<1>1. Initial \subseteq Finite /\ Initial # {}
  <2> SUFFICES ASSUME NEW k \in T PROVE 0..k \in Finite
    OBVIOUS
  <2>1. IsFiniteSet(0..k)
    BY FS_Interval
  <2> QED BY <2>1 DEF FiniteSubsetsOf
<1>2. PICK s \in Initial : \A u \in Initial : <<u, s>> \notin Smaller
  <2>1. IsWellFoundedOn(Smaller, Finite)
    BY FS_StrictSubsetOrderingWellFounded
  <2> HIDE DEF Initial, Smaller, Finite
  <2> QED BY <1>1, <2>1, WFMin, Zenon
<1>3. PICK k \in T : s = 0..k
  OBVIOUS
<1>4. \A i \in T : k <= i
  <2> SUFFICES ASSUME NEW i \in T, i < k PROVE FALSE
    OBVIOUS
  <2>1. 0..i \subseteq 0..k /\ 0..i # 0..k
    OBVIOUS
  <2>2. <<0..i, s>> \in Smaller
    BY <1>3, <2>1 DEF StrictSubsetOrdering
  <2> QED BY <1>2, <2>2
<1> QED BY <1>4 DEF Min

\* The first candidate is one, and there is none before it.
LEMMA FirstCandidateIs ==
  ASSUME NEW m, NEW kind, Len(Candidates(kind, m)) \in Nat
  PROVE  LET c == Candidates(kind, m)
             k == FirstCandidate(kind, m)
         IN  \/ k = 0 /\ \A i \in 1..Len(c) : ~IsCandidate(m, c[i])
             \/ /\ k \in 1..Len(c) /\ IsCandidate(m, c[k])
                /\ \A i \in 1..Len(c) : IsCandidate(m, c[i]) => k <= i
<1> DEFINE c == Candidates(kind, m)
           T == {i \in 1..Len(c) : IsCandidate(m, c[i])}
<1>1. FirstCandidate(kind, m) = IF T # {} THEN Min(T) ELSE 0
  BY Zenon DEF FirstCandidate, SelectInSeq
<1>2. T # {} => Min(T) \in T /\ \A i \in T : Min(T) <= i
  <2>1. T \subseteq Nat
    OBVIOUS
  <2> HIDE DEF T
  <2> QED BY <2>1, FirstPosition
<1> HIDE DEF c
<1> QED BY <1>1, <1>2 DEF c

\* The position of the candidate of a name in directory d of PATH.
Position(kind, d, name) ==
    CASE kind = "spectre" -> d
      [] kind = "ngspice" /\ name = "ngspice_con" -> 2 * d - 1
      [] OTHER -> 2 * d

NamesOf(kind) == IF kind = "spectre" THEN {"spectre"} ELSE {"ngspice_con", "ngspice"}

\* Candidates are the pieces of PATH with the names of the simulator, in this order.
LEMMA CandidatesAre ==
  ASSUME NEW m \in Machines, NEW kind \in Kinds
  PROVE  LET c == Candidates(kind, m)
             n == Len(m.path)
         IN  /\ n \in Nat /\ Len(c) \in Nat
             /\ \A d \in 1..n : \A name \in NamesOf(kind) :
                   /\ Position(kind, d, name) \in 1..Len(c)
                   /\ c[Position(kind, d, name)] = <<m.path[d], name>>
             /\ \A k \in 1..Len(c) : \E d \in 1..n : \E name \in NamesOf(kind) :
                   k = Position(kind, d, name)
<1> DEFINE c == Candidates(kind, m)
           n == Len(m.path)
<1>1. n \in Nat
  BY MachinesAssumption
<1>2. CASE kind = "spectre"
  <2>1. \A d : Position(kind, d, "spectre") = d
    BY <1>2 DEF Position
  <2>2. c = [k \in 1..(n * 1) |-> <<m.path[((k - 1) \div 1) + 1], Names(kind)[((k - 1) % 1) + 1]>>]
    BY <1>2 DEF Candidates, Names
  <2>3. n * 1 = n /\ \A k \in 1..n : ((k - 1) \div 1) + 1 = k /\ ((k - 1) % 1) + 1 = 1
    <3> HIDE DEF n
    <3> QED BY <1>1
  <2>4. Names(kind)[1] = "spectre"
    BY <1>2 DEF Names
  <2>5. Len(c) = n /\ \A k \in 1..n : c[k] = <<m.path[k], "spectre">>
    <3> HIDE DEF n
    <3> QED BY <1>1, <2>2, <2>3, <2>4
  <2> HIDE DEF c, n
  <2>6. NamesOf(kind) = {"spectre"}
    BY <1>2 DEF NamesOf
  <2> QED BY <1>1, <2>1, <2>5, <2>6 DEF c, n
<1>3. CASE kind = "ngspice"
  <2>1. \A d : /\ Position(kind, d, "ngspice_con") = 2 * d - 1
               /\ Position(kind, d, "ngspice") = 2 * d
    BY <1>3 DEF Position
  <2>2. c = [k \in 1..(n * 2) |-> <<m.path[((k - 1) \div 2) + 1], Names(kind)[((k - 1) % 2) + 1]>>]
    BY <1>3 DEF Candidates, Names
  <2>3. Names(kind)[1] = "ngspice_con" /\ Names(kind)[2] = "ngspice"
    BY <1>3 DEF Names
  <2>4. NamesOf(kind) = {"ngspice_con", "ngspice"}
    BY <1>3 DEF NamesOf
  <2> HIDE DEF n
  <2>5. Len(c) = 2 * n
    BY <1>1, <2>2
  <2>6. \A d \in 1..n :
           /\ 2 * d - 1 \in 1..(2 * n) /\ (((2 * d - 1) - 1) \div 2) + 1 = d
           /\ (((2 * d - 1) - 1) % 2) + 1 = 1
           /\ 2 * d \in 1..(2 * n) /\ ((2 * d - 1) \div 2) + 1 = d /\ ((2 * d - 1) % 2) + 1 = 2
    BY <1>1
  <2>7. \A k \in 1..(2 * n) : \E d \in 1..n : k = 2 * d - 1 \/ k = 2 * d
    <3> SUFFICES ASSUME NEW k \in 1..(2 * n) PROVE \E d \in 1..n : k = 2 * d - 1 \/ k = 2 * d
      OBVIOUS
    <3> DEFINE d == ((k - 1) \div 2) + 1
    <3>1. d \in 1..n /\ (k = 2 * d - 1 \/ k = 2 * d)
      BY <1>1
    <3> QED BY <3>1
  <2>8. \A d \in 1..n : /\ c[2 * d - 1] = <<m.path[d], "ngspice_con">>
                        /\ c[2 * d] = <<m.path[d], "ngspice">>
    <3> SUFFICES ASSUME NEW d \in 1..n
                 PROVE  /\ c[2 * d - 1] = <<m.path[d], "ngspice_con">>
                        /\ c[2 * d] = <<m.path[d], "ngspice">>
      OBVIOUS
    <3> DEFINE odd == 2 * d - 1
               even == 2 * d
    <3>1. /\ odd \in 1..(n * 2) /\ ((odd - 1) \div 2) + 1 = d /\ ((odd - 1) % 2) + 1 = 1
          /\ even \in 1..(n * 2) /\ ((even - 1) \div 2) + 1 = d /\ ((even - 1) % 2) + 1 = 2
      BY <1>1, <2>6
    <3> HIDE DEF odd, even
    <3>2. c[odd] = <<m.path[d], "ngspice_con">> /\ c[even] = <<m.path[d], "ngspice">>
      BY <2>2, <2>3, <3>1
    <3> QED BY <3>2 DEF odd, even
  <2> HIDE DEF c
  <2>9. \A d \in 1..n : \A name \in NamesOf(kind) :
           /\ Position(kind, d, name) \in 1..Len(c)
           /\ c[Position(kind, d, name)] = <<m.path[d], name>>
    BY <2>1, <2>4, <2>5, <2>6, <2>8
  <2>10. \A k \in 1..Len(c) : \E d \in 1..n : \E name \in NamesOf(kind) :
            k = Position(kind, d, name)
    <3> SUFFICES ASSUME NEW k \in 1..Len(c)
                 PROVE  \E d \in 1..n : \E name \in NamesOf(kind) :
                           k = Position(kind, d, name)
      OBVIOUS
    <3>1. PICK d \in 1..n : k = 2 * d - 1 \/ k = 2 * d
      BY <2>5, <2>7
    <3> QED BY <2>1, <2>4, <3>1
  <2>11. Len(c) \in Nat
    BY <1>1, <2>5
  <2> QED BY <1>1, <2>9, <2>10, <2>11, Zenon DEF c, n
<1> QED BY <1>2, <1>3 DEF Kinds

\* Positions are in the order of the directories, and in each the console build is first.
LEMMA PositionsAreOrdered ==
  ASSUME NEW kind \in Kinds, NEW d1 \in Nat, NEW d2 \in Nat,
         NEW name1 \in NamesOf(kind), NEW name2 \in NamesOf(kind),
         Position(kind, d1, name1) <= Position(kind, d2, name2)
  PROVE  d1 < d2 \/ (d1 = d2 /\ (name1 = name2 \/ name1 = "ngspice_con"))
<1>1. CASE kind = "spectre"
  <2>1. name1 = "spectre" /\ name2 = "spectre"
    BY <1>1 DEF NamesOf
  <2>2. Position(kind, d1, name1) = d1 /\ Position(kind, d2, name2) = d2
    BY <1>1 DEF Position
  <2> QED BY <2>1, <2>2
<1>2. CASE kind = "ngspice"
  <2>1. name1 \in {"ngspice_con", "ngspice"} /\ name2 \in {"ngspice_con", "ngspice"}
    BY <1>2 DEF NamesOf
  <2>2. \A d : /\ Position(kind, d, "ngspice_con") = 2 * d - 1
               /\ Position(kind, d, "ngspice") = 2 * d
    BY <1>2 DEF Position
  <2> QED BY <2>1, <2>2
<1> QED BY <1>1, <1>2 DEF Kinds

\* What PATH offers are the candidates that can be executed.
LEMMA OffersAre ==
  ASSUME NEW m \in Machines, NEW kind \in Kinds
  PROVE  \A o : o \in Offers(kind, m) <=>
            \E d \in 1..Len(m.path) : \E name \in NamesOf(kind) :
               o = <<d, name>> /\ IsCandidate(m, <<m.path[d], name>>)
<1>1. DOMAIN m.path = 1..Len(m.path)
  BY MachinesAssumption
<1>2. NamesOf(kind) = {name \in {"spectre", "ngspice_con", "ngspice"} :
                          name = "spectre" <=> kind = "spectre"}
  BY DEF NamesOf, Kinds
<1>3. \A at1, at2 : IsCandidate(m, <<at1, at2>>) <=> at1 # "" /\ IsExecutable(m, <<at1, at2>>)
  BY Zenon DEF IsCandidate
<1> DEFINE empty == ""
           D == DOMAIN m.path
           N == {"spectre", "ngspice_con", "ngspice"}
<1>4. Offers(kind, m) =
         {o \in D \X N : /\ o[2] = "spectre" <=> kind = "spectre"
                         /\ m.path[o[1]] # empty /\ IsExecutable(m, <<m.path[o[1]], o[2]>>)}
  BY DEF Offers
<1>5. \A d \in D : \A name \in NamesOf(kind) :
         <<d, name>> \in Offers(kind, m) <=> IsCandidate(m, <<m.path[d], name>>)
  <2> SUFFICES ASSUME NEW d \in D, NEW name \in NamesOf(kind)
               PROVE  <<d, name>> \in Offers(kind, m) <=> IsCandidate(m, <<m.path[d], name>>)
    OBVIOUS
  <2>1. IsCandidate(m, <<m.path[d], name>>) <=>
           m.path[d] # empty /\ IsExecutable(m, <<m.path[d], name>>)
    BY <1>3
  <2> HIDE DEF empty
  <2> QED BY <1>2, <1>4, <2>1
<1>6. \A o \in Offers(kind, m) : \E d \in D : \E name \in NamesOf(kind) : o = <<d, name>>
  <2> HIDE DEF empty
  <2> QED BY <1>2, <1>4
<1> SUFFICES ASSUME NEW o
             PROVE  o \in Offers(kind, m) <=>
                      \E d \in D : \E name \in NamesOf(kind) :
                         o = <<d, name>> /\ IsCandidate(m, <<m.path[d], name>>)
  BY <1>1
<1> HIDE DEF D
<1>7. ASSUME o \in Offers(kind, m)
      PROVE  \E d \in D : \E name \in NamesOf(kind) :
                o = <<d, name>> /\ IsCandidate(m, <<m.path[d], name>>)
  <2>1. PICK d \in D, name \in NamesOf(kind) : o = <<d, name>>
    BY <1>6, <1>7
  <2> QED BY <1>5, <1>7, <2>1
<1> QED BY <1>5, <1>7

\* The choice, for any variables, PATH and files.
LEMMA ChoiceIsFirstOffer == FindsFirstOffer
<1> SUFFICES ASSUME NEW m \in Machines, NEW kind \in Kinds,
                    ~IsExecutable(m, m.explicit[kind])
             PROVE  LET handle == FindSimulator(kind, m)
                        offers == Offers(kind, m)
                    IN  /\ handle.found <=> offers # {}
                        /\ handle.found =>
                             \E o \in offers :
                                /\ handle = FoundAt(<<m.path[o[1]], o[2]>>, "path")
                                /\ \A other \in offers :
                                     \/ o[1] < other[1]
                                     \/ o[1] = other[1] /\ (o = other \/ o[2] = "ngspice_con")
  <2>1. ASSUME NEW m \in Machines, NEW kind \in Kinds, IsExecutable(m, m.explicit[kind])
        PROVE  FindSimulator(kind, m) = FoundAt(m.explicit[kind], "env")
    BY <2>1, Zenon DEF FindSimulator
  <2> QED BY <2>1, ZenonT(30) DEF FindsFirstOffer
<1> DEFINE c == Candidates(kind, m)
           k == FirstCandidate(kind, m)
           n == Len(m.path)
           handle == FindSimulator(kind, m)
           Pos(d, name) == Position(kind, d, name)
<1>1. /\ n \in Nat /\ Len(c) \in Nat
      /\ \A d \in 1..n : \A name \in NamesOf(kind) :
            Pos(d, name) \in 1..Len(c) /\ c[Pos(d, name)] = <<m.path[d], name>>
      /\ \A i \in 1..Len(c) : \E d \in 1..n : \E name \in NamesOf(kind) : i = Pos(d, name)
  BY CandidatesAre
<1>2. \/ k = 0 /\ \A i \in 1..Len(c) : ~IsCandidate(m, c[i])
      \/ /\ k \in 1..Len(c) /\ IsCandidate(m, c[k])
         /\ \A i \in 1..Len(c) : IsCandidate(m, c[i]) => k <= i
  BY <1>1, FirstCandidateIs
<1>3. \A o : o \in Offers(kind, m) <=>
         \E d \in 1..n : \E name \in NamesOf(kind) :
            o = <<d, name>> /\ IsCandidate(m, <<m.path[d], name>>)
  BY OffersAre
<1>4. /\ k = 0 => handle = NotFound
      /\ k # 0 => handle = FoundAt(c[k], "path")
  BY Zenon DEF FindSimulator
<1>5. ~NotFound.found /\ \A at : FoundAt(at, "path").found
  BY DEF NotFound, FoundAt
<1> HIDE DEF c, k, n, handle, Pos
<1>6. CASE k = 0
  <2>1. Offers(kind, m) = {}
    <3> SUFFICES ASSUME NEW o \in Offers(kind, m) PROVE FALSE
      OBVIOUS
    <3>1. PICK d \in 1..n, name \in NamesOf(kind) :
             o = <<d, name>> /\ IsCandidate(m, <<m.path[d], name>>)
      BY <1>3
    <3>2. Pos(d, name) \in 1..Len(c) /\ IsCandidate(m, c[Pos(d, name)])
      BY <1>1, <3>1
    <3> QED BY <1>2, <1>6, <3>2
  <2>2. ~handle.found
    BY <1>4, <1>5, <1>6
  <2> QED BY <2>1, <2>2 DEF handle
<1>7. CASE k # 0
  <2>1. /\ k \in 1..Len(c) /\ IsCandidate(m, c[k])
        /\ \A i \in 1..Len(c) : IsCandidate(m, c[i]) => k <= i
    BY <1>2, <1>7
  <2>2. PICK d \in 1..n, name \in NamesOf(kind) : k = Pos(d, name)
    BY <1>1, <2>1
  <2>3. c[k] = <<m.path[d], name>>
    BY <1>1, <2>2
  <2> DEFINE o == <<d, name>>
  <2>4. o \in Offers(kind, m) /\ o[1] = d /\ o[2] = name
    BY <1>3, <2>1, <2>3
  <2>5. handle.found /\ handle = FoundAt(<<m.path[o[1]], o[2]>>, "path")
    BY <1>4, <1>5, <1>7, <2>3, <2>4
  <2>6. ASSUME NEW other \in Offers(kind, m)
        PROVE  \/ o[1] < other[1]
               \/ o[1] = other[1] /\ (o = other \/ o[2] = "ngspice_con")
    <3>1. PICK d2 \in 1..n, name2 \in NamesOf(kind) :
             other = <<d2, name2>> /\ IsCandidate(m, <<m.path[d2], name2>>)
      BY <1>3, <2>6
    <3>2. k <= Pos(d2, name2)
      BY <1>1, <2>1, <3>1
    <3>3. d < d2 \/ (d = d2 /\ (name = name2 \/ name = "ngspice_con"))
      BY <1>1, <2>2, <3>1, <3>2, PositionsAreOrdered DEF Pos
    <3> QED BY <2>4, <3>1, <3>3
  <2> HIDE DEF o
  <2> QED BY <2>4, <2>5, <2>6 DEF handle
<1> QED BY <1>6, <1>7

\* find_simulator finds a simulator exactly if one is offered, and the right one: the one
\* the variable names, else the first of PATH.
THEOREM ProbeFindsFirst == Spec => []ProbeFindsFirstOffer
<1>1. ProbeFindsFirstOffer
  BY ChoiceIsFirstOffer DEF ProbeFindsFirstOffer
<1> QED BY <1>1, PTL
==============================================================================
