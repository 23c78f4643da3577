------------------------------- MODULE Workflow -------------------------------
(***************************************************************************)
(* The user's Simulation (src/workflow/simulation.cpp) and the Evaluator   *)
(* it makes on demand (src/core/evaluator.cpp), in processes of one        *)
(* machine that share a file system.  A Simulation owns a workspace        *)
(* directory, named after the process and a counter of it or by the        *)
(* caller; a batch is checked and completed, then given to the evaluator's *)
(* pool, which is its BatchService.                                        *)
(*                                                                         *)
(* One thread at a time uses a Simulation, as its data members require;    *)
(* several threads of a process construct and use Simulations of their     *)
(* own.  A process may be killed at any time: its simulators may outlive   *)
(* it and write once more, and its process id, and with the id the names   *)
(* of its workspaces, may come back.                                       *)
(*                                                                         *)
(* The directories of a workspace's workers are merged: a job directory is *)
(* known by workspace and index, and holds what the last simulator to      *)
(* write there simulated.  It is not emptied for the next batch, nor when  *)
(* a process id comes back, so what is there may be taken for the output   *)
(* of a run that wrote none.                                               *)
(*                                                                         *)
(* Which executable the sessions start is the choice of SimulatorProbe.    *)
(***************************************************************************)
EXTENDS Integers, Sequences, FiniteSets, SimulatorProbe

CONSTANTS
    Hosts,        \* process ids
    Sims,         \* Simulation objects, each constructed at most once
    NoHost,       \* the process of a Simulation that is not there
    UserRoots,    \* workspace names chosen by callers
    OptionSets,   \* the options the caller may pass to the constructor of each
    Params,       \* names of parameters
    DefaultValue, \* the default of a parameter declared with one
    NotFinite,    \* an infinity or NaN
    Batches,      \* what callers may pass to run(): sequences of cases
    MaxJobs,      \* bound on the length of a batch
    MaxBatches,   \* bound on the batches accepted by all Simulations together
    MaxStarts,    \* bound on the processes started
    MaxCount      \* bound on the workspaces a process names

ASSUME NoneAssumption == NoHost \notin Hosts
ASSUME BoundsAssumption ==
    MaxJobs \in Nat \ {0} /\ MaxBatches \in Nat /\ MaxStarts \in Nat /\ MaxCount \in Nat
ASSUME NotFiniteAssumption == DefaultValue # NotFinite
ASSUME BatchesAssumption ==
    \A b \in Batches :
        /\ DOMAIN b = 1..Len(b) /\ Len(b) \in 0..MaxJobs
        /\ b # <<>> => Len(b) > 0
\* A caller who chooses a name does not choose one of the form that is generated.
ASSUME NamesAssumption ==
    /\ \A name \in UserRoots : name \notin Hosts \X (0..(MaxCount - 1))
    /\ \A s \in Sims : \A o \in OptionSets[s] : o.name \in UserRoots \cup {""}

VARIABLES
    alive,     \* process ids in use
    starts,    \* how many processes have been started
    boots,     \* how many of them had each id
    counter,   \* the counter of generate_workspace_namespace in each process
    host,      \* the process each Simulation is in
    phase,     \* where each Simulation stands
    root,      \* workspace_root_
    simulator, \* options_.simulator
    declared,  \* parameters_
    given,     \* the cases of the last accepted batch
    sent,      \* the states made of them
    batches,   \* how many batches have been accepted, by all Simulations together
    number,    \* the number of the last batch accepted by each
    result,    \* the status of each of its jobs that has ended
    missed,    \* its successful jobs whose artifacts did not get into their directory
    open,      \* evaluator_ is there, its pool started
    size,      \* jobs in the evaluator's pool, as its BatchService has them
    slot,
    disk,      \* what is in each job directory
    orphans    \* simulators that run on after their process was killed

processes == <<alive, starts, boots, counter>>
setup == <<host, root, simulator, declared>>
batch == <<given, sent, batches, number, result, missed>>
pool == <<open, size, slot>>
files == <<disk, orphans>>
vars == <<processes, setup, phase, batch, pool, files>>

-------------------------------------------------------------------------------
Indices == 0..(MaxJobs - 1)

\* generate_workspace_namespace, and the names callers chose themselves.
Generated == Hosts \X (0..(MaxCount - 1))
Roots == Generated \cup UserRoots
NoRoot == <<>>
NoSimulator == ""

\* What a simulator leaves in a job directory: for which batch it ran, which state it
\* simulated, and whether it wrote after its process was gone.
NoFile == [batch |-> 0, state |-> <<>>, late |-> FALSE]

Undeclared == [p \in Params |-> "no"]
NoResult == [i \in Indices |-> "none"]
NoSlots == [i \in Indices |-> "none"]

Init ==
    /\ alive = {} /\ starts = 0 /\ boots = [h \in Hosts |-> 0] /\ counter = [h \in Hosts |-> 0]
    /\ host = [s \in Sims |-> NoHost] /\ root = [s \in Sims |-> NoRoot]
    /\ simulator = [s \in Sims |-> NoSimulator] /\ declared = [s \in Sims |-> Undeclared]
    /\ phase = [s \in Sims |-> "none"]
    /\ given = [s \in Sims |-> <<>>] /\ sent = [s \in Sims |-> <<>>]
    /\ batches = 0 /\ number = [s \in Sims |-> 0] /\ result = [s \in Sims |-> NoResult]
    /\ missed = [s \in Sims |-> {}]
    /\ open = [s \in Sims |-> FALSE] /\ size = [s \in Sims |-> 0]
    /\ slot = [s \in Sims |-> NoSlots]
    /\ disk = [r \in Roots |-> [i \in Indices |-> NoFile]] /\ orphans = {}

-------------------------------------------------------------------------------
(* Processes.                                                              *)

\* A new process; its static counter starts at 0.
HostStarts(h) ==
    /\ h \notin alive /\ starts < MaxStarts
    /\ alive' = alive \cup {h}
    /\ starts' = starts + 1
    /\ boots' = [boots EXCEPT ![h] = @ + 1]
    /\ counter' = [counter EXCEPT ![h] = 0]
    /\ UNCHANGED <<setup, phase, batch, pool, files>>

Of(h) == {s \in Sims : host[s] = h}

\* Jobs a simulator is at work on.
Running(h) == {j \in Of(h) \X Indices : slot[j[1]][j[2]] = "taken"}

Orphan(j) ==
    [root |-> root[j[1]], index |-> j[2],
     file |-> [batch |-> number[j[1]], state |-> sent[j[1]][j[2] + 1], late |-> TRUE]]

\* The process is killed: no destructor runs, its objects are gone, its simulators stay.
Crash(h) ==
    /\ h \in alive
    /\ alive' = alive \ {h}
    /\ orphans' = orphans \cup {Orphan(j) : j \in Running(h)}
    /\ LET Lost(f, none) == [s \in Sims |-> IF host[s] = h THEN none ELSE f[s]]
       IN  /\ host' = Lost(host, NoHost) /\ root' = Lost(root, NoRoot)
           /\ simulator' = Lost(simulator, NoSimulator) /\ declared' = Lost(declared, Undeclared)
           /\ phase' = Lost(phase, "gone")
           /\ given' = Lost(given, <<>>) /\ sent' = Lost(sent, <<>>)
           /\ number' = Lost(number, 0)
           /\ result' = Lost(result, NoResult) /\ missed' = Lost(missed, {})
           /\ open' = Lost(open, FALSE) /\ size' = Lost(size, 0)
           /\ slot' = Lost(slot, NoSlots)
    /\ UNCHANGED <<starts, boots, counter, batches, disk>>

\* A simulator without a process writes its artifacts after all; one that does not
\* makes no difference to anyone.
OrphanWrites(o) ==
    /\ disk' = [disk EXCEPT ![o.root][o.index] = o.file]
    /\ orphans' = orphans \ {o}
    /\ UNCHANGED <<processes, setup, phase, batch, pool>>

-------------------------------------------------------------------------------
(* Constructing a Simulation and declaring parameters.  What a caller is   *)
(* refused changes nothing but what it is told.                            *)

\* validate_options, and what the Python binding parses before it.
ValidOptions(o) ==
    /\ o.simulator \in {"spectre", "ngspice"}
    /\ o.netlist # "" /\ o.base # ""
    /\ o.workers > 0 /\ o.timeout > 0 /\ o.restarts >= 0

NothingHappens == UNCHANGED vars

\* Mutant: the name is made of a counter that is not incremented.
Construct_SameName(s, h, o) ==
    /\ phase[s] = "none" /\ h \in alive /\ ValidOptions(o)
    /\ root' = [root EXCEPT ![s] = IF o.name = "" THEN <<h, counter[h]>> ELSE o.name]
    /\ counter[h] < MaxCount
    /\ host' = [host EXCEPT ![s] = h] /\ simulator' = [simulator EXCEPT ![s] = o.simulator]
    /\ phase' = [phase EXCEPT ![s] = "ready"]
    /\ UNCHANGED <<processes, declared, batch, pool, files>>

\* One fetch_add for each name that is generated, by whichever thread.
Construct(s, h, o) ==
    /\ phase[s] = "none" /\ h \in alive /\ ValidOptions(o)
    /\ IF o.name = ""
       THEN /\ counter[h] < MaxCount
            /\ root' = [root EXCEPT ![s] = <<h, counter[h]>>]
            /\ counter' = [counter EXCEPT ![h] = @ + 1]
       ELSE /\ root' = [root EXCEPT ![s] = o.name]
            /\ UNCHANGED counter
    /\ host' = [host EXCEPT ![s] = h] /\ simulator' = [simulator EXCEPT ![s] = o.simulator]
    /\ phase' = [phase EXCEPT ![s] = "ready"]
    /\ UNCHANGED <<alive, starts, boots, declared, batch, pool, files>>

ConstructRefused(s, h, o) ==
    /\ phase[s] = "none" /\ h \in alive /\ ~ValidOptions(o)
    /\ NothingHappens

\* Without a default the parameter is required.
AddParameter(s, p, kind) ==
    /\ phase[s] = "ready" /\ declared[s][p] = "no"
    /\ declared' = [declared EXCEPT ![s][p] = kind]
    /\ UNCHANGED <<processes, host, root, simulator, phase, batch, pool, files>>

\* A name that is there; an empty name and a default that is not finite are refused alike.
AddParameterAgain(s, p) ==
    /\ phase[s] = "ready" /\ declared[s][p] # "no"
    /\ NothingHappens

-------------------------------------------------------------------------------
(* A batch.                                                                *)

\* Mutant: numbers are taken as they are.
ValidCase_AnyNumber(s, case) ==
    /\ \A p \in DOMAIN case : p \in Params /\ declared[s][p] # "no"
    /\ \A p \in Params : declared[s][p] = "required" => p \in DOMAIN case

\* normalize_cases, first what it throws on ...
ValidCase(s, case) ==
    /\ \A p \in DOMAIN case :
          p \in Params /\ declared[s][p] # "no" /\ case[p] # NotFinite
    /\ \A p \in Params : declared[s][p] = "required" => p \in DOMAIN case

\* Mutant: the first case is taken for the batch.
ValidBatch_First(s, b) == b # <<>> => ValidCase(s, b[1])

ValidBatch(s, b) == \A i \in 1..Len(b) : ValidCase(s, b[i])

\* Mutant: the default wins over what the case gives.
Completed_DefaultWins(s, case) ==
    [p \in {q \in Params : declared[s][q] # "no"} |->
        IF declared[s][p] = "default" THEN DefaultValue ELSE case[p]]

\* Mutant: defaults are left to the netlist.
Completed_GivenOnly(s, case) == case

\* ... then the state it makes of a case.
Completed(s, case) ==
    [p \in {q \in Params : declared[s][q] # "no"} |->
        IF p \in DOMAIN case THEN case[p] ELSE DefaultValue]

\* run() with no cases starts nothing.
RunNothing(s, b) ==
    /\ phase[s] = "ready" /\ b = <<>>
    /\ UNCHANGED <<processes, setup, phase, batch, pool, files>>

RunRefused(s, b) ==
    /\ phase[s] = "ready" /\ ~ValidBatch(s, b)
    /\ NothingHappens

\* The whole batch is checked before there is an evaluator.
RunBegins(s, b) ==
    /\ phase[s] = "ready" /\ batches < MaxBatches
    /\ b # <<>> /\ ValidBatch(s, b)
    /\ given' = [given EXCEPT ![s] = b]
    /\ sent' = [sent EXCEPT ![s] = [i \in 1..Len(b) |-> Completed(s, b[i])]]
    /\ batches' = batches + 1 /\ number' = [number EXCEPT ![s] = batches + 1]
    /\ result' = [result EXCEPT ![s] = NoResult] /\ missed' = [missed EXCEPT ![s] = {}]
    /\ phase' = [phase EXCEPT ![s] = "running"]
    /\ UNCHANGED <<processes, setup, pool, files>>

\* The first batch, and the first after cleanup(), makes an evaluator and starts its
\* sessions.
MakeEvaluator(s) ==
    /\ phase[s] = "running" /\ ~open[s]
    /\ open' = [open EXCEPT ![s] = TRUE]
    /\ UNCHANGED <<processes, setup, phase, batch, size, slot, files>>

\* A session does not start, or there is no simulator: the exception leaves run() and
\* no evaluator stays.
MakeEvaluatorFails(s) ==
    /\ phase[s] = "running" /\ ~open[s]
    /\ phase' = [phase EXCEPT ![s] = "ready"]
    /\ UNCHANGED <<processes, setup, batch, pool, files>>

Submit(s) ==
    /\ phase[s] = "running" /\ open[s] /\ size[s] = 0
    /\ size' = [size EXCEPT ![s] = Len(sent[s])]
    /\ slot' = [slot EXCEPT ![s] =
          [i \in Indices |-> IF i < Len(sent[s]) THEN "waiting" ELSE "none"]]
    /\ UNCHANGED <<processes, setup, phase, batch, open, files>>

Job(s, i, from, to) ==
    /\ slot[s][i] = from
    /\ slot' = [slot EXCEPT ![s][i] = to]
    /\ UNCHANGED <<processes, setup, phase, given, sent, batches, number, open, size,
                   orphans>>

JobStarts(s, i) == Job(s, i, "waiting", "taken") /\ UNCHANGED <<result, missed, disk>>

Written(s, i) == [batch |-> number[s], state |-> sent[s][i + 1], late |-> FALSE]

\* Spectre's session writes into a directory of its worker, of which the job's gets a copy.
Copies(s) == simulator[s] = "spectre"

\* What the workers of a Simulation may have in their directories.
Around(s) ==
    {Written(s, k) : k \in 0..(Len(sent[s]) - 1)} \cup {disk[root[s]][k] : k \in Indices}

Ends(s, i, status) ==
    /\ Job(s, i, "taken", "ran")
    /\ result' = [result EXCEPT ![s][i] = status]

JobSucceeds(s, i) ==
    /\ Ends(s, i, "success")
    /\ disk' = [disk EXCEPT ![root[s]][i] = Written(s, i)]
    /\ UNCHANGED missed

\* A success without artifacts of its own: the snapshot failed, or Ngspice wrote none and
\* what was there is read as its output.
JobMisses(s, i) ==
    /\ Copies(s) \/ disk[root[s]][i] # NoFile
    /\ Ends(s, i, "success")
    /\ missed' = [missed EXCEPT ![s] = @ \cup {i}]
    /\ UNCHANGED disk

\* A failure may have written artifacts, and what is copied may be another job's.
JobFails(s, i) ==
    /\ Ends(s, i, "failed")
    /\ \/ UNCHANGED disk
       \/ \E f \in IF Copies(s) THEN Around(s) ELSE {Written(s, i)} :
             disk' = [disk EXCEPT ![root[s]][i] = f]
    /\ UNCHANGED missed

\* The job gets no worker.
JobRefused(s, i) ==
    /\ Job(s, i, "waiting", "refused")
    /\ result' = [result EXCEPT ![s][i] = "failed"]
    /\ UNCHANGED <<missed, disk>>

\* Mutant: only jobs that ran count towards the end of the batch.
RunReturns_WaitsForRefused(s) ==
    /\ size[s] > 0 /\ \A i \in 0..(size[s] - 1) : slot[s][i] = "ran"
    /\ size' = [size EXCEPT ![s] = 0]
    /\ slot' = [slot EXCEPT ![s] = NoSlots]
    /\ phase' = [phase EXCEPT ![s] = "ready"]
    /\ UNCHANGED <<processes, setup, batch, open, files>>

RunReturns(s) ==
    /\ size[s] > 0 /\ \A i \in 0..(size[s] - 1) : slot[s][i] \in {"ran", "refused"}
    /\ size' = [size EXCEPT ![s] = 0]
    /\ slot' = [slot EXCEPT ![s] = NoSlots]
    /\ phase' = [phase EXCEPT ![s] = "ready"]
    /\ UNCHANGED <<processes, setup, batch, open, files>>

\* Mutant: cleanup() may come while a batch runs.
Cleanup_Anytime(s) ==
    /\ phase[s] \in {"ready", "running"} /\ open[s]
    /\ open' = [open EXCEPT ![s] = FALSE]
    /\ slot' = [slot EXCEPT ![s] = NoSlots]
    /\ UNCHANGED <<processes, setup, phase, batch, size, files>>

\* cleanup(), also at the end of a with statement: the sessions are stopped and the
\* evaluator is gone; the name of the workspace stays.
Cleanup(s) ==
    /\ phase[s] = "ready" /\ open[s]
    /\ open' = [open EXCEPT ![s] = FALSE]
    /\ UNCHANGED <<processes, setup, phase, batch, size, slot, files>>

\* The destructors do what cleanup() does.  Results already returned stay.
Destroy(s) ==
    /\ phase[s] = "ready"
    /\ phase' = [phase EXCEPT ![s] = "gone"]
    /\ open' = [open EXCEPT ![s] = FALSE]
    /\ UNCHANGED <<processes, setup, batch, size, slot, files>>

-------------------------------------------------------------------------------
RunStep(s) ==
    /\ phase[s] = "running"
    /\ \/ MakeEvaluator(s) \/ MakeEvaluatorFails(s) \/ Submit(s) \/ RunReturns(s)
       \/ \E i \in Indices :
             \/ JobStarts(s, i) \/ JobSucceeds(s, i) \/ JobMisses(s, i)
             \/ JobFails(s, i) \/ JobRefused(s, i)

Call(s) ==
    \/ \E h \in Hosts, o \in OptionSets[s] : Construct(s, h, o) \/ ConstructRefused(s, h, o)
    \/ \E p \in Params :
          \/ \E kind \in {"required", "default"} : AddParameter(s, p, kind)
          \/ AddParameterAgain(s, p)
    \/ \E b \in Batches : RunNothing(s, b) \/ RunRefused(s, b) \/ RunBegins(s, b)
    \/ Cleanup(s) \/ Destroy(s)

Next ==
    \/ \E h \in Hosts : HostStarts(h) \/ Crash(h)
    \/ \E o \in orphans : OrphanWrites(o)
    \/ \E s \in Sims : Call(s) \/ RunStep(s)

Spec == Init /\ [][Next]_vars

(***************************************************************************)
(* Fairness: a call of run() goes on while its process lives.  Starting    *)
(* the sessions ends one way or the other, given that Ngspice's version    *)
(* query does, and a job that was taken up ends (SimulatorPool's           *)
(* BatchEventuallyReturns, and below it the EveryCallReturns of the        *)
(* sessions).                                                              *)
(***************************************************************************)
FairSpec == Spec /\ \A s \in Sims : WF_vars(RunStep(s))

-------------------------------------------------------------------------------
(* Properties.                                                             *)

SlotStates == {"none", "waiting", "taken", "ran", "refused"}
Values == {DefaultValue} \cup
    UNION {UNION {{b[i][p] : p \in DOMAIN b[i]} : i \in DOMAIN b} : b \in Batches}
States == UNION {[D -> Values \ {NotFinite}] : D \in SUBSET Params}
Files == [batch : 0..MaxBatches, state : States, late : BOOLEAN]
Orphans == [root : Roots, index : Indices, file : Files]

\* Every variable keeps to its domain; what is simulated, and written, is a state of
\* finite values of parameters.
TypeOK ==
    /\ alive \subseteq Hosts
    /\ starts \in 0..MaxStarts /\ boots \in [Hosts -> 0..MaxStarts]
    /\ counter \in [Hosts -> 0..MaxCount]
    /\ host \in [Sims -> Hosts \cup {NoHost}]
    /\ root \in [Sims -> Roots \cup {NoRoot}]
    /\ simulator \in [Sims -> {NoSimulator, "spectre", "ngspice"}]
    /\ declared \in [Sims -> [Params -> {"no", "required", "default"}]]
    /\ phase \in [Sims -> {"none", "ready", "running", "gone"}]
    /\ \A s \in Sims :
          /\ given[s] \in Batches \cup {<<>>}
          /\ Len(sent[s]) = Len(given[s])
          /\ \A i \in 1..Len(sent[s]) : sent[s][i] \in States
    /\ batches \in 0..MaxBatches /\ number \in [Sims -> 0..MaxBatches]
    /\ result \in [Sims -> [Indices -> {"none", "success", "failed"}]]
    /\ missed \in [Sims -> SUBSET Indices]
    /\ open \in [Sims -> BOOLEAN] /\ size \in [Sims -> 0..MaxJobs]
    /\ slot \in [Sims -> [Indices -> SlotStates]]
    /\ disk \in [Roots -> [Indices -> Files]]
    /\ orphans \subseteq Orphans

Constructed(s) == host[s] # NoHost

\* No Simulation shares a workspace whose name was generated, neither with another process
\* nor with one of its own process, also after one of them is destroyed.
GeneratedRootsDistinct ==
    \A s, t \in Sims :
        Constructed(s) /\ Constructed(t) /\ root[s] \in Generated /\ root[s] = root[t] => s = t

\* A case's own values, and the default for what it leaves out.
IsOfCase(state, case) ==
    /\ DOMAIN case \subseteq DOMAIN state
    /\ \A p \in DOMAIN state : state[p] = IF p \in DOMAIN case THEN case[p] ELSE DefaultValue

\* The directory that a successful result of the last batch names holds the artifacts of
\* its own case, whatever other Simulations and processes did meanwhile and also after
\* cleanup() and destruction; or, where the process id was used before, of a simulator
\* that outlived the earlier process; or, if the job's own did not get there, what an
\* earlier batch left.  It never holds those of another case of the batch.
ResultsAreOfTheirCases ==
    \A s \in Sims, i \in Indices :
        result[s][i] = "success" /\ root[s] \in Generated =>
            LET file == disk[root[s]][i]
            IN  \/ file.late /\ boots[host[s]] > 1
                \/ /\ ~file.late /\ file.batch = number[s]
                   /\ IsOfCase(file.state, given[s][i + 1])
                \/ ~file.late /\ i \in missed[s] /\ file.batch < number[s]

\* A batch with an invalid case starts nothing: sessions are there only after a valid
\* batch, and every case of a batch under way is finite and complete.
InvalidBatchStartsNothing ==
    \A s \in Sims :
        /\ open[s] => number[s] > 0
        /\ size[s] > 0 => \A i \in 1..Len(given[s]) :
              /\ \A p \in DOMAIN given[s][i] : given[s][i][p] # NotFinite
              /\ \A p \in Params :
                    declared[s][p] = "required" => p \in DOMAIN given[s][i]

\* Wherever the processes are started, find_simulator chooses the first of what the
\* variable and PATH offer.  The search keeps no state, so one look at it is enough.
ProbeFindsFirstOffer == Init => FindsFirstOffer

\* A Simulation uses its evaluator as a BatchService: it submits only to one that is
\* there, one batch at a time, and takes it down only between batches.  Only the end of
\* the process, which takes all of it away, does not keep to it.
Service(s) == INSTANCE BatchService WITH open <- open[s], size <- size[s], slot <- slot[s]

UsesBatchService ==
    [][\A s \in Sims : host[s] \in alive' =>
          /\ Service(s)!SNext \/ UNCHANGED <<open[s], size[s], slot[s]>>
          /\ open[s] /\ ~open'[s] => size[s] = 0]_vars

\* A session keeps what earlier jobs set, and a run command sets no more than its state
\* has: so every state sets all that the states of its batch and of the batch before set,
\* and no value of one case shows through in another.
NoEarlierValueShows ==
    [][\A s \in Sims : sent'[s] # sent[s] =>
          \A i \in 1..Len(sent'[s]) :
             /\ \A j \in 1..Len(sent[s]) : DOMAIN sent[s][j] \subseteq DOMAIN sent'[s][i]
             /\ \A j \in 1..Len(sent'[s]) : DOMAIN sent'[s][j] \subseteq DOMAIN sent'[s][i]]_vars

\* Every call of run() returns, unless its process is killed: also if the sessions do not
\* start and after a cleanup().
EveryRunReturns == \A s \in Sims : []<>(phase[s] # "running")
===============================================================================
