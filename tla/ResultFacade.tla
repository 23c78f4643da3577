----------------------------- MODULE ResultFacade -----------------------------
(***************************************************************************)
(* What a user gets of a job: SimulationResult (src/workflow/simulation    *)
(* .cpp) and its Python form (bindings/python/spiceunion_py.cpp).  The     *)
(* result files can be read on demand, signal by signal, and the values    *)
(* extracted when the job ended can be looked up by name.                  *)
(*                                                                         *)
(* The values are kept in memory, the files are not kept: a later batch of *)
(* the Simulation numbers its jobs from 0 again and writes into the same   *)
(* directories (SimulatorPool, HeldArtifactsIntact).                       *)
(***************************************************************************)
EXTENDS MetricsExtraction

CONSTANT Later  \* what the jobs of later batches may leave in the work directory

VARIABLE disk   \* the work directory as a user finds it

facadeVars == <<input, next, status, values, disk>>

FacadeInit == Init /\ disk = input.work

Extract == Next /\ UNCHANGED disk

\* The worker is leased until the values are extracted.
Overwrite ==
    /\ next > Len(input.requests)
    /\ disk' \in Later
    /\ UNCHANGED vars

FacadeNext == Extract \/ Overwrite

FacadeSpec == FacadeInit /\ [][FacadeNext]_facadeVars

-------------------------------------------------------------------------------
(* Reading on demand.  The directory and the format are those of the job,  *)
(* and the directory is looked for again each time; a job that failed has  *)
(* no results to read.                                                     *)

DiskDir == ResultDirectory(disk)

\* Mutant: an empty name stands for Ngspice's file, Spectre's name for itself.
ChooseFilename_Literal(requested, spectre, ngspice) ==
    IF requested = "" THEN ngspice ELSE requested

\* The default of the Python methods is Spectre's name whatever the simulator.
ChooseFilename(requested, spectre, ngspice) ==
    IF requested \in {"", spectre} THEN ngspice ELSE requested

\* A wrdata file is taken from the work directory itself.
WrdataFileOf(requested, spectre, ngspice) ==
    FileAt(disk.files, ChooseFilename(requested, spectre, ngspice))

ReadDc(signal) ==
    CASE ~input.succeeded -> Failure("invalid_input")
      [] input.succeeded /\ IsWrdata -> Failure("unsupported_format")
      [] OTHER -> ReadDcValue(DiskDir, signal, input.format)

ReadSweep(sweep, signal, filename) ==
    CASE ~input.succeeded -> Failure("invalid_input")
      [] input.succeeded /\ IsWrdata ->
           Wrdata(WrdataFileOf(filename, "dc.dc", "resistor_divider_dc.out"), 2)
      [] OTHER -> ReadDcSweep(DiskDir, sweep, signal, filename, input.format)

ReadAc(signal, filename) ==
    CASE ~input.succeeded -> Failure("invalid_input")
      [] input.succeeded /\ IsWrdata ->
           Wrdata(WrdataFileOf(filename, "ac.ac", "rc_ac.out"), 3)
      [] OTHER -> ReadAcResponse(DiskDir, signal, filename, input.format)

ReadTran(signal, filename) ==
    CASE ~input.succeeded -> Failure("invalid_input")
      [] input.succeeded /\ IsWrdata ->
           Wrdata(WrdataFileOf(filename, "tran.tran", "rc_tran.out"), 2)
      [] OTHER -> ReadTranWaveform(DiskDir, signal, filename, input.format)

-------------------------------------------------------------------------------
(* Looking up by name.                                                     *)

None == [none |-> TRUE]
Number(n) == [number |-> n]

\* The values of a sweep are named after its signal, the derived ones after themselves.
NameOf(v) ==
    IF v.name \in {"_first", "_last", "_points"}
    THEN <<input.requests[v.of].signal, v.name>> ELSE <<v.name>>

FirstOf(name) == SelectInSeq(values, LAMBDA v : NameOf(v) = name)
LastOkOf(name) == SelectLastInSeq(values, LAMBDA v : v.status = "ok" /\ NameOf(v) = name)

\* metric(name) of Python: the number of the first value of the name, ok or not; that of
\* a failed one was never set and is 0.0.
Metric(name) ==
    LET k == FirstOf(name)
    IN  CASE k = 0 -> None
          [] k # 0 /\ values[k].status = "ok" -> Number(values[k].value)
          [] OTHER -> Number(0)

\* metrics() of Python: a dictionary of the values that are ok, the last of each name.
Metrics ==
    [name \in {NameOf(values[k]) : k \in {j \in 1..Len(values) : values[j].status = "ok"}} |->
        Number(values[LastOkOf(name)].value)]

-------------------------------------------------------------------------------
(* Properties.                                                             *)

\* The filename a user reads with instead: the default of the method.
Or(filename, default) == IF filename = "" THEN default ELSE filename

\* Derived by the user from what was read on demand.
DerivedAc(r) ==
    LET read == ReadAc(r.signal, Or(r.filename, "ac.ac"))
        view == DeriveAcView(read.value)
    IN  IF read.status = "ok" /\ view.status = "ok" THEN UgbwAndPhaseMargin(view.value)
        ELSE Failure("invalid_input")

DerivedTran(r) ==
    LET read == ReadTran(r.signal, Or(r.filename, "tran.tran"))
        w == read.value
    IN  CASE read.status # "ok" -> read
          [] read.status = "ok" /\ r.target = 0 -> SettlingTime(w, w.y[Len(w.y)])
          [] OTHER -> SettlingTime(w, r.target)

SweepOnDemand(r) == ReadSweep(r.sweep, r.signal, Or(r.filename, "dc.dc"))

\* What a value should be, by reading on demand.
OnDemand(v) ==
    LET r == input.requests[v.of]
        x == SweepOnDemand(r).value.x
    IN  CASE r.kind = "dc" -> ReadDc(r.signal).value
          [] r.kind = "dc_sweep" /\ v.name = "_first" -> x[1]
          [] r.kind = "dc_sweep" /\ v.name = "_last" -> x[Len(x)]
          [] r.kind = "dc_sweep" /\ v.name = "_points" -> Len(x)
          [] r.kind = "ac" /\ v.name = "ugbw_hz" -> DerivedAc(r).value.ugbw
          [] r.kind = "ac" /\ v.name = "phase_margin_deg" -> DerivedAc(r).value.margin
          [] OTHER -> DerivedTran(r).value

ReadableOnDemand(v) ==
    LET r == input.requests[v.of]
    IN  CASE r.kind = "dc" -> ReadDc(r.signal).status = "ok"
          [] r.kind = "dc_sweep" -> SweepOnDemand(r).status = "ok"
          [] r.kind = "ac" -> DerivedAc(r).status = "ok"
          [] OTHER -> DerivedTran(r).status = "ok"

SpellsOutDefault ==
    /\ IsWrdata
    /\ \E k \in 1..Len(input.requests) :
          LET r == input.requests[k]
          IN  r.kind # "dc" /\ r.filename = SpectreDefault[r.kind]

ValuesOf(name) == {k \in 1..Len(values) : NameOf(values[k]) = name}

\* The file a request was answered from is as the worker left it.
Untouched(r) ==
    LET then == IF IsWrdata THEN input.work.files ELSE ResultDir
        now == IF IsWrdata THEN disk.files ELSE DiskDir
        name == IF r.kind = "dc" THEN "dcOp.dc" ELSE Filename(input, r)
    IN  /\ FileAt(now, name) = FileAt(then, name)
        /\ r.kind = "tran" => (IsPsfxl(now, name) <=> IsPsfxl(then, name))

\* The two ways to a number agree as long as its file is as the worker left it, whatever
\* later batches did to the others: what was extracted can be read on demand with the
\* method's default file name, or the request's own, and the same number comes out.  The
\* one exception is a request that spells out Spectre's default name although the files
\* are wrdata.  Later batches or not, metrics() shows the number of an extracted value of
\* the name, and metric() too where all of a name are ok.
ExtractedIsReadOnDemand ==
    /\ (input.succeeded /\ ~SpellsOutDefault) =>
          \A k \in 1..Len(values) :
             (values[k].status = "ok" /\ Untouched(input.requests[values[k].of])) =>
                ReadableOnDemand(values[k]) /\ OnDemand(values[k]) = values[k].value
    /\ \A name \in DOMAIN Metrics :
          \E k \in ValuesOf(name) :
             values[k].status = "ok" /\ Metrics[name] = Number(values[k].value)
    /\ \A name \in {NameOf(values[k]) : k \in 1..Len(values)} :
          (\A k \in ValuesOf(name) : values[k].status = "ok") =>
             \E k \in ValuesOf(name) : Metric(name) = Number(values[k].value)
===============================================================================
