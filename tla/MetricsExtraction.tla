--------------------------- MODULE MetricsExtraction ---------------------------
(***************************************************************************)
(* extract_metrics (src/core/metrics.cpp): the requests of a job are read  *)
(* from its directory one after the other, each adds the values it asks    *)
(* for or a failed one, and the status of the whole is that of the first   *)
(* value that failed.  The files are not written meanwhile: the worker is  *)
(* still leased (SimulatorPool's LeaseExclusive).                          *)
(***************************************************************************)
EXTENDS Integers, Sequences, FiniteSets, SequencesExt, ResultReaders

CONSTANT Inputs  \* extractions: whether the job succeeded (metrics are extracted either
                 \* way), its work directory, the declared format, the requests, and, as
                 \* a ghost, what the simulator wrote of each signal

-------------------------------------------------------------------------------
(* Files.                                                                  *)

SpectreDefault == [dc_sweep |-> "dc.dc", ac |-> "ac.ac", tran |-> "tran.tran"]
NgspiceDefault ==
    [dc_sweep |-> "resistor_divider_dc.out", ac |-> "rc_ac.out", tran |-> "rc_tran.out"]

\* The file extraction e reads for a request: its own, or the default of its kind.
Filename(e, r) ==
    CASE r.filename # "" -> r.filename
      [] r.filename = "" /\ e.format = "wrdata" -> NgspiceDefault[r.kind]
      [] OTHER -> SpectreDefault[r.kind]

ResultFile(e, r) == FileAt(ResultDirectory(e.work), Filename(e, r))

-------------------------------------------------------------------------------
(* What is assumed of the inputs, and of the ghost that says what the      *)
(* simulator wrote.  (Files may be cut short; what is known of a signal    *)
(* that a request does not name, or of a file that holds no such signal,   *)
(* is not constrained.)                                                    *)

Requests ==
    [kind : {"dc", "dc_sweep", "ac", "tran"}, signal : STRING, sweep : STRING,
     filename : STRING, derived : Seq({"ugbw", "phase_margin", "settling_time"}),
     target : Int \cup {NotFinite}]

\* w has every sample of which both values are among xs and ys; the value of the axis is
\* written first, so that the axis may be one ahead.
WholeSamples(w, xs, ys) ==
    w.y = ys /\ (xs = w.x \/ (xs # <<>> /\ xs = Append(w.x, xs[Len(xs)])))

\* w has the rows before the first that does not parse.
WholeRows(w, rows, columns) ==
    LET n == Len(w.x)
    IN  /\ \A i \in 1..n : rows[i].columns = columns /\ w.x[i] = rows[i].x /\ w.y[i] = rows[i].y
        /\ \/ n = Len(rows)
           \/ n + 1 \in 1..Len(rows) /\ ~RowParses(rows[n+1], columns)

\* What a file has of a signal over an axis, if it has the signal in this form, is w.  The
\* one signal of a wrdata file is the one asked for.
Holds(file, axis, signal, complex, w) ==
    LET xs == Values(Entries(file, axis, FALSE))
        ys == Values(Entries(file, signal, complex))
    IN  \/ file = Absent
        \/ file.form = "ascii" /\ (xs # <<>> /\ ys # <<>> => WholeSamples(w, xs, ys))
        \/ /\ file.form = "binary"
           /\ (/\ signal \in DOMAIN file.signals
               /\ file.signals[signal].kind = IF complex THEN "complex" ELSE "real") =>
                  WholeSamples(w, file.axis, file.signals[signal].y)
        \/ file.form = "wrdata" /\ WholeRows(w, Rows(file), IF complex THEN 3 ELSE 2)

Curves(S) == {w \in [x : Seq(Int), y : Seq(S \cup {NotFinite})] : Consistent(w)}
Polar == [db : Int \cup {NotFinite}, deg : Int]
IsResponse(w) == w \in Curves(Polar \cup {ZeroSample}) /\ Increasing(w.x)
IsWaveform(w) ==
    w \in Curves(Int) /\ Increasing(w.x) /\ (w.x # <<>> => w.x[1] >= 0)

\* The simulator wrote w of the signal a request names.
Wrote(e, r, w) ==
    LET file == ResultFile(e, r)
    IN  CASE r.kind = "dc_sweep" -> w \in Curves(Int) /\ Holds(file, r.sweep, r.signal, FALSE, w)
          [] r.kind = "ac" -> IsResponse(w) /\ Holds(file, "freq", r.signal, TRUE, w)
          [] r.kind = "tran" -> IsWaveform(w) /\ Holds(file, "time", r.signal, FALSE, w)
          [] OTHER -> TRUE

\* Only Spectre's jobs have .raw directories.
ASSUME InputsAssumption ==
    \A e \in Inputs :
        /\ e.requests \in Seq(Requests)
        /\ e.format = "wrdata" => e.work.raws = <<>>
        /\ \A k \in 1..Len(e.requests) :
              LET r == e.requests[k]
              IN  r.signal \in DOMAIN e.truth => Wrote(e, r, e.truth[r.signal])

VARIABLES
    input,  \* the extraction under way; never changes
    next,   \* the request it has come to
    status, \* outcome.status
    values  \* outcome.values

vars == <<input, next, status, values>>

-------------------------------------------------------------------------------
(* Values.  `of` is a ghost: the request a value answers.                  *)

Value(name, v) == [of |-> next, name |-> name, status |-> "ok", value |-> v]
FailedMetric(name, s) == [of |-> next, name |-> name, status |-> s]

\* Mutant: the reader's status is passed on.
MapReadStatus_Identity(s) == s

MapReadStatus(s) ==
    IF s \in {"ok", "signal_not_found", "unsupported_format"} THEN s ELSE "read_failed"

\* read_failed for a read or a computation that failed.
FailedRead(name, read) == FailedMetric(name, MapReadStatus(read.status))

Init ==
    /\ input \in Inputs
    /\ next = 1 /\ status = "ok" /\ values = <<>>

Request == input.requests[next]
Requested(kind) == next <= Len(input.requests) /\ Request.kind = kind
Named == Request.signal # ""

FirstFailed(new) == SelectInSeq(new, LAMBDA v : v.status # "ok")

\* What a request adds, and merge_status for each value that failed.
Outcome(new) ==
    LET failed == FirstFailed(new)
    IN  /\ values' = values \o new
        /\ status' = IF status = "ok" /\ failed # 0 THEN new[failed].status ELSE status
        /\ next' = next + 1 /\ UNCHANGED input

-------------------------------------------------------------------------------
(* Reading.                                                                *)

ResultDir == ResultDirectory(input.work)
IsWrdata == input.format = "wrdata"

SweepRead(r) ==
    IF IsWrdata THEN Wrdata(ResultFile(input, r), 2)
    ELSE ReadDcSweep(ResultDir, r.sweep, r.signal, Filename(input, r), input.format)

AcRead(r) ==
    IF IsWrdata THEN Wrdata(ResultFile(input, r), 3)
    ELSE ReadAcResponse(ResultDir, r.signal, Filename(input, r), input.format)

TranRead(r) ==
    IF IsWrdata THEN Wrdata(ResultFile(input, r), 2)
    ELSE ReadTranWaveform(ResultDir, r.signal, Filename(input, r), input.format)

-------------------------------------------------------------------------------
(* One action for each kind of request.                                    *)

RejectUnnamed ==
    /\ next <= Len(input.requests) /\ ~Named
    /\ Outcome(<<FailedMetric("", "read_failed")>>)

ExtractDcValue ==
    /\ Requested("dc") /\ Named
    /\ LET read == ReadDcValue(ResultDir, Request.signal, input.format)
       IN  Outcome(<< CASE IsWrdata -> FailedMetric(Request.signal, "read_failed")
                        [] ~IsWrdata /\ read.status # "ok" -> FailedRead(Request.signal, read)
                        [] OTHER -> Value(Request.signal, read.value) >>)

\* The first and last value and the number of the axis; their names begin with the
\* signal's.
SweepValues(sweep) ==
    << Value("_first", sweep.x[1]),
       Value("_last", sweep.x[Len(sweep.x)]),
       Value("_points", Len(sweep.x)) >>

ExtractDcSweep ==
    /\ Requested("dc_sweep") /\ Named
    /\ Outcome(CASE Request.sweep = "" -> <<FailedMetric(Request.signal, "read_failed")>>
                 [] Request.sweep # "" /\ SweepRead(Request).status # "ok" ->
                      <<FailedRead(Request.signal, SweepRead(Request))>>
                 [] OTHER -> SweepValues(SweepRead(Request).value))

\* A response is derived from in three steps, any of which may fail.
AcCrossing(r) ==
    LET read == AcRead(r)
        view == DeriveAcView(read.value)
    IN  CASE read.status # "ok" -> read
          [] read.status = "ok" /\ view.status # "ok" -> view
          [] OTHER -> UgbwAndPhaseMargin(view.value)

AcValue(metric) ==
    CASE metric = "ugbw" -> Value("ugbw_hz", AcCrossing(Request).value.ugbw)
      [] metric = "phase_margin" ->
           Value("phase_margin_deg", AcCrossing(Request).value.margin)
      [] OTHER -> FailedMetric("settling_time_s", "read_failed")

ExtractAc ==
    /\ Requested("ac") /\ Named
    /\ Outcome(CASE Request.derived = <<>> -> <<FailedMetric(Request.signal, "read_failed")>>
                 [] Request.derived # <<>> /\ AcCrossing(Request).status # "ok" ->
                      <<FailedRead(Request.signal, AcCrossing(Request))>>
                 [] OTHER -> [i \in 1..Len(Request.derived) |-> AcValue(Request.derived[i])])

\* A target of 0 stands for the last value.
Target(r, w) ==
    CASE r.target # 0 -> r.target
      [] r.target = 0 /\ w.y = <<>> -> 0
      [] OTHER -> w.y[Len(w.y)]

Settled(r, w) == SettlingTime(w, Target(r, w))

TranValue(metric, w) ==
    LET settled == Settled(Request, w)
    IN  CASE metric # "settling_time" -> FailedMetric("", "read_failed")
          [] metric = "settling_time" /\ settled.status # "ok" ->
               FailedRead("settling_time_s", settled)
          [] OTHER -> Value("settling_time_s", settled.value)

\* Mutant: a waveform that cannot be settled is left out of the outcome.
TranValues_SkipFailed(w) ==
    SelectSeq([i \in 1..Len(Request.derived) |-> TranValue(Request.derived[i], w)],
              LAMBDA v : v.status = "ok" \/ v.name = "")

FirstUnsettled(all) ==
    SelectInSeq(all, LAMBDA v : v.status # "ok" /\ v.name = "settling_time_s")

\* The loop over the derived metrics ends with the first settling time that fails.
TranValues(w) ==
    LET all == [i \in 1..Len(Request.derived) |-> TranValue(Request.derived[i], w)]
        failed == FirstUnsettled(all)
    IN  IF failed = 0 THEN all ELSE SubSeq(all, 1, failed)

ExtractTran ==
    /\ Requested("tran") /\ Named
    /\ LET read == TranRead(Request)
       IN  Outcome(IF read.status # "ok" THEN <<FailedRead(Request.signal, read)>>
                   ELSE TranValues(read.value))

Next ==
    \/ RejectUnnamed
    \/ ExtractDcValue \/ ExtractDcSweep \/ ExtractAc \/ ExtractTran

Spec == Init /\ [][Next]_vars

-------------------------------------------------------------------------------
(* Properties.                                                             *)

MetricsStatuses == {"ok", "signal_not_found", "unsupported_format", "read_failed"}

\* Every variable keeps to its domain; a value says which request of this extraction it
\* answers, and has a value exactly if it is ok.
TypeOK ==
    /\ next \in 1..(Len(input.requests) + 1)
    /\ status \in MetricsStatuses
    /\ \A k \in 1..Len(values) :
          /\ values[k].of \in 1..(next - 1)
          /\ values[k].status \in MetricsStatuses
          /\ values[k].status = "ok" <=> "value" \in DOMAIN values[k]

Expected(r) ==
    CASE r.kind = "dc" -> 1
      [] r.kind = "dc_sweep" -> 3
      [] OTHER -> Len(r.derived)

Answers(k) == {v \in 1..Len(values) : values[v].of = k}

\* One failing request neither hides behind the others nor takes them with it: an
\* outcome that is ok has, for every request, all the values it asked for.
OkIsComplete ==
    status = "ok" =>
        \A k \in 1..(next - 1) : Cardinality(Answers(k)) = Expected(input.requests[k])

\* The complete samples of a signal the simulator wrote to the result directory.
Known(v) == input.requests[v.of].signal \in DOMAIN input.truth
Truth(v) == input.truth[input.requests[v.of].signal]

\* Values of a name that are ok, of the requests of a kind.
OkValues(kind, name) ==
    {values[k] : k \in {j \in 1..Len(values) :
        /\ values[j].name = name /\ values[j].status = "ok"
        /\ input.requests[values[j].of].kind = kind /\ Known(values[j])}}

\* A sweep is reported as far as it was written, also if the file was cut short between
\* any two lines: with as many points as have both a value of the axis and of the signal,
\* and with the ends of the axis over those points.
SweepIsOfWholeSamples ==
    /\ \A v \in OkValues("dc_sweep", "_points") : v.value = Len(Truth(v).x)
    /\ \A v \in OkValues("dc_sweep", "_first") : v.value = Truth(v).x[1]
    /\ \A v \in OkValues("dc_sweep", "_last") : v.value = Truth(v).x[Len(Truth(v).x)]

Db(r) == [i \in 1..Len(r.y) |-> r.y[i].db]
Deg(r) == [i \in 1..Len(r.y) |-> r.y[i].deg]

\* The unity-gain bandwidth is where the response, drawn with straight lines through its
\* samples, first goes below 0 dB: every sample before it is at or above 0 dB, the line is
\* at 0 dB there, and the next sample is below.  A response that starts below 0 dB has it
\* at its first frequency, one that never gets there at its last.
UgbwIsFirstCrossing ==
    \A v \in OkValues("ac", "ugbw_hz") :
        IsUnityGainBandwidth(Truth(v).x, Db(Truth(v)), v.value)

SameAngle(n, m, den) == (n - m) % (360 * den) = 0

\* The phase margin is 180 degrees more than the angle of the response at its unity-gain
\* bandwidth, whole turns aside: at the first frequency of a response that starts below
\* 0 dB, and otherwise on the line through the samples around the crossing, where the
\* angle, which is known less whole turns, does not jump between them.
MarginIsOfTheCrossing ==
    \A v \in OkValues("ac", "ugbw_hz"), m \in OkValues("ac", "phase_margin_deg") :
        v.of = m.of =>
          LET x == Truth(v).x
              db == Db(Truth(v))
              deg == Deg(Truth(v))
              Jumps(i) == Principal(deg[i+1]) - Principal(deg[i]) # deg[i+1] - deg[i]
          IN  /\ db[1] < 0 =>
                   SameAngle(m.value.num - 180 * m.value.den, deg[1] * m.value.den,
                             m.value.den)
              /\ \A i \in 1..(Len(x) - 1) :
                   (db[i+1] < 0 /\ ~Jumps(i) /\ \A j \in 1..i : db[j] >= 0) =>
                      LET den == v.value.den * (x[i+1] - x[i])
                      IN  SameAngle((m.value.num - 180 * m.value.den) * den,
                                    LineAt(x, deg, v.value, i) * m.value.den,
                                    m.value.den * den)

\* The settling time is the least sample time, or 0, from which on the waveform stays
\* within one percent of its target; of a waveform that ends outside it is the last time.
SettlingTimeIsLeast ==
    \A v \in OkValues("tran", "settling_time_s") :
        LET w == Truth(v)
            wanted == input.requests[v.of].target
        IN  IsSettlingTime(w, IF wanted = 0 THEN w.y[Len(w.y)] ELSE wanted, v.value)

\* A value that is ok is of a signal that is there (expected to fail: the wrdata readers
\* do not look for one).
MissingSignalsAreReported ==
    \A k \in 1..Len(values) : values[k].status = "ok" => Known(values[k])
===============================================================================
