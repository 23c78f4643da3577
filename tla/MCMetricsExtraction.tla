-------------------------- MODULE MCMetricsExtraction --------------------------
(* Work directories, formats and requests for TLC.                         *)
EXTENDS ResultFacade, TLC

-------------------------------------------------------------------------------
(* Files.                                                                  *)

Line(tag) == [tag |-> tag]
Entry(name, value, complex) ==
    [tag |-> "entry", name |-> name, value |-> value, complex |-> complex]

\* Two signals over an axis, sample by sample, and only the first n lines of it.
AsciiFile(axis, x, outs, ins, complex, n) ==
    LET Sample(i) == << Entry(axis, x[i], FALSE),
                        Entry("out", outs[i], complex), Entry("in", ins[i], complex) >>
        body == FlattenSeq([i \in 1..Len(x) |-> Sample(i)])
        all == <<Line("other"), Line("VALUE")>> \o body \o <<Line("END"), Line("other")>>
    IN  [form |-> "ascii", lines |-> SubSeq(all, 1, n)]

Lines(x) == 3 * Len(x) + 4

ScalarFile == [form |-> "ascii", lines |->
    <<Line("VALUE"), Entry("in", 7, FALSE), Line("other"), Entry("out", 5, FALSE),
      Line("END"), Entry("late", 9, FALSE)>>]

BinaryFile(axis, x, y, kind) ==
    [form |-> "binary", axis |-> x, axis_kind |-> "real", sweeps |-> <<axis>>,
     signals |-> "out" :> [kind |-> kind, y |-> y]]

\* The last row may be cut short.
WrdataFile(x, y, columns, last) ==
    [form |-> "wrdata", rows |-> [i \in 1..Len(x) |->
        [columns |-> IF i = Len(x) THEN last ELSE columns, x |-> x[i], y |-> y[i]]]]

Flat(files) == [raws |-> <<>>, files |-> files]
InRaw(files, other) == [raws |-> <<files, other>>, files |-> <<>>]

-------------------------------------------------------------------------------
(* Requests.                                                               *)

Ask(kind, signal) ==
    [kind |-> kind, signal |-> signal, sweep |-> "temp", filename |-> "",
     derived |-> <<>>, target |-> 0]
AskAc == [Ask("ac", "out") EXCEPT !.derived = <<"ugbw", "phase_margin">>]
AskSettling(signal, target) ==
    [Ask("tran", signal) EXCEPT !.derived = <<"settling_time">>, !.target = target]

Extraction(work, format, requests, truth) ==
    [succeeded |-> TRUE, work |-> work, format |-> format, requests |-> requests,
     truth |-> truth]

Wave(x, y) == [x |-> x, y |-> y]
Waves(x, samples) == UNION {[1..n -> samples] : n \in 1..Len(x)}
Axis(x, y) == SubSeq(x, 1, Len(y))

-------------------------------------------------------------------------------
(* Responses over up to three frequencies, and waveforms over up to four   *)
(* times, read through each backend.  (The text of a number that is not    *)
(* finite parses as none.)                                                 *)

Frequencies == <<1, 2, 4>>
Samples == [db : {-3, 0, 2}, deg : {-190, -100, -90}]
Huge == [db |-> NotFinite, deg |-> -90]
Odd == {NotFinite, ZeroSample, Huge}
Good == [db |-> 2, deg |-> -90]
Low == [db |-> -3, deg |-> -100]

AcText(y) ==
    LET x == Axis(Frequencies, y)
    IN  <<"psf_ascii", "ac.ac" :> AsciiFile("freq", x, y, y, TRUE, Lines(x))>>
AcBinary(y) ==
    <<"bin_psf", "ac.ac" :> BinaryFile("freq", Axis(Frequencies, y), y, "complex")>>
AcWrdata(y) == <<"wrdata", "rc_ac.out" :> WrdataFile(Axis(Frequencies, y), y, 3, 3)>>

AcExtraction(dir, y) ==
    Extraction(Flat(dir[2]), dir[1], <<AskAc>>, "out" :> Wave(Axis(Frequencies, y), y))

AcInputs ==
    { AcExtraction(AcText(y), y) : y \in Waves(Frequencies, Samples) }
    \cup
    UNION { {AcExtraction(AcBinary(y), y), AcExtraction(AcWrdata(y), y)} :
        y \in Waves(<<1, 2>>, Odd \cup {Good, Low}) }
    \cup
    { AcExtraction(AcText(y), y) : y \in Waves(<<1, 2>>, {ZeroSample, Huge, Good, Low}) }

Times == <<0, 1, 2, 3>>

TranText(y) ==
    LET x == Axis(Times, y)
    IN  <<"unknown", "tran.tran" :> AsciiFile("time", x, y, y, FALSE, Lines(x))>>
TranBinary(y) ==
    <<"bin_psf", "tran.tran" :> BinaryFile("time", Axis(Times, y), y, "real")>>
TranWrdata(y) == <<"wrdata", "rc_tran.out" :> WrdataFile(Axis(Times, y), y, 2, 2)>>

TranExtraction(dir, y, target) ==
    Extraction(Flat(dir[2]), dir[1], <<AskSettling("out", target)>>,
               "out" :> Wave(Axis(Times, y), y))

TranInputs ==
    { TranExtraction(TranText(y), y, target) :
        y \in Waves(Times, {98, 99, 101, -100}), target \in {0, 100, -100} }
    \cup
    UNION { {TranExtraction(TranBinary(y), y, target), TranExtraction(TranWrdata(y), y, target)} :
        y \in Waves(<<0, 1>>, {100, 102, NotFinite}), target \in {0, 100} }

-------------------------------------------------------------------------------
(* Files of two signals cut short between any two lines or in a row.       *)

Temps == <<0, 40, 80>>
Outs == <<100, 104, 100>>
Ins == <<100, 100, 104>>
Gains == <<Good, [db |-> 0, deg |-> -190], Low>>

Pairs(n, column) == IF n < 2 + column THEN 0 ELSE (n - 2 - column) \div 3 + 1
CutTruth(x, outs, ins, n) ==
    LET Prefix(s, column) ==
            LET whole == IF Pairs(n, column) > Len(x) THEN Len(x) ELSE Pairs(n, column)
            IN  Wave(SubSeq(x, 1, whole), SubSeq(s, 1, whole))
    IN  "out" :> Prefix(outs, 2) @@ "in" :> Prefix(ins, 3)

CutInputs ==
    { Extraction(Flat("dc.dc" :> AsciiFile("temp", Temps, Outs, Ins, FALSE, n)
                      @@ "tran.tran" :> AsciiFile("time", Temps, Outs, Ins, FALSE, n)),
                 format, <<Ask("dc_sweep", a), AskSettling(b, 0)>>, CutTruth(Temps, Outs, Ins, n)) :
        n \in 0..Lines(Temps), format \in {"psf_ascii", "unknown"},
        a \in {"out", "in", "none"}, b \in {"out", "in", "time"} }
    \cup
    { Extraction(Flat("resistor_divider_dc.out" :> WrdataFile(Temps, Outs, 2, last)),
                 "wrdata", <<Ask("dc_sweep", a)>>,
                 "out" :> IF last = 2 THEN Wave(Temps, Outs)
                          ELSE Wave(SubSeq(Temps, 1, 2), SubSeq(Outs, 1, 2))) :
        last \in 0..3, a \in {"out", "none"} }
    \cup
    { Extraction(Flat("ac.ac" :> AsciiFile("freq", Frequencies, Gains, Gains, TRUE, n)),
                 "psf_ascii", <<[AskAc EXCEPT !.signal = a]>>,
                 CutTruth(Frequencies, Gains, Gains, n)) :
        n \in 0..Lines(Frequencies), a \in {"out", "in"} }

-------------------------------------------------------------------------------
(* Several requests of one directory, any of which may fail.               *)

ManyFiles ==
    "dcOp.dc" :> ScalarFile
    @@ "dc.dc" :> BinaryFile("temp", Temps, Outs, "real")
    @@ "ac.ac" :> BinaryFile("freq", <<1, 2>>, <<Good, Low>>, "complex")
    @@ "empty.ac" :> BinaryFile("freq", <<>>, <<>>, "complex")
    @@ "tran.tran" :> BinaryFile("time", Temps, Outs, "real")
    @@ "tran.tran.psfxl" :> [form |-> "other"]
    @@ "plain.tran" :> BinaryFile("time", <<0, 1>>, <<100>>, "real")
    @@ "odd.tran" :> [BinaryFile("time", Temps, Outs, "real") EXCEPT !.axis_kind = "complex"]
    @@ "text.tran" :> [form |-> "ascii", lines |-> <<>>]

ManyRequests ==
    { Ask("dc", ""), Ask("dc", "out"), Ask("dc", "late"),
      Ask("dc_sweep", "out"), [Ask("dc_sweep", "out") EXCEPT !.sweep = ""],
      [Ask("dc_sweep", "out") EXCEPT !.sweep = "vin"],
      [Ask("dc_sweep", "out") EXCEPT !.filename = "dcOp.dc"],
      [Ask("ac", "none") EXCEPT !.derived = <<"ugbw">>],
      [AskAc EXCEPT !.derived = <<"settling_time", "phase_margin">>],
      [AskAc EXCEPT !.filename = "empty.ac"], [AskAc EXCEPT !.filename = "tran.tran"],
      Ask("ac", "out"), Ask("tran", "out"), AskSettling("out", 0),
      [AskSettling("out", 0) EXCEPT !.filename = "plain.tran"],
      [AskSettling("out", 0) EXCEPT !.filename = "odd.tran"],
      [AskSettling("out", 0) EXCEPT !.filename = "text.tran"],
      [AskSettling("out", 0) EXCEPT !.filename = "dc.dc",
                                    !.derived = <<"ugbw", "settling_time">>] }

ManyTruth(request) ==
    "out" :> CASE request.kind = "ac" /\ request.filename = "empty.ac" -> Wave(<<>>, <<>>)
               [] request.kind = "ac" /\ request.filename # "empty.ac" ->
                    Wave(<<1, 2>>, <<Good, Low>>)
               [] request.filename = "plain.tran" -> Wave(<<0>>, <<100>>)
               [] OTHER -> Wave(Temps, Outs)

ManyInputs ==
    { Extraction(IF format = "wrdata" THEN Flat(ManyFiles)
                 ELSE InRaw(ManyFiles, "dcOp.dc" :> Absent),
                 format, <<a, b>>, ManyTruth(b)) :
        format \in {"unknown", "psf_ascii", "bin_psf", "psfxl", "wrdata"},
        a \in {r \in ManyRequests : r.kind = "dc"}, b \in ManyRequests }
    \cup
    { Extraction(Flat(<<>>), "unknown", <<b, a>>, <<>>) : a, b \in ManyRequests }

-------------------------------------------------------------------------------
(* A file of the user's own name, two requests whose values have the same  *)
(* name, and a job that failed.                                            *)

OtherAc == [AskAc EXCEPT !.filename = "other.out"]

NamedInputs ==
    { [Extraction(Flat("rc_ac.out" :> WrdataFile(<<1, 2>>, <<Good, Low>>, 3, 3)
                       @@ "other.out" :> WrdataFile(<<1, 4>>, <<Good, Low>>, 3, last)),
                  "wrdata", requests, <<>>) EXCEPT !.succeeded = succeeded] :
        last \in {0, 3}, succeeded \in BOOLEAN,
        requests \in {<<AskAc, OtherAc>>, <<OtherAc, AskAc>>, <<OtherAc, AskSettling("out", 0)>>} }

\* What later batches leave: nothing, a response that differs, a waveform without its
\* PSFXL file, or the user's own file only.
MCLater ==
    { Flat(<<>>),
      InRaw([name \in DOMAIN ManyFiles \ {"tran.tran.psfxl"} |->
                IF name = "ac.ac"
                THEN BinaryFile("freq", <<1, 2>>, <<Good, Good>>, "complex")
                ELSE ManyFiles[name]], <<>>),
      Flat("rc_ac.out" :> WrdataFile(<<1, 2>>, <<Good, Good>>, 3, 3)
           @@ "other.out" :> WrdataFile(<<1, 4>>, <<Good, Low>>, 3, 3)) }

MCInputs == NamedInputs \cup AcInputs \cup TranInputs \cup CutInputs \cup ManyInputs
===============================================================================
