----------------------------- MODULE ResultReaders -----------------------------
(***************************************************************************)
(* Finding and reading result files (src/parse and the wrdata readers of   *)
(* src/session/ngspice_session.cpp): the choice of a result directory, of  *)
(* a backend for the declared format, and the three backends.              *)
(*                                                                         *)
(* A file is what a backend makes of its bytes.  PSF ASCII text is its     *)
(* lines: VALUE, END, an entry with the name and the value it parses to,   *)
(* or anything else.  A binary PSF file is the data set libpsf finds in    *)
(* it.  A wrdata file is its lines: how many columns each has, none on an  *)
(* empty line, the first of them the axis, and the sample the others make  *)
(* if there are as many as there should be.  (A line of blanks is one of   *)
(* too few columns.)                                                       *)
(***************************************************************************)
EXTENDS Integers, Sequences, SequencesExt, DerivedMetrics

CONSTANT LibPsf  \* built with SPICEUNION_ENABLE_LIBPSF_READER

ASSUME LibPsfAssumption == LibPsf \in BOOLEAN

\* A directory maps the names of its files to them.
Absent == [form |-> "absent"]
FileAt(dir, name) == IF name \in DOMAIN dir THEN dir[name] ELSE Absent

\* find_result_directory: the first of the .raw directories, which are in order, or the
\* work directory itself; extract_metrics takes the latter too if that fails.
ResultDirectory(work) == IF work.raws = <<>> THEN work.files ELSE work.raws[1]

-------------------------------------------------------------------------------
(* PSF ASCII.                                                              *)

\* The lines after VALUE and before END.
ValueSection(lines) ==
    LET first == SelectInSeq(lines, LAMBDA l : l.tag = "VALUE")
        end == SelectInSeq(Append(lines, [tag |-> "END"]), LAMBDA l : l.tag = "END")
    IN  IF first = 0 \/ end < first THEN <<>> ELSE SubSeq(lines, first + 1, end - 1)

\* Entries of a name that are complex, or that are not; a file that is not text has no
\* VALUE line.
Entries(file, name, complex) ==
    IF file.form = "ascii"
    THEN SelectSeq(ValueSection(file.lines),
                   LAMBDA l : l.tag = "entry" /\ l.name = name /\ l.complex = complex)
    ELSE <<>>

Values(entries) == [i \in 1..Len(entries) |-> entries[i].value]

AsciiScalar(file, signal) ==
    LET found == Entries(file, signal, FALSE)
    IN  CASE file = Absent -> Failure("file_not_found")
          [] file # Absent /\ found = <<>> -> Failure("signal_not_found")
          [] OTHER -> Success(found[1].value)

\* Mutant: axis and samples are cut to the shorter of the two.
AsciiWave_Shorter(file, axis, signal, complex) ==
    LET xs == Values(Entries(file, axis, FALSE))
        ys == IF signal = axis THEN <<>>
              ELSE Values(Entries(file, signal, complex))
        n == IF Len(xs) < Len(ys) THEN Len(xs) ELSE Len(ys)
    IN  CASE file = Absent -> Failure("file_not_found")
          [] file # Absent /\ (xs = <<>> \/ ys = <<>>) -> Failure("signal_not_found")
          [] OTHER -> Success([x |-> xs, y |-> SubSeq(ys, 1, n)])

\* Axis and samples are collected apart and only their numbers compared.  (No simulator
\* writes a complex axis; of one the AC reader would take the real parts.)
AsciiWave(file, axis, signal, complex) ==
    LET xs == Values(Entries(file, axis, FALSE))
        ys == IF signal = axis THEN <<>>
              ELSE Values(Entries(file, signal, complex))
    IN  CASE file = Absent -> Failure("file_not_found")
          [] file # Absent /\ (xs = <<>> \/ ys = <<>>) -> Failure("signal_not_found")
          [] file # Absent /\ xs # <<>> /\ ys # <<>> /\ Len(xs) # Len(ys) ->
               Failure("parse_error")
          [] OTHER -> Success([x |-> xs, y |-> ys])

-------------------------------------------------------------------------------
(* libpsf: the library's exceptions become statuses.                       *)

LibSignal(file, signal, kind) ==
    CASE file = Absent -> Failure("file_not_found")
      [] file.form \in {"ascii", "wrdata"} -> Failure("parse_error")
      [] file.form = "binary" /\ signal \notin DOMAIN file.signals ->
           Failure("signal_not_found")
      [] file.form = "binary" /\ signal \in DOMAIN file.signals
            /\ file.signals[signal].kind # kind -> Failure("unsupported_format")
      [] OTHER -> Success(file.signals[signal].y)

LibScalar(file, signal) == LibSignal(file, signal, "scalar")

\* Its axis is looked at before the signal.
OddAxis(file) == file.form = "binary" /\ file.axis_kind # "real"

LibWave(file, signal, kind) ==
    LET read == LibSignal(file, signal, kind)
        wave == [x |-> file.axis, y |-> read.value]
    IN  CASE OddAxis(file) -> Failure("unsupported_format")
          [] ~OddAxis(file) /\ read.status # "ok" -> read
          [] ~OddAxis(file) /\ read.status = "ok" /\ ~Consistent(wave) ->
               Failure("parse_error")
          [] OTHER -> Success(wave)

LibSweep(file, sweep, signal) ==
    CASE file.form = "binary" /\ Len(file.sweeps) # 1 -> Failure("unsupported_format")
      [] file.form = "binary" /\ Len(file.sweeps) = 1 /\ file.sweeps[1] # sweep ->
           Failure("signal_not_found")
      [] file.form = "binary" /\ file.sweeps = <<sweep>> /\ file.axis = <<>>
            /\ LibWave(file, signal, "real").status = "ok" -> Failure("parse_error")
      [] OTHER -> LibWave(file, signal, "real")

\* A transient with a PSFXL file beside it is not opened.
IsPsfxl(dir, name) ==
    FileAt(dir, name) # Absent /\ DOMAIN dir \cap {name \o ".psfxl", name \o ".sig"} # {}

LibTran(dir, name, signal) ==
    IF IsPsfxl(dir, name) THEN Failure("unsupported_format")
    ELSE LibWave(FileAt(dir, name), signal, "real")

-------------------------------------------------------------------------------
(* wrdata.  The name of the signal labels the result; no column is looked  *)
(* up by it.  What is not finite is not read as a number.                  *)

Rows(file) ==
    IF file.form = "wrdata" THEN SelectSeq(file.rows, LAMBDA r : r.columns # 0)
    ELSE <<[columns |-> 1, x |-> 0, y |-> 0]>>

RowParses(row, columns) ==
    row.columns = columns /\ row.x # NotFinite /\ row.y # NotFinite

Wrdata(file, columns) ==
    LET rows == Rows(file)
    IN  CASE file = Absent -> Failure("file_not_found")
          [] file # Absent
                /\ (rows = <<>> \/ \E i \in 1..Len(rows) : ~RowParses(rows[i], columns)) ->
               Failure("parse_error")
          [] OTHER -> Success([x |-> [i \in 1..Len(rows) |-> rows[i].x],
                               y |-> [i \in 1..Len(rows) |-> rows[i].y]])

-------------------------------------------------------------------------------
(* Dispatch.  A declared format is taken at its word; without one the file *)
(* is looked into, and whatever is not text is left to libpsf.             *)

\* is_psf_ascii_file; an empty file is not text.
IsText(file) ==
    \/ file.form = "ascii" /\ file.lines # <<>>
    \/ file.form = "wrdata" /\ file.rows # <<>>

Dispatch(format, file, ascii, lib) ==
    CASE format = "psf_ascii" -> ascii
      [] format = "psfxl" -> Failure("unsupported_format")
      [] format \notin {"psf_ascii", "psfxl", "bin_psf"} /\ IsText(file) -> ascii
      [] OTHER -> IF LibPsf THEN lib ELSE Failure("unsupported_format")

ReadDcValue(dir, signal, format) ==
    LET file == FileAt(dir, "dcOp.dc")
    IN  Dispatch(format, file, AsciiScalar(file, signal), LibScalar(file, signal))

ReadDcSweep(dir, sweep, signal, name, format) ==
    LET file == FileAt(dir, name)
    IN  Dispatch(format, file, AsciiWave(file, sweep, signal, FALSE),
                 LibSweep(file, sweep, signal))

ReadAcResponse(dir, signal, name, format) ==
    LET file == FileAt(dir, name)
    IN  Dispatch(format, file, AsciiWave(file, "freq", signal, TRUE),
                 LibWave(file, signal, "complex"))

ReadTranWaveform(dir, signal, name, format) ==
    LET file == FileAt(dir, name)
    IN  Dispatch(format, file, AsciiWave(file, "time", signal, FALSE),
                 LibTran(dir, name, signal))
===============================================================================
