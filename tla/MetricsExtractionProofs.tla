------------------------ MODULE MetricsExtractionProofs ------------------------
(***************************************************************************)
(* What extract_metrics reports is what the simulator wrote, and what a    *)
(* user reads on demand, for every directory, list of requests and         *)
(* waveform: the theorems of MetricsExtraction and ResultFacade.           *)
(*                                                                         *)
(* First the readers: a read that succeeds returns the samples that were   *)
(* written, whichever backend it went through.  Then each request: a value *)
(* that is ok comes from a read of its own request that succeeded.  Then   *)
(* the outcome as a whole.                                                 *)
(***************************************************************************)
EXTENDS ResultFacade, DerivedMetricsProofs

-------------------------------------------------------------------------------
(* Reading.                                                                *)

\* The values of entries there are none of.
LEMMA NoValues == Values(<<>>) = <<>>
BY DEF Values

\* What of a signal and its axis is of equal length is all of it.
LEMMA WholeIsAll ==
  ASSUME NEW S, NEW w \in Curves(S), NEW xs, NEW ys,
         WholeSamples(w, xs, ys), Len(xs) = Len(ys)
  PROVE  w = [x |-> xs, y |-> ys]
<1>1. w \in [x : Seq(Int), y : Seq(S \cup {NotFinite})] /\ Len(w.x) = Len(w.y)
  BY DEF Curves, Consistent
<1>2. w.y = ys
  BY DEF WholeSamples
<1>3. xs = w.x
  <2>1. ASSUME xs = Append(w.x, xs[Len(xs)]) PROVE FALSE
    <3> DEFINE a == xs[Len(xs)]
               n == Len(w.x)
    <3>1. n \in Nat /\ w.x \in Seq(Int)
      BY <1>1
    <3>2. Append(w.x, a) \in Seq(Int \cup {a}) /\ Len(Append(w.x, a)) = n + 1
      <4> HIDE DEF a
      <4> QED BY <3>1
    <3> QED BY <1>1, <1>2, <2>1, <3>1, <3>2
  <2> QED BY <2>1 DEF WholeSamples
<1> QED BY <1>1, <1>2, <1>3

\* A text file that is read has the signal and its axis sample for sample.
LEMMA AsciiWaveReads ==
  ASSUME NEW S, NEW w \in Curves(S), NEW file, NEW axis, NEW signal, NEW complex \in BOOLEAN,
         Holds(file, axis, signal, complex, w),
         AsciiWave(file, axis, signal, complex).status = "ok"
  PROVE  AsciiWave(file, axis, signal, complex).value = w
<1> DEFINE xs == Values(Entries(file, axis, FALSE))
           ys == Values(Entries(file, signal, complex))
           used == IF signal = axis THEN <<>> ELSE ys
<1>1. /\ file # Absent /\ xs # <<>> /\ used # <<>> /\ Len(xs) = Len(used)
      /\ AsciiWave(file, axis, signal, complex) = Success([x |-> xs, y |-> used])
  <2> DEFINE read == AsciiWave(file, axis, signal, complex)
  <2>1. read = CASE file = Absent -> Failure("file_not_found")
                 [] file # Absent /\ (xs = <<>> \/ used = <<>>) -> Failure("signal_not_found")
                 [] file # Absent /\ xs # <<>> /\ used # <<>> /\ Len(xs) # Len(used) ->
                      Failure("parse_error")
                 [] OTHER -> Success([x |-> xs, y |-> used])
    BY DEF AsciiWave
  <2>2. read.status = "ok"
    OBVIOUS
  <2> HIDE DEF xs, used, read
  <2>3. file # Absent
    <3>1. Failure("file_not_found").status # "ok"
      BY DEF Failure
    <3> QED BY <2>1, <2>2, <3>1, Zenon
  <2>4. ~(file # Absent /\ (xs = <<>> \/ used = <<>>))
    <3>1. Failure("signal_not_found").status # "ok"
      BY DEF Failure
    <3> QED BY <2>1, <2>2, <3>1, Zenon
  <2>5. ~(file # Absent /\ xs # <<>> /\ used # <<>> /\ Len(xs) # Len(used))
    <3>1. Failure("parse_error").status # "ok"
      BY DEF Failure
    <3> QED BY <2>1, <2>2, <3>1, Zenon
  <2>6. read = Success([x |-> xs, y |-> used])
    BY <2>1, <2>3, <2>4, <2>5, Zenon
  <2> QED BY <2>3, <2>4, <2>5, <2>6 DEF read
<1>2. used = ys
  BY <1>1
<1>3. file.form = "ascii"
  <2>1. SUFFICES ASSUME file.form # "ascii" PROVE FALSE
    OBVIOUS
  <2>2. Entries(file, axis, FALSE) = <<>>
    BY <2>1 DEF Entries
  <2> QED BY <1>1, <2>2, NoValues
<1>4. WholeSamples(w, xs, ys)
  <2> HIDE DEF xs, ys
  <2> QED BY <1>1, <1>2, <1>3 DEF Holds, xs, ys
<1>5. w = [x |-> xs, y |-> ys]
  <2> HIDE DEF xs, ys, used
  <2>1. Len(xs) = Len(ys)
    BY <1>1, <1>2
  <2>2. w \in Curves(S)
    OBVIOUS
  <2> QED BY <1>4, <2>1, <2>2, WholeIsAll, Zenon
<1> HIDE DEF xs, ys, used
<1> QED BY <1>1, <1>2, <1>5 DEF Success

\* A failure is not ok.
LEMMA Fails ==
  /\ Failure("file_not_found").status # "ok" /\ Failure("signal_not_found").status # "ok"
  /\ Failure("parse_error").status # "ok" /\ Failure("unsupported_format").status # "ok"
  /\ Failure("invalid_input").status # "ok"
BY DEF Failure

\* A binary file that is read has the signal, in the form it is read in.
LEMMA LibSignalReads ==
  ASSUME NEW file, NEW signal, NEW kind, LibSignal(file, signal, kind).status = "ok"
  PROVE  /\ file # Absent /\ file.form # "ascii" /\ file.form # "wrdata"
         /\ file.form = "binary" =>
              signal \in DOMAIN file.signals /\ file.signals[signal].kind = kind
         /\ LibSignal(file, signal, kind) = Success(file.signals[signal].y)
<1> DEFINE read == LibSignal(file, signal, kind)
<1>1. read = CASE file = Absent -> Failure("file_not_found")
               [] file.form \in {"ascii", "wrdata"} -> Failure("parse_error")
               [] file.form = "binary" /\ signal \notin DOMAIN file.signals ->
                    Failure("signal_not_found")
               [] file.form = "binary" /\ signal \in DOMAIN file.signals
                     /\ file.signals[signal].kind # kind -> Failure("unsupported_format")
               [] OTHER -> Success(file.signals[signal].y)
  BY DEF LibSignal
<1>2. read.status = "ok"
  OBVIOUS
<1> HIDE DEF read
<1>3. file # Absent /\ file.form \notin {"ascii", "wrdata"}
  <2>1. Absent.form = "absent"
    BY DEF Absent
  <2>2. file # Absent
    <3>1. SUFFICES ASSUME file = Absent PROVE FALSE
      OBVIOUS
    <3>2. /\ ~(file.form \in {"ascii", "wrdata"})
          /\ ~(file.form = "binary" /\ signal \notin DOMAIN file.signals)
          /\ ~(file.form = "binary" /\ signal \in DOMAIN file.signals
                     /\ file.signals[signal].kind # kind)
      BY <2>1, <3>1
    <3>3. read = Failure("file_not_found")
      BY <1>1, <3>1, <3>2, Zenon
    <3> QED BY <1>2, <3>3, Fails
  <2>3. file.form \notin {"ascii", "wrdata"}
    <3>1. SUFFICES ASSUME file.form \in {"ascii", "wrdata"} PROVE FALSE
      OBVIOUS
    <3>2. file.form # "binary"
      BY <3>1
    <3>3. read = Failure("parse_error")
      BY <1>1, <2>2, <3>1, <3>2, Zenon
    <3> QED BY <1>2, <3>3, Fails
  <2> QED BY <2>2, <2>3
<1>4. ~(file.form = "binary" /\ signal \notin DOMAIN file.signals)
  <2>1. SUFFICES ASSUME file.form = "binary" /\ signal \notin DOMAIN file.signals PROVE FALSE
    OBVIOUS
  <2>2. read = Failure("signal_not_found")
    BY <1>1, <1>3, <2>1, Zenon
  <2> QED BY <1>2, <2>2, Fails
<1>5. ~(file.form = "binary" /\ signal \in DOMAIN file.signals
          /\ file.signals[signal].kind # kind)
  <2>1. SUFFICES ASSUME file.form = "binary" /\ signal \in DOMAIN file.signals
                          /\ file.signals[signal].kind # kind PROVE FALSE
    OBVIOUS
  <2>2. read = Failure("unsupported_format")
    BY <1>1, <1>3, <2>1, Zenon
  <2> QED BY <1>2, <2>2, Fails
<1>6. read = Success(file.signals[signal].y)
  BY <1>1, <1>3, <1>4, <1>5, Zenon
<1> QED BY <1>3, <1>4, <1>5, <1>6 DEF read

\* ... and is read sample for sample.
LEMMA LibWaveReads ==
  ASSUME NEW S, NEW w \in Curves(S), NEW file, NEW axis, NEW signal, NEW complex \in BOOLEAN,
         NEW kind, kind = (IF complex THEN "complex" ELSE "real"),
         Holds(file, axis, signal, complex, w),
         LibWave(file, signal, kind).status = "ok"
  PROVE  LibWave(file, signal, kind).value = w
<1> DEFINE read == LibSignal(file, signal, kind)
           wave == [x |-> file.axis, y |-> read.value]
           result == LibWave(file, signal, kind)
<1>0. result = CASE OddAxis(file) -> Failure("unsupported_format")
                 [] ~OddAxis(file) /\ read.status # "ok" -> read
                 [] ~OddAxis(file) /\ read.status = "ok" /\ ~Consistent(wave) ->
                      Failure("parse_error")
                 [] OTHER -> Success(wave)
  BY DEF LibWave
<1>2. result.status = "ok"
  OBVIOUS
<1> HIDE DEF result, wave, read
<1>a. ~OddAxis(file)
  <2>1. SUFFICES ASSUME OddAxis(file) PROVE FALSE
    OBVIOUS
  <2>2. result = Failure("unsupported_format")
    BY <1>0, <2>1, Zenon
  <2> QED BY <1>2, <2>2, Fails
<1>1. result = CASE read.status # "ok" -> read
                 [] read.status = "ok" /\ ~Consistent(wave) -> Failure("parse_error")
                 [] OTHER -> Success(wave)
  BY <1>0, <1>a, Zenon
<1>3. read.status = "ok"
  <2>1. SUFFICES ASSUME read.status # "ok" PROVE FALSE
    OBVIOUS
  <2>2. result = read
    BY <1>1, <2>1, Zenon
  <2> QED BY <1>2, <2>1, <2>2
<1>4. Consistent(wave)
  <2>1. SUFFICES ASSUME ~Consistent(wave) PROVE FALSE
    OBVIOUS
  <2>2. result = Failure("parse_error")
    BY <1>1, <1>3, <2>1, Zenon
  <2> QED BY <1>2, <2>2, Fails
<1>5. result = Success(wave)
  BY <1>1, <1>3, <1>4, Zenon
<1>6. /\ file # Absent /\ file.form # "ascii" /\ file.form # "wrdata"
      /\ file.form = "binary" =>
           signal \in DOMAIN file.signals /\ file.signals[signal].kind = kind
      /\ read = Success(file.signals[signal].y)
  BY <1>3, LibSignalReads DEF read
<1>7. WholeSamples(w, file.axis, file.signals[signal].y)
  BY <1>6 DEF Holds
<1>8. wave = [x |-> file.axis, y |-> file.signals[signal].y]
  BY <1>6 DEF wave, Success
<1>9. Len(file.axis) = Len(file.signals[signal].y)
  BY <1>4, <1>8 DEF Consistent
<1>10. wave = w
  <2> DEFINE xs == file.axis
             ys == file.signals[signal].y
  <2>1. WholeSamples(w, xs, ys) /\ Len(xs) = Len(ys) /\ w \in Curves(S)
    BY <1>7, <1>9
  <2>2. wave = [x |-> xs, y |-> ys]
    BY <1>8
  <2> HIDE DEF xs, ys
  <2> QED BY <2>1, <2>2, WholeIsAll, Zenon
<1> QED BY <1>5, <1>10 DEF Success, result

\* A table of rows that is read has all of them complete.
LEMMA WrdataReads ==
  ASSUME NEW S, NEW w \in Curves(S), NEW file, NEW axis, NEW signal, NEW complex \in BOOLEAN,
         NEW columns, columns = (IF complex THEN 3 ELSE 2),
         Holds(file, axis, signal, complex, w),
         Wrdata(file, columns).status = "ok"
  PROVE  Wrdata(file, columns).value = w
<1> DEFINE rows == Rows(file)
           partial == rows = <<>> \/ \E i \in 1..Len(rows) : ~RowParses(rows[i], columns)
           all == [x |-> [i \in 1..Len(rows) |-> rows[i].x],
                   y |-> [i \in 1..Len(rows) |-> rows[i].y]]
           result == Wrdata(file, columns)
<1>1. result = CASE file = Absent -> Failure("file_not_found")
                 [] file # Absent /\ partial -> Failure("parse_error")
                 [] OTHER -> Success(all)
  BY DEF Wrdata
<1>2. result.status = "ok"
  OBVIOUS
<1> HIDE DEF result, partial, all
<1>3. file # Absent
  <2>1. SUFFICES ASSUME file = Absent PROVE FALSE
    OBVIOUS
  <2>2. result = Failure("file_not_found")
    BY <1>1, <2>1, Zenon
  <2> QED BY <1>2, <2>2, Fails
<1>4. ~partial
  <2>1. SUFFICES ASSUME partial PROVE FALSE
    OBVIOUS
  <2>2. result = Failure("parse_error")
    BY <1>1, <1>3, <2>1, Zenon
  <2> QED BY <1>2, <2>2, Fails
<1>5. result = Success(all)
  BY <1>1, <1>3, <1>4, Zenon
<1>6. file.form = "wrdata"
  <2>1. SUFFICES ASSUME file.form # "wrdata" PROVE FALSE
    OBVIOUS
  <2>2. rows = <<[columns |-> 1, x |-> 0, y |-> 0]>>
    BY <2>1 DEF Rows
  <2>3. 1 \in 1..Len(rows) /\ rows[1].columns = 1 /\ columns # 1
    BY <2>2
  <2> QED BY <1>4, <2>3 DEF partial, RowParses
<1>7. WholeRows(w, rows, columns)
  BY <1>3, <1>6 DEF Holds
<1> HIDE DEF rows
<1>8. Len(w.x) = Len(rows)
  <2>1. ~(Len(w.x) + 1 \in 1..Len(rows) /\ ~RowParses(rows[Len(w.x) + 1], columns))
    BY <1>4 DEF partial
  <2> QED BY <1>7, <2>1 DEF WholeRows
<1>9. /\ w \in [x : Seq(Int), y : Seq(S \cup {NotFinite})]
      /\ Len(w.x) = Len(w.y)
  BY DEF Curves, Consistent
<1>10. \A i \in 1..Len(rows) : w.x[i] = rows[i].x /\ w.y[i] = rows[i].y
  BY <1>7, <1>8 DEF WholeRows
<1>11. w.x = [i \in 1..Len(rows) |-> rows[i].x]
  BY <1>8, <1>9, <1>10
<1>12. w.y = [i \in 1..Len(rows) |-> rows[i].y]
  BY <1>8, <1>9, <1>10
<1>13. all = w
  BY <1>9, <1>11, <1>12 DEF all
<1> QED BY <1>5, <1>13 DEF Success, result

\* What is dispatched to a backend is what the backend reads.
LEMMA Dispatched ==
  ASSUME NEW format, NEW file, NEW ascii, NEW lib,
         Dispatch(format, file, ascii, lib).status = "ok"
  PROVE  \/ Dispatch(format, file, ascii, lib) = ascii
         \/ Dispatch(format, file, ascii, lib) = lib
<1> DEFINE read == Dispatch(format, file, ascii, lib)
           unknown == format \notin {"psf_ascii", "psfxl", "bin_psf"} /\ IsText(file)
<1>1. read = CASE format = "psf_ascii" -> ascii
               [] format = "psfxl" -> Failure("unsupported_format")
               [] unknown -> ascii
               [] OTHER -> IF LibPsf THEN lib ELSE Failure("unsupported_format")
  BY DEF Dispatch
<1>2. read.status = "ok"
  OBVIOUS
<1>3. unknown => format # "psf_ascii" /\ format # "psfxl"
  OBVIOUS
<1>4. format = "psf_ascii" => format # "psfxl"
  OBVIOUS
<1> HIDE DEF read, unknown
<1>5. CASE format = "psf_ascii"
  BY <1>1, <1>3, <1>4, <1>5, Zenon DEF read
<1>6. CASE format = "psfxl"
  <2>1. read = Failure("unsupported_format")
    BY <1>1, <1>3, <1>4, <1>6, Zenon
  <2> QED BY <1>2, <2>1, Fails
<1>7. CASE unknown
  BY <1>1, <1>3, <1>7, Zenon DEF read
<1>8. CASE format # "psf_ascii" /\ format # "psfxl" /\ ~unknown
  <2>1. read = IF LibPsf THEN lib ELSE Failure("unsupported_format")
    BY <1>1, <1>8, Zenon
  <2>2. LibPsf
    <3>1. SUFFICES ASSUME ~LibPsf PROVE FALSE
      OBVIOUS
    <3>2. read = Failure("unsupported_format")
      BY <2>1, <3>1, Zenon
    <3> QED BY <1>2, <3>2, Fails
  <2> QED BY <2>1, <2>2, Zenon DEF read
<1> QED BY <1>5, <1>6, <1>7, <1>8

\* A sweep or a transient that libpsf reads is a wave.
LEMMA LibSweepReads ==
  ASSUME NEW file, NEW sweep, NEW signal, LibSweep(file, sweep, signal).status = "ok"
  PROVE  LibSweep(file, sweep, signal) = LibWave(file, signal, "real")
<1> DEFINE result == LibSweep(file, sweep, signal)
           several == file.form = "binary" /\ Len(file.sweeps) # 1
           other == file.form = "binary" /\ Len(file.sweeps) = 1 /\ file.sweeps[1] # sweep
           empty == file.form = "binary" /\ file.sweeps = <<sweep>> /\ file.axis = <<>>
                       /\ LibWave(file, signal, "real").status = "ok"
<1>1. result = CASE several -> Failure("unsupported_format")
                 [] other -> Failure("signal_not_found")
                 [] empty -> Failure("parse_error")
                 [] OTHER -> LibWave(file, signal, "real")
  BY DEF LibSweep
<1>2. result.status = "ok"
  OBVIOUS
<1>3. (other => ~several) /\ (empty => ~several) /\ (empty => ~other)
  <2>1. empty => Len(file.sweeps) = 1 /\ file.sweeps[1] = sweep
    <3> DEFINE s == file.sweeps
    <3>1. s = <<sweep>> => Len(s) = 1 /\ s[1] = sweep
      <4> HIDE DEF s
      <4> QED OBVIOUS
    <3> QED BY <3>1
  <2> QED BY <2>1
<1> HIDE DEF result, several, other, empty
<1>4. ASSUME several PROVE FALSE
  <2>1. result = Failure("unsupported_format")
    BY <1>1, <1>3, <1>4, Zenon
  <2> QED BY <1>2, <2>1, Fails
<1>5. ASSUME other PROVE FALSE
  <2>1. result = Failure("signal_not_found")
    BY <1>1, <1>3, <1>5, Zenon
  <2> QED BY <1>2, <2>1, Fails
<1>6. ASSUME empty PROVE FALSE
  <2>1. result = Failure("parse_error")
    BY <1>1, <1>3, <1>6, Zenon
  <2> QED BY <1>2, <2>1, Fails
<1> QED BY <1>1, <1>4, <1>5, <1>6, Zenon DEF result

LEMMA LibTranReads ==
  ASSUME NEW dir, NEW name, NEW signal, LibTran(dir, name, signal).status = "ok"
  PROVE  LibTran(dir, name, signal) = LibWave(FileAt(dir, name), signal, "real")
BY Fails DEF LibTran

\* So that, whichever way a request's file is read, what is read was written.
LEMMA SweepReads ==
  ASSUME NEW S, NEW w \in Curves(S), NEW r, SweepRead(r).status = "ok",
         Holds(ResultFile(input, r), r.sweep, r.signal, FALSE, w)
  PROVE  SweepRead(r).value = w
<1> DEFINE complex == FALSE
           file == ResultFile(input, r)
           ascii == AsciiWave(file, r.sweep, r.signal, complex)
           lib == LibSweep(file, r.sweep, r.signal)
<1>0. Holds(file, r.sweep, r.signal, complex, w) /\ w \in Curves(S)
      /\ complex \in BOOLEAN /\ 2 = (IF complex THEN 3 ELSE 2)
      /\ "real" = (IF complex THEN "complex" ELSE "real")
  OBVIOUS
<1>1. CASE IsWrdata
  <2>1. SweepRead(r) = Wrdata(file, 2)
    BY <1>1 DEF SweepRead
  <2>2. Wrdata(file, 2).status = "ok"
    BY <2>1
  <2> HIDE DEF file, complex
  <2>3. Wrdata(file, 2).value = w
    BY <1>0, <2>2, WrdataReads
  <2> QED BY <2>1, <2>3
<1>2. CASE ~IsWrdata
  <2>1. SweepRead(r) = Dispatch(input.format, file, ascii, lib)
    BY <1>2 DEF SweepRead, ReadDcSweep, ResultFile, ResultDir
  <2> HIDE DEF file, ascii, lib, complex
  <2>2. SweepRead(r) = ascii \/ SweepRead(r) = lib
    BY <2>1, Dispatched
  <2>3. CASE SweepRead(r) = ascii
    BY <1>0, <2>3, AsciiWaveReads DEF ascii
  <2>4. CASE SweepRead(r) = lib
    <3>1. lib = LibWave(file, r.signal, "real") /\ lib.status = "ok"
      BY <2>4, LibSweepReads DEF lib
    <3>2. LibWave(file, r.signal, "real").status = "ok"
      BY <3>1
    <3>3. LibWave(file, r.signal, "real").value = w
      BY <1>0, <3>2, LibWaveReads
    <3> QED BY <2>4, <3>1, <3>3
  <2> QED BY <2>2, <2>3, <2>4
<1> QED BY <1>1, <1>2

LEMMA AcReads ==
  ASSUME NEW S, NEW w \in Curves(S), NEW r, AcRead(r).status = "ok",
         Holds(ResultFile(input, r), "freq", r.signal, TRUE, w)
  PROVE  AcRead(r).value = w
<1> DEFINE complex == TRUE
           file == ResultFile(input, r)
           ascii == AsciiWave(file, "freq", r.signal, complex)
           lib == LibWave(file, r.signal, "complex")
<1>0. Holds(file, "freq", r.signal, complex, w) /\ w \in Curves(S)
      /\ complex \in BOOLEAN /\ 3 = (IF complex THEN 3 ELSE 2)
      /\ "complex" = (IF complex THEN "complex" ELSE "real")
  OBVIOUS
<1>1. CASE IsWrdata
  <2>1. AcRead(r) = Wrdata(file, 3)
    BY <1>1 DEF AcRead
  <2>2. Wrdata(file, 3).status = "ok"
    BY <2>1
  <2> HIDE DEF file, complex
  <2>3. Wrdata(file, 3).value = w
    BY <1>0, <2>2, WrdataReads
  <2> QED BY <2>1, <2>3
<1>2. CASE ~IsWrdata
  <2>1. AcRead(r) = Dispatch(input.format, file, ascii, lib)
    BY <1>2 DEF AcRead, ReadAcResponse, ResultFile, ResultDir
  <2> HIDE DEF file, ascii, lib, complex
  <2>2. AcRead(r) = ascii \/ AcRead(r) = lib
    BY <2>1, Dispatched
  <2>3. CASE AcRead(r) = ascii
    BY <1>0, <2>3, AsciiWaveReads DEF ascii
  <2>4. CASE AcRead(r) = lib
    BY <1>0, <2>4, LibWaveReads DEF lib
  <2> QED BY <2>2, <2>3, <2>4
<1> QED BY <1>1, <1>2

LEMMA TranReads ==
  ASSUME NEW S, NEW w \in Curves(S), NEW r, TranRead(r).status = "ok",
         Holds(ResultFile(input, r), "time", r.signal, FALSE, w)
  PROVE  TranRead(r).value = w
<1> DEFINE complex == FALSE
           file == ResultFile(input, r)
           ascii == AsciiWave(file, "time", r.signal, complex)
           lib == LibTran(ResultDir, Filename(input, r), r.signal)
<1>0. Holds(file, "time", r.signal, complex, w) /\ w \in Curves(S)
      /\ complex \in BOOLEAN /\ 2 = (IF complex THEN 3 ELSE 2)
      /\ "real" = (IF complex THEN "complex" ELSE "real")
  OBVIOUS
<1>1. CASE IsWrdata
  <2>1. TranRead(r) = Wrdata(file, 2)
    BY <1>1 DEF TranRead
  <2>2. Wrdata(file, 2).status = "ok"
    BY <2>1
  <2> HIDE DEF file, complex
  <2>3. Wrdata(file, 2).value = w
    BY <1>0, <2>2, WrdataReads
  <2> QED BY <2>1, <2>3
<1>2. CASE ~IsWrdata
  <2>1. TranRead(r) = Dispatch(input.format, file, ascii, lib)
    BY <1>2 DEF TranRead, ReadTranWaveform, ResultFile, ResultDir
  <2> HIDE DEF file, ascii, lib, complex
  <2>2. TranRead(r) = ascii \/ TranRead(r) = lib
    BY <2>1, Dispatched
  <2>3. CASE TranRead(r) = ascii
    BY <1>0, <2>3, AsciiWaveReads DEF ascii
  <2>4. CASE TranRead(r) = lib
    <3>1. lib = LibWave(file, r.signal, "real") /\ lib.status = "ok"
      BY <2>4, LibTranReads DEF lib, file, ResultFile, ResultDir
    <3>2. LibWave(file, r.signal, "real").status = "ok"
      BY <3>1
    <3>3. LibWave(file, r.signal, "real").value = w
      BY <1>0, <3>2, LibWaveReads
    <3> QED BY <2>4, <3>1, <3>3
  <2> QED BY <2>2, <2>3, <2>4
<1> QED BY <1>1, <1>2

-------------------------------------------------------------------------------
(* What a request adds.                                                    *)

IsSequence(s) == Len(s) \in Nat /\ s = [i \in 1..Len(s) |-> s[i]]

LEMMA Concatenation ==
  ASSUME NEW s, NEW t, IsSequence(s), IsSequence(t)
  PROVE  /\ IsSequence(s \o t) /\ Len(s \o t) = Len(s) + Len(t)
         /\ \A i \in 1..Len(s) : (s \o t)[i] = s[i]
         /\ \A i \in 1..Len(t) : (s \o t)[Len(s) + i] = t[i]
<1> DEFINE S == {s[i] : i \in 1..Len(s)} \cup {t[i] : i \in 1..Len(t)}
<1>1. s \in Seq(S)
  <2> DEFINE n == Len(s)
  <2>1. n \in Nat /\ s \in [1..n -> S]
    BY DEF IsSequence
  <2> HIDE DEF n, S
  <2> QED BY <2>1
<1>2. t \in Seq(S)
  <2> DEFINE n == Len(t)
  <2>1. n \in Nat /\ t \in [1..n -> S]
    BY DEF IsSequence
  <2> HIDE DEF n, S
  <2> QED BY <2>1
<1> HIDE DEF S
<1>3. s \o t \in Seq(S) /\ Len(s \o t) = Len(s) + Len(t)
  BY <1>1, <1>2
<1>4. IsSequence(s \o t)
  <2> DEFINE u == s \o t
  <2>1. u \in Seq(S)
    BY <1>3
  <2> HIDE DEF u
  <2>2. Len(u) \in Nat /\ u = [i \in 1..Len(u) |-> u[i]]
    BY <2>1
  <2> QED BY <2>2 DEF IsSequence, u
<1>5. \A i \in 1..Len(s) : (s \o t)[i] = s[i]
  BY <1>1, <1>2
<1>6. \A i \in 1..Len(t) : (s \o t)[Len(s) + i] = t[i]
  BY <1>1, <1>2
<1> QED BY <1>3, <1>4, <1>5, <1>6

\* The least of a set of positions is one of them.
LEMMA MinOfPositions ==
  ASSUME NEW T, T \subseteq Nat, T # {}
  PROVE  Min(T) \in T /\ \A i \in T : Min(T) <= i
BY Least DEF Min

\* The first value that failed is one, if there is any.
LEMMA FirstFailedIs ==
  ASSUME NEW s
  PROVE  \/ FirstFailed(s) = 0 /\ \A i \in 1..Len(s) : s[i].status = "ok"
         \/ FirstFailed(s) \in 1..Len(s) /\ s[FirstFailed(s)].status # "ok"
<1> DEFINE T == {i \in 1..Len(s) : s[i].status # "ok"}
<1>1. FirstFailed(s) = IF T # {} THEN Min(T) ELSE 0
  BY Zenon DEF FirstFailed, SelectInSeq
<1>2. T # {} => Min(T) \in T
  <2>1. T \subseteq Nat
    OBVIOUS
  <2> HIDE DEF T
  <2> QED BY <2>1, MinOfPositions
<1> QED BY <1>1, <1>2

LEMMA FirstUnsettledIs ==
  ASSUME NEW s
  PROVE  \/ FirstUnsettled(s) = 0
         \/ FirstUnsettled(s) \in 1..Len(s) /\ s[FirstUnsettled(s)].status # "ok"
<1> DEFINE T == {i \in 1..Len(s) : s[i].status # "ok" /\ s[i].name = "settling_time_s"}
<1>1. FirstUnsettled(s) = IF T # {} THEN Min(T) ELSE 0
  BY Zenon DEF FirstUnsettled, SelectInSeq
<1>2. T # {} => Min(T) \in T
  <2>1. T \subseteq Nat
    OBVIOUS
  <2> HIDE DEF T
  <2> QED BY <2>1, MinOfPositions
<1> QED BY <1>1, <1>2

\* Where the number of a value that is ok comes from: a read of its request that
\* succeeded, and what is derived from it.
FromRead(v) ==
    LET r == input.requests[v.of]
        dc == ReadDcValue(ResultDir, r.signal, input.format)
        x == SweepRead(r).value.x
        settled == Settled(r, TranRead(r).value)
    IN  \/ r.kind = "dc" /\ ~IsWrdata /\ dc.status = "ok" /\ v.value = dc.value
        \/ /\ r.kind = "dc_sweep" /\ SweepRead(r).status = "ok"
           /\ \/ v.name = "_first" /\ v.value = x[1]
              \/ v.name = "_last" /\ v.value = x[Len(x)]
              \/ v.name = "_points" /\ v.value = Len(x)
        \/ /\ r.kind = "ac" /\ AcCrossing(r).status = "ok"
           /\ \/ v.name = "ugbw_hz" /\ v.value = AcCrossing(r).value.ugbw
              \/ v.name = "phase_margin_deg" /\ v.value = AcCrossing(r).value.margin
        \/ /\ r.kind = "tran" /\ TranRead(r).status = "ok" /\ settled.status = "ok"
           /\ v.name = "settling_time_s" /\ v.value = settled.value

\* A value as it is added for the request under way.
Answer(v) ==
    /\ v.of = next /\ v.status \in MetricsStatuses
    /\ v.status = "ok" <=> "value" \in DOMAIN v
    /\ v.status = "ok" => FromRead(v)

\* Values that answer the request under way, all of those it asks for or a failed one.
Answered(new) ==
    /\ IsSequence(new)
    /\ \A i \in 1..Len(new) : Answer(new[i])
    /\ (\A i \in 1..Len(new) : new[i].status = "ok") => Len(new) = Expected(Request)

LEMMA FailedIsAnswer ==
  ASSUME NEW name, NEW s \in MetricsStatuses \ {"ok"}
  PROVE  Answer(FailedMetric(name, s)) /\ FailedMetric(name, s).status # "ok"
<1> DEFINE v == FailedMetric(name, s)
<1>1. v.of = next /\ v.status = s /\ DOMAIN v = {"of", "name", "status"}
  BY DEF FailedMetric
<1> HIDE DEF v
<1>2. "value" \notin DOMAIN v /\ v.status # "ok" /\ v.status \in MetricsStatuses
  BY <1>1
<1> QED BY <1>1, <1>2 DEF Answer, v

LEMMA FailedReadIsAnswer ==
  ASSUME NEW name, NEW read, read.status # "ok"
  PROVE  Answer(FailedRead(name, read)) /\ FailedRead(name, read).status # "ok"
<1>1. MapReadStatus(read.status) \in MetricsStatuses \ {"ok"}
  BY DEF MapReadStatus, MetricsStatuses
<1> QED BY <1>1, FailedIsAnswer DEF FailedRead

LEMMA ValueIsAnswer ==
  ASSUME NEW name, NEW n, FromRead(Value(name, n))
  PROVE  Answer(Value(name, n))
<1> DEFINE v == Value(name, n)
<1>1. v.of = next /\ v.status = "ok" /\ "value" \in DOMAIN v
  BY DEF Value
<1> HIDE DEF v
<1> QED BY <1>1 DEF Answer, MetricsStatuses, v

LEMMA ValueHas ==
  ASSUME NEW name, NEW n
  PROVE  /\ Value(name, n).of = next /\ Value(name, n).name = name
         /\ Value(name, n).status = "ok" /\ Value(name, n).value = n
BY DEF Value

\* A single failed value answers any request.
LEMMA OneFailed ==
  ASSUME NEW v, Answer(v), v.status # "ok"
  PROVE  Answered(<<v>>)
<1> DEFINE s == <<v>>
<1>1. Len(s) = 1 /\ s[1] = v /\ s = [i \in 1..Len(s) |-> s[i]]
  OBVIOUS
<1> HIDE DEF s
<1>2. \A i \in 1..Len(s) : s[i] = v
  BY <1>1
<1>3. IsSequence(s)
  BY <1>1 DEF IsSequence
<1>4. ~ \A i \in 1..Len(s) : s[i].status = "ok"
  BY <1>1
<1>5. Answered(s)
  BY <1>2, <1>3, <1>4 DEF Answered
<1> QED BY <1>5 DEF s

\* Each kind of request is answered.
LEMMA RejectAnswers ==
  ASSUME RejectUnnamed
  PROVE  \E new : Answered(new) /\ Outcome(new)
<1>1. Answered(<<FailedMetric("", "read_failed")>>)
  <2> DEFINE v == FailedMetric("", "read_failed")
  <2>1. Answer(v) /\ v.status # "ok"
    BY FailedIsAnswer DEF MetricsStatuses
  <2> HIDE DEF v
  <2>2. Answered(<<v>>)
    BY <2>1, OneFailed
  <2> QED BY <2>2 DEF v
<1>2. Outcome(<<FailedMetric("", "read_failed")>>)
  BY DEF RejectUnnamed
<1> QED BY <1>1, <1>2, Zenon

\* A value that is ok, alone.
LEMMA OneValue ==
  ASSUME NEW v, Answer(v), Expected(Request) = 1
  PROVE  Answered(<<v>>)
<1> DEFINE s == <<v>>
<1>1. Len(s) = 1 /\ s[1] = v /\ s = [i \in 1..Len(s) |-> s[i]]
  OBVIOUS
<1> HIDE DEF s
<1>2. \A i \in 1..Len(s) : s[i] = v
  BY <1>1
<1>3. IsSequence(s)
  BY <1>1 DEF IsSequence
<1>4. Answered(s)
  BY <1>1, <1>2, <1>3 DEF Answered
<1> QED BY <1>4 DEF s

LEMMA DcAnswers ==
  ASSUME ExtractDcValue
  PROVE  \E new : Answered(new) /\ Outcome(new)
<1> DEFINE read == ReadDcValue(ResultDir, Request.signal, input.format)
           v == CASE IsWrdata -> FailedMetric(Request.signal, "read_failed")
                  [] ~IsWrdata /\ read.status # "ok" -> FailedRead(Request.signal, read)
                  [] OTHER -> Value(Request.signal, read.value)
<1>1. Request.kind = "dc" /\ Outcome(<<v>>)
  BY DEF ExtractDcValue, Requested
<1>2. Expected(Request) = 1
  BY <1>1 DEF Expected
<1> HIDE DEF read
<1>3. Answer(v)
  <2>1. CASE IsWrdata
    <3>1. v = FailedMetric(Request.signal, "read_failed")
      BY <2>1, Zenon
    <3>2. "read_failed" \in MetricsStatuses \ {"ok"}
      BY DEF MetricsStatuses
    <3> QED BY <3>1, <3>2, FailedIsAnswer
  <2>2. CASE ~IsWrdata /\ read.status # "ok"
    <3>1. v = FailedRead(Request.signal, read)
      BY <2>2, Zenon
    <3> QED BY <2>2, <3>1, FailedReadIsAnswer
  <2>3. CASE ~IsWrdata /\ read.status = "ok"
    <3>1. v = Value(Request.signal, read.value)
      BY <2>3, Zenon
    <3> HIDE DEF v
    <3>2. v.of = next /\ v.value = read.value
      BY <3>1, ValueHas
    <3>3. FromRead(v)
      BY <1>1, <2>3, <3>2 DEF FromRead, Request, read
    <3> QED BY <3>1, <3>3, ValueIsAnswer
  <2> QED BY <2>1, <2>2, <2>3
<1> HIDE DEF v
<1> QED BY <1>1, <1>2, <1>3, OneValue

LEMMA SweepAnswers ==
  ASSUME ExtractDcSweep
  PROVE  \E new : Answered(new) /\ Outcome(new)
<1> DEFINE read == SweepRead(Request)
           unnamed == FailedMetric(Request.signal, "read_failed")
           failed == FailedRead(Request.signal, read)
           new == CASE Request.sweep = "" -> <<unnamed>>
                    [] Request.sweep # "" /\ read.status # "ok" -> <<failed>>
                    [] OTHER -> SweepValues(read.value)
<1>1. Request.kind = "dc_sweep" /\ Outcome(new)
  BY DEF ExtractDcSweep, Requested
<1>2. Expected(Request) = 3
  BY <1>1 DEF Expected
<1>3. Answered(new)
  <2>1. CASE Request.sweep = ""
    <3>1. new = <<unnamed>>
      BY <2>1, Zenon
    <3>2. Answer(unnamed) /\ unnamed.status # "ok"
      BY FailedIsAnswer DEF MetricsStatuses
    <3> HIDE DEF new, unnamed, failed
    <3> QED BY <3>1, <3>2, OneFailed
  <2>2. CASE Request.sweep # "" /\ read.status # "ok"
    <3>1. new = <<failed>>
      BY <2>2, Zenon
    <3> HIDE DEF read
    <3>2. Answer(failed) /\ failed.status # "ok"
      BY <2>2, FailedReadIsAnswer
    <3> HIDE DEF new, unnamed, failed
    <3> QED BY <3>1, <3>2, OneFailed
  <2>3. CASE Request.sweep # "" /\ read.status = "ok"
    <3> DEFINE x == read.value.x
               a == Value("_first", x[1])
               b == Value("_last", x[Len(x)])
               c == Value("_points", Len(x))
    <3>1. new = SweepValues(read.value)
      BY <2>3, Zenon
    <3>2. SweepValues(read.value) = <<a, b, c>>
      BY DEF SweepValues
    <3> HIDE DEF new
    <3>3. FromRead(a) /\ FromRead(b) /\ FromRead(c)
      <4>1. a.of = next /\ a.name = "_first" /\ a.value = SweepRead(Request).value.x[1]
        BY ValueHas
      <4>2. b.of = next /\ b.name = "_last"
              /\ b.value = SweepRead(Request).value.x[Len(SweepRead(Request).value.x)]
        BY ValueHas
      <4>3. c.of = next /\ c.name = "_points" /\ c.value = Len(SweepRead(Request).value.x)
        BY ValueHas
      <4>4. SweepRead(Request).status = "ok"
        BY <2>3
      <4> HIDE DEF a, b, c
      <4> QED BY <1>1, <4>1, <4>2, <4>3, <4>4 DEF FromRead, Request
    <3>4. Answer(a) /\ Answer(b) /\ Answer(c)
      BY <3>3, ValueIsAnswer
    <3> HIDE DEF a, b, c
    <3> DEFINE s == <<a, b, c>>
    <3>5. Len(s) = 3 /\ s[1] = a /\ s[2] = b /\ s[3] = c /\ s = [i \in 1..Len(s) |-> s[i]]
      OBVIOUS
    <3>6. new = s
      BY <3>1, <3>2
    <3> HIDE DEF s
    <3>7. \A i \in 1..Len(s) : i = 1 \/ i = 2 \/ i = 3
      BY <3>5
    <3>8. \A i \in 1..Len(s) : Answer(s[i])
      BY <3>4, <3>5, <3>7
    <3>9. IsSequence(s)
      BY <3>5 DEF IsSequence
    <3> QED BY <1>2, <3>5, <3>6, <3>8, <3>9 DEF Answered
  <2> QED BY <2>1, <2>2, <2>3
<1> QED BY <1>1, <1>3, Zenon

\* The derived metrics of a request, one value for each.
LEMMA OneForEach ==
  ASSUME NEW n \in Nat, NEW s, s = [i \in 1..n |-> s[i]]
  PROVE  IsSequence(s) /\ Len(s) = n
BY DEF IsSequence

LEMMA AcAnswers ==
  ASSUME ExtractAc, Len(Request.derived) \in Nat
  PROVE  \E new : Answered(new) /\ Outcome(new)
<1> DEFINE crossing == AcCrossing(Request)
           n == Len(Request.derived)
           unnamed == FailedMetric(Request.signal, "read_failed")
           failed == FailedRead(Request.signal, crossing)
           all == [i \in 1..n |-> AcValue(Request.derived[i])]
           new == CASE Request.derived = <<>> -> <<unnamed>>
                    [] Request.derived # <<>> /\ crossing.status # "ok" -> <<failed>>
                    [] OTHER -> all
<1>1. Request.kind = "ac" /\ Outcome(new)
  BY DEF ExtractAc, Requested
<1>2. Expected(Request) = n
  BY <1>1 DEF Expected
<1>3. Answered(new)
  <2>1. CASE Request.derived = <<>>
    <3>1. new = <<unnamed>>
      BY <2>1, Zenon
    <3>2. Answer(unnamed) /\ unnamed.status # "ok"
      BY FailedIsAnswer DEF MetricsStatuses
    <3> HIDE DEF new, unnamed
    <3> QED BY <3>1, <3>2, OneFailed
  <2>2. CASE Request.derived # <<>> /\ crossing.status # "ok"
    <3>1. new = <<failed>>
      BY <2>2, Zenon
    <3> HIDE DEF crossing
    <3>2. Answer(failed) /\ failed.status # "ok"
      BY <2>2, FailedReadIsAnswer
    <3> HIDE DEF new, failed
    <3> QED BY <3>1, <3>2, OneFailed
  <2>3. CASE Request.derived # <<>> /\ crossing.status = "ok"
    <3>1. new = all
      BY <2>3, Zenon
    <3>2. ASSUME NEW metric PROVE Answer(AcValue(metric))
      <4> DEFINE v == AcValue(metric)
      <4>1. CASE metric = "ugbw"
        <5>1. v = Value("ugbw_hz", crossing.value.ugbw)
          BY <4>1 DEF AcValue
        <5> HIDE DEF v
        <5>2. v.of = next /\ v.name = "ugbw_hz" /\ v.value = crossing.value.ugbw
          BY <5>1, ValueHas
        <5>3. FromRead(v)
          BY <1>1, <2>3, <5>2 DEF FromRead, Request
        <5> QED BY <5>1, <5>3, ValueIsAnswer DEF v
      <4>2. CASE metric = "phase_margin"
        <5>1. v = Value("phase_margin_deg", crossing.value.margin)
          BY <4>2 DEF AcValue
        <5> HIDE DEF v
        <5>2. v.of = next /\ v.name = "phase_margin_deg" /\ v.value = crossing.value.margin
          BY <5>1, ValueHas
        <5>3. FromRead(v)
          BY <1>1, <2>3, <5>2 DEF FromRead, Request
        <5> QED BY <5>1, <5>3, ValueIsAnswer DEF v
      <4>3. CASE metric # "ugbw" /\ metric # "phase_margin"
        <5>1. v = FailedMetric("settling_time_s", "read_failed")
          BY <4>3 DEF AcValue
        <5> QED BY <5>1, FailedIsAnswer DEF MetricsStatuses
      <4> QED BY <4>1, <4>2, <4>3
    <3> HIDE DEF n
    <3>3. \A i \in 1..n : Answer(all[i])
      BY <3>2
    <3>4. n \in Nat /\ all = [i \in 1..n |-> all[i]]
      BY DEF n
    <3> HIDE DEF all
    <3>5. IsSequence(all) /\ Len(all) = n
      BY <3>4, OneForEach
    <3> HIDE DEF new
    <3> QED BY <1>2, <3>1, <3>3, <3>5 DEF Answered
  <2> QED BY <2>1, <2>2, <2>3
<1> QED BY <1>1, <1>3, Zenon

LEMMA TranAnswers ==
  ASSUME ExtractTran, Len(Request.derived) \in Nat
  PROVE  \E new : Answered(new) /\ Outcome(new)
<1> DEFINE read == TranRead(Request)
           w == read.value
           n == Len(Request.derived)
           failed == FailedRead(Request.signal, read)
           all == [i \in 1..n |-> TranValue(Request.derived[i], w)]
           k == FirstUnsettled(all)
<1>1. /\ Request.kind = "tran"
      /\ Outcome(IF read.status # "ok" THEN <<failed>> ELSE TranValues(w))
  BY DEF ExtractTran, Requested
<1>2. Expected(Request) = n
  BY <1>1 DEF Expected
<1>3. CASE read.status # "ok"
  <2>1. Outcome(<<failed>>)
    BY <1>1, <1>3, Zenon
  <2> HIDE DEF read
  <2>2. Answer(failed) /\ failed.status # "ok"
    BY <1>3, FailedReadIsAnswer
  <2> HIDE DEF failed
  <2>3. Answered(<<failed>>)
    BY <2>2, OneFailed
  <2> QED BY <2>1, <2>3, Zenon
<1>4. CASE read.status = "ok"
  <2>1. Outcome(TranValues(w))
    BY <1>1, <1>4, Zenon
  <2>2. TranValues(w) = IF k = 0 THEN all ELSE SubSeq(all, 1, k)
    BY Zenon DEF TranValues
  <2>3. ASSUME NEW metric PROVE Answer(TranValue(metric, w))
    <3> DEFINE v == TranValue(metric, w)
               settled == Settled(Request, w)
    <3>1. v = CASE metric # "settling_time" -> FailedMetric("", "read_failed")
                [] metric = "settling_time" /\ settled.status # "ok" ->
                     FailedRead("settling_time_s", settled)
                [] OTHER -> Value("settling_time_s", settled.value)
      BY DEF TranValue
    <3> HIDE DEF v
    <3>2. CASE metric # "settling_time"
      <4>1. v = FailedMetric("", "read_failed")
        BY <3>1, <3>2, Zenon
      <4>2. "read_failed" \in MetricsStatuses \ {"ok"}
        BY DEF MetricsStatuses
      <4> QED BY <4>1, <4>2, FailedIsAnswer, Zenon DEF v
    <3>3. CASE metric = "settling_time" /\ settled.status # "ok"
      <4> HIDE DEF settled
      <4>1. v = FailedRead("settling_time_s", settled)
        BY <3>1, <3>3, Zenon
      <4> QED BY <3>3, <4>1, FailedReadIsAnswer DEF v
    <3>4. CASE metric = "settling_time" /\ settled.status = "ok"
      <4>1. v = Value("settling_time_s", settled.value)
        BY <3>1, <3>4, Zenon
      <4>2. v.of = next /\ v.name = "settling_time_s" /\ v.value = settled.value
        BY <4>1, ValueHas
      <4>3. FromRead(v)
        BY <1>1, <1>4, <3>4, <4>2 DEF FromRead, Request
      <4> HIDE DEF settled
      <4>4. Answer(v)
        BY <4>1, <4>3, ValueIsAnswer
      <4> QED BY <4>4 DEF v
    <3> QED BY <3>2, <3>3, <3>4
  <2> HIDE DEF n, w
  <2>4. \A i \in 1..n : Answer(all[i])
    BY <2>3
  <2>5. n \in Nat /\ all = [i \in 1..n |-> all[i]]
    BY DEF n
  <2>6. k = 0 \/ (k \in 1..Len(all) /\ all[k].status # "ok")
    <3> HIDE DEF all
    <3> QED BY FirstUnsettledIs
  <2> HIDE DEF all, k
  <2>7. IsSequence(all) /\ Len(all) = n
    BY <2>5, OneForEach
  <2>8. CASE k = 0
    <3>1. Answered(all)
      BY <1>2, <2>4, <2>7 DEF Answered
    <3>2. TranValues(w) = all
      BY <2>2, <2>8
    <3> QED BY <2>1, <3>1, <3>2, Zenon
  <2>9. CASE k # 0
    <3> DEFINE cut == SubSeq(all, 1, k)
    <3>1. k \in 1..n /\ all[k].status # "ok"
      BY <2>6, <2>7, <2>9
    <3>2. cut = [i \in 1..k |-> all[i]]
      <4> DEFINE S == {all[i] : i \in 1..n}
      <4>1. all \in [1..n -> S]
        BY <2>5
      <4> HIDE DEF S
      <4>2. all \in Seq(S)
        BY <2>5, <4>1
      <4> QED BY <2>7, <3>1, <4>2
    <3>3. TranValues(w) = cut
      BY <2>2, <2>9
    <3> HIDE DEF cut
    <3>4. IsSequence(cut) /\ Len(cut) = k
      BY <3>1, <3>2 DEF IsSequence
    <3>5. \A i \in 1..Len(cut) : i \in 1..n /\ cut[i] = all[i]
      BY <2>5, <3>1, <3>2, <3>4
    <3>6. k \in 1..Len(cut) /\ cut[k].status # "ok"
      BY <3>1, <3>4, <3>5
    <3>7. Answered(cut)
      BY <2>4, <3>4, <3>5, <3>6 DEF Answered
    <3> QED BY <2>1, <3>3, <3>7, Zenon
  <2> QED BY <2>8, <2>9
<1> QED BY <1>3, <1>4

-------------------------------------------------------------------------------
(* The outcome.                                                            *)

LEMMA RequestsAre ==
  ASSUME input \in Inputs
  PROVE  /\ Len(input.requests) \in Nat
         /\ \A k \in 1..Len(input.requests) : Len(input.requests[k].derived) \in Nat
<1> DEFINE rs == input.requests
<1>1. rs \in Seq(Requests)
  BY InputsAssumption
<1>2. \A q \in Requests : Len(q.derived) \in Nat
  BY DEF Requests
<1> HIDE DEF rs
<1>3. Len(rs) \in Nat /\ \A k \in 1..Len(rs) : rs[k] \in Requests
  BY <1>1
<1> QED BY <1>2, <1>3 DEF rs

\* As far as the extraction has come, an outcome that is ok has all the values asked for.
Complete ==
    /\ status \in MetricsStatuses
    /\ status = "ok" =>
          \A k \in 1..(next - 1) : Cardinality(Answers(k)) = Expected(input.requests[k])

\* A value of an earlier request; one that is ok was read for it.
Recorded(v) ==
    /\ v.of \in 1..(next - 1) /\ v.status \in MetricsStatuses
    /\ v.status = "ok" <=> "value" \in DOMAIN v
    /\ v.status = "ok" => FromRead(v)

\* Each value was answered for its request alone, so that all of it can be said of the
\* values one by one.
IInv ==
    /\ input \in Inputs
    /\ next \in 1..(Len(input.requests) + 1)
    /\ IsSequence(values)
    /\ \A k \in 1..Len(values) : Recorded(values[k])
    /\ Complete

LEMMA InitIInv == Init => IInv
<1> SUFFICES ASSUME Init PROVE IInv
  OBVIOUS
<1>1. input \in Inputs /\ next = 1 /\ status = "ok" /\ values = <<>>
  BY DEF Init
<1>2. Len(input.requests) \in Nat
  BY <1>1, RequestsAre
<1>3. next \in 1..(Len(input.requests) + 1)
  BY <1>1, <1>2
<1>4. Len(values) = 0 /\ IsSequence(values)
  BY <1>1 DEF IsSequence
<1>5. Complete
  BY <1>1 DEF Complete, MetricsStatuses
<1> QED BY <1>1, <1>3, <1>4, <1>5 DEF IInv

\* Every step answers the request it has come to.
LEMMA StepAnswers ==
  ASSUME IInv, Next
  PROVE  /\ next \in 1..Len(input.requests)
         /\ \E new : Answered(new) /\ Outcome(new)
<1>1. input \in Inputs /\ next \in 1..(Len(input.requests) + 1)
  BY DEF IInv
<1>2. next <= Len(input.requests)
  BY DEF Next, RejectUnnamed, ExtractDcValue, ExtractDcSweep, ExtractAc, ExtractTran, Requested
<1>3. next \in 1..Len(input.requests)
  BY <1>1, <1>2, RequestsAre
<1>4. Len(Request.derived) \in Nat
  BY <1>1, <1>3, RequestsAre DEF Request
<1> QED BY <1>3, <1>4, RejectAnswers, DcAnswers, SweepAnswers, AcAnswers, TranAnswers DEF Next

\* A finite set of successive positions.
LEMMA Positions ==
  ASSUME NEW m \in Nat, NEW n \in Nat
  PROVE  IsFiniteSet((m + 1)..(m + n)) /\ Cardinality((m + 1)..(m + n)) = n
<1>1. /\ IsFiniteSet((m + 1)..(m + n))
      /\ Cardinality((m + 1)..(m + n)) =
            IF m + 1 > m + n THEN 0 ELSE (m + n) - (m + 1) + 1
  BY FS_Interval
<1> QED BY <1>1

LEMMA StepIInv ==
  ASSUME IInv, Next
  PROVE  IInv'
<1>1. next \in 1..Len(input.requests)
  BY StepAnswers
<1>2. PICK new : Answered(new) /\ Outcome(new)
  BY StepAnswers
<1> DEFINE m == Len(values)
           n == Len(new)
<1>3. /\ values' = values \o new /\ next' = next + 1 /\ input' = input
      /\ status' = IF status = "ok" /\ FirstFailed(new) # 0 THEN new[FirstFailed(new)].status
                   ELSE status
  BY <1>2 DEF Outcome
<1>4. IsSequence(values) /\ IsSequence(new) /\ m \in Nat /\ n \in Nat
  BY <1>2 DEF IInv, Answered, IsSequence
<1>5. /\ IsSequence(values') /\ Len(values') = m + n
      /\ \A i \in 1..m : values'[i] = values[i]
      /\ \A i \in 1..n : values'[m + i] = new[i]
  BY <1>3, <1>4, Concatenation
<1> HIDE DEF m, n
<1>6. \A k \in 1..Len(values') : k \in 1..m \/ \E i \in 1..n : k = m + i
  <2> SUFFICES ASSUME NEW k \in 1..Len(values'), k \notin 1..m
               PROVE  \E i \in 1..n : k = m + i
    OBVIOUS
  <2>1. k - m \in 1..n /\ k = m + (k - m)
    BY <1>4, <1>5
  <2> QED BY <2>1
<1>7. input' \in Inputs /\ next' \in 1..(Len(input'.requests) + 1) /\ next \in Nat
  <2>1. input \in Inputs /\ Len(input.requests) \in Nat
    BY RequestsAre DEF IInv
  <2> QED BY <1>1, <1>3, <2>1
<1>8. \A v : FromRead(v)' <=> FromRead(v)
  BY <1>3 DEF FromRead, ResultDir, IsWrdata, SweepRead, AcRead, TranRead, AcCrossing
<1>9. ASSUME NEW k \in 1..Len(values') PROVE Recorded(values[k])'
  <2>1. PICK v : v = values'[k]
    OBVIOUS
  <2>2. ASSUME Recorded(v) PROVE Recorded(v)'
    BY <1>3, <1>7, <1>8, <2>2 DEF Recorded
  <2>3. ASSUME Answer(v) PROVE Recorded(v)'
    <3>1. next \in 1..(next' - 1)
      BY <1>1, <1>3, <1>7
    <3> QED BY <1>8, <2>3, <3>1 DEF Answer, Recorded
  <2>4. CASE k \in 1..m
    <3>1. Recorded(v)
      BY <1>5, <2>1, <2>4 DEF IInv, m
    <3> QED BY <2>1, <2>2, <3>1
  <2>5. ASSUME NEW i \in 1..n, k = m + i PROVE Answer(v)
    BY <1>2, <1>5, <2>1, <2>5 DEF Answered, n
  <2> QED BY <1>6, <2>1, <2>3, <2>4, <2>5
<1>10. Complete'
  <2>1. status' \in MetricsStatuses
    <3>1. \A i \in 1..n : new[i].status \in MetricsStatuses
      BY <1>2 DEF Answered, Answer, n
    <3> QED BY <1>3, <3>1, FirstFailedIs DEF IInv, Complete, n
  <2>2. ASSUME status' = "ok", NEW k \in 1..(next' - 1)
        PROVE  Cardinality(Answers(k)') = Expected(input'.requests[k])
    <3>1. status = "ok" /\ FirstFailed(new) = 0
      <4>1. FirstFailed(new) # 0 => new[FirstFailed(new)].status # "ok"
        BY FirstFailedIs
      <4> QED BY <1>3, <2>2, <4>1
    <3>2. n = Expected(Request)
      <4>1. \A i \in 1..Len(new) : new[i].status = "ok"
        BY <3>1, FirstFailedIs
      <4> QED BY <1>2, <4>1 DEF Answered, n
    <3>3. Answers(k)' = {v \in 1..Len(values') : values'[v].of = k}
      BY DEF Answers
    <3>4. \A i \in 1..n : values'[m + i].of = next
      BY <1>2, <1>5 DEF Answered, Answer, n
    <3>5. \A i \in 1..m : values'[i].of = values[i].of /\ values[i].of \in 1..(next - 1)
      BY <1>5 DEF IInv, Recorded, m
    <3>6. CASE k = next
      <4>1. Answers(k)' = (m + 1)..(m + n)
        <5>1. \A v \in 1..m : values'[v].of # next
          BY <1>7, <3>5
        <5>2. ASSUME NEW v \in (m + 1)..(m + n) PROVE v \in 1..Len(values') /\ values'[v].of = k
          <6>1. v - m \in 1..n /\ v = m + (v - m)
            BY <1>4
          <6>2. values'[v].of = next
            BY <3>4, <6>1
          <6> QED BY <1>4, <1>5, <3>6, <6>2
        <5>3. ASSUME NEW v \in 1..Len(values'), values'[v].of = k
              PROVE  v \in (m + 1)..(m + n)
          <6>1. v \notin 1..m
            BY <3>6, <5>1, <5>3
          <6> QED BY <1>4, <1>5, <6>1
        <5> QED BY <3>3, <5>2, <5>3
      <4> QED BY <1>3, <1>4, <3>2, <3>6, <4>1, Positions DEF Request
    <3>7. CASE k # next
      <4>1. k \in 1..(next - 1)
        BY <1>3, <1>7, <3>7
      <4>2. Answers(k)' = Answers(k)
        <5>1. \A i \in 1..n : values'[m + i].of # k
          BY <3>4, <3>7
        <5>2. ASSUME NEW v \in 1..Len(values'), values'[v].of = k
              PROVE  v \in 1..m /\ values[v].of = k
          <6>1. v \in 1..m
            BY <1>6, <5>1, <5>2
          <6> QED BY <1>5, <5>2, <6>1
        <5>3. ASSUME NEW v \in 1..m, values[v].of = k
              PROVE  v \in 1..Len(values') /\ values'[v].of = k
          BY <1>4, <1>5, <5>3
        <5>4. Answers(k) = {v \in 1..m : values[v].of = k}
          BY DEF Answers, m
        <5> QED BY <3>3, <5>2, <5>3, <5>4
      <4>3. Cardinality(Answers(k)) = Expected(input.requests[k])
        BY <3>1, <4>1 DEF IInv, Complete
      <4> QED BY <1>3, <4>2, <4>3
    <3> QED BY <3>6, <3>7
  <2> QED BY <2>1, <2>2 DEF Complete
<1> QED BY <1>5, <1>7, <1>9, <1>10 DEF IInv

LEMMA StutterIInv ==
  ASSUME IInv, UNCHANGED vars
  PROVE  IInv'
<1>1. input' = input /\ next' = next /\ status' = status /\ values' = values
  BY DEF vars
<1>2. \A v : Recorded(v)' <=> Recorded(v)
  BY <1>1 DEF Recorded, FromRead, ResultDir, IsWrdata, SweepRead, AcRead, TranRead, AcCrossing
<1>3. ASSUME NEW k \in 1..Len(values') PROVE Recorded(values[k])'
  <2>1. PICK v : v = values[k]
    OBVIOUS
  <2>2. Recorded(v)'
    BY <1>1, <1>2, <2>1 DEF IInv
  <2> QED BY <1>1, <2>1, <2>2
<1>4. \A k : Answers(k)' = Answers(k)
  BY <1>1 DEF Answers
<1>5. Complete'
  BY <1>1, <1>4 DEF IInv, Complete
<1> QED BY <1>1, <1>3, <1>5 DEF IInv

LEMMA IInvHolds == Spec => []IInv
BY InitIInv, StepIInv, StutterIInv, PTL DEF Spec

-------------------------------------------------------------------------------
(* The theorems of an extraction.                                          *)

\* Whatever is extracted from whichever directory, every variable keeps to its domain,
\* a value says which request of this extraction it answers and has a number exactly if it
\* is ok.
THEOREM ExtractionTypeOK == Spec => []TypeOK
<1>1. IInv => TypeOK
  BY DEF IInv, TypeOK, Recorded, Complete
<1> QED BY <1>1, IInvHolds, PTL

\* However many requests there are and whichever of them fail, an outcome of
\* extract_metrics that is ok has every value that was asked for: merge_status loses no
\* failure, and no value that failed is left out.
THEOREM OkOutcomesAreComplete == Spec => []OkIsComplete
<1>1. IInv => OkIsComplete
  BY DEF IInv, Complete, OkIsComplete
<1> QED BY <1>1, IInvHolds, PTL

\* A value that is ok, of a signal the simulator wrote: where it comes from.
LEMMA OkValue ==
  ASSUME IInv, NEW kind, NEW name, NEW v \in OkValues(kind, name)
  PROVE  /\ v.of \in 1..Len(input.requests) /\ input.requests[v.of].kind = kind
         /\ v.name = name /\ v.status = "ok" /\ FromRead(v)
         /\ Wrote(input, input.requests[v.of], Truth(v))
<1>1. PICK k \in 1..Len(values) :
        /\ v = values[k] /\ values[k].name = name /\ values[k].status = "ok"
        /\ input.requests[values[k].of].kind = kind /\ Known(values[k])
  BY DEF OkValues
<1>2. Recorded(v) /\ Known(v) /\ v.name = name /\ v.status = "ok"
  BY <1>1 DEF IInv
<1>3. v.of \in 1..Len(input.requests)
  <2>1. Len(input.requests) \in Nat /\ next \in 1..(Len(input.requests) + 1)
    BY RequestsAre DEF IInv
  <2>2. v.of \in 1..(next - 1)
    BY <1>2 DEF Recorded
  <2> QED BY <2>1, <2>2
<1>4. Wrote(input, input.requests[v.of], Truth(v))
  BY <1>2, <1>3, InputsAssumption DEF IInv, Known, Truth
<1> QED BY <1>1, <1>2, <1>3, <1>4 DEF Recorded

\* A sweep that was written line by line, through any backend and however short it was cut,
\* is reported with the number and the ends of the samples that are whole.
THEOREM SweepsAreOfWholeSamples == Spec => []SweepIsOfWholeSamples
<1>1. IInv => SweepIsOfWholeSamples
  <2>1. ASSUME IInv, NEW name, NEW v \in OkValues("dc_sweep", name)
        PROVE  LET x == Truth(v).x
               IN  \/ v.name = "_first" /\ v.value = x[1]
                   \/ v.name = "_last" /\ v.value = x[Len(x)]
                   \/ v.name = "_points" /\ v.value = Len(x)
    <3> DEFINE r == input.requests[v.of]
               w == Truth(v)
               x == SweepRead(r).value.x
    <3>1. r.kind = "dc_sweep" /\ FromRead(v) /\ Wrote(input, r, w)
      BY <2>1, OkValue
    <3>2. w \in Curves(Int) /\ Holds(ResultFile(input, r), r.sweep, r.signal, FALSE, w)
      <4> HIDE DEF r, w
      <4> QED BY <3>1, Zenon DEF Wrote
    <3>3. /\ SweepRead(r).status = "ok"
          /\ \/ v.name = "_first" /\ v.value = x[1]
             \/ v.name = "_last" /\ v.value = x[Len(x)]
             \/ v.name = "_points" /\ v.value = Len(x)
      BY <3>1 DEF FromRead
    <3>4. SweepRead(r).value = w
      <4> HIDE DEF r, w
      <4> QED BY <3>2, <3>3, SweepReads
    <3> QED BY <3>3, <3>4
  <2>2. ASSUME IInv, NEW name, NEW v \in OkValues("dc_sweep", name) PROVE v.name = name
    BY <2>2, OkValue
  <2> QED BY <2>1, <2>2 DEF SweepIsOfWholeSamples
<1> QED BY <1>1, IInvHolds, PTL

\* Samples that are finite are samples.
LEMMA FiniteSamples ==
  ASSUME NEW S, NEW s \in Seq(S \cup {NotFinite}), IsFinite(s)
  PROVE  s \in Seq(S)
<1>1. Len(s) \in Nat /\ s = [i \in 1..Len(s) |-> s[i]]
  OBVIOUS
<1>2. \A i \in 1..Len(s) : s[i] \in S
  BY DEF IsFinite
<1> DEFINE n == Len(s)
<1> HIDE DEF n
<1>3. s \in [1..n -> S]
  BY <1>1, <1>2 DEF n
<1> QED BY <1>1, <1>3 DEF n

\* A settling time that is reported is the one of the waveform that was written, whether
\* its target is given or is the last value, and whatever the number of samples.
THEOREM SettlingTimesAreLeast == Spec => []SettlingTimeIsLeast
<1>1. IInv => SettlingTimeIsLeast
  <2> SUFFICES ASSUME IInv, NEW v \in OkValues("tran", "settling_time_s")
               PROVE  LET w == Truth(v)
                          wanted == input.requests[v.of].target
                      IN  IsSettlingTime(w, IF wanted = 0 THEN w.y[Len(w.y)] ELSE wanted,
                                         v.value)
    BY DEF SettlingTimeIsLeast
  <2> DEFINE r == input.requests[v.of]
             w == Truth(v)
             target == Target(r, w)
  <2>1. r.kind = "tran" /\ FromRead(v) /\ Wrote(input, r, w)
    BY OkValue
  <2>2. IsWaveform(w) /\ Holds(ResultFile(input, r), "time", r.signal, FALSE, w)
    <3> HIDE DEF r, w
    <3> QED BY <2>1, Zenon DEF Wrote
  <2>3. /\ TranRead(r).status = "ok" /\ Settled(r, TranRead(r).value).status = "ok"
        /\ v.value = Settled(r, TranRead(r).value).value
    BY <2>1 DEF FromRead
  <2>4. TranRead(r).value = w
    <3>1. w \in Curves(Int)
      BY <2>2 DEF IsWaveform
    <3> HIDE DEF r, w
    <3> QED BY <2>2, <2>3, <3>1, TranReads
  <2>5. SettlingTime(w, target).status = "ok" /\ v.value = SettlingTime(w, target).value
    BY <2>3, <2>4 DEF Settled
  <2> HIDE DEF r, w
  <2>6. /\ Consistent(w) /\ w.x # <<>>
        /\ target # NotFinite /\ IsFinite(w.x) /\ IsFinite(w.y)
    BY <2>5, Fails DEF SettlingTime
  <2>7. Waveform(w)
    <3>1. w.y \in Seq(Int)
      BY <2>2, <2>6, FiniteSamples DEF IsWaveform, Curves
    <3> QED BY <2>2, <2>6, <3>1 DEF IsWaveform, Waveform, Curves
  <2>8. target = IF r.target = 0 THEN w.y[Len(w.y)] ELSE r.target
    <3>1. w.y # <<>>
      BY <2>6, <2>7 DEF Consistent, Waveform
    <3> QED BY <3>1 DEF Target
  <2>9. target \in Int
    <3>1. w.y[Len(w.y)] \in Int
      BY <2>7, WaveformSamples
    <3>2. r.target \in Int \cup {NotFinite}
      <4>1. r \in Requests
        BY OkValue, InputsAssumption DEF IInv, r
      <4> QED BY <4>1 DEF Requests
    <3> QED BY <2>6, <2>8, <3>1, <3>2
  <2>10. IsSettlingTime(w, target, v.value)
    <3> HIDE DEF target
    <3> QED BY <2>5, <2>7, <2>9, SettlingTimeIsLeastTime, NotFiniteAssumption
  <2> QED BY <2>8, <2>10 DEF r, w
<1> QED BY <1>1, IInvHolds, PTL

\* A response whose crossing is found is the one that was written, its view is finite, and
\* it has the samples in decibels and the angles less whole turns.
LEMMA ResponseIsViewed ==
  ASSUME NEW w, IsResponse(w), DeriveAcView(w).status = "ok",
         UgbwAndPhaseMargin(AcView(w)).status = "ok"
  PROVE  /\ DeriveAcView(w).value = AcView(w) /\ View(AcView(w))
         /\ AcView(w).freq = w.x /\ AcView(w).db = Db(w)
         /\ \A i \in 1..Len(w.x) :
               AcView(w).deg[i] = Principal(w.y[i].deg) /\ w.y[i].deg \in Int
<1> DEFINE v == AcView(w)
           n == Len(w.x)
<1>1. /\ Consistent(w) /\ w.x # <<>> /\ IsFinite(w.y)
      /\ \A i \in 1..Len(w.y) : w.y[i] # ZeroSample
      /\ DeriveAcView(w).value = v
  BY Fails DEF DeriveAcView, Success
<1>2. w.x \in Seq(Int) /\ n \in Nat /\ n > 0 /\ Len(w.y) = n /\ Increasing(w.x)
  BY <1>1 DEF IsResponse, Curves, Consistent
<1>3. w.y \in Seq(Polar \cup {ZeroSample})
  BY <1>1, FiniteSamples DEF IsResponse, Curves
<1>4. \A i \in 1..n : w.y[i] \in Polar
  <2> SUFFICES ASSUME NEW i \in 1..n PROVE w.y[i] \in Polar
    OBVIOUS
  <2>1. w.y[i] \in Polar \cup {ZeroSample}
    BY <1>2, <1>3
  <2> QED BY <1>1, <1>2, <2>1
<1>a. \A i \in 1..n : w.y[i].db \in Int \cup {NotFinite} /\ w.y[i].deg \in Int
  BY <1>4 DEF Polar
<1>6. /\ v.freq = w.x
      /\ v.db = [i \in 1..Len(w.y) |-> w.y[i].db]
      /\ v.deg = [i \in 1..Len(w.y) |-> Principal(w.y[i].deg)]
  BY DEF AcView
<1>b. IsFinite(v.db)
  <2>1. Viewable(v)
    <3> HIDE DEF v
    <3> QED BY Fails DEF UgbwAndPhaseMargin, v
  <2> QED BY <2>1 DEF Viewable
<1>5. \A i \in 1..n : w.y[i].db \in Int /\ w.y[i].deg \in Int
  <2> SUFFICES ASSUME NEW i \in 1..n PROVE w.y[i].db # NotFinite
    BY <1>a
  <2>1. i \in 1..Len(v.db) /\ v.db[i] = w.y[i].db
    BY <1>2, <1>6
  <2> QED BY <1>b, <2>1 DEF IsFinite
<1>7. v.db \in Seq(Int) /\ Len(v.db) = n
  BY <1>2, <1>5, <1>6
<1>8. v.deg \in Seq(Int) /\ Len(v.deg) = n
  <2>1. \A i \in 1..n : Principal(w.y[i].deg) \in Int
    BY <1>5 DEF Principal
  <2> QED BY <1>2, <1>6, <2>1
<1> HIDE DEF v
<1>9. View(v)
  BY <1>2, <1>6, <1>7, <1>8 DEF View
<1>10. v.db = Db(w)
  BY <1>6 DEF Db
<1>11. \A i \in 1..n : v.deg[i] = Principal(w.y[i].deg)
  BY <1>2, <1>6
<1> QED BY <1>1, <1>5, <1>6, <1>9, <1>10, <1>11 DEF v

\* What an AC value is: the crossing of the response that was written.
LEMMA AcValueIs ==
  ASSUME IInv, NEW name, NEW v \in OkValues("ac", name)
  PROVE  LET w == Truth(v)
             crossing == UgbwAndPhaseMargin(AcView(w))
         IN  /\ IsResponse(w) /\ DeriveAcView(w).status = "ok" /\ crossing.status = "ok"
             /\ \/ name = "ugbw_hz" /\ v.value = crossing.value.ugbw
                \/ name = "phase_margin_deg" /\ v.value = crossing.value.margin
<1> DEFINE r == input.requests[v.of]
           w == Truth(v)
           read == AcRead(r)
           view == DeriveAcView(read.value)
<1>1. r.kind = "ac" /\ v.name = name /\ FromRead(v) /\ Wrote(input, r, w)
  BY OkValue
<1>2. IsResponse(w) /\ Holds(ResultFile(input, r), "freq", r.signal, TRUE, w)
  <2> HIDE DEF r, w
  <2> QED BY <1>1, Zenon DEF Wrote
<1>3. /\ AcCrossing(r).status = "ok"
      /\ \/ v.name = "ugbw_hz" /\ v.value = AcCrossing(r).value.ugbw
         \/ v.name = "phase_margin_deg" /\ v.value = AcCrossing(r).value.margin
  BY <1>1 DEF FromRead
<1>4. AcCrossing(r) = CASE read.status # "ok" -> read
                        [] read.status = "ok" /\ view.status # "ok" -> view
                        [] OTHER -> UgbwAndPhaseMargin(view.value)
  BY DEF AcCrossing
<1>5. read.status = "ok" /\ view.status = "ok" /\ AcCrossing(r) = UgbwAndPhaseMargin(view.value)
  <2> HIDE DEF read, view, r
  <2>1. read.status = "ok"
    BY <1>3, <1>4, Zenon
  <2>2. view.status = "ok"
    BY <1>3, <1>4, <2>1, Zenon
  <2> QED BY <1>4, <2>1, <2>2, Zenon
<1>6. read.value = w
  <2>1. w \in Curves(Polar \cup {ZeroSample})
    BY <1>2 DEF IsResponse
  <2> HIDE DEF r, w
  <2> QED BY <1>2, <1>5, <2>1, AcReads
<1>7. DeriveAcView(w).status = "ok"
  BY <1>5, <1>6
<1>8. view.value = AcView(w)
  BY <1>6, <1>7, Fails DEF DeriveAcView, Success
<1> QED BY <1>1, <1>2, <1>3, <1>5, <1>7, <1>8

\* A bandwidth that is reported is the one of the response that was written: whatever its
\* length and values, it is where the response first goes below 0 dB.
THEOREM BandwidthsAreFirstCrossings == Spec => []UgbwIsFirstCrossing
<1>1. IInv => UgbwIsFirstCrossing
  <2> SUFFICES ASSUME IInv, NEW v \in OkValues("ac", "ugbw_hz")
               PROVE  IsUnityGainBandwidth(Truth(v).x, Db(Truth(v)), v.value)
    BY DEF UgbwIsFirstCrossing
  <2> DEFINE w == Truth(v)
  <2>1. /\ IsResponse(w) /\ DeriveAcView(w).status = "ok"
        /\ UgbwAndPhaseMargin(AcView(w)).status = "ok"
        /\ v.value = UgbwAndPhaseMargin(AcView(w)).value.ugbw
    BY AcValueIs
  <2> HIDE DEF w
  <2>2. View(AcView(w)) /\ AcView(w).freq = w.x /\ AcView(w).db = Db(w)
    BY <2>1, ResponseIsViewed
  <2>3. IsUnityGainBandwidth(w.x, Db(w), v.value)
    BY <2>1, <2>2, BandwidthIsFirstCrossing
  <2> QED BY <2>3 DEF w
<1> QED BY <1>1, IInvHolds, PTL

\* An angle is t whole turns more than what atan2 gives of it.
TurnsMore(deg, t) == Principal(deg) = deg - 360 * t

LEMMA PrincipalIsAngle ==
  ASSUME NEW deg \in Int
  PROVE  \E t \in Int : TurnsMore(deg, t)
<1> DEFINE a == deg + 179
           r == a % 360
<1>1. a \in Int /\ Principal(deg) = r - 179
  BY DEF Principal
<1> HIDE DEF a
<1>2. r \in Int
  BY <1>1
<1>3. PICK t \in Int : a - r = t * 360
  BY <1>1
<1> HIDE DEF r
<1>4. r = deg + 179 - t * 360
  BY <1>1, <1>2, <1>3 DEF a
<1>5. TurnsMore(deg, t)
  BY <1>1, <1>4 DEF TurnsMore
<1> QED BY <1>5

LEMMA MultipleOf ==
  ASSUME NEW t \in Int, NEW k \in Int, k > 0
  PROVE  (t * k) % k = 0
OBVIOUS

\* A margin that is interpolated between angles g1 and g2, each t whole turns off, at the
\* distances z and u.
Interpolated(margin, g1, g2, t, u, z, den, run) ==
    /\ margin \in Int /\ g1 \in Int /\ g2 \in Int /\ t \in Int /\ u \in Int /\ z \in Int
    /\ den \in Int /\ run \in Int /\ den > 0 /\ run > 0 /\ u + z = den * run
    /\ margin * run = (g1 - 360 * t) * u + (g2 - 360 * t) * z

\* The line through two angles, each t whole turns off, is as many whole turns off.
LEMMA LineOfAngles ==
  ASSUME NEW margin, NEW g1, NEW g2, NEW t, NEW u, NEW z, NEW den, NEW run,
         Interpolated(margin, g1, g2, t, u, z, den, run)
  PROVE  SameAngle(margin * (den * run), (g1 * u + g2 * z) * den, den * (den * run))
<1>0. /\ margin \in Int /\ g1 \in Int /\ g2 \in Int /\ t \in Int /\ u \in Int /\ z \in Int
      /\ den \in Int /\ run \in Int /\ den > 0 /\ run > 0 /\ u + z = den * run
      /\ margin * run = (g1 - 360 * t) * u + (g2 - 360 * t) * z
  BY DEF Interpolated
<1> DEFINE line == g1 * u + g2 * z
           k == 360 * (den * (den * run))
<1>1. line \in Int
  BY <1>0
<1>2. margin * run = line - 360 * t * (den * run)
  <2>1. (g1 - 360 * t) * u + (g2 - 360 * t) * z = line - 360 * t * (u + z)
    BY <1>0
  <2> QED BY <1>0, <2>1
<1> HIDE DEF line
<1>3. k \in Int /\ k > 0
  <2>1. den * run \in Int /\ den * run > 0
    BY <1>0
  <2>2. den * (den * run) \in Int /\ den * (den * run) > 0
    <3> DEFINE m == den * run
    <3> HIDE DEF m
    <3>1. den * m > 0 /\ den * m \in Int
      BY <1>0, <2>1 DEF m
    <3> QED BY <3>1 DEF m
  <2> QED BY <2>2
<1>4. margin * (den * run) - line * den = (-t) * k
  <2>1. margin * (den * run) = (margin * run) * den
    BY <1>0
  <2>2. (line - 360 * t * (den * run)) * den - line * den = (-t) * (360 * (den * (den * run)))
    BY <1>0, <1>1
  <2> QED BY <1>2, <2>1, <2>2
<1>5. (margin * (den * run) - line * den) % k = 0
  <2> HIDE DEF k
  <2>1. -t \in Int /\ ((-t) * k) % k = 0
    BY <1>0, <1>3, MultipleOf
  <2> QED BY <1>4, <2>1
<1> QED BY <1>5 DEF SameAngle, line

\* A bandwidth and a margin are quotients of integers.
LEMMA CrossingIsRational ==
  ASSUME NEW v, View(v)
  PROVE  LET q == UgbwAndPhaseMargin(v).value.ugbw
             m == UgbwAndPhaseMargin(v).value.margin
         IN  q.num \in Int /\ q.den \in Int /\ m.num \in Int /\ m.den \in Int
<1> DEFINE n == Len(v.freq)
           Rational(q) == q.num \in Int /\ q.den \in Int
           crossing == UgbwAndPhaseMargin(v)
<1>1. /\ n \in Nat /\ n > 0
      /\ \A i \in 1..n : v.freq[i] \in Int
      /\ \A i \in 1..n : v.db[i] \in Int
      /\ \A i \in 1..n : v.deg[i] \in Int
      /\ Len(v.db) = n
  BY ViewSamples
<1>2. \A k \in Int : Rational(Whole(k))
  BY DEF Whole, Quotient
<1>3. \A q : Rational(q) => Rational(Plus180(q))
  BY DEF Plus180, Quotient
<1>4. ASSUME NEW s, NEW i \in 2..n, s[i-1] \in Int, s[i] \in Int
      PROVE  Rational(AtCrossing(v, s, i))
  <2> DEFINE a == v.db[i-1]
             b == v.db[i]
             s1 == s[i-1]
             s2 == s[i]
             num == s1 * (a - b) + a * (s2 - s1)
             den == a - b
  <2>1. i - 1 \in 1..n /\ i \in 1..n
    BY <1>1
  <2>2. AtCrossing(v, s, i) = Quotient(num, den)
    BY DEF AtCrossing
  <2>3. a \in Int /\ b \in Int /\ s1 \in Int /\ s2 \in Int
    BY <1>1, <1>4, <2>1
  <2>4. num \in Int /\ den \in Int
    <3> HIDE DEF a, b, s1, s2
    <3> QED BY <2>3
  <2> HIDE DEF num, den
  <2> QED BY <2>2, <2>4 DEF Quotient
<1>5. \A x, y : Crossing(x, y).value.ugbw = x /\ Crossing(x, y).value.margin = y
  BY DEF Crossing, Success
<1>6. CASE Below(v) = {}
  <2>1. crossing = Crossing(Whole(v.freq[n]), Whole(0)) /\ v.freq[n] \in Int
    BY <1>1, <1>6, Cases
  <2> QED BY <1>2, <1>5, <2>1
<1>7. CASE Below(v) # {} /\ FirstBelow(v) = 1
  <2>1. crossing = Crossing(Whole(v.freq[1]), Plus180(Whole(v.deg[1])))
    BY <1>7, Cases
  <2>2. v.freq[1] \in Int /\ v.deg[1] \in Int
    BY <1>1
  <2> HIDE DEF Rational, crossing
  <2> QED BY <1>2, <1>3, <1>5, <2>1, <2>2 DEF Rational, crossing
<1>8. CASE Below(v) # {} /\ FirstBelow(v) > 1
  <2> DEFINE i == FirstBelow(v)
  <2>1. i \in 2..n
    BY <1>1, <1>8, FirstBelowIsFirst
  <2>2. crossing = Crossing(AtCrossing(v, v.freq, i), Plus180(AtCrossing(v, v.deg, i)))
    BY <1>8, Cases
  <2> HIDE DEF i, crossing, Rational
  <2>3. i - 1 \in 1..n /\ i \in 1..n
    BY <1>1, <2>1
  <2>4. Rational(AtCrossing(v, v.freq, i)) /\ Rational(AtCrossing(v, v.deg, i))
    BY <1>1, <1>4, <2>1, <2>3
  <2> QED BY <1>3, <1>5, <2>2, <2>4 DEF Rational, crossing
<1>9. Below(v) = {} \/ FirstBelow(v) = 1 \/ FirstBelow(v) > 1
  BY FirstBelowIsFirst, <1>1
<1> QED BY <1>6, <1>7, <1>8, <1>9

\* The angle of the response at its bandwidth, drawn through the angles that were written,
\* is the margin less 180 degrees, where it does not jump around the crossing.
LEMMA MarginIsTheAngle ==
  ASSUME NEW w, IsResponse(w), DeriveAcView(w).status = "ok",
         UgbwAndPhaseMargin(AcView(w)).status = "ok",
         NEW i \in 1..(Len(w.x) - 1),
         Db(w)[i+1] < 0, \A j \in 1..i : Db(w)[j] >= 0,
         Principal(Deg(w)[i+1]) - Principal(Deg(w)[i]) = Deg(w)[i+1] - Deg(w)[i]
  PROVE  LET q == UgbwAndPhaseMargin(AcView(w)).value.ugbw
             m == UgbwAndPhaseMargin(AcView(w)).value.margin
             den == q.den * (w.x[i+1] - w.x[i])
         IN  SameAngle((m.num - 180 * m.den) * den, LineAt(w.x, Deg(w), q, i) * m.den,
                       m.den * den)
<1> DEFINE v == AcView(w)
           q == UgbwAndPhaseMargin(v).value.ugbw
           m == UgbwAndPhaseMargin(v).value.margin
           n == Len(w.x)
           x1 == w.x[i]
           x2 == w.x[i+1]
           g1 == w.y[i].deg
           g2 == w.y[i+1].deg
           margin == m.num - 180 * m.den
<1>1. /\ View(v) /\ v.freq = w.x /\ v.db = Db(w)
      /\ \A k \in 1..n : v.deg[k] = Principal(w.y[k].deg) /\ w.y[k].deg \in Int
  BY ResponseIsViewed
<1>2. /\ n \in Nat /\ Len(v.db) = n /\ \A k \in 1..n : w.x[k] \in Int
      /\ \A k, l \in 1..n : k < l => w.x[k] < w.x[l]
  BY <1>1, ViewSamples
<1>3. i \in 1..n /\ i + 1 \in 1..n /\ i + 1 \in 2..n /\ (i + 1) - 1 = i
  BY <1>2
<1>4. g1 \in Int /\ g2 \in Int /\ x1 \in Int /\ x2 \in Int /\ x1 < x2
  BY <1>1, <1>2, <1>3
<1>5. Deg(w)[i] = g1 /\ Deg(w)[i+1] = g2
  <2>1. Len(w.y) = n
    BY DEF IsResponse, Curves, Consistent
  <2> QED BY <1>3, <2>1 DEF Deg
<1>6. q.num \in Int /\ q.den \in Int /\ m.num \in Int /\ m.den \in Int
  <2> HIDE DEF v
  <2> QED BY <1>1, CrossingIsRational
<1>7. /\ m.den = q.den /\ m.den > 0
      /\ margin * (x2 - x1) = LineAt(w.x, v.deg, q, i)
  <2> DEFINE k == i + 1
  <2>1. /\ k \in 2..Len(v.freq) /\ v.db[k] < 0
        /\ \A j \in 1..Len(v.freq) : j < k => v.db[j] >= 0
    BY <1>1, <1>2, <1>3
  <2> HIDE DEF k, v
  <2>2. /\ m.den = q.den /\ m.den > 0
        /\ margin * (v.freq[k] - v.freq[k-1]) = LineAt(v.freq, v.deg, q, k-1)
    BY <1>1, <2>1, MarginIsAtTheBandwidth
  <2>3. k - 1 = i /\ k = i + 1
    BY <1>3 DEF k
  <2> QED BY <1>1, <2>2, <2>3
<1>8. PICK t \in Int : Principal(g1) = g1 - 360 * t /\ Principal(g2) = g2 - 360 * t
  <2>0. Principal(g2) - Principal(g1) = g2 - g1
    BY <1>5
  <2> HIDE DEF g1, g2
  <2>1. PICK t \in Int : TurnsMore(g1, t)
    BY <1>4, PrincipalIsAngle
  <2>2. PICK s \in Int : TurnsMore(g2, s)
    BY <1>4, PrincipalIsAngle
  <2>3. s = t
    BY <1>4, <2>0, <2>1, <2>2 DEF TurnsMore
  <2> QED BY <2>1, <2>2, <2>3 DEF TurnsMore
<1>9. LineAt(w.x, v.deg, q, i)
         = (g1 - 360 * t) * (x2 * q.den - q.num) + (g2 - 360 * t) * (q.num - x1 * q.den)
  BY <1>1, <1>3, <1>8 DEF LineAt
<1>10. LineAt(w.x, Deg(w), q, i) = g1 * (x2 * q.den - q.num) + g2 * (q.num - x1 * q.den)
  BY <1>5 DEF LineAt
<1>11. margin \in Int
  <2> HIDE DEF m
  <2> QED BY <1>6
<1> HIDE DEF x1, x2, g1, g2, q, m, v, margin
<1>12. SameAngle(margin * (q.den * (x2 - x1)),
                 (g1 * (x2 * q.den - q.num) + g2 * (q.num - x1 * q.den)) * q.den,
                 q.den * (q.den * (x2 - x1)))
  <2> DEFINE num == q.num
             den == q.den
             run == x2 - x1
             u == x2 * den - num
             z == num - x1 * den
  <2>1. num \in Int /\ den \in Int /\ den > 0
    BY <1>6, <1>7
  <2>2. margin * run = (g1 - 360 * t) * u + (g2 - 360 * t) * z
    BY <1>7, <1>9
  <2> HIDE DEF num, den
  <2>3. u \in Int /\ z \in Int /\ run \in Int /\ run > 0 /\ u + z = den * run
    BY <1>4, <2>1
  <2> HIDE DEF u, z, run
  <2>4. SameAngle(margin * (den * run), (g1 * u + g2 * z) * den, den * (den * run))
    <3>1. Interpolated(margin, g1, g2, t, u, z, den, run)
      BY <1>4, <1>11, <2>1, <2>2, <2>3 DEF Interpolated
    <3> QED BY <3>1, LineOfAngles
  <2> QED BY <2>4 DEF num, den, run, u, z
<1> QED BY <1>7, <1>10, <1>12 DEF x1, x2, q, m, v, margin

\* The margin of a response that starts below 0 dB is of its first angle.
LEMMA MarginFromTheStart ==
  ASSUME NEW w, IsResponse(w), DeriveAcView(w).status = "ok",
         UgbwAndPhaseMargin(AcView(w)).status = "ok", Db(w)[1] < 0
  PROVE  LET m == UgbwAndPhaseMargin(AcView(w)).value.margin
         IN  SameAngle(m.num - 180 * m.den, Deg(w)[1] * m.den, m.den)
<1> DEFINE v == AcView(w)
           m == UgbwAndPhaseMargin(v).value.margin
           g == w.y[1].deg
<1>1. /\ View(v) /\ v.freq = w.x /\ v.db = Db(w)
      /\ \A k \in 1..Len(w.x) : v.deg[k] = Principal(w.y[k].deg) /\ w.y[k].deg \in Int
  BY ResponseIsViewed
<1> HIDE DEF v
<1>2. 1 \in 1..Len(w.x) /\ Len(v.db) = Len(w.x)
  BY <1>1, ViewSamples
<1>3. g \in Int /\ v.deg[1] = Principal(g) /\ Deg(w)[1] = g
  <2>1. Len(w.y) = Len(w.x)
    BY DEF IsResponse, Curves, Consistent
  <2> QED BY <1>1, <1>2, <2>1 DEF Deg
<1>4. Below(v) # {} /\ FirstBelow(v) = 1
  <2>1. 1 \in Below(v)
    BY <1>1, <1>2 DEF Below
  <2>2. FirstBelow(v) \in 1..Len(v.db) /\ ~(1 < FirstBelow(v))
    <3>1. v.db[1] < 0 /\ v.db[1] \in Int
      BY <1>1, <1>2, ViewSamples
    <3> QED BY <1>1, <1>2, <2>1, <3>1, FirstBelowIsFirst
  <2> QED BY <2>1, <2>2
<1>5. m = Plus180(Whole(v.deg[1]))
  BY <1>1, <1>4, Cases DEF Crossing, Success
<1> HIDE DEF g, m
<1>6. m.num = Principal(g) + 180 /\ m.den = 1
  BY <1>3, <1>5 DEF Plus180, Whole, Quotient, Principal
<1>7. PICK t \in Int : TurnsMore(g, t)
  BY <1>3, PrincipalIsAngle
<1>8. (m.num - 180 * m.den) - Deg(w)[1] * m.den = (-t) * 360
  BY <1>3, <1>6, <1>7 DEF TurnsMore
<1>9. ((-t) * 360) % 360 = 0
  BY MultipleOf
<1> QED BY <1>6, <1>8, <1>9 DEF SameAngle, m, v

\* A phase margin that is reported with a bandwidth is 180 degrees more than the angle the
\* response was written with there, whole turns aside.
THEOREM MarginsAreOfTheCrossing == Spec => []MarginIsOfTheCrossing
<1>1. IInv => MarginIsOfTheCrossing
  <2> SUFFICES ASSUME IInv, NEW v \in OkValues("ac", "ugbw_hz"),
                      NEW m \in OkValues("ac", "phase_margin_deg"), v.of = m.of
               PROVE  LET x == Truth(v).x
                          db == Db(Truth(v))
                          deg == Deg(Truth(v))
                          Jumps(i) == Principal(deg[i+1]) - Principal(deg[i])
                                         # deg[i+1] - deg[i]
                      IN  /\ db[1] < 0 =>
                               SameAngle(m.value.num - 180 * m.value.den,
                                         deg[1] * m.value.den, m.value.den)
                          /\ \A i \in 1..(Len(x) - 1) :
                               (db[i+1] < 0 /\ ~Jumps(i) /\ \A j \in 1..i : db[j] >= 0) =>
                                  LET den == v.value.den * (x[i+1] - x[i])
                                  IN  SameAngle((m.value.num - 180 * m.value.den) * den,
                                                LineAt(x, deg, v.value, i) * m.value.den,
                                                m.value.den * den)
    BY ZenonT(60) DEF MarginIsOfTheCrossing
  <2> DEFINE w == Truth(v)
             crossing == UgbwAndPhaseMargin(AcView(w))
  <2>1. /\ IsResponse(w) /\ DeriveAcView(w).status = "ok" /\ crossing.status = "ok"
        /\ v.value = crossing.value.ugbw
    BY AcValueIs
  <2>2. m.value = crossing.value.margin
    <3>1. m.value = UgbwAndPhaseMargin(AcView(Truth(m))).value.margin
      BY AcValueIs
    <3>2. Truth(m) = w
      BY DEF Truth
    <3> QED BY <3>1, <3>2
  <2> HIDE DEF w
  <2>3. Db(w)[1] < 0 =>
           SameAngle(m.value.num - 180 * m.value.den, Deg(w)[1] * m.value.den, m.value.den)
    BY <2>1, <2>2, MarginFromTheStart
  <2>4. ASSUME NEW i \in 1..(Len(w.x) - 1), Db(w)[i+1] < 0,
               \A j \in 1..i : Db(w)[j] >= 0,
               Principal(Deg(w)[i+1]) - Principal(Deg(w)[i]) = Deg(w)[i+1] - Deg(w)[i]
        PROVE  LET den == v.value.den * (w.x[i+1] - w.x[i])
               IN  SameAngle((m.value.num - 180 * m.value.den) * den,
                             LineAt(w.x, Deg(w), v.value, i) * m.value.den,
                             m.value.den * den)
    BY <2>1, <2>2, <2>4, MarginIsTheAngle
  <2> QED BY <2>3, <2>4, Zenon DEF w
<1> QED BY <1>1, IInvHolds, PTL

-------------------------------------------------------------------------------
(* Reading on demand.                                                      *)

\* The file a user reads with the default of a method, or with the name of the request, is
\* the one that was extracted from.
LEMMA SameFilename ==
  ASSUME NEW r, NEW kind \in {"dc_sweep", "ac", "tran"}, r.kind = kind
  PROVE  /\ ~IsWrdata => Or(r.filename, SpectreDefault[kind]) = Filename(input, r)
         /\ IsWrdata /\ r.filename # SpectreDefault[kind] =>
               ChooseFilename(Or(r.filename, SpectreDefault[kind]), SpectreDefault[kind],
                              NgspiceDefault[kind]) = Filename(input, r)
<1>1. Filename(input, r) = CASE r.filename # "" -> r.filename
                             [] r.filename = "" /\ IsWrdata -> NgspiceDefault[kind]
                             [] OTHER -> SpectreDefault[kind]
  BY Zenon DEF Filename, IsWrdata
<1>2. CASE r.filename # ""
  <2>1. Filename(input, r) = r.filename /\ Or(r.filename, SpectreDefault[kind]) = r.filename
    BY <1>1, <1>2, Zenon DEF Or
  <2> QED BY <1>2, <2>1, Zenon DEF ChooseFilename
<1>3. CASE r.filename = ""
  <2>1. Or(r.filename, SpectreDefault[kind]) = SpectreDefault[kind]
    BY <1>3, Zenon DEF Or
  <2>2. ~IsWrdata => Filename(input, r) = SpectreDefault[kind]
    BY <1>1, <1>3, Zenon
  <2>3. IsWrdata => Filename(input, r) = NgspiceDefault[kind]
    BY <1>1, <1>3, Zenon
  <2> QED BY <2>1, <2>2, <2>3, Zenon DEF ChooseFilename
<1> QED BY <1>2, <1>3, Zenon

LEMMA Defaults ==
  /\ SpectreDefault["dc_sweep"] = "dc.dc" /\ NgspiceDefault["dc_sweep"] = "resistor_divider_dc.out"
  /\ SpectreDefault["ac"] = "ac.ac" /\ NgspiceDefault["ac"] = "rc_ac.out"
  /\ SpectreDefault["tran"] = "tran.tran" /\ NgspiceDefault["tran"] = "rc_tran.out"
BY DEF SpectreDefault, NgspiceDefault

\* Reading a file on demand that is as it was, with or without its name, reads what was
\* extracted from.
LEMMA SameRead ==
  ASSUME IInv, input.succeeded, ~SpellsOutDefault,
         NEW k \in 1..Len(input.requests), Untouched(input.requests[k])
  PROVE  LET r == input.requests[k]
         IN  /\ r.kind = "dc" /\ ~IsWrdata =>
                  ReadDc(r.signal) = ReadDcValue(ResultDir, r.signal, input.format)
             /\ r.kind = "dc_sweep" => SweepOnDemand(r) = SweepRead(r)
             /\ r.kind = "ac" => ReadAc(r.signal, Or(r.filename, "ac.ac")) = AcRead(r)
             /\ r.kind = "tran" => ReadTran(r.signal, Or(r.filename, "tran.tran")) = TranRead(r)
<1> DEFINE r == input.requests[k]
           name == Filename(input, r)
<1>1. IsWrdata => ResultDir = input.work.files
  BY InputsAssumption DEF IInv, IsWrdata, ResultDir, ResultDirectory
<1>2. \A kind \in {"dc_sweep", "ac", "tran"} :
         r.kind = kind /\ IsWrdata => r.filename # SpectreDefault[kind]
  <2> SUFFICES ASSUME NEW kind \in {"dc_sweep", "ac", "tran"}, r.kind = kind, IsWrdata,
                      r.filename = SpectreDefault[kind]
               PROVE  FALSE
    OBVIOUS
  <2>1. kind # "dc"
    OBVIOUS
  <2> QED BY <2>1 DEF SpellsOutDefault
<1>3. ResultFile(input, r) = FileAt(ResultDir, name)
  BY DEF ResultFile, ResultDir
<1>4. /\ r.kind # "dc" /\ IsWrdata => FileAt(disk.files, name) = ResultFile(input, r)
      /\ r.kind # "dc" /\ ~IsWrdata => FileAt(DiskDir, name) = ResultFile(input, r)
      /\ r.kind = "dc" /\ ~IsWrdata =>
            FileAt(DiskDir, "dcOp.dc") = FileAt(ResultDir, "dcOp.dc")
      /\ r.kind = "tran" /\ ~IsWrdata =>
            (IsPsfxl(DiskDir, name) <=> IsPsfxl(ResultDir, name))
  BY <1>1, <1>3 DEF Untouched
<1> HIDE DEF r, name
<1>5. r.kind = "dc" /\ ~IsWrdata =>
         ReadDc(r.signal) = ReadDcValue(ResultDir, r.signal, input.format)
  <2> SUFFICES ASSUME r.kind = "dc", ~IsWrdata
               PROVE  ReadDcValue(DiskDir, r.signal, input.format)
                        = ReadDcValue(ResultDir, r.signal, input.format)
    BY Zenon DEF ReadDc
  <2> QED BY <1>4 DEF ReadDcValue
<1>6. ASSUME r.kind = "dc_sweep" PROVE SweepOnDemand(r) = SweepRead(r)
  <2>1. CASE IsWrdata
    <3>1. WrdataFileOf(Or(r.filename, "dc.dc"), "dc.dc", "resistor_divider_dc.out")
             = ResultFile(input, r)
      BY <1>2, <1>4, <1>6, <2>1, SameFilename, Defaults DEF WrdataFileOf, name
    <3> QED BY <2>1, <3>1, Zenon DEF SweepOnDemand, ReadSweep, SweepRead
  <2>2. CASE ~IsWrdata
    <3>1. Or(r.filename, "dc.dc") = name
      BY <1>6, <2>2, SameFilename, Defaults DEF name
    <3>2. ReadDcSweep(DiskDir, r.sweep, r.signal, name, input.format)
             = ReadDcSweep(ResultDir, r.sweep, r.signal, name, input.format)
      BY <1>3, <1>4, <1>6, <2>2 DEF ReadDcSweep
    <3> QED BY <2>2, <3>1, <3>2, Zenon DEF SweepOnDemand, ReadSweep, SweepRead, name
  <2> QED BY <2>1, <2>2
<1>7. ASSUME r.kind = "ac" PROVE ReadAc(r.signal, Or(r.filename, "ac.ac")) = AcRead(r)
  <2>1. CASE IsWrdata
    <3>1. WrdataFileOf(Or(r.filename, "ac.ac"), "ac.ac", "rc_ac.out") = ResultFile(input, r)
      BY <1>2, <1>4, <1>7, <2>1, SameFilename, Defaults DEF WrdataFileOf, name
    <3> QED BY <2>1, <3>1, Zenon DEF ReadAc, AcRead
  <2>2. CASE ~IsWrdata
    <3>1. Or(r.filename, "ac.ac") = name
      BY <1>7, <2>2, SameFilename, Defaults DEF name
    <3>2. ReadAcResponse(DiskDir, r.signal, name, input.format)
             = ReadAcResponse(ResultDir, r.signal, name, input.format)
      BY <1>3, <1>4, <1>7, <2>2 DEF ReadAcResponse
    <3> QED BY <2>2, <3>1, <3>2, Zenon DEF ReadAc, AcRead, name
  <2> QED BY <2>1, <2>2
<1>8. ASSUME r.kind = "tran" PROVE ReadTran(r.signal, Or(r.filename, "tran.tran")) = TranRead(r)
  <2>1. CASE IsWrdata
    <3>1. WrdataFileOf(Or(r.filename, "tran.tran"), "tran.tran", "rc_tran.out")
             = ResultFile(input, r)
      BY <1>2, <1>4, <1>8, <2>1, SameFilename, Defaults DEF WrdataFileOf, name
    <3> QED BY <2>1, <3>1, Zenon DEF ReadTran, TranRead
  <2>2. CASE ~IsWrdata
    <3>1. Or(r.filename, "tran.tran") = name
      BY <1>8, <2>2, SameFilename, Defaults DEF name
    <3>2. ReadTranWaveform(DiskDir, r.signal, name, input.format)
             = ReadTranWaveform(ResultDir, r.signal, name, input.format)
      BY <1>3, <1>4, <1>8, <2>2 DEF ReadTranWaveform, LibTran
    <3> QED BY <2>2, <3>1, <3>2, Zenon DEF ReadTran, TranRead, name
  <2> QED BY <2>1, <2>2
<1> QED BY <1>5, <1>6, <1>7, <1>8 DEF r

\* What is derived from a response or a waveform on demand is what was derived from it.
LEMMA SameAc ==
  ASSUME NEW r, ReadAc(r.signal, Or(r.filename, "ac.ac")) = AcRead(r),
         AcCrossing(r).status = "ok"
  PROVE  DerivedAc(r) = AcCrossing(r)
<1> DEFINE read == AcRead(r)
           view == DeriveAcView(read.value)
<1>1. AcCrossing(r) = CASE read.status # "ok" -> read
                        [] read.status = "ok" /\ view.status # "ok" -> view
                        [] OTHER -> UgbwAndPhaseMargin(view.value)
  BY DEF AcCrossing
<1>2. DerivedAc(r) = IF read.status = "ok" /\ view.status = "ok"
                     THEN UgbwAndPhaseMargin(view.value) ELSE Failure("invalid_input")
  BY DEF DerivedAc
<1> HIDE DEF read, view
<1>3. read.status = "ok" /\ view.status = "ok"
  <2>1. read.status = "ok"
    BY <1>1, Zenon
  <2>2. view.status = "ok"
    BY <1>1, <2>1, Zenon
  <2> QED BY <2>1, <2>2
<1> QED BY <1>1, <1>2, <1>3, Zenon

LEMMA SameTran ==
  ASSUME NEW r, ReadTran(r.signal, Or(r.filename, "tran.tran")) = TranRead(r),
         TranRead(r).status = "ok", Settled(r, TranRead(r).value).status = "ok"
  PROVE  DerivedTran(r) = Settled(r, TranRead(r).value)
<1> DEFINE read == TranRead(r)
           w == read.value
<1>1. DerivedTran(r) = CASE read.status # "ok" -> read
                         [] read.status = "ok" /\ r.target = 0 -> SettlingTime(w, w.y[Len(w.y)])
                         [] OTHER -> SettlingTime(w, r.target)
  BY DEF DerivedTran
<1>2. w.y # <<>>
  <2>1. Consistent(w) /\ w.x # <<>>
    BY Fails DEF Settled, SettlingTime
  <2> QED BY <2>1 DEF Consistent
<1>3. Target(r, w) = IF r.target = 0 THEN w.y[Len(w.y)] ELSE r.target
  BY <1>2 DEF Target
<1> HIDE DEF read, w
<1>4. DerivedTran(r) = SettlingTime(w, IF r.target = 0 THEN w.y[Len(w.y)] ELSE r.target)
  <2>1. read.status = "ok"
    BY DEF read
  <2>2. CASE r.target = 0
    BY <1>1, <2>1, <2>2, Zenon
  <2>3. CASE r.target # 0
    BY <1>1, <2>1, <2>3, Zenon
  <2> QED BY <2>2, <2>3
<1> QED BY <1>3, <1>4 DEF Settled, read, w

\* Every value that is ok can be read again as long as its file is as it was.
LEMMA SameValue ==
  ASSUME IInv, input.succeeded, ~SpellsOutDefault,
         NEW k \in 1..Len(values), values[k].status = "ok",
         Untouched(input.requests[values[k].of])
  PROVE  ReadableOnDemand(values[k]) /\ OnDemand(values[k]) = values[k].value
<1> DEFINE v == values[k]
           r == input.requests[v.of]
           x == SweepOnDemand(r).value.x
<1>1. FromRead(v) /\ v.of \in 1..Len(input.requests)
  <2>1. Recorded(v) /\ v.status = "ok"
    BY DEF IInv
  <2>2. Len(input.requests) \in Nat /\ next \in 1..(Len(input.requests) + 1)
    BY RequestsAre DEF IInv
  <2>3. v.of \in 1..(next - 1)
    BY <2>1 DEF Recorded
  <2> QED BY <2>1, <2>2, <2>3 DEF Recorded
<1>2. /\ r.kind = "dc" /\ ~IsWrdata =>
           ReadDc(r.signal) = ReadDcValue(ResultDir, r.signal, input.format)
      /\ r.kind = "dc_sweep" => SweepOnDemand(r) = SweepRead(r)
      /\ r.kind = "ac" => ReadAc(r.signal, Or(r.filename, "ac.ac")) = AcRead(r)
      /\ r.kind = "tran" => ReadTran(r.signal, Or(r.filename, "tran.tran")) = TranRead(r)
  BY <1>1, SameRead
<1>3. OnDemand(v) =
        CASE r.kind = "dc" -> ReadDc(r.signal).value
          [] r.kind = "dc_sweep" /\ v.name = "_first" -> x[1]
          [] r.kind = "dc_sweep" /\ v.name = "_last" -> x[Len(x)]
          [] r.kind = "dc_sweep" /\ v.name = "_points" -> Len(x)
          [] r.kind = "ac" /\ v.name = "ugbw_hz" -> DerivedAc(r).value.ugbw
          [] r.kind = "ac" /\ v.name = "phase_margin_deg" -> DerivedAc(r).value.margin
          [] OTHER -> DerivedTran(r).value
  BY DEF OnDemand
<1>4. ReadableOnDemand(v) <=>
        CASE r.kind = "dc" -> ReadDc(r.signal).status = "ok"
          [] r.kind = "dc_sweep" -> SweepOnDemand(r).status = "ok"
          [] r.kind = "ac" -> DerivedAc(r).status = "ok"
          [] OTHER -> DerivedTran(r).status = "ok"
  BY DEF ReadableOnDemand
<1> HIDE DEF v, r, x
<1>5. ASSUME r.kind = "dc", ~IsWrdata, ReadDc(r.signal).status = "ok",
             v.value = ReadDc(r.signal).value
      PROVE  ReadableOnDemand(v) /\ OnDemand(v) = v.value
  BY <1>3, <1>4, <1>5, Zenon
<1>6. ASSUME r.kind = "dc_sweep", SweepOnDemand(r).status = "ok",
             \/ v.name = "_first" /\ v.value = x[1]
             \/ v.name = "_last" /\ v.value = x[Len(x)]
             \/ v.name = "_points" /\ v.value = Len(x)
      PROVE  ReadableOnDemand(v) /\ OnDemand(v) = v.value
  <2>1. ReadableOnDemand(v)
    BY <1>4, <1>6, Zenon
  <2>2. CASE v.name = "_first" /\ v.value = x[1]
    BY <1>3, <1>6, <2>1, <2>2, Zenon
  <2>3. CASE v.name = "_last" /\ v.value = x[Len(x)]
    BY <1>3, <1>6, <2>1, <2>3, Zenon
  <2>4. CASE v.name = "_points" /\ v.value = Len(x)
    BY <1>3, <1>6, <2>1, <2>4, Zenon
  <2> QED BY <1>6, <2>2, <2>3, <2>4
<1>7. ASSUME r.kind = "ac", DerivedAc(r).status = "ok",
             \/ v.name = "ugbw_hz" /\ v.value = DerivedAc(r).value.ugbw
             \/ v.name = "phase_margin_deg" /\ v.value = DerivedAc(r).value.margin
      PROVE  ReadableOnDemand(v) /\ OnDemand(v) = v.value
  <2>1. ReadableOnDemand(v)
    BY <1>4, <1>7, Zenon
  <2>2. CASE v.name = "ugbw_hz" /\ v.value = DerivedAc(r).value.ugbw
    BY <1>3, <1>7, <2>1, <2>2, Zenon
  <2>3. CASE v.name = "phase_margin_deg" /\ v.value = DerivedAc(r).value.margin
    BY <1>3, <1>7, <2>1, <2>3, Zenon
  <2> QED BY <1>7, <2>2, <2>3
<1>8. ASSUME r.kind = "tran", DerivedTran(r).status = "ok",
             v.value = DerivedTran(r).value
      PROVE  ReadableOnDemand(v) /\ OnDemand(v) = v.value
  BY <1>3, <1>4, <1>8, Zenon
<1>9. \/ r.kind = "dc" /\ ~IsWrdata /\ ReadDc(r.signal).status = "ok"
            /\ v.value = ReadDc(r.signal).value
      \/ /\ r.kind = "dc_sweep" /\ SweepOnDemand(r).status = "ok"
         /\ \/ v.name = "_first" /\ v.value = x[1]
            \/ v.name = "_last" /\ v.value = x[Len(x)]
            \/ v.name = "_points" /\ v.value = Len(x)
      \/ /\ r.kind = "ac" /\ DerivedAc(r).status = "ok"
         /\ \/ v.name = "ugbw_hz" /\ v.value = DerivedAc(r).value.ugbw
            \/ v.name = "phase_margin_deg" /\ v.value = DerivedAc(r).value.margin
      \/ /\ r.kind = "tran" /\ DerivedTran(r).status = "ok"
         /\ v.value = DerivedTran(r).value
  <2> DEFINE dc == ReadDcValue(ResultDir, r.signal, input.format)
             y == SweepRead(r).value.x
             settled == Settled(r, TranRead(r).value)
  <2>1. \/ r.kind = "dc" /\ ~IsWrdata /\ dc.status = "ok" /\ v.value = dc.value
        \/ /\ r.kind = "dc_sweep" /\ SweepRead(r).status = "ok"
           /\ \/ v.name = "_first" /\ v.value = y[1]
              \/ v.name = "_last" /\ v.value = y[Len(y)]
              \/ v.name = "_points" /\ v.value = Len(y)
        \/ /\ r.kind = "ac" /\ AcCrossing(r).status = "ok"
           /\ \/ v.name = "ugbw_hz" /\ v.value = AcCrossing(r).value.ugbw
              \/ v.name = "phase_margin_deg" /\ v.value = AcCrossing(r).value.margin
        \/ /\ r.kind = "tran" /\ TranRead(r).status = "ok" /\ settled.status = "ok"
           /\ v.value = settled.value
    BY <1>1 DEF FromRead, r
  <2>2. r.kind = "dc_sweep" => x = y
    BY <1>2 DEF x
  <2>3. r.kind = "ac" /\ AcCrossing(r).status = "ok" => DerivedAc(r) = AcCrossing(r)
    BY <1>2, SameAc
  <2>4. r.kind = "tran" /\ TranRead(r).status = "ok" /\ settled.status = "ok" =>
           DerivedTran(r) = settled
    BY <1>2, SameTran
  <2> HIDE DEF dc, y, settled
  <2> QED BY <1>2, <2>1, <2>2, <2>3, <2>4 DEF dc
<1> QED BY <1>5, <1>6, <1>7, <1>8, <1>9 DEF v

\* The first of a name, and the last that is ok, are of the name if there is any.
LEMMA LookedUp ==
  ASSUME IInv, NEW name, ValuesOf(name) # {}
  PROVE  /\ FirstOf(name) \in ValuesOf(name)
         /\ (\E k \in ValuesOf(name) : values[k].status = "ok") =>
               LastOkOf(name) \in ValuesOf(name) /\ values[LastOkOf(name)].status = "ok"
<1> DEFINE T == ValuesOf(name)
           U == {k \in 1..Len(values) : values[k].status = "ok" /\ NameOf(values[k]) = name}
<1>1. T \subseteq 1..Len(values) /\ U \subseteq 1..Len(values) /\ Len(values) \in Nat
  BY DEF ValuesOf, IInv, IsSequence
<1>2. FirstOf(name) = IF T # {} THEN Min(T) ELSE 0
  BY Zenon DEF FirstOf, SelectInSeq, ValuesOf
<1>3. LastOkOf(name) = IF U # {} THEN Max(U) ELSE 0
  BY Zenon DEF LastOkOf, SelectLastInSeq
<1>4. \A k : k \in U <=> k \in T /\ values[k].status = "ok"
  BY DEF ValuesOf
<1> HIDE DEF T, U
<1>5. Min(T) \in T
  <2>1. T \subseteq Nat
    BY <1>1
  <2> QED BY <2>1, MinOfPositions DEF T
<1>6. U # {} => Max(U) \in U
  <2> SUFFICES ASSUME U # {} PROVE Max(U) \in U
    OBVIOUS
  <2>1. PICK k \in U : \A j \in U : j <= k
    <3> DEFINE n == Len(values)
    <3> HIDE DEF n
    <3> QED BY <1>1, Greatest DEF n
  <2>2. \A j \in U : k >= j
    BY <1>1, <2>1
  <2> QED BY <2>2 DEF Max
<1>7. FirstOf(name) \in T
  BY <1>2, <1>5 DEF T
<1>8. ASSUME NEW k \in T, values[k].status = "ok"
      PROVE  LastOkOf(name) \in T /\ values[LastOkOf(name)].status = "ok"
  BY <1>3, <1>4, <1>6, <1>8
<1> QED BY <1>7, <1>8 DEF T

\* Extraction goes on as it does alone, later batches or not.
LEMMA FacadeExtracts == FacadeSpec => Spec
<1>1. FacadeInit => Init
  BY DEF FacadeInit
<1>2. [FacadeNext]_facadeVars => [Next]_vars
  BY DEF FacadeNext, Extract, Overwrite, facadeVars, vars
<1> QED BY <1>1, <1>2, PTL DEF FacadeSpec, Spec

\* What was extracted while the worker was leased is what its user reads as long as no
\* later batch has written its file, with any backend and format, whether or not a request
\* names its file; and looking up a number by name shows an extracted one, whatever later
\* batches write.
THEOREM ExtractedIsOnDemand == FacadeSpec => []ExtractedIsReadOnDemand
<1>1. IInv => ExtractedIsReadOnDemand
  <2> SUFFICES ASSUME IInv
               PROVE  ExtractedIsReadOnDemand
    OBVIOUS
  <2>1. ASSUME input.succeeded, ~SpellsOutDefault,
               NEW k \in 1..Len(values), values[k].status = "ok",
               Untouched(input.requests[values[k].of])
        PROVE  ReadableOnDemand(values[k]) /\ OnDemand(values[k]) = values[k].value
    BY <2>1, SameValue
  <2>2. ASSUME NEW name \in DOMAIN Metrics
        PROVE  \E k \in ValuesOf(name) :
                  values[k].status = "ok" /\ Metrics[name] = Number(values[k].value)
    <3> DEFINE k == LastOkOf(name)
    <3>1. name \in {NameOf(values[i]) : i \in {j \in 1..Len(values) : values[j].status = "ok"}}
      BY <2>2 DEF Metrics
    <3>2. Metrics[name] = Number(values[k].value)
      BY <3>1 DEF Metrics
    <3>3. k \in ValuesOf(name) /\ values[k].status = "ok"
      <4>1. \E i \in ValuesOf(name) : values[i].status = "ok"
        BY <3>1 DEF ValuesOf
      <4> QED BY <4>1, LookedUp
    <3> QED BY <3>2, <3>3
  <2>3. ASSUME NEW name \in {NameOf(values[k]) : k \in 1..Len(values)},
               \A k \in ValuesOf(name) : values[k].status = "ok"
        PROVE  \E k \in ValuesOf(name) : Metric(name) = Number(values[k].value)
    <3> DEFINE k == FirstOf(name)
    <3>1. k \in ValuesOf(name)
      <4>1. ValuesOf(name) # {}
        BY <2>3 DEF ValuesOf
      <4> QED BY <4>1, LookedUp
    <3>2. values[k].status = "ok" /\ k # 0
      BY <2>3, <3>1 DEF ValuesOf
    <3>3. Metric(name) = CASE k = 0 -> None
                           [] k # 0 /\ values[k].status = "ok" -> Number(values[k].value)
                           [] OTHER -> Number(0)
      BY DEF Metric
    <3> HIDE DEF k
    <3>4. Metric(name) = Number(values[k].value)
      BY <3>2, <3>3, Zenon
    <3> QED BY <3>1, <3>4
  <2> QED BY <2>1, <2>2, <2>3, ZenonT(30) DEF ExtractedIsReadOnDemand
<1> QED BY <1>1, IInvHolds, FacadeExtracts, PTL

===============================================================================
