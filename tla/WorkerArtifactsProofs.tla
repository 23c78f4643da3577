------------------------- MODULE WorkerArtifactsProofs ------------------------
(* Proofs about the files of a worker, for any netlist, any batches and    *)
(* any losses while they are copied.                                       *)
EXTENDS WorkerArtifacts, TLAPS

\* A requested format is a format.
LEMMA StartFormatsAreFormats == StartFormats \subseteq Formats
<1>1. ASSUME NEW option \in Formats, NEW named \in SUBSET {"psf_ascii", "bin_psf"}
      PROVE  RequestedFormat(option, named) \in Formats
  <2>1. CASE option # "unknown"
    BY <2>1, Zenon DEF RequestedFormat
  <2>2. CASE option = "unknown" /\ "psf_ascii" \in named
    BY <2>2, Zenon DEF RequestedFormat, Formats
  <2>3. CASE option = "unknown" /\ "psf_ascii" \notin named /\ named = {"bin_psf"}
    BY <2>3, Zenon DEF RequestedFormat, Formats
  <2>4. CASE option = "unknown" /\ "psf_ascii" \notin named /\ named # {"bin_psf"}
    BY <2>4, Zenon DEF RequestedFormat, Formats
  <2>5. QED
    BY <2>1, <2>2, <2>3, <2>4
<1>2. QED
  BY <1>1 DEF StartFormats

\* What the scan declares: a format, and PSFXL if there is such a file anywhere.
LEMMA InferredFormat ==
    ASSUME NEW dir, NEW jobs, requested \in Formats
    PROVE  /\ InferActualFormat(dir, jobs) \in Formats
           /\ HasSidecar(dir) \/ (\E i \in Indices : HasSidecar(jobs[i])) =>
                 InferActualFormat(dir, jobs) = "psfxl"
<1> DEFINE seen == HasSidecar(dir) \/ \E i \in Indices : HasSidecar(jobs[i])
<1>1. CASE seen
  <2>1. InferActualFormat(dir, jobs) = "psfxl"
    BY <1>1, Zenon DEF InferActualFormat
  <2>2. QED
    BY <2>1 DEF Formats
<1>2. CASE ~seen /\ requested # "unknown"
  <2>1. InferActualFormat(dir, jobs) = requested
    BY <1>2, Zenon DEF InferActualFormat
  <2>2. QED
    BY <2>1, <1>2
<1>3. CASE ~seen /\ requested = "unknown"
  <2>1. InferActualFormat(dir, jobs) = "bin_psf"
    BY <1>3, Zenon DEF InferActualFormat
  <2>2. QED
    BY <2>1, <1>3 DEF Formats
<1>4. QED
  BY <1>1, <1>2, <1>3

\* What a copied, a torn and an untouched file look like afterwards.
LEMMA Snapshot ==
    ASSUME NEW saved, NEW torn, NEW f \in Files, TypeOK
    PROVE  LET new == CASE f \in saved -> Copied(index, f)
                        [] f \in torn -> [work[f] EXCEPT !.whole = FALSE]
                        [] OTHER -> cases[index][f]
           IN  (torn \cap saved = {}) =>
               /\ new \in Content
               /\ f \in saved => new = work[f]
               /\ f \notin saved /\ new # NoFile =>
                     cases[index][f] # NoFile \/ f \in torn
<1> DEFINE new == CASE f \in saved -> Copied(index, f)
                    [] f \in torn -> [work[f] EXCEPT !.whole = FALSE]
                    [] OTHER -> cases[index][f]
<1> SUFFICES ASSUME torn \cap saved = {}
             PROVE  /\ new \in Content
                    /\ f \in saved => new = work[f]
                    /\ f \notin saved /\ new # NoFile =>
                     cases[index][f] # NoFile \/ f \in torn
  OBVIOUS
<1>1. work[f] \in Content /\ cases[index][f] \in Content
  BY DEF TypeOK
<1>2. CASE f \in saved
  <2>1. new = work[f]
    BY <1>2, Zenon DEF Copied
  <2>2. QED
    BY <1>1, <1>2, <2>1
<1>3. CASE f \notin saved /\ f \in torn
  <2>1. new = [work[f] EXCEPT !.whole = FALSE]
    BY <1>3, Zenon
  <2>2. new \in Content
    BY <1>1, <2>1 DEF Content
  <2>3. QED
    BY <2>2, <1>3
<1>4. CASE f \notin saved /\ f \notin torn
  <2>1. new = cases[index][f]
    BY <1>4, Zenon
  <2>2. QED
    BY <1>1, <1>4, <2>1, Zenon
<1>5. QED
  BY <1>2, <1>3, <1>4

-------------------------------------------------------------------------------
LEMMA InitEstablishes == Init => ArtifactsInv
<1> SUFFICES ASSUME Init PROVE ArtifactsInv
  OBVIOUS
<1>1. TypeOK
  <2>1. requested \in Formats
    BY StartFormatsAreFormats DEF Init
  <2>2. Empty \in [Files -> Content] /\ 0 \in Indices
    BY BoundsAssumption DEF Empty, NoFile, Content, Indices
  <2>3. QED
    BY <2>1, <2>2, BoundsAssumption
    DEF Init, TypeOK, Formats, NoMetrics, NoMetric
<1>2. QED
  BY <1>1 DEF Init, ArtifactsInv, FilesFollow, FormatFollows, MetricsOwnUnlessLost,
              OnePsfxlSilencesAll

LEMMA StartKeeps == ArtifactsInv /\ StartSession => ArtifactsInv'
<1> SUFFICES ASSUME ArtifactsInv, StartSession PROVE ArtifactsInv'
  OBVIOUS
<1>1. TypeOK'
  BY StartFormatsAreFormats, BoundsAssumption
  DEF ArtifactsInv, StartSession, TypeOK, Formats, NoMetrics, NoMetric
<1>2. QED
  BY <1>1 DEF StartSession, ArtifactsInv, FilesFollow, FormatFollows,
              MetricsOwnUnlessLost, OnePsfxlSilencesAll

LEMMA RunKeeps ==
    ASSUME ArtifactsInv, NEW i \in Indices, SessionSucceeds(i) \/ SessionFails(i)
    PROVE  ArtifactsInv'
<1>1. /\ runs < MaxRuns /\ runs' = runs + 1 /\ index' = i /\ stage' = "ran"
      /\ lost' = {} /\ metrics' = NoMetrics /\ requested' = requested /\ cases' = cases
  BY DEF SessionSucceeds, SessionFails, JobBegins
<1>2. runs \in Nat /\ runs + 1 \in 0..MaxRuns
  BY <1>1, BoundsAssumption DEF ArtifactsInv, TypeOK
<1>3. \A b \in BOOLEAN : Written(runs + 1, b) \in Content
  BY <1>2 DEF Written, Content
<1>4. /\ work \in [Files -> Content] /\ NoFile \in Content
      /\ requested \in Formats
  BY BoundsAssumption DEF ArtifactsInv, TypeOK, NoFile, Content
<1>5. CASE SessionSucceeds(i)
  <2>1. PICK large \in SUBSET Transients, clears \in BOOLEAN :
          work' = [f \in Files |->
                IF f \in {Data(a) : a \in Analyses} \cup {Sidecar(a) : a \in large}
                THEN Written(runs + 1, TRUE)
                ELSE IF clears THEN NoFile ELSE work[f]]
    BY <1>5 DEF SessionSucceeds
  <2>2. work' \in [Files -> Content]
    BY <2>1, <1>3, <1>4
  <2>3. \A a \in Analyses : work'[Data(a)] = Written(runs', TRUE)
    BY <2>1, <1>1 DEF Files
  <2>4. status' = "success" /\ format' = InferActualFormat(work', cases)
    BY <1>5 DEF SessionSucceeds
  <2>5. /\ format' \in Formats
        /\ HasSidecar(work') \/ (\E j \in Indices : HasSidecar(cases[j])) =>
              format' = "psfxl"
    BY <2>4, <1>4, InferredFormat
  <2>6. TypeOK'
    BY <1>1, <1>2, <1>4, <2>2, <2>4, <2>5, BoundsAssumption
    DEF ArtifactsInv, TypeOK, NoMetrics, NoMetric
  <2>7. FilesFollow'
    BY <1>1, <2>3 DEF FilesFollow
  <2>8. HasSidecar(work)' = HasSidecar(work')
    BY DEF HasSidecar, Present
  <2>9. FormatFollows'
    BY <1>1, <2>5, <2>8 DEF FormatFollows, AnySidecar, HasSidecar, Present
  <2>10. QED
    BY <1>1, <2>6, <2>7, <2>9 DEF ArtifactsInv, MetricsOwnUnlessLost, OnePsfxlSilencesAll
<1>6. CASE SessionFails(i)
  <2>1. PICK written \in SUBSET Files, whole \in BOOLEAN :
          work' = [f \in Files |->
                IF f \in written THEN Written(runs + 1, whole) ELSE work[f]]
    BY <1>6 DEF SessionFails
  <2>2. work' \in [Files -> Content]
    BY <2>1, <1>3, <1>4
  <2>3. status' = "failed" /\ format' = "unknown"
    BY <1>6 DEF SessionFails
  <2>4. TypeOK'
    BY <1>1, <1>2, <1>4, <2>2, <2>3, BoundsAssumption
    DEF ArtifactsInv, TypeOK, Formats, NoMetrics, NoMetric
  <2>5. QED
    BY <1>1, <2>3, <2>4 DEF ArtifactsInv, FilesFollow, FormatFollows,
                            MetricsOwnUnlessLost, OnePsfxlSilencesAll
<1>7. QED
  BY <1>5, <1>6

LEMMA SnapshotKeeps == ArtifactsInv /\ SnapshotArtifacts => ArtifactsInv'
<1> SUFFICES ASSUME ArtifactsInv, SnapshotArtifacts PROVE ArtifactsInv'
  OBVIOUS
<1>0. TypeOK
  BY DEF ArtifactsInv
<1>1. PICK saved \in SUBSET Present(work) : \E torn \in SUBSET (Present(work) \ saved) :
          /\ lost' = Present(work) \ saved
          /\ cases' = [cases EXCEPT ![index] = [f \in Files |->
                CASE f \in saved -> Copied(index, f)
                  [] f \in torn -> [work[f] EXCEPT !.whole = FALSE]
                  [] OTHER -> cases[index][f]]]
  BY DEF SnapshotArtifacts
<1>2. PICK torn \in SUBSET (Present(work) \ saved) :
          /\ lost' = Present(work) \ saved
          /\ cases' = [cases EXCEPT ![index] = [f \in Files |->
                CASE f \in saved -> Copied(index, f)
                  [] f \in torn -> [work[f] EXCEPT !.whole = FALSE]
                  [] OTHER -> cases[index][f]]]
  BY <1>1
<1> DEFINE new(f) == CASE f \in saved -> Copied(index, f)
                       [] f \in torn -> [work[f] EXCEPT !.whole = FALSE]
                       [] OTHER -> cases[index][f]
<1>3. /\ stage = "ran" /\ stage' = "saved"
      /\ UNCHANGED <<requested, work, runs, index, status, format, metrics>>
  BY DEF SnapshotArtifacts
<1>4. \A f \in Files :
         /\ new(f) \in Content
         /\ f \in saved => new(f) = work[f]
         /\ new(f) # NoFile => cases[index][f] # NoFile \/ f \in Present(work)
  <2> SUFFICES ASSUME NEW f \in Files
               PROVE  /\ new(f) \in Content
                      /\ f \in saved => new(f) = work[f]
                      /\ new(f) # NoFile => cases[index][f] # NoFile \/ f \in Present(work)
    OBVIOUS
  <2>1. torn \cap saved = {}
    OBVIOUS
  <2>2. /\ new(f) \in Content
        /\ f \in saved => new(f) = work[f]
        /\ f \notin saved /\ new(f) # NoFile =>
                     cases[index][f] # NoFile \/ f \in torn
    BY <2>1, <1>0, Snapshot, Zenon
  <2> HIDE DEF new
  <2>3. QED
    BY <2>2
<1>5. cases' = [cases EXCEPT ![index] = [f \in Files |-> new(f)]]
  BY <1>2
<1> HIDE DEF new
<1>6. [f \in Files |-> new(f)] \in [Files -> Content]
  BY <1>4
<1>7. TypeOK'
  BY <1>0, <1>2, <1>3, <1>5, <1>6 DEF TypeOK, Present
<1>8. index \in Indices /\ \A f \in Files : cases'[index][f] = new(f)
  BY <1>0, <1>5 DEF TypeOK
<1>9. FilesFollow'
  <2> SUFFICES ASSUME status = "success", NEW a \in Analyses, Data(a) \notin lost'
               PROVE  cases'[index][Data(a)] = Written(runs, TRUE)
    BY <1>3 DEF FilesFollow
  <2>1. Data(a) \in Files
    BY DEF Files
  <2>2. work[Data(a)] = Written(runs, TRUE)
    BY <1>3 DEF ArtifactsInv, FilesFollow
  <2>3. Data(a) \in Present(work)
    BY <2>1, <2>2 DEF Present, Written, NoFile
  <2>4. Data(a) \in saved
    BY <2>3, <1>2
  <2>5. QED
    BY <2>1, <2>2, <2>4, <1>4, <1>8
<1>10. FormatFollows'
  <2> SUFFICES ASSUME status = "success", AnySidecar'
               PROVE  format = "psfxl"
    BY <1>3 DEF FormatFollows
  <2>1. PICK j \in Indices, a \in Transients :
           Sidecar(a) \in Files /\ cases'[j][Sidecar(a)] # NoFile
    BY DEF AnySidecar, HasSidecar, Present
  <2>2. CASE j # index
    <3>1. cases'[j] = cases[j]
      BY <1>0, <1>5, <2>2 DEF TypeOK
    <3>2. AnySidecar
      BY <2>1, <3>1 DEF AnySidecar, HasSidecar, Present
    <3>3. QED
      BY <3>2, <1>3 DEF ArtifactsInv, FormatFollows
  <2>3. CASE j = index
    <3>1. cases[index][Sidecar(a)] # NoFile \/ Sidecar(a) \in Present(work)
      BY <2>1, <2>3, <1>4, <1>8
    <3>2. AnySidecar \/ HasSidecar(work)
      BY <2>1, <3>1, <1>8 DEF AnySidecar, HasSidecar, Present
    <3>3. QED
      BY <3>2, <1>3 DEF ArtifactsInv, FormatFollows
  <2>4. QED
    BY <2>2, <2>3
<1>11. QED
  BY <1>3, <1>7, <1>9, <1>10 DEF ArtifactsInv, MetricsOwnUnlessLost, OnePsfxlSilencesAll

LEMMA ExtractKeeps == ArtifactsInv /\ ExtractMetrics => ArtifactsInv'
<1> SUFFICES ASSUME ArtifactsInv, ExtractMetrics PROVE ArtifactsInv'
  OBVIOUS
<1>1. /\ stage = "saved" /\ stage' = "idle"
      /\ UNCHANGED <<requested, work, cases, runs, index, status, format, lost>>
      /\ \A a \in Analyses : metrics'[a] \in Reading(a, cases[index])
      /\ metrics' \in [Analyses -> UNION {Reading(a, cases[index]) : a \in Analyses}]
  BY DEF ExtractMetrics
<1>2. TypeOK
  BY DEF ArtifactsInv
<1> DEFINE Metric == [status : {"none", "ok", "read_failed", "unsupported_format"},
                      run : 0..MaxRuns]
<1>3. ASSUME NEW a \in Analyses PROVE Reading(a, cases[index]) \subseteq Metric
  <2>1. Data(a) \in Files /\ index \in Indices
    BY <1>2 DEF Files, TypeOK
  <2>2. cases[index][Data(a)].run \in 0..MaxRuns
    BY <1>2, <2>1 DEF TypeOK, Content
  <2>3. ReadFailed \in Metric /\ Unsupported \in Metric
    BY BoundsAssumption DEF ReadFailed, Unsupported
  <2>4. [status |-> "ok", run |-> cases[index][Data(a)].run] \in Metric
    BY <2>2
  <2> HIDE DEF Metric
  <2>5. QED
    BY <2>3, <2>4 DEF Reading, ReadAs
<1>4. TypeOK'
  <2>1. metrics' \in [Analyses -> Metric]
    BY <1>1, <1>3
  <2>2. QED
    BY <1>1, <1>2, <2>1 DEF TypeOK
<1>5. ASSUME NEW a \in Analyses, metrics'[a].status = "ok"
      PROVE  format # "psfxl" /\ metrics'[a].run = cases[index][Data(a)].run
  <2>1. metrics'[a] \in Reading(a, cases[index])
    BY <1>1
  <2>2. QED
    BY <2>1, <1>5 DEF Reading, ReadAs, Unsupported, ReadFailed
<1>6. MetricsOwnUnlessLost'
  <2> SUFFICES ASSUME status = "success", NEW a \in Analyses,
                      metrics'[a].status = "ok", Data(a) \notin lost
               PROVE  /\ metrics'[a].run = runs
                      /\ cases[index][Data(a)] = Written(runs, TRUE)
    BY <1>1 DEF MetricsOwnUnlessLost
  <2>1. cases[index][Data(a)] = Written(runs, TRUE)
    BY <1>1 DEF ArtifactsInv, FilesFollow
  <2>2. QED
    BY <2>1, <1>5 DEF Written
<1>7. OnePsfxlSilencesAll'
  <2> SUFFICES ASSUME status = "success", AnySidecar, NEW a \in Analyses
               PROVE  metrics'[a].status # "ok"
    BY <1>1 DEF OnePsfxlSilencesAll, AnySidecar, HasSidecar, Present
  <2>1. format = "psfxl"
    BY <1>1 DEF ArtifactsInv, FormatFollows
  <2>2. QED
    BY <2>1, <1>5
<1>8. QED
  BY <1>1, <1>4, <1>6, <1>7 DEF ArtifactsInv, FilesFollow, FormatFollows

\* The files and the format of a success follow it from the run to the metrics.
THEOREM InvHolds == Spec => []ArtifactsInv
<1>1. ArtifactsInv /\ [Next]_vars => ArtifactsInv'
  <2> SUFFICES ASSUME ArtifactsInv, [Next]_vars PROVE ArtifactsInv'
    OBVIOUS
  <2>1. CASE StartSession
    BY <2>1, StartKeeps
  <2>2. ASSUME NEW i \in Indices, SessionSucceeds(i) \/ SessionFails(i) PROVE ArtifactsInv'
    BY <2>2, RunKeeps
  <2>3. CASE SnapshotArtifacts
    BY <2>3, SnapshotKeeps
  <2>4. CASE ExtractMetrics
    BY <2>4, ExtractKeeps
  <2>5. CASE UNCHANGED vars
    BY <2>5 DEF vars, ArtifactsInv, TypeOK, FilesFollow, FormatFollows, AnySidecar,
                HasSidecar, Present, MetricsOwnUnlessLost, OnePsfxlSilencesAll
  <2>6. QED
    BY <2>1, <2>2, <2>3, <2>4, <2>5 DEF Next
<1>2. QED
  BY InitEstablishes, <1>1, PTL DEF Spec

\* Every variable keeps to its domain.
THEOREM TypeCorrect == Spec => []TypeOK
<1>1. ArtifactsInv => TypeOK
  BY DEF ArtifactsInv
<1>2. QED
  BY InvHolds, <1>1, PTL

\* The metrics of a success are its own unless a copy of its files failed.
THEOREM OwnUnlessLost == Spec => []MetricsOwnUnlessLost
<1>1. ArtifactsInv => MetricsOwnUnlessLost
  BY DEF ArtifactsInv
<1>2. QED
  BY InvHolds, <1>1, PTL

\* One PSFXL file in a job directory takes the metrics from every success that follows.
THEOREM PsfxlSilences == Spec => []OnePsfxlSilencesAll
<1>1. ArtifactsInv => OnePsfxlSilencesAll
  BY DEF ArtifactsInv
<1>2. QED
  BY InvHolds, <1>1, PTL
===============================================================================
