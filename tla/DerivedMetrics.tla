---------------------------- MODULE DerivedMetrics ----------------------------
(***************************************************************************)
(* What SPICEUnion computes from a response or a waveform it has read      *)
(* (src/parse/result_reader.cpp): the decibel and phase view of an AC      *)
(* response, its unity-gain bandwidth and phase margin, and the settling   *)
(* time of a transient waveform.                                           *)
(*                                                                         *)
(* Numbers are integers and quotients of integers, so that interpolation   *)
(* is exact.  A complex sample is kept in polar form, its magnitude in     *)
(* decibels and its angle in degrees, any number of turns included; the    *)
(* code knows the angle only through atan2, which is Principal.  The       *)
(* magnitude of a finite sample may still overflow.                        *)
(***************************************************************************)
EXTENDS Integers, Sequences

CONSTANTS
    NotFinite,  \* a sample that is infinite or not a number
    ZeroSample  \* the complex number 0

ASSUME NotFiniteAssumption == NotFinite \notin Int

\* A response or waveform: an axis and as many samples.
Consistent(r) == Len(r.x) = Len(r.y)

IsFinite(s) == \A i \in 1..Len(s) : s[i] # NotFinite

\* ReadResult<T>
Success(v) == [status |-> "ok", value |-> v]
Failure(s) == [status |-> s]

\* A quotient with a positive denominator.
Quotient(n, d) == [num |-> n, den |-> d]
Whole(n) == Quotient(n, 1)

\* atan2(imag, real) * 180 / pi: an angle less whole turns, in (-180, 180].
Principal(deg) == ((deg + 179) % 360) - 179

AcView(r) ==
    [freq |-> r.x,
     db |-> [i \in 1..Len(r.y) |-> r.y[i].db],
     deg |-> [i \in 1..Len(r.y) |-> Principal(r.y[i].deg)]]

DeriveAcView(r) ==
    IF /\ Consistent(r) /\ r.x # <<>>
       /\ IsFinite(r.x) /\ IsFinite(r.y)
       /\ \A i \in 1..Len(r.y) : r.y[i] # ZeroSample
    THEN Success(AcView(r))
    ELSE Failure("invalid_input")

-------------------------------------------------------------------------------
(* Unity-gain bandwidth and phase margin.                                  *)

\* Mutant: a sample at 0 dB counts as below.
Below_OrAt(v) == {i \in 1..Len(v.db) : v.db[i] <= 0}

Below(v) == {i \in 1..Len(v.db) : v.db[i] < 0}

FirstBelow(v) == CHOOSE i \in Below(v) : \A j \in Below(v) : i <= j

\* a + (b - a) * ratio at the unity-gain crossing between samples i - 1 and i.
AtCrossing(v, s, i) ==
    Quotient(s[i-1] * (v.db[i-1] - v.db[i]) + v.db[i-1] * (s[i] - s[i-1]),
             v.db[i-1] - v.db[i])

\* Mutant: the angle is subtracted.
Plus180_Minus(q) == Quotient(180 * q.den - q.num, q.den)

Plus180(q) == Quotient(q.num + 180 * q.den, q.den)

Crossing(ugbw, margin) == Success([ugbw |-> ugbw, margin |-> margin])

Viewable(v) ==
    /\ Len(v.db) = Len(v.freq) /\ Len(v.deg) = Len(v.freq) /\ v.freq # <<>>
    /\ IsFinite(v.freq) /\ IsFinite(v.db) /\ IsFinite(v.deg)

\* The crossing of a view that is viewable.
FoundCrossing(v) ==
    LET i == FirstBelow(v)
    IN  CASE Below(v) = {} -> Crossing(Whole(v.freq[Len(v.freq)]), Whole(0))
          [] Below(v) # {} /\ i = 1 ->
               Crossing(Whole(v.freq[1]), Plus180(Whole(v.deg[1])))
          [] Below(v) # {} /\ i > 1 /\ v.db[i-1] = v.db[i] -> Failure("invalid_input")
          [] OTHER ->
               Crossing(AtCrossing(v, v.freq, i), Plus180(AtCrossing(v, v.deg, i)))

UgbwAndPhaseMargin(v) ==
    IF Viewable(v) THEN FoundCrossing(v) ELSE Failure("invalid_input")

-------------------------------------------------------------------------------
(* Settling time, with the error band of 1 percent that is the default.    *)

\* Mutant: the band is one-sided.
InBand_OneSided(value, target) ==
    100 * (target - value) <= (IF target < 0 THEN -target ELSE target)

InBand(value, target) ==
    LET tolerance == IF target < 0 THEN -target ELSE target
    IN  /\ 100 * (target - value) <= tolerance
        /\ 100 * (value - target) <= tolerance

OutOfBand(w, target) == {i \in 1..Len(w.y) : ~InBand(w.y[i], target)}
LastOutOfBand(w, target) ==
    CHOOSE i \in OutOfBand(w, target) : \A j \in OutOfBand(w, target) : j <= i

SettlesAt(w, target) ==
    LET last == LastOutOfBand(w, target)
    IN  CASE OutOfBand(w, target) = {} -> 0
          [] OutOfBand(w, target) # {} /\ last = Len(w.y) -> w.x[Len(w.x)]
          [] OTHER -> w.x[last + 1]

SettlingTime(w, target) ==
    IF /\ Consistent(w) /\ w.x # <<>>
       /\ target # NotFinite /\ IsFinite(w.x) /\ IsFinite(w.y)
    THEN Success(SettlesAt(w, target))
    ELSE Failure("invalid_input")
-------------------------------------------------------------------------------
(***************************************************************************)
(* What these computations are to find, said without computing it.         *)
(***************************************************************************)
Increasing(x) == \A i, j \in 1..Len(x) : i < j => x[i] < x[j]

\* The quotient q lies between a and b, the ends included.
Between(q, a, b) == a * q.den <= q.num /\ q.num <= b * q.den

\* The straight line through samples i and i + 1 of s over x, taken at q and multiplied
\* by q.den * (x[i+1] - x[i]).
LineAt(x, s, q, i) ==
    s[i] * (x[i+1] * q.den - q.num) + s[i+1] * (q.num - x[i] * q.den)

\* The response, drawn with straight lines through its samples, first goes below 0 dB at
\* q: every sample before q is at or above 0 dB, the line is at 0 dB there, and the next
\* sample is below.  A response that starts below 0 dB does so at its first frequency,
\* and one that never goes there is given its last.
IsUnityGainBandwidth(x, db, q) ==
    /\ \A i \in 1..Len(x) : x[i] * q.den < q.num => db[i] >= 0
    /\ \/ q = Whole(x[Len(x)]) /\ \A i \in 1..Len(x) : db[i] >= 0
       \/ q = Whole(x[1]) /\ db[1] < 0
       \/ \E i \in 1..(Len(x) - 1) :
             Between(q, x[i], x[i+1]) /\ LineAt(x, db, q, i) = 0 /\ db[i+1] < 0

\* From t on the waveform stays within one percent of its target; of a waveform that ends
\* outside, t is the last time.
Distance(a, b) == IF a < b THEN b - a ELSE a - b
Near(value, target) == 100 * Distance(value, target) <= Distance(target, 0)
StaysFrom(w, target, t) == \A i \in 1..Len(w.x) : w.x[i] >= t => Near(w.y[i], target)

IsSettlingTime(w, target, t) ==
    IF Near(w.y[Len(w.y)], target)
    THEN /\ StaysFrom(w, target, t)
         /\ \A u \in {0} \cup {w.x[i] : i \in 1..Len(w.x)} :
               StaysFrom(w, target, u) => t <= u
    ELSE t = w.x[Len(w.x)]
===============================================================================
