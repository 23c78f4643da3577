-------------------------- MODULE DerivedMetricsProofs --------------------------
(***************************************************************************)
(* What the derived metrics find, for every response and waveform that is  *)
(* consistent, finite and not empty, whatever its length and values.       *)
(*                                                                         *)
(* Finding the first or the last sample of a kind needs that a nonempty    *)
(* set of natural numbers has a least member, which is taken from the      *)
(* well-foundedness of the subset ordering, since the provers cannot use   *)
(* an induction theorem.                                                   *)
(***************************************************************************)
EXTENDS DerivedMetrics, FiniteSetTheorems, WellFoundedInduction, TLAPS

\* A nonempty set of natural numbers has a least member.
LEMMA Least ==
  ASSUME NEW T, T \subseteq Nat, T # {}
  PROVE  \E x \in T : \A y \in T : x <= y
<1> DEFINE W == {0..x : x \in T}
           R == StrictSubsetOrdering(Nat)
           S == FiniteSubsetsOf(Nat)
<1>1. IsWellFoundedOn(R, S)
  BY FS_StrictSubsetOrderingWellFounded
<1>2. W \subseteq S
  <2> SUFFICES ASSUME NEW x \in T PROVE 0..x \in S
    OBVIOUS
  <2>1. IsFiniteSet(0..x)
    BY FS_Interval
  <2> QED BY <2>1 DEF FiniteSubsetsOf
<1>3. PICK w \in W : \A u \in W : <<u, w>> \notin R
  <2>1. W # {}
    OBVIOUS
  <2> HIDE DEF W, R, S
  <2> QED BY <1>1, <1>2, <2>1, WFMin, Zenon
<1>4. PICK x \in T : w = 0..x
  OBVIOUS
<1>5. ASSUME NEW y \in T, y < x PROVE FALSE
  <2>1. 0..y \subseteq 0..x /\ 0..y # 0..x
    BY <1>5
  <2>2. <<0..y, w>> \in R
    BY <1>4, <2>1 DEF StrictSubsetOrdering
  <2> QED BY <1>3, <2>2
<1> QED BY <1>4, <1>5

\* A nonempty set of indices has a greatest member.
LEMMA Greatest ==
  ASSUME NEW n \in Nat, NEW T, T \subseteq 1..n, T # {}
  PROVE  \E x \in T : \A y \in T : y <= x
<1> DEFINE U == {n - i : i \in T}
<1>1. U \subseteq Nat /\ U # {}
  <2>1. \A i \in T : n - i \in Nat
    OBVIOUS
  <2> QED BY <2>1
<1>2. PICK u \in U : \A v \in U : u <= v
  <2> HIDE DEF U
  <2> QED BY <1>1, Least
<1>3. PICK x \in T : u = n - x
  OBVIOUS
<1>4. \A y \in T : n - x <= n - y
  BY <1>2, <1>3
<1> QED BY <1>3, <1>4

-------------------------------------------------------------------------------
(* Unity-gain bandwidth and phase margin.                                  *)

\* A finite view of a response over increasing frequencies.
View(v) ==
    /\ v.freq \in Seq(Int) /\ v.db \in Seq(Int) /\ v.deg \in Seq(Int)
    /\ Len(v.freq) > 0
    /\ Len(v.db) = Len(v.freq) /\ Len(v.deg) = Len(v.freq)
    /\ Increasing(v.freq)

\* What a view is, sample by sample.
LEMMA ViewSamples ==
  ASSUME NEW v, View(v)
  PROVE  /\ Len(v.freq) \in Nat /\ Len(v.freq) > 0
         /\ Len(v.db) = Len(v.freq) /\ Len(v.deg) = Len(v.freq)
         /\ \A i \in 1..Len(v.freq) : v.freq[i] \in Int
         /\ \A i \in 1..Len(v.freq) : v.db[i] \in Int
         /\ \A i \in 1..Len(v.freq) : v.deg[i] \in Int
         /\ \A i, j \in 1..Len(v.freq) : i < j => v.freq[i] < v.freq[j]
<1> DEFINE n == Len(v.freq)
<1>1. n \in Nat /\ n > 0 /\ Len(v.db) = n /\ Len(v.deg) = n
  BY DEF View
<1>2. \A s \in Seq(Int) : Len(s) = n => \A i \in 1..n : s[i] \in Int
  OBVIOUS
<1>3. v.freq \in Seq(Int) /\ v.db \in Seq(Int) /\ v.deg \in Seq(Int)
  BY DEF View
<1>4. \A i, j \in 1..n : i < j => v.freq[i] < v.freq[j]
  BY DEF View, Increasing
<1> HIDE DEF n
<1>5. /\ \A i \in 1..n : v.freq[i] \in Int
      /\ \A i \in 1..n : v.db[i] \in Int
      /\ \A i \in 1..n : v.deg[i] \in Int
  BY <1>1, <1>2, <1>3 DEF n
<1> QED BY <1>1, <1>4, <1>5 DEF n

\* The first sample below 0 dB is one, and those before it are not.
LEMMA FirstBelowIsFirst ==
  ASSUME NEW v, View(v), Below(v) # {}
  PROVE  /\ FirstBelow(v) \in 1..Len(v.db)
         /\ v.db[FirstBelow(v)] < 0
         /\ \A j \in 1..Len(v.db) : j < FirstBelow(v) => v.db[j] >= 0
<1>1. Below(v) \subseteq Nat
  BY ViewSamples DEF Below
<1>2. \E i \in Below(v) : \A j \in Below(v) : i <= j
  BY <1>1, Least
<1>3. FirstBelow(v) \in Below(v) /\ \A j \in Below(v) : FirstBelow(v) <= j
  BY <1>2 DEF FirstBelow
<1>4. FirstBelow(v) \in 1..Len(v.db) /\ v.db[FirstBelow(v)] < 0
  BY <1>3 DEF Below
<1>5. ASSUME NEW j \in 1..Len(v.db), j < FirstBelow(v) PROVE v.db[j] >= 0
  <2>1. v.db[j] \in Int
    BY ViewSamples
  <2>2. j \notin Below(v)
    BY <1>3, <1>4, <1>5
  <2> QED BY <2>1, <2>2 DEF Below
<1> QED BY <1>4, <1>5

\* A positive factor keeps an inequality.
LEMMA Scale ==
  ASSUME NEW a \in Int, NEW b \in Int, NEW c \in Int, a <= b, c > 0
  PROVE  a * c <= b * c /\ a * c \in Int /\ b * c \in Int
<1>1. (b - a) * c >= 0
  OBVIOUS
<1>2. (b - a) * c = b * c - a * c
  OBVIOUS
<1> QED BY <1>1, <1>2

\* Where two samples at x1 < x2 are at a >= 0 > b decibels, the interpolated crossing lies
\* between them, and the line through any two values there has the interpolated value.
LEMMA Interpolation ==
  ASSUME NEW x1 \in Int, NEW x2 \in Int, NEW a \in Int, NEW b \in Int,
         NEW s1 \in Int, NEW s2 \in Int,
         x1 < x2, a >= 0, b < 0
  PROVE  LET den == a - b
             num == x1 * (a - b) + a * (x2 - x1)
             val == s1 * (a - b) + a * (s2 - s1)
         IN  /\ den > 0 /\ den \in Int /\ num \in Int /\ val \in Int
             /\ x1 * den <= num /\ num <= x2 * den /\ num < x2 * den
             /\ s1 * (x2 * den - num) + s2 * (num - x1 * den) = val * (x2 - x1)
             /\ a * (x2 * den - num) + b * (num - x1 * den) = 0
<1> DEFINE den == a - b
           num == x1 * (a - b) + a * (x2 - x1)
           val == s1 * (a - b) + a * (s2 - s1)
           d == x2 - x1
<1>1. num - x1 * den = a * d
  OBVIOUS
<1>2. x2 * den - num = (-b) * d
  OBVIOUS
<1>3. d > 0 /\ d \in Int
  OBVIOUS
<1>4. a * d >= 0 /\ a * d \in Int
  BY <1>3
<1>5. (-b) * d > 0 /\ (-b) * d \in Int
  BY <1>3
<1>6. s1 * ((-b) * d) + s2 * (a * d) = val * d
  BY <1>3
<1>7. a * ((-b) * d) + b * (a * d) = 0
  BY <1>3
<1>8. den > 0 /\ den \in Int /\ num \in Int /\ val \in Int
  OBVIOUS
<1> QED BY <1>1, <1>2, <1>4, <1>5, <1>6, <1>7, <1>8

\* A view that is finite passes the checks of the code.
LEMMA ViewIsViewable ==
  ASSUME NEW v, View(v)
  PROVE  Viewable(v)
<1>1. IsFinite(v.freq) /\ IsFinite(v.db) /\ IsFinite(v.deg)
  BY ViewSamples, NotFiniteAssumption DEF IsFinite
<1> QED BY <1>1, ViewSamples DEF Viewable

\* The response as UgbwAndPhaseMargin finds it: never below 0 dB, below it from the start,
\* or crossing between two samples.
LEMMA Cases ==
  ASSUME NEW v, View(v)
  PROVE  /\ Below(v) = {} =>
              UgbwAndPhaseMargin(v) = Crossing(Whole(v.freq[Len(v.freq)]), Whole(0))
         /\ Below(v) # {} /\ FirstBelow(v) = 1 =>
              UgbwAndPhaseMargin(v) = Crossing(Whole(v.freq[1]), Plus180(Whole(v.deg[1])))
         /\ Below(v) # {} /\ FirstBelow(v) > 1 =>
              UgbwAndPhaseMargin(v) = Crossing(AtCrossing(v, v.freq, FirstBelow(v)),
                                        Plus180(AtCrossing(v, v.deg, FirstBelow(v))))
<1>0. UgbwAndPhaseMargin(v) = FoundCrossing(v)
  BY ViewIsViewable DEF UgbwAndPhaseMargin
<1>1. CASE Below(v) = {}
  BY <1>0, <1>1 DEF FoundCrossing
<1>2. CASE Below(v) # {} /\ FirstBelow(v) = 1
  BY <1>0, <1>2 DEF FoundCrossing
<1>3. CASE Below(v) # {} /\ FirstBelow(v) > 1
  <2> DEFINE i == FirstBelow(v)
  <2>1. /\ i \in 1..Len(v.db) /\ v.db[i] < 0
        /\ \A j \in 1..Len(v.db) : j < i => v.db[j] >= 0
    BY <1>3, FirstBelowIsFirst
  <2> HIDE DEF i
  <2>2. v.db[i-1] # v.db[i]
    <3>1. i > 1 /\ Len(v.db) \in Nat /\ \A j \in 1..Len(v.db) : v.db[j] \in Int
      BY <1>3, ViewSamples DEF i
    <3>2. i - 1 \in 1..Len(v.db) /\ i - 1 < i
      BY <2>1, <3>1
    <3> QED BY <2>1, <3>1, <3>2
  <2> QED BY <1>0, <1>3, <2>2 DEF FoundCrossing, i
<1>4. Below(v) = {} \/ FirstBelow(v) = 1 \/ FirstBelow(v) > 1
  BY FirstBelowIsFirst DEF View
<1> QED BY <1>1, <1>2, <1>3, <1>4

\* calculate_ugbw_and_phase_margin succeeds for every finite view, and the bandwidth is
\* where the response first goes below 0 dB: the case of equal magnitudes around the
\* crossing, which the code refuses, never arises.
THEOREM BandwidthIsFirstCrossing ==
  ASSUME NEW v, View(v)
  PROVE  /\ UgbwAndPhaseMargin(v).status = "ok"
         /\ IsUnityGainBandwidth(v.freq, v.db, UgbwAndPhaseMargin(v).value.ugbw)
<1> DEFINE n == Len(v.freq)
           q == UgbwAndPhaseMargin(v).value.ugbw
<1>0. /\ n \in Nat /\ n > 0
      /\ \A i \in 1..n : v.freq[i] \in Int /\ v.db[i] \in Int
      /\ Len(v.db) = n
      /\ \A i, j \in 1..n : i < j => v.freq[i] < v.freq[j]
  BY ViewSamples
<1>1. CASE Below(v) = {}
  <2>1. /\ UgbwAndPhaseMargin(v).status = "ok"
        /\ q = Whole(v.freq[n])
    BY <1>1, Cases DEF Crossing, Success
  <2>2. ASSUME NEW i \in 1..n PROVE v.db[i] >= 0
    <3>1. v.db[i] \in Int
      BY <1>0
    <3>2. i \notin Below(v) /\ i \in 1..Len(v.db)
      BY <1>0, <1>1
    <3>3. ~ (v.db[i] < 0)
      BY <3>2, Zenon DEF Below
    <3> QED BY <3>1, <3>3
  <2> QED BY <2>1, <2>2 DEF IsUnityGainBandwidth
<1>2. CASE Below(v) # {} /\ FirstBelow(v) = 1
  <2>1. /\ UgbwAndPhaseMargin(v).status = "ok"
        /\ q = Whole(v.freq[1])
    BY <1>2, Cases DEF Crossing, Success
  <2>2. v.db[1] < 0
    BY <1>2, FirstBelowIsFirst
  <2>3. \A i \in 1..n : ~ (v.freq[i] * Whole(v.freq[1]).den < Whole(v.freq[1]).num)
    BY <1>0 DEF Whole, Quotient
  <2> QED BY <2>1, <2>2, <2>3 DEF IsUnityGainBandwidth
<1>3. CASE Below(v) # {} /\ FirstBelow(v) > 1
  <2>1. PICK i : i = FirstBelow(v)
    OBVIOUS
  <2>2. /\ i \in 2..n /\ i - 1 \in 1..(n - 1) /\ v.db[i] < 0
        /\ \A j \in 1..n : j < i => v.db[j] >= 0
    BY <1>0, <1>3, <2>1, FirstBelowIsFirst
  <2>3. /\ UgbwAndPhaseMargin(v).status = "ok"
        /\ q = AtCrossing(v, v.freq, i)
    BY <1>3, <2>1, Cases DEF Crossing, Success
  <2> HIDE DEF q
  <2> DEFINE x1 == v.freq[i-1]
             x2 == v.freq[i]
             a == v.db[i-1]
             b == v.db[i]
  <2>4. /\ q.num = x1 * (a - b) + a * (x2 - x1)
        /\ q.den = a - b
    BY <2>3 DEF AtCrossing, Quotient
  <2>5. /\ x1 \in Int /\ x2 \in Int /\ a \in Int /\ b \in Int
        /\ x1 < x2 /\ a >= 0 /\ b < 0
    BY <1>0, <2>2
  <2>6. /\ q.den > 0 /\ q.den \in Int /\ q.num \in Int
        /\ x1 * q.den <= q.num /\ q.num <= x2 * q.den /\ q.num < x2 * q.den
        /\ a * (x2 * q.den - q.num) + b * (q.num - x1 * q.den) = 0
    <3> HIDE DEF x1, x2, a, b
    <3> QED BY <2>4, <2>5, Interpolation
  <2>7. ASSUME NEW j \in 1..n, v.freq[j] * q.den < q.num PROVE v.db[j] >= 0
    <3>1. SUFFICES ASSUME j >= i PROVE FALSE
      BY <2>2
    <3>2. x2 <= v.freq[j] /\ v.freq[j] \in Int
      BY <1>0, <2>2, <3>1
    <3> DEFINE f == v.freq[j]
    <3>3. f * q.den < q.num
      BY <2>7
    <3> HIDE DEF x2, f
    <3>4. x2 \in Int /\ f \in Int /\ x2 <= f
      BY <2>5, <3>2 DEF f
    <3>5. x2 * q.den <= f * q.den /\ x2 * q.den \in Int /\ f * q.den \in Int
      BY <2>6, <3>4, Scale
    <3> QED BY <2>6, <3>3, <3>5
  <2>8. /\ i - 1 \in 1..(Len(v.freq) - 1)
        /\ Between(q, v.freq[i-1], v.freq[(i-1)+1])
        /\ LineAt(v.freq, v.db, q, i-1) = 0
        /\ v.db[(i-1)+1] < 0
    <3>1. (i - 1) + 1 = i
      BY <2>2
    <3> QED BY <2>2, <2>6, <3>1 DEF Between, LineAt
  <2> QED BY <2>3, <2>7, <2>8 DEF IsUnityGainBandwidth, q
<1>4. Below(v) = {} \/ FirstBelow(v) = 1 \/ FirstBelow(v) > 1
  BY <1>0, FirstBelowIsFirst
<1> QED BY <1>1, <1>2, <1>3, <1>4

\* Where the response goes from samples at or above 0 dB to sample i below it, the phase
\* margin calculate_ugbw_and_phase_margin returns is 180 degrees more than the angle, on
\* the straight line through samples i - 1 and i, at the bandwidth it returns.
THEOREM MarginIsAtTheBandwidth ==
  ASSUME NEW v, View(v),
         NEW i \in 2..Len(v.freq), v.db[i] < 0,
         \A j \in 1..Len(v.freq) : j < i => v.db[j] >= 0
  PROVE  LET q == UgbwAndPhaseMargin(v).value.ugbw
             m == UgbwAndPhaseMargin(v).value.margin
         IN  /\ m.den = q.den /\ m.den > 0
             /\ (m.num - 180 * m.den) * (v.freq[i] - v.freq[i-1])
                   = LineAt(v.freq, v.deg, q, i-1)
<1> DEFINE n == Len(v.freq)
           q == UgbwAndPhaseMargin(v).value.ugbw
           m == UgbwAndPhaseMargin(v).value.margin
           x1 == v.freq[i-1]
           x2 == v.freq[i]
           s1 == v.deg[i-1]
           s2 == v.deg[i]
           a == v.db[i-1]
           b == v.db[i]
<1>0. /\ n \in Nat /\ Len(v.db) = n /\ Len(v.deg) = n /\ i \in Int /\ i > 1
      /\ i - 1 \in 1..n /\ i \in 1..n /\ (i - 1) + 1 = i /\ i - 1 < i
  <2>1. n \in Nat /\ Len(v.db) = n /\ Len(v.deg) = n
    BY ViewSamples
  <2>2. i \in 2..n
    OBVIOUS
  <2> HIDE DEF n
  <2> QED BY <2>1, <2>2
<1>1. /\ x1 \in Int /\ x2 \in Int /\ a \in Int /\ b \in Int
      /\ s1 \in Int /\ s2 \in Int
      /\ x1 < x2 /\ a >= 0 /\ b < 0
  <2>1. \A j \in 1..n : v.freq[j] \in Int /\ v.db[j] \in Int /\ v.deg[j] \in Int
    BY ViewSamples
  <2>2. \A j, k \in 1..n : j < k => v.freq[j] < v.freq[k]
    BY ViewSamples
  <2>3. x1 < x2
    BY <1>0, <2>2
  <2>4. a >= 0 /\ b < 0
    BY <1>0
  <2> QED BY <1>0, <2>1, <2>3, <2>4
<1>2. Below(v) # {} /\ FirstBelow(v) = i
  <2>1. Below(v) # {}
    BY <1>0 DEF Below
  <2>2. /\ FirstBelow(v) \in 1..n /\ v.db[FirstBelow(v)] < 0
        /\ \A j \in 1..n : j < FirstBelow(v) => v.db[j] >= 0
    BY <1>0, <2>1, FirstBelowIsFirst
  <2>3. \A j \in 1..n : v.db[j] \in Int
    BY ViewSamples
  <2>4. ~ (FirstBelow(v) < i)
    BY <2>2, <2>3
  <2>5. ~ (i < FirstBelow(v))
    BY <1>0, <2>2, <2>3
  <2> QED BY <1>0, <2>1, <2>2, <2>4, <2>5
<1>3. q = AtCrossing(v, v.freq, i) /\ m = Plus180(AtCrossing(v, v.deg, i))
  BY <1>0, <1>2, Cases DEF Crossing, Success
<1> HIDE DEF q, m
<1>4. /\ q.num = x1 * (a - b) + a * (x2 - x1)
      /\ q.den = a - b
      /\ m.den = a - b
  BY <1>3 DEF AtCrossing, Quotient, Plus180
<1>5. m.num = (s1 * (a - b) + a * (s2 - s1)) + 180 * (a - b)
  BY <1>3 DEF AtCrossing, Quotient, Plus180
<1>6. /\ a - b > 0
      /\ s1 * (x2 * q.den - q.num) + s2 * (q.num - x1 * q.den)
            = (s1 * (a - b) + a * (s2 - s1)) * (x2 - x1)
  <2> HIDE DEF x1, x2, a, b, s1, s2
  <2> QED BY <1>1, <1>4, Interpolation
<1>7. m.num - 180 * m.den = s1 * (a - b) + a * (s2 - s1)
  <2> DEFINE val == s1 * (a - b) + a * (s2 - s1)
  <2>1. val \in Int /\ a - b \in Int
    <3> HIDE DEF a, b, s1, s2
    <3> QED BY <1>1
  <2> HIDE DEF val
  <2> QED BY <1>4, <1>5, <2>1 DEF val
<1>8. LineAt(v.freq, v.deg, q, i-1)
        = s1 * (x2 * q.den - q.num) + s2 * (q.num - x1 * q.den)
  BY <1>0 DEF LineAt
<1> HIDE DEF x1, x2, a, b, s1, s2
<1>9. m.den = q.den /\ m.den > 0
  BY <1>4, <1>6
<1>10. (m.num - 180 * m.den) * (x2 - x1) = LineAt(v.freq, v.deg, q, i-1)
  BY <1>6, <1>7, <1>8
<1> QED BY <1>9, <1>10 DEF q, m, x1, x2

-------------------------------------------------------------------------------
(* Settling time.                                                          *)

\* A waveform of finite samples over increasing times that are not negative.
Waveform(w) ==
    /\ w.x \in Seq(Int) /\ w.y \in Seq(Int) /\ Consistent(w) /\ w.x # <<>>
    /\ Increasing(w.x) /\ w.x[1] >= 0

\* What a waveform is, sample by sample.
LEMMA WaveformSamples ==
  ASSUME NEW w, Waveform(w)
  PROVE  /\ Len(w.x) \in Nat /\ Len(w.x) > 0 /\ Len(w.y) = Len(w.x)
         /\ \A i \in 1..Len(w.x) : w.x[i] \in Int /\ w.x[i] >= 0
         /\ \A i \in 1..Len(w.x) : w.y[i] \in Int
         /\ \A i, j \in 1..Len(w.x) : i < j => w.x[i] < w.x[j]
<1> DEFINE n == Len(w.x)
<1>1. w.x \in Seq(Int) /\ w.y \in Seq(Int) /\ w.x # <<>>
  BY DEF Waveform
<1>2. n \in Nat /\ n > 0
  BY <1>1
<1>3. Len(w.y) = n
  BY DEF Waveform, Consistent
<1>4. \A s \in Seq(Int) : Len(s) = n => \A i \in 1..n : s[i] \in Int
  OBVIOUS
<1>5. \A i, j \in 1..n : i < j => w.x[i] < w.x[j]
  BY DEF Waveform, Increasing
<1> HIDE DEF n
<1>6. /\ \A i \in 1..n : w.x[i] \in Int
      /\ \A i \in 1..n : w.y[i] \in Int
  BY <1>1, <1>3, <1>4 DEF n
<1>7. ASSUME NEW i \in 1..n PROVE w.x[i] >= 0
  <2>1. w.x[1] >= 0
    BY DEF Waveform
  <2>2. 1 \in 1..n /\ (i = 1 \/ 1 < i)
    BY <1>2
  <2> QED BY <1>5, <1>6, <2>1, <2>2
<1> QED BY <1>2, <1>3, <1>5, <1>6, <1>7 DEF n

\* The band of the code, on both sides of the target, is the one of Near.
LEMMA BandIsNear ==
  ASSUME NEW value \in Int, NEW target \in Int
  PROVE  InBand(value, target) <=> Near(value, target)
<1>1. CASE value < target
  <2>1. Distance(value, target) = target - value
    BY <1>1 DEF Distance
  <2>2. Distance(target, 0) >= 0
    BY DEF Distance
  <2>3. Distance(target, 0) = IF target < 0 THEN -target ELSE target
    BY DEF Distance
  <2> QED BY <1>1, <2>1, <2>2, <2>3 DEF InBand, Near
<1>2. CASE value >= target
  <2>1. Distance(value, target) = value - target
    BY <1>2 DEF Distance
  <2>2. Distance(target, 0) >= 0
    BY DEF Distance
  <2>3. Distance(target, 0) = IF target < 0 THEN -target ELSE target
    BY DEF Distance
  <2> QED BY <1>2, <2>1, <2>2, <2>3 DEF InBand, Near
<1> QED BY <1>1, <1>2

\* The last sample outside the band is outside, and those after it are inside.
LEMMA LastOutOfBandIsLast ==
  ASSUME NEW w, NEW target \in Int, Waveform(w), OutOfBand(w, target) # {}
  PROVE  /\ LastOutOfBand(w, target) \in 1..Len(w.x)
         /\ ~Near(w.y[LastOutOfBand(w, target)], target)
         /\ \A j \in 1..Len(w.x) : j > LastOutOfBand(w, target) => Near(w.y[j], target)
<1> DEFINE n == Len(w.x)
           T == OutOfBand(w, target)
           k == LastOutOfBand(w, target)
<1>1. n \in Nat /\ Len(w.y) = n /\ \A i \in 1..n : w.y[i] \in Int
  BY WaveformSamples
<1>2. T \subseteq 1..n
  BY <1>1 DEF OutOfBand
<1>3. \E i \in T : \A j \in T : j <= i
  <2> HIDE DEF T, n
  <2> QED BY <1>1, <1>2, Greatest DEF T
<1>4. k \in T /\ \A j \in T : j <= k
  BY <1>3 DEF LastOutOfBand
<1>5. \A i \in 1..n : i \in T <=> ~Near(w.y[i], target)
  BY <1>1, BandIsNear DEF OutOfBand
<1> HIDE DEF T, k, n
<1>6. k \in 1..n /\ ~Near(w.y[k], target)
  BY <1>2, <1>4, <1>5
<1>7. ASSUME NEW j \in 1..n, j > k PROVE Near(w.y[j], target)
  <2>1. j \notin T
    BY <1>1, <1>4, <1>6, <1>7
  <2> QED BY <1>5, <2>1
<1> QED BY <1>6, <1>7 DEF k, n

\* The settling time the code finds is the least of 0 and the sampled times from which the
\* waveform stays within one percent of its target, and the last time when it ends outside.
THEOREM SettlingTimeIsLeastTime ==
  ASSUME NEW w, NEW target \in Int, Waveform(w), NotFinite \notin Int
  PROVE  /\ SettlingTime(w, target).status = "ok"
         /\ IsSettlingTime(w, target, SettlingTime(w, target).value)
<1> DEFINE n == Len(w.x)
           k == LastOutOfBand(w, target)
<1>1. /\ n \in Nat /\ n > 0 /\ Len(w.y) = n
      /\ \A i \in 1..n : w.x[i] \in Int /\ w.y[i] \in Int
      /\ \A i, j \in 1..n : i < j => w.x[i] < w.x[j]
  BY WaveformSamples
<1>2. \A i \in 1..n : w.x[i] >= 0
  BY WaveformSamples
<1>3. SettlingTime(w, target) = Success(SettlesAt(w, target))
  <2>1. IsFinite(w.x) /\ IsFinite(w.y)
    BY <1>1 DEF IsFinite
  <2>2. target # NotFinite
    OBVIOUS
  <2> QED BY <2>1, <2>2 DEF SettlingTime, Waveform
<1>4. CASE OutOfBand(w, target) = {}
  <2>1. SettlesAt(w, target) = 0
    BY <1>4 DEF SettlesAt
  <2>2. \A i \in 1..n : Near(w.y[i], target)
    BY <1>1, <1>4, BandIsNear DEF OutOfBand
  <2>3. StaysFrom(w, target, 0)
    BY <2>2 DEF StaysFrom
  <2>4. \A u \in {0} \cup {w.x[i] : i \in 1..n} : 0 <= u
    BY <1>2
  <2>5. Near(w.y[Len(w.y)], target)
    BY <1>1, <2>2
  <2> QED BY <1>3, <2>1, <2>3, <2>4, <2>5 DEF IsSettlingTime, Success
<1>5. CASE OutOfBand(w, target) # {}
  <2>1. /\ k \in 1..n /\ ~Near(w.y[k], target)
        /\ \A j \in 1..n : j > k => Near(w.y[j], target)
    BY <1>5, LastOutOfBandIsLast
  <2>2. SettlesAt(w, target) = IF k = n THEN w.x[n] ELSE w.x[k+1]
    BY <1>1, <1>5 DEF SettlesAt
  <2> HIDE DEF k
  <2>3. CASE k = n
    <3>1. ~Near(w.y[Len(w.y)], target)
      BY <1>1, <2>1, <2>3
    <3> QED BY <1>3, <2>2, <2>3, <3>1 DEF IsSettlingTime, Success
  <2>4. CASE k # n
    <3>1. k + 1 \in 1..n /\ k + 1 > k
      BY <1>1, <2>1, <2>4
    <3>2. Near(w.y[Len(w.y)], target)
      BY <1>1, <2>1, <2>4
    <3>3. StaysFrom(w, target, w.x[k+1])
      <4> SUFFICES ASSUME NEW i \in 1..n, w.x[i] >= w.x[k+1] PROVE i > k
        BY <2>1 DEF StaysFrom
      <4>1. ~ (i < k + 1)
        BY <1>1, <3>1
      <4> QED BY <1>1, <2>1, <4>1
    <3>4. ASSUME NEW u \in {0} \cup {w.x[i] : i \in 1..n}, StaysFrom(w, target, u)
          PROVE  w.x[k+1] <= u
      <4>1. u \in Int /\ w.x[k] \in Int
        BY <1>1, <2>1
      <4>2. ~ (w.x[k] >= u)
        BY <2>1, <3>4 DEF StaysFrom
      <4>3. u # 0
        BY <1>2, <2>1, <4>1, <4>2
      <4>4. PICK i \in 1..n : u = w.x[i]
        BY <4>3
      <4>5. i > k
        BY <1>1, <2>1, <4>1, <4>2, <4>4
      <4>6. i = k + 1 \/ k + 1 < i
        BY <2>1, <4>5
      <4> QED BY <1>1, <3>1, <4>4, <4>6
    <3> QED BY <1>3, <2>2, <2>4, <3>2, <3>3, <3>4 DEF IsSettlingTime, Success
  <2> QED BY <2>3, <2>4
<1> QED BY <1>4, <1>5
===============================================================================
