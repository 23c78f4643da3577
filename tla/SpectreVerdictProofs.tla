-------------------------- MODULE SpectreVerdictProofs --------------------------
(***************************************************************************)
(* That a verdict is the run's own, for any scripts that decide once: the  *)
(* inductive invariant VerdictInv of SpectreSession, and what follows.     *)
(* What the session can still read is one sequence, Pending; almost every  *)
(* step leaves a later part of it, or loses the marker of a torn line.     *)
(***************************************************************************)
EXTENDS SpectreSessionProofs

Run == [lines : Seq(Line), own : BOOLEAN, ok : BOOLEAN]

-------------------------------------------------------------------------------
(* What can still be read, element by element.                             *)

\* What a run is still to print is a sequence of lines in the pipe.
LEMMA ToPrintType ==
    ASSUME NEW r \in Run
    PROVE  /\ ToPrint(r) \in Seq(Item) /\ Len(ToPrint(r)) = Len(r.lines)
           /\ Len(r.lines) \in Nat
           /\ \A i \in 1..Len(r.lines) :
                ToPrint(r)[i] = [line |-> r.lines[i], own |-> r.own, ok |-> r.ok]
<1>1. /\ r.lines \in Seq(Line) /\ r.own \in BOOLEAN /\ r.ok \in BOOLEAN
  BY DEF Run
<1>2. DOMAIN r.lines = 1..Len(r.lines) /\ Len(r.lines) \in Nat
  BY <1>1, LenProperties
<1>3. \A i \in 1..Len(r.lines) :
          [line |-> r.lines[i], own |-> r.own, ok |-> r.ok] \in Item
  BY <1>1, ElementOfSeq DEF Item
<1>4. ToPrint(r) \in [1..Len(r.lines) -> Item]
  BY <1>2, <1>3 DEF ToPrint
<1>5. ToPrint(r) \in Seq(Item)
  BY <1>2, <1>4, SeqDef
<1>6. Len(ToPrint(r)) = Len(r.lines)
  BY <1>2, <1>4, <1>5, LenProperties
<1> QED
  BY <1>2, <1>5, <1>6 DEF ToPrint

\* Where the elements of the three parts are found in the whole.
Joins(items, o, m, r) ==
    /\ items \in Seq(Item)
    /\ Len(o) \in Nat /\ Len(m) \in Nat /\ Len(r.lines) \in Nat
    /\ Len(items) = Len(o) + Len(m) + Len(r.lines)
    /\ \A i \in 1..Len(o) : items[i] = o[i]
    /\ \A i \in 1..Len(m) : items[Len(o) + i] = m[i]
    /\ \A i \in 1..Len(r.lines) :
         items[Len(o) + Len(m) + i] = [line |-> r.lines[i], own |-> r.own, ok |-> r.ok]

\* The whole lines come first, then the piece, then what is not printed yet.
LEMMA OutputJoins ==
    ASSUME NEW o \in Seq(Item), NEW m \in Seq(Item), NEW r \in Run
    PROVE  Joins(Output(o, m, r), o, m, r)
<1>1. /\ ToPrint(r) \in Seq(Item) /\ Len(ToPrint(r)) = Len(r.lines)
      /\ Len(r.lines) \in Nat
      /\ \A i \in 1..Len(r.lines) :
           ToPrint(r)[i] = [line |-> r.lines[i], own |-> r.own, ok |-> r.ok]
  BY ToPrintType
<1>2. Len(o) \in Nat /\ Len(m) \in Nat
  BY LenProperties
<1>3. /\ o \o m \in Seq(Item) /\ Len(o \o m) = Len(o) + Len(m)
      /\ \A i \in 1..(Len(o) + Len(m)) :
           (o \o m)[i] = IF i <= Len(o) THEN o[i] ELSE m[i - Len(o)]
  BY ConcatProperties
<1> DEFINE p == (o \o m) \o ToPrint(r)
<1>4. /\ p \in Seq(Item) /\ Len(p) = Len(o) + Len(m) + Len(r.lines)
      /\ \A i \in 1..(Len(o) + Len(m) + Len(r.lines)) :
           p[i] = IF i <= Len(o) + Len(m) THEN (o \o m)[i]
                                          ELSE ToPrint(r)[i - (Len(o) + Len(m))]
  <2> DEFINE a == o \o m
             b == ToPrint(r)
  <2>1. a \in Seq(Item) /\ b \in Seq(Item)
    BY <1>1, <1>3
  <2>2. Len(a) = Len(o) + Len(m) /\ Len(b) = Len(r.lines)
    BY <1>1, <1>3
  <2> HIDE DEF a, b
  <2>3. /\ a \o b \in Seq(Item) /\ Len(a \o b) = Len(a) + Len(b)
        /\ \A i \in 1..(Len(a) + Len(b)) :
             (a \o b)[i] = IF i <= Len(a) THEN a[i] ELSE b[i - Len(a)]
    BY <2>1, ConcatProperties
  <2>4. p = a \o b
    BY DEF a, b
  <2> HIDE DEF p
  <2>5. /\ p \in Seq(Item) /\ Len(p) = Len(o) + Len(m) + Len(r.lines)
        /\ \A i \in 1..(Len(o) + Len(m) + Len(r.lines)) :
             p[i] = IF i <= Len(o) + Len(m) THEN a[i] ELSE b[i - (Len(o) + Len(m))]
    BY <2>2, <2>3, <2>4
  <2> QED
    BY <2>5 DEF a, b
<1>5. Output(o, m, r) = p
  BY DEF Output
<1> HIDE DEF p
<1> DEFINE x == Len(o)
           y == Len(m)
           z == Len(r.lines)
           a == o \o m
           b == ToPrint(r)
<1>6. /\ x \in Nat /\ y \in Nat /\ z \in Nat
      /\ \A i \in 1..(x + y) : a[i] = IF i <= x THEN o[i] ELSE m[i - x]
      /\ \A i \in 1..(x + y + z) :
           p[i] = IF i <= x + y THEN a[i] ELSE b[i - (x + y)]
  BY <1>1, <1>2, <1>3, <1>4
<1> HIDE DEF x, y, z, a, b
<1>7. \A i \in 1..x : p[i] = o[i]
  BY <1>6
<1>8. ASSUME NEW i \in 1..y PROVE p[x + i] = m[i]
  <2>1. /\ x + i \in 1..(x + y) /\ x + i \in 1..(x + y + z)
        /\ x + i <= x + y /\ ~(x + i <= x) /\ x + i - x = i
    BY <1>6
  <2> QED
    BY <1>6, <2>1
<1>9. ASSUME NEW i \in 1..z PROVE p[x + y + i] = b[i]
  <2>1. /\ x + y + i \in 1..(x + y + z)
        /\ ~(x + y + i <= x + y) /\ x + y + i - (x + y) = i
    BY <1>6
  <2> QED
    BY <1>6, <2>1
<1> QED
  BY <1>1, <1>2, <1>4, <1>5, <1>7, <1>8, <1>9 DEF Joins, x, y, z, b

-------------------------------------------------------------------------------
(* A later part of what could be read, some lines of it torn.              *)

Weakens(before, items) ==
    \E k \in Nat :
        /\ Len(items) + k <= Len(before)
        /\ \A i \in 1..Len(items) :
              /\ items[i].own = before[i + k].own
              /\ items[i].ok = before[i + k].ok
              /\ items[i].line \in {before[i + k].line, Marker("noise")}

\* A line without a marker tells nothing.
LEMMA NoiseIsMute ==
    LET noise == Marker("noise")
    IN  ~Tells(noise) /\ ~Decides(noise) /\ \A ok \in BOOLEAN : Truthful(noise, ok)
BY DEF Marker, Tells, Decides, Clean, Truthful

\* What was good to read, or the job's own, or told nothing, still is.
LEMMA WeakensKeeps ==
    ASSUME NEW before \in Seq(Item), NEW items \in Seq(Item), Weakens(before, items)
    PROVE  /\ GoodItems(before) => GoodItems(items)
           /\ AllOwn(before) => AllOwn(items)
           /\ NoneOwn(before) => NoneOwn(items)
           /\ NoneTells(before) => NoneTells(items)
<1>1. PICK k \in Nat :
          /\ Len(items) + k <= Len(before)
          /\ \A i \in 1..Len(items) :
                /\ items[i].own = before[i + k].own
                /\ items[i].ok = before[i + k].ok
                /\ items[i].line \in {before[i + k].line, Marker("noise")}
  BY DEF Weakens
<1>2. /\ DOMAIN items = 1..Len(items) /\ DOMAIN before = 1..Len(before)
      /\ Len(items) \in Nat /\ Len(before) \in Nat
  BY LenProperties
<1>3. \A i \in DOMAIN items : i + k \in DOMAIN before
  BY <1>1, <1>2
<1>4. \A i, j \in DOMAIN items : i < j => i + k < j + k
  BY <1>2
<1>5. \A i \in DOMAIN items :
          /\ items[i].own = before[i + k].own
          /\ items[i].ok = before[i + k].ok /\ items[i].ok \in BOOLEAN
          /\ items[i].line = before[i + k].line \/ items[i].line = Marker("noise")
  <2>1. \A i \in 1..Len(items) : items[i] \in Item
    BY ElementOfSeq
  <2>2. \A i \in DOMAIN items : items[i].ok \in BOOLEAN
    BY <1>2, <2>1 DEF Item
  <2> QED
    BY <1>1, <1>2, <2>2
<1>6. ASSUME GoodItems(before) PROVE GoodItems(items)
  <2> SUFFICES ASSUME NEW i \in DOMAIN items
               PROVE  /\ ~items[i].own => ~Tells(items[i].line)
                      /\ items[i].own => Truthful(items[i].line, items[i].ok)
                      /\ \A j \in DOMAIN items : i < j /\ items[i].own =>
                           /\ items[j].own
                           /\ Decides(items[i].line) => ~Tells(items[j].line)
    BY DEF GoodItems
  <2>1. /\ ~before[i + k].own => ~Tells(before[i + k].line)
        /\ before[i + k].own => Truthful(before[i + k].line, before[i + k].ok)
        /\ \A j \in DOMAIN before : i + k < j /\ before[i + k].own =>
             /\ before[j].own
             /\ Decides(before[i + k].line) => ~Tells(before[j].line)
    BY <1>3, <1>6 DEF GoodItems
  <2>2. /\ ~items[i].own => ~Tells(items[i].line)
        /\ items[i].own => Truthful(items[i].line, items[i].ok)
    BY <1>5, <2>1, NoiseIsMute
  <2>3. ASSUME NEW j \in DOMAIN items, i < j, items[i].own
        PROVE  /\ items[j].own
               /\ Decides(items[i].line) => ~Tells(items[j].line)
    <3>1. /\ before[j + k].own
          /\ Decides(before[i + k].line) => ~Tells(before[j + k].line)
      BY <1>3, <1>4, <1>5, <2>1, <2>3
    <3> QED
      BY <1>5, <3>1, NoiseIsMute
  <2> QED
    BY <2>2, <2>3
<1>7. AllOwn(before) => AllOwn(items)
  BY <1>3, <1>5 DEF AllOwn
<1>8. NoneOwn(before) => NoneOwn(items)
  BY <1>3, <1>5 DEF NoneOwn
<1>9. NoneTells(before) => NoneTells(items)
  BY <1>3, <1>5, NoiseIsMute DEF NoneTells
<1> QED
  BY <1>6, <1>7, <1>8, <1>9

-------------------------------------------------------------------------------
(* What each step leaves to be read.                                       *)

\* Pending is a sequence of lines.
LEMMA PendingType ==
    ASSUME PipesOK
    PROVE  Pending \in Seq(Item) /\ sim \in Run
BY OutputJoins DEF PipesOK, Pending, Run, Joins

\* Nothing is read and nothing is lost.
LEMMA SameWeakens ==
    ASSUME NEW items \in Seq(Item)
    PROVE  Weakens(items, items)
<1>1. Len(items) \in Nat
  BY LenProperties
<1>2. Len(items) + 0 <= Len(items)
  BY <1>1
<1>3. ASSUME NEW i \in 1..Len(items)
      PROVE  /\ items[i].own = items[i + 0].own
             /\ items[i].ok = items[i + 0].ok
             /\ items[i].line \in {items[i + 0].line, Marker("noise")}
  <2>1. i + 0 = i
    OBVIOUS
  <2> QED
    BY <2>1
<1>4. 0 \in Nat
  OBVIOUS
<1> QED
  BY <1>2, <1>3, <1>4 DEF Weakens

\* A line the simulator prints, whole or in part, is one that was still to be read.
LEMMA PrintsPending ==
    ASSUME PipesOK, mid = <<>>, sim.lines # <<>>, sim' = Rest(sim),
           \/ out' = Append(out, NextItem) /\ mid' = mid
           \/ out' = out /\ mid' = <<NextItem>>
    PROVE  Pending' = Pending
<1> DEFINE r == sim.lines
<1>1. /\ r \in Seq(Line) /\ r # <<>> /\ out \in Seq(Item) /\ sim \in Run
  BY DEF PipesOK, Run
<1>2. /\ NextItem \in Item /\ Rest(sim) \in Run /\ Rest(sim).lines = Tail(r)
      /\ Rest(sim).own = sim.own /\ Rest(sim).ok = sim.ok
  BY NextLineType DEF Rest, Run
<1>3. /\ Len(r) \in Nat /\ Len(r) > 0 /\ Len(Tail(r)) = Len(r) - 1
      /\ \A i \in 1..(Len(r) - 1) : Tail(r)[i] = r[i + 1]
      /\ Head(r) = r[1]
  BY <1>1, HeadTailProperties, EmptySeq, LenProperties
<1>4. /\ ToPrint(sim) \in Seq(Item) /\ Len(ToPrint(sim)) = Len(r)
      /\ \A i \in 1..Len(r) :
           ToPrint(sim)[i] = [line |-> r[i], own |-> sim.own, ok |-> sim.ok]
  BY <1>1, ToPrintType
<1>5. /\ ToPrint(sim') \in Seq(Item) /\ Len(ToPrint(sim')) = Len(r) - 1
      /\ \A i \in 1..(Len(r) - 1) :
           ToPrint(sim')[i] = [line |-> r[i + 1], own |-> sim.own, ok |-> sim.ok]
  <2> DEFINE q == Rest(sim)
  <2>1. q \in Run /\ q.lines = Tail(r) /\ q.own = sim.own /\ q.ok = sim.ok
    BY <1>2
  <2> HIDE DEF q
  <2>2. /\ ToPrint(q) \in Seq(Item) /\ Len(ToPrint(q)) = Len(q.lines)
        /\ \A i \in 1..Len(q.lines) :
             ToPrint(q)[i] = [line |-> q.lines[i], own |-> q.own, ok |-> q.ok]
    BY <2>1, ToPrintType
  <2>3. sim' = q
    BY DEF q
  <2> QED
    BY <1>3, <2>1, <2>2, <2>3
<1>6. ToPrint(sim) = <<NextItem>> \o ToPrint(sim')
  <2> DEFINE a == <<NextItem>>
             b == ToPrint(sim')
  <2>1. a \in Seq(Item) /\ Len(a) = 1 /\ a[1] = NextItem
    BY <1>2
  <2>2. NextItem = [line |-> r[1], own |-> sim.own, ok |-> sim.ok]
    BY <1>3 DEF NextItem
  <2>3. b \in Seq(Item) /\ Len(b) = Len(r) - 1
    BY <1>5
  <2> HIDE DEF a, b
  <2>4. /\ a \o b \in Seq(Item) /\ Len(a \o b) = Len(a) + Len(b)
        /\ \A i \in 1..(Len(a) + Len(b)) :
             (a \o b)[i] = IF i <= Len(a) THEN a[i] ELSE b[i - Len(a)]
    BY <2>1, <2>3, ConcatProperties
  <2> DEFINE c == a \o b
  <2> HIDE DEF c
  <2>5. Len(c) = Len(r) /\ c \in Seq(Item)
    BY <1>3, <2>1, <2>3, <2>4 DEF c
  <2>6. \A i \in 1..Len(r) : c[i] = IF i <= 1 THEN a[i] ELSE b[i - 1]
    BY <1>3, <2>1, <2>3, <2>4 DEF c
  <2>7. \A i \in 1..(Len(r) - 1) :
            b[i] = [line |-> r[i + 1], own |-> sim.own, ok |-> sim.ok]
    BY <1>5 DEF b
  <2>8. ASSUME NEW i \in 1..Len(r) PROVE c[i] = ToPrint(sim)[i]
    <3>1. CASE i = 1
      BY <1>4, <2>1, <2>2, <2>6, <3>1
    <3>2. CASE i # 1
      <4>1. i - 1 \in 1..(Len(r) - 1) /\ (i - 1) + 1 = i /\ ~(i <= 1)
        BY <1>3, <3>2
      <4>2. b[i - 1] = [line |-> r[i], own |-> sim.own, ok |-> sim.ok]
        BY <2>7, <4>1
      <4> QED
        BY <1>4, <2>6, <4>1, <4>2
    <3> QED
      BY <3>1, <3>2
  <2>9. ToPrint(sim) = c
    BY <1>4, <2>5, <2>8, SeqEqual
  <2> QED
    BY <2>9 DEF a, b, c
<1>7. Pending = out \o (<<NextItem>> \o ToPrint(sim'))
  BY <1>1, <1>6, ConcatEmptySeq DEF Pending, Output
<1>8. <<NextItem>> \in Seq(Item)
  BY <1>2
<1>9. CASE out' = Append(out, NextItem) /\ mid' = mid
  <2>1. out' = out \o <<NextItem>> /\ out' \in Seq(Item)
    BY <1>1, <1>2, <1>9, AppendIsConcat, AppendProperties
  <2>2. Pending' = (out \o <<NextItem>>) \o ToPrint(sim')
    BY <1>9, <2>1, ConcatEmptySeq DEF Pending, Output
  <2> QED
    BY <1>1, <1>5, <1>7, <1>8, <2>2, ConcatAssociative
<1>10. CASE out' = out /\ mid' = <<NextItem>>
  <2>1. Pending' = (out \o <<NextItem>>) \o ToPrint(sim')
    BY <1>10 DEF Pending, Output
  <2> QED
    BY <1>1, <1>5, <1>7, <1>8, <2>1, ConcatAssociative
<1> QED
  BY <1>9, <1>10

\* A line that was begun is completed where it was.
LEMMA FinishesPending ==
    ASSUME PipesOK, out' = out \o mid, mid' = <<>>, sim' = sim
    PROVE  Pending' = Pending
<1>1. out \in Seq(Item) /\ mid \in Seq(Item) /\ out \o mid \in Seq(Item)
  BY ConcatProperties DEF PipesOK
<1>2. out' \o <<>> = out \o mid
  BY <1>1, ConcatEmptySeq
<1> QED
  BY <1>2 DEF Pending, Output

\* The first element of a concatenation, and what is behind it.
LEMMA TailOfConcat ==
    ASSUME NEW s \in Seq(Item), NEW t \in Seq(Item), s # <<>>
    PROVE  /\ s \o t # <<>> /\ Head(s \o t) = Head(s)
           /\ Tail(s \o t) = Tail(s) \o t
<1> DEFINE u == s \o t
           v == Tail(s)
           w == Tail(s) \o t
<1>1. /\ Len(s) \in Nat /\ Len(s) > 0 /\ Len(t) \in Nat /\ Head(s) = s[1]
      /\ v \in Seq(Item) /\ Len(v) = Len(s) - 1
      /\ \A i \in 1..(Len(s) - 1) : v[i] = s[i + 1]
  BY HeadTailProperties, EmptySeq, LenProperties
<1>2. /\ u \in Seq(Item) /\ Len(u) = Len(s) + Len(t)
      /\ \A i \in 1..(Len(s) + Len(t)) : u[i] = IF i <= Len(s) THEN s[i] ELSE t[i - Len(s)]
  BY ConcatProperties
<1>3. /\ w \in Seq(Item) /\ Len(w) = Len(v) + Len(t)
      /\ \A i \in 1..(Len(v) + Len(t)) : w[i] = IF i <= Len(v) THEN v[i] ELSE t[i - Len(v)]
  <2> HIDE DEF v
  <2>1. /\ v \o t \in Seq(Item) /\ Len(v \o t) = Len(v) + Len(t)
        /\ \A i \in 1..(Len(v) + Len(t)) :
             (v \o t)[i] = IF i <= Len(v) THEN v[i] ELSE t[i - Len(v)]
    BY <1>1, ConcatProperties
  <2>2. w = v \o t
    BY DEF v
  <2> QED
    BY <2>1, <2>2
<1> HIDE DEF u, v, w
<1>4. u # <<>> /\ Head(u) = u[1] /\ u[1] = s[1]
  BY <1>1, <1>2, EmptySeq
<1>5. /\ Tail(u) \in Seq(Item) /\ Len(Tail(u)) = Len(u) - 1
      /\ \A i \in 1..(Len(u) - 1) : Tail(u)[i] = u[i + 1]
  BY <1>2, <1>4, HeadTailProperties
<1>6. Len(Tail(u)) = Len(w)
  BY <1>1, <1>2, <1>3, <1>5
<1>7. ASSUME NEW i \in 1..Len(w) PROVE Tail(u)[i] = w[i]
  <2>1. /\ i \in 1..(Len(u) - 1) /\ i + 1 \in 1..(Len(s) + Len(t))
        /\ i \in 1..(Len(v) + Len(t)) /\ i + 1 - Len(s) = i - Len(v)
        /\ i + 1 <= Len(s) <=> i <= Len(v)
        /\ i <= Len(v) => i \in 1..(Len(s) - 1)
    BY <1>1, <1>2, <1>3
  <2>2. Tail(u)[i] = IF i <= Len(v) THEN s[i + 1] ELSE t[i - Len(v)]
    BY <1>2, <1>5, <2>1
  <2> QED
    BY <1>1, <1>3, <2>1, <2>2
<1>8. Tail(u) = w
  BY <1>3, <1>5, <1>6, <1>7, SeqEqual
<1> QED
  BY <1>1, <1>4, <1>8 DEF u, w

\* Reading a line takes the first one.
LEMMA ReadTakesFirst ==
    ASSUME PipesOK, ReadsLine
    PROVE  /\ Pending \in Seq(Item) /\ Pending # <<>>
           /\ Head(Pending) = Head(out) /\ Pending' = Tail(Pending)
<1>1. /\ out \in Seq(Item) /\ mid \in Seq(Item) /\ sim \in Run
      /\ out # <<>> /\ out' = Tail(out) /\ mid' = mid /\ sim' = sim
  BY DEF PipesOK, ReadsLine, Run
<1>2. /\ out \o mid # <<>> /\ out \o mid \in Seq(Item)
      /\ Head(out \o mid) = Head(out) /\ Tail(out \o mid) = Tail(out) \o mid
  BY <1>1, TailOfConcat, ConcatProperties
<1>3. ToPrint(sim) \in Seq(Item)
  BY <1>1, ToPrintType
<1>4. /\ (out \o mid) \o ToPrint(sim) # <<>>
      /\ Head((out \o mid) \o ToPrint(sim)) = Head(out)
      /\ Tail((out \o mid) \o ToPrint(sim)) = (Tail(out) \o mid) \o ToPrint(sim)
  <2> DEFINE a == out \o mid
             b == ToPrint(sim)
  <2>1. a \in Seq(Item) /\ b \in Seq(Item) /\ a # <<>>
    BY <1>2, <1>3
  <2> HIDE DEF a, b
  <2>2. /\ a \o b # <<>> /\ Head(a \o b) = Head(a)
        /\ Tail(a \o b) = Tail(a) \o b
    BY <2>1, TailOfConcat
  <2> QED
    BY <1>2, <2>2 DEF a, b
<1>5. Pending = (out \o mid) \o ToPrint(sim)
  BY DEF Pending, Output
<1>6. Pending' = (Tail(out) \o mid) \o ToPrint(sim)
  BY <1>1 DEF Pending, Output
<1> QED
  BY <1>4, <1>5, <1>6, PendingType

\* What is behind the first line is a later part.
LEMMA TailWeakens ==
    ASSUME NEW items \in Seq(Item), items # <<>>
    PROVE  Tail(items) \in Seq(Item) /\ Weakens(items, Tail(items))
<1>1. /\ Tail(items) \in Seq(Item) /\ Len(Tail(items)) = Len(items) - 1
      /\ \A i \in 1..Len(Tail(items)) : Tail(items)[i] = items[i + 1]
      /\ Len(items) \in Nat
  BY HeadTailProperties, LenProperties
<1>2. Len(Tail(items)) + 1 <= Len(items)
  BY <1>1
<1>3. ASSUME NEW i \in 1..Len(Tail(items))
      PROVE  /\ Tail(items)[i].own = items[i + 1].own
             /\ Tail(items)[i].ok = items[i + 1].ok
             /\ Tail(items)[i].line \in {items[i + 1].line, Marker("noise")}
  BY <1>1
<1>4. 1 \in Nat
  OBVIOUS
<1> QED
  BY <1>1, <1>2, <1>3, <1>4, Zenon DEF Weakens

\* What comes first of a concatenation is a part.
LEMMA PrefixWeakens ==
    ASSUME NEW s \in Seq(Item), NEW t \in Seq(Item)
    PROVE  Weakens(s \o t, s)
<1>1. /\ Len(s) \in Nat /\ Len(t) \in Nat /\ Len(s \o t) = Len(s) + Len(t)
      /\ \A i \in 1..(Len(s) + Len(t)) :
           (s \o t)[i] = IF i <= Len(s) THEN s[i] ELSE t[i - Len(s)]
  BY ConcatProperties, LenProperties
<1>2. Len(s) + 0 <= Len(s \o t)
  BY <1>1
<1>3. ASSUME NEW i \in 1..Len(s)
      PROVE  /\ s[i].own = (s \o t)[i + 0].own
             /\ s[i].ok = (s \o t)[i + 0].ok
             /\ s[i].line \in {(s \o t)[i + 0].line, Marker("noise")}
  <2>1. i + 0 = i /\ i \in 1..(Len(s) + Len(t)) /\ i <= Len(s)
    BY <1>1
  <2>2. (s \o t)[i + 0] = s[i]
    BY <1>1, <2>1
  <2> QED
    BY <2>2
<1>4. 0 \in Nat
  OBVIOUS
<1> QED
  BY <1>2, <1>3, <1>4, Zenon DEF Weakens

\* An element of the whole is one of the three parts'.
PartOf(i, items, o, m, r) ==
    \/ i \in 1..Len(o) /\ items[i] = o[i]
    \/ \E j \in 1..Len(m) : i = Len(o) + j /\ items[i] = m[j]
    \/ \E j \in 1..Len(r.lines) :
          /\ i = Len(o) + Len(m) + j
          /\ items[i] = [line |-> r.lines[j], own |-> r.own, ok |-> r.ok]

\* Every element of what can be read is.
LEMMA EveryPart ==
    ASSUME NEW p, NEW o, NEW m, NEW r, Joins(p, o, m, r), NEW i \in 1..Len(p)
    PROVE  PartOf(i, p, o, m, r)
<1> DEFINE x == Len(o)
           y == Len(m)
           z == Len(r.lines)
<1>1. /\ x \in Nat /\ y \in Nat /\ z \in Nat /\ Len(p) = x + y + z
      /\ \A j \in 1..x : p[j] = o[j]
      /\ \A j \in 1..y : p[x + j] = m[j]
      /\ \A j \in 1..z :
           p[x + y + j] = [line |-> r.lines[j], own |-> r.own, ok |-> r.ok]
  BY DEF Joins
<1>2. i \in 1..Len(p)
  OBVIOUS
<1> HIDE DEF x, y, z
<1>3. CASE i <= x
  BY <1>1, <1>2, <1>3 DEF PartOf, x
<1>4. CASE i > x /\ i <= x + y
  <2>1. i - x \in 1..y /\ i = x + (i - x)
    BY <1>1, <1>2, <1>4
  <2>2. \E j \in 1..y : i = x + j /\ p[i] = m[j]
    BY <1>1, <2>1
  <2> QED
    BY <2>2 DEF PartOf, x, y
<1>5. CASE i > x + y
  <2>1. i - (x + y) \in 1..z /\ i = x + y + (i - (x + y))
    BY <1>1, <1>2, <1>5
  <2>2. \E j \in 1..z :
            /\ i = x + y + j
            /\ p[i] = [line |-> r.lines[j], own |-> r.own, ok |-> r.ok]
    BY <1>1, <2>1
  <2> QED
    BY <2>2 DEF PartOf, x, y, z
<1> QED
  BY <1>1, <1>2, <1>3, <1>4, <1>5

\* A line whose first piece was lost is a line without a marker.
LEMMA TornWeakens ==
    ASSUME NEW o \in Seq(Item), NEW m \in Seq(Item), NEW r \in Run
    PROVE  Weakens(Output(o, m, r), Output(o, Torn(m), r))
<1> DEFINE x == Len(o)
           y == Len(m)
           z == Len(r.lines)
           t == Torn(m)
           p == Output(o, m, r)
           q == Output(o, t, r)
<1>1. /\ t \in Seq(Item) /\ Len(t) = y /\ y \in Nat
      /\ \A j \in 1..y :
           t[j] = [line |-> Marker("noise"), own |-> m[j].own, ok |-> m[j].ok]
  <2>1. DOMAIN m = 1..y /\ y \in Nat /\ t \in Seq(Item)
    BY LenProperties, TornType
  <2>2. DOMAIN t = 1..y
    BY <2>1 DEF Torn
  <2>3. Len(t) = y
    BY <2>1, <2>2, LenProperties
  <2> QED
    BY <2>1, <2>3 DEF Torn
<1>2. /\ x \in Nat /\ z \in Nat /\ Len(p) = x + y + z
      /\ \A j \in 1..x : p[j] = o[j]
      /\ \A j \in 1..y : p[x + j] = m[j]
      /\ \A j \in 1..z :
           p[x + y + j] = [line |-> r.lines[j], own |-> r.own, ok |-> r.ok]
  <2>1. Joins(p, o, m, r)
    BY OutputJoins
  <2> HIDE DEF p
  <2> QED
    BY <2>1 DEF Joins
<1> HIDE DEF t
<1>3. Joins(q, o, t, r)
  BY <1>1, OutputJoins
<1>4. ASSUME NEW i \in 1..Len(q)
      PROVE  \/ i \in 1..x /\ q[i] = o[i]
             \/ \E j \in 1..y : i = x + j /\ q[i] = t[j]
             \/ \E j \in 1..z :
                  /\ i = x + y + j
                  /\ q[i] = [line |-> r.lines[j], own |-> r.own, ok |-> r.ok]
  <2>1. PartOf(i, q, o, t, r)
    BY <1>3, EveryPart
  <2> QED
    BY <1>1, <2>1 DEF PartOf
<1>9. Len(q) = x + y + z
  BY <1>1, <1>3 DEF Joins
<1> HIDE DEF x, y, z, p, q
<1>5. ASSUME NEW i \in 1..Len(q)
      PROVE  /\ q[i].own = p[i].own /\ q[i].ok = p[i].ok
             /\ q[i].line = p[i].line \/ q[i].line = Marker("noise")
  <2>1. CASE i \in 1..x /\ q[i] = o[i]
    BY <1>2, <2>1
  <2>2. ASSUME NEW j \in 1..y, i = x + j, q[i] = t[j]
        PROVE  /\ q[i].own = p[i].own /\ q[i].ok = p[i].ok
               /\ q[i].line = Marker("noise")
    <3>1. q[i] = [line |-> Marker("noise"), own |-> m[j].own, ok |-> m[j].ok]
      BY <1>1, <2>2
    <3>2. p[i] = m[j]
      BY <1>2, <2>2
    <3> QED
      BY <3>1, <3>2
  <2>3. ASSUME NEW j \in 1..z, i = x + y + j,
               q[i] = [line |-> r.lines[j], own |-> r.own, ok |-> r.ok]
        PROVE  q[i] = p[i]
    BY <1>2, <2>3
  <2> QED
    BY <1>4, <2>1, <2>2, <2>3
<1>6. Len(q) + 0 <= Len(p) /\ 0 \in Nat
  BY <1>1, <1>2, <1>9
<1>7. ASSUME NEW i \in 1..Len(q)
      PROVE  /\ q[i].own = p[i + 0].own
             /\ q[i].ok = p[i + 0].ok
             /\ q[i].line \in {p[i + 0].line, Marker("noise")}
  <2>1. i + 0 = i
    BY <1>1, <1>2, <1>9
  <2> QED
    BY <1>5, <2>1
<1>8. Weakens(p, q)
  BY <1>6, <1>7, Zenon DEF Weakens
<1> QED
  BY <1>8 DEF p, q, t

\* What an exit leaves is what was written.
LEMMA ExitWeakens ==
    ASSUME PipesOK, SimExits
    PROVE  Weakens(Pending, Pending')
<1>1. /\ out \in Seq(Item) /\ mid \in Seq(Item) /\ sim \in Run
      /\ sim' = NoSim /\ mid' = <<>> /\ out' \in {out, out \o mid}
  BY DEF PipesOK, SimExits, Run
<1>2. ToPrint(NoSim) = <<>>
  <2>1. NoSim \in Run /\ NoSim.lines = <<>>
    BY SimTypes DEF Run, NoSim
  <2>2. ToPrint(NoSim) \in Seq(Item) /\ Len(ToPrint(NoSim)) = 0
    BY <2>1, ToPrintType, EmptySeq
  <2> QED
    BY <2>2, EmptySeq
<1>3. out \o mid \in Seq(Item) /\ ToPrint(sim) \in Seq(Item)
  BY <1>1, ConcatProperties, ToPrintType
<1>4. out' \in Seq(Item) /\ out' \o <<>> = out' /\ Pending' = out'
  <2>1. out' \in Seq(Item)
    BY <1>1, <1>3
  <2>2. out' \o <<>> = out'
    BY <2>1, ConcatEmptySeq
  <2> QED
    BY <1>1, <1>2, <2>1, <2>2 DEF Pending, Output
<1>5. Pending = (out \o mid) \o ToPrint(sim)
  BY DEF Pending, Output
<1>6. Weakens(Pending, out \o mid)
  BY <1>3, <1>5, PrefixWeakens
<1>7. Weakens(Pending, out)
  <2>1. mid \o ToPrint(sim) \in Seq(Item)
    BY <1>1, <1>3, ConcatProperties
  <2>2. Pending = out \o (mid \o ToPrint(sim))
    BY <1>1, <1>3, <1>5, ConcatAssociative
  <2> DEFINE rest == mid \o ToPrint(sim)
  <2>3. rest \in Seq(Item) /\ Pending = out \o rest
    BY <2>1, <2>2
  <2> HIDE DEF rest
  <2>4. Weakens(out \o rest, out)
    BY <1>1, <2>3, PrefixWeakens
  <2> QED
    BY <2>3, <2>4
<1> QED
  BY <1>1, <1>4, <1>6, <1>7

\* What was to be read by an earlier job tells the next one nothing, if it told nothing.
LEMMA StalePending ==
    ASSUME NEW o \in Seq(Item), NEW m \in Seq(Item), NEW r \in Run,
           NoneTells(Output(o, m, r))
    PROVE  LET stale == Output(StaleItems(o), StaleItems(m), StaleRun(r))
           IN  NoneOwn(stale) /\ NoneTells(stale)
<1> DEFINE so == StaleItems(o)
           sm == StaleItems(m)
           sr == StaleRun(r)
           p == Output(o, m, r)
           q == Output(so, sm, sr)
<1>1. /\ so \in Seq(Item) /\ sm \in Seq(Item)
      /\ Len(so) = Len(o) /\ Len(sm) = Len(m)
      /\ \A i \in 1..Len(o) : so[i].line = o[i].line /\ ~so[i].own
      /\ \A i \in 1..Len(m) : sm[i].line = m[i].line /\ ~sm[i].own
  <2>1. ASSUME NEW s \in Seq(Item)
        PROVE  /\ StaleItems(s) \in Seq(Item) /\ Len(StaleItems(s)) = Len(s)
               /\ \A i \in 1..Len(s) :
                    StaleItems(s)[i].line = s[i].line /\ ~StaleItems(s)[i].own
    <3>1. StaleItems(s) \in Seq(Item) /\ DOMAIN s = 1..Len(s) /\ Len(s) \in Nat
      BY StaleItemsType, LenProperties
    <3>2. DOMAIN StaleItems(s) = 1..Len(s)
      BY <3>1 DEF StaleItems
    <3>3. Len(StaleItems(s)) = Len(s)
      BY <3>1, <3>2, LenProperties
    <3> QED
      BY <3>1, <3>3 DEF StaleItems
  <2> QED
    BY <2>1
<1>2. sr \in Run /\ sr.lines = r.lines /\ sr.own = FALSE
  BY DEF StaleRun, Run
<1> HIDE DEF so, sm, sr
<1>3. Joins(p, o, m, r) /\ Joins(q, so, sm, sr)
  BY <1>1, <1>2, OutputJoins
<1>4. NoneTells(p)
  OBVIOUS
<1> HIDE DEF p, q
<1>5. /\ DOMAIN p = 1..Len(p) /\ DOMAIN q = 1..Len(q)
      /\ Len(p) = Len(o) + Len(m) + Len(r.lines)
      /\ Len(o) \in Nat /\ Len(m) \in Nat /\ Len(r.lines) \in Nat
  BY <1>3, LenProperties DEF Joins
<1> DEFINE x == Len(o)
           y == Len(m)
           z == Len(r.lines)
<1>6. /\ x \in Nat /\ y \in Nat /\ z \in Nat
      /\ \A i \in 1..(x + y + z) : ~Tells(p[i].line)
  BY <1>4, <1>5 DEF NoneTells
<1>7. /\ \A i \in 1..x : p[i] = o[i]
      /\ \A i \in 1..y : p[x + i] = m[i]
      /\ \A i \in 1..z : p[x + y + i].line = r.lines[i]
  <2>1. /\ \A i \in 1..x : p[i] = o[i]
        /\ \A i \in 1..y : p[x + i] = m[i]
        /\ \A i \in 1..z :
             p[x + y + i] = [line |-> r.lines[i], own |-> r.own, ok |-> r.ok]
    BY <1>3 DEF Joins
  <2> HIDE DEF x, y, z
  <2>2. ASSUME NEW i \in 1..z PROVE p[x + y + i].line = r.lines[i]
    <3>1. p[x + y + i] = [line |-> r.lines[i], own |-> r.own, ok |-> r.ok]
      BY <2>1
    <3> QED
      BY <3>1
  <2> QED
    BY <2>1, <2>2
<1>8. /\ \A i \in 1..Len(o) : ~Tells(o[i].line)
      /\ \A i \in 1..Len(m) : ~Tells(m[i].line)
      /\ \A i \in 1..Len(r.lines) : ~Tells(r.lines[i])
  <2> HIDE DEF x, y, z
  <2>1. ASSUME NEW i \in 1..x PROVE ~Tells(o[i].line)
    BY <1>6, <1>7
  <2>2. ASSUME NEW i \in 1..y PROVE ~Tells(m[i].line)
    <3>1. x + i \in 1..(x + y + z)
      BY <1>6
    <3> QED
      BY <1>6, <1>7, <3>1
  <2>3. ASSUME NEW i \in 1..z PROVE ~Tells(r.lines[i])
    <3>1. x + y + i \in 1..(x + y + z)
      BY <1>6
    <3> QED
      BY <1>6, <1>7, <3>1
  <2> QED
    BY <2>1, <2>2, <2>3 DEF x, y, z
<1>9. ASSUME NEW i \in DOMAIN q PROVE ~q[i].own /\ ~Tells(q[i].line)
  <2>1. PartOf(i, q, so, sm, sr)
    BY <1>3, <1>5, EveryPart
  <2>2. CASE i \in 1..Len(so) /\ q[i] = so[i]
    BY <1>1, <1>8, <2>2
  <2>3. ASSUME NEW j \in 1..Len(sm), q[i] = sm[j]
        PROVE  ~q[i].own /\ ~Tells(q[i].line)
    BY <1>1, <1>8, <2>3
  <2>4. ASSUME NEW j \in 1..Len(sr.lines),
               q[i] = [line |-> sr.lines[j], own |-> sr.own, ok |-> sr.ok]
        PROVE  ~q[i].own /\ ~Tells(q[i].line)
    <3>1. q[i].line = r.lines[j] /\ q[i].own = FALSE /\ j \in 1..Len(r.lines)
      BY <1>2, <2>4
    <3> QED
      BY <1>8, <3>1
  <2> QED
    BY <2>1, <2>2, <2>3, <2>4 DEF PartOf
<1>10. NoneOwn(q) /\ NoneTells(q)
  BY <1>9 DEF NoneOwn, NoneTells
<1> QED
  BY <1>10 DEF q, so, sm, sr

\* Output of earlier jobs only, that tells nothing, is good to read.
LEMMA QuietIsGood ==
    ASSUME NEW items, NoneOwn(items), NoneTells(items)
    PROVE  GoodItems(items)
BY DEF NoneOwn, NoneTells, GoodItems

\* Nothing to read.
LEMMA EmptyIsGood ==
    /\ Output(<<>>, <<>>, NoSim) = <<>>
    /\ GoodItems(<<>>) /\ AllOwn(<<>>) /\ NoneOwn(<<>>) /\ NoneTells(<<>>)
<1>1. NoSim \in Run /\ NoSim.lines = <<>>
  BY SimTypes DEF Run, NoSim
<1>2. ToPrint(NoSim) \in Seq(Item) /\ Len(ToPrint(NoSim)) = 0
  BY <1>1, ToPrintType, EmptySeq
<1>3. ToPrint(NoSim) = <<>>
  BY <1>2, EmptySeq
<1>4. <<>> \in Seq(Item) /\ <<>> \o <<>> = <<>>
  BY EmptySeq, ConcatEmptySeq
<1>5. Output(<<>>, <<>>, NoSim) = <<>>
  BY <1>3, <1>4 DEF Output
<1> QED
  BY <1>5 DEF GoodItems, AllOwn, NoneOwn, NoneTells

-------------------------------------------------------------------------------
(* Steps that leave a later part to be read and ask nothing new.           *)

Between == pc \notin {"wait", "waitpoll", "discard", "killed"}
Starting == pc \in {"handshake", "hspoll", "init", "dispatch"}
AtRun == pc \in {"check", "start"} /\ op = "run"

\* The commands are the same, or there are none left.
LEMMA SameCommands ==
    ASSUME cmds' = cmds \/ cmds' = <<>>
    PROVE  /\ QueueOK => QueueOK'
           /\ OnlyQuits => OnlyQuits'
           /\ NoRunQueued => NoRunQueued'
<1>1. CASE cmds' = cmds
  BY <1>1 DEF QueueOK, OnlyQuits, NoRunQueued
<1>2. CASE cmds' = <<>>
  BY <1>2 DEF QueueOK, OnlyQuits, NoRunQueued
<1> QED
  BY <1>1, <1>2

\* Such a step preserves the invariant if it does not get ahead of the session.
LEMMA WeakerStep ==
    ASSUME VerdictInv, Pending \in Seq(Item), Pending' \in Seq(Item),
           Weakens(Pending, Pending'),
           cmds' = cmds \/ cmds' = <<>>,
           (Waiting /\ seen)' => Waiting /\ seen,
           Between' => Between,
           Starting' => Starting \/ AtRun,
           AtRun' => Starting \/ AtRun,
           VerdictIsTheRuns'
    PROVE  VerdictInv'
<1>1. /\ GoodItems(Pending) => GoodItems(Pending')
      /\ AllOwn(Pending) => AllOwn(Pending')
      /\ NoneOwn(Pending) => NoneOwn(Pending')
      /\ NoneTells(Pending) => NoneTells(Pending')
  BY WeakensKeeps
<1>2. /\ QueueOK => QueueOK'
      /\ OnlyQuits => OnlyQuits'
      /\ NoRunQueued => NoRunQueued'
  BY SameCommands
<1>3. /\ GoodItems(Pending) /\ QueueOK
      /\ ~NoneOwn(Pending) \/ (Waiting /\ seen) => OnlyQuits
      /\ Waiting /\ seen => AllOwn(Pending)
      /\ Between => NoRunQueued /\ NoneTells(Pending)
      /\ Starting \/ AtRun => NoneOwn(Pending)
  BY DEF VerdictInv, Between, Starting, AtRun
<1>4. /\ GoodItems(Pending') /\ QueueOK'
      /\ ~NoneOwn(Pending') \/ (Waiting /\ seen)' => OnlyQuits'
      /\ (Waiting /\ seen)' => AllOwn(Pending')
      /\ Between' => NoRunQueued' /\ NoneTells(Pending')
      /\ Starting' \/ AtRun' => NoneOwn(Pending')
  BY <1>1, <1>2, <1>3
<1> QED
  BY <1>4 DEF VerdictInv, Between, Starting, AtRun

\* The steps of the session that touch neither pipe: the deadlines, the polls of the
\* process, failed starts and failed writes.
Aside ==
    \/ CallStart \/ CheckAlive \/ CheckDead \/ StartAlreadyActive \/ StartFails
    \/ HandshakeDeadline \/ HandshakePollAlive \/ HandshakePollExited
    \/ WriteInitFails \/ WriteInitKills \/ DispatchFails \/ DispatchKills
    \/ RunDeadline \/ RunPollAlive \/ RunPollExited \/ Tick \/ UNCHANGED vars

\* They lead to where no more is required of the pipes.
LEMMA AsideStep ==
    ASSUME PipesOK, CallShape, VerdictInv, Aside
    PROVE  VerdictInv'
<1>1. UNCHANGED <<out, mid, sim, cmds>>
  BY DEF Aside, CallStart, CheckAlive, CheckDead, StartAlreadyActive, StartFails,
     HandshakeDeadline, HandshakePollAlive, HandshakePollExited, WriteInitFails,
     WriteInitKills, SigPipeKills, DispatchFails, DispatchKills, RunDeadline,
     RunPollAlive, RunPollExited, Tick, vars, session, simulator
<1>2. /\ (Waiting /\ seen)' => Waiting /\ seen
      /\ Between' => Between
      /\ Starting' => Starting \/ AtRun
      /\ AtRun' => Starting \/ AtRun
  BY DEF Aside, CallStart, CheckAlive, CheckDead, StartAlreadyActive, StartFails,
     StartThrows, Discard, Return,
     HandshakeDeadline, HandshakePollAlive, HandshakePollExited, WriteInitFails,
     WriteInitKills, SigPipeKills, DispatchFails, DispatchKills, RunDeadline,
     RunPollAlive, RunPollExited, Tick, vars, session, simulator,
     Waiting, Between, Starting, AtRun, CallShape
<1>3. VerdictIsTheRuns'
  <2>1. VerdictIsTheRuns
    BY DEF VerdictInv
  <2>2. \/ UNCHANGED <<pc, status, basis>>
        \/ pc' # "idle"
        \/ status' \in {"started", "exception"}
    BY DEF Aside, CallStart, CheckAlive, CheckDead, StartAlreadyActive, StartFails,
       StartThrows, Discard, Return,
       HandshakeDeadline, HandshakePollAlive, HandshakePollExited, WriteInitFails,
       WriteInitKills, SigPipeKills, DispatchFails, DispatchKills, RunDeadline,
       RunPollAlive, RunPollExited, Tick, vars, session, simulator
  <2> QED
    BY <2>1, <2>2 DEF VerdictIsTheRuns, Answered
<1>4. Pending' = Pending
  BY <1>1 DEF Pending
<1>5. Weakens(Pending, Pending') /\ Pending \in Seq(Item) /\ Pending' \in Seq(Item)
  BY <1>4, PendingType, SameWeakens
<1> QED
  BY <1>1, <1>2, <1>3, <1>5, WeakerStep

\* Steps of the simulator, and reads that decide nothing.
Passing ==
    \/ HandshakeReadsLine \/ HandshakeReadsNothing \/ RunReadsNothing
    \/ SimPrintsLine \/ SimPrintsPiece \/ SimStalls \/ SimFinishesLine \/ SimExits

\* Printing and completing a line move what is to be read, reading it and losing its first
\* piece and exiting leave less.
LEMMA PassingWeakens ==
    ASSUME PipesOK, PipesOK', Passing
    PROVE  Pending \in Seq(Item) /\ Pending' \in Seq(Item) /\ Weakens(Pending, Pending')
<1>1. Pending \in Seq(Item) /\ Pending' \in Seq(Item)
  <2>1. Pending \in Seq(Item)
    BY PendingType
  <2>2. out' \in Seq(Item) /\ mid' \in Seq(Item) /\ sim' \in Run
    BY DEF PipesOK, Run
  <2>3. Joins(Output(out', mid', sim'), out', mid', sim')
    BY <2>2, OutputJoins
  <2> QED
    BY <2>1, <2>3 DEF Joins, Pending
<1>2. Weakens(Pending, Pending')
  <2>1. CASE HandshakeReadsLine
    BY <2>1, ReadTakesFirst, TailWeakens DEF HandshakeReadsLine
  <2>2. CASE HandshakeReadsNothing \/ RunReadsNothing
    <3>1. /\ out' = out /\ mid' = Torn(mid) /\ sim' = sim
          /\ out \in Seq(Item) /\ mid \in Seq(Item) /\ sim \in Run
      BY <2>2 DEF HandshakeReadsNothing, RunReadsNothing, ReadsNothing, PipesOK, Run
    <3>2. Pending' = Output(out, Torn(mid), sim)
      BY <3>1 DEF Pending
    <3> QED
      BY <3>1, <3>2, TornWeakens DEF Pending
  <2>3. CASE SimPrintsLine
    <3>1. Pending' = Pending
      BY <2>3, PrintsPending DEF SimPrintsLine
    <3> QED
      BY <1>1, <3>1, SameWeakens
  <2>4. CASE SimPrintsPiece
    <3>1. Pending' = Pending
      BY <2>4, PrintsPending DEF SimPrintsPiece
    <3> QED
      BY <1>1, <3>1, SameWeakens
  <2>5. CASE SimStalls
    <3>1. Pending' = Pending
      BY <2>5 DEF SimStalls, Pending
    <3> QED
      BY <1>1, <3>1, SameWeakens
  <2>6. CASE SimFinishesLine
    <3>1. Pending' = Pending
      BY <2>6, FinishesPending DEF SimFinishesLine
    <3> QED
      BY <1>1, <3>1, SameWeakens
  <2>7. CASE SimExits
    BY <2>7, ExitWeakens
  <2> QED
    BY <2>1, <2>2, <2>3, <2>4, <2>5, <2>6, <2>7 DEF Passing
<1> QED
  BY <1>1, <1>2

\* None of them gets ahead of the session.
LEMMA PassingStep ==
    ASSUME PipesOK, PipesOK', VerdictInv, Passing
    PROVE  VerdictInv'
<1>1. /\ (Waiting /\ seen)' => Waiting /\ seen
      /\ Between' => Between
      /\ Starting' => Starting \/ AtRun
      /\ AtRun' => Starting \/ AtRun
      /\ cmds' = cmds \/ cmds' = <<>>
  BY DEF Passing, HandshakeReadsLine, HandshakeReadsNothing, RunReadsNothing, ReadsLine,
     ReadsNothing, SimPrintsLine, SimPrintsPiece, SimStalls, SimFinishesLine, SimExits,
     SimUnchanged, session, Waiting, Between, Starting, AtRun
<1>2. VerdictIsTheRuns'
  <2>1. VerdictIsTheRuns
    BY DEF VerdictInv
  <2>2. \/ UNCHANGED <<pc, status, basis>>
        \/ pc' # "idle"
    BY DEF Passing, HandshakeReadsLine, HandshakeReadsNothing, RunReadsNothing,
       SimPrintsLine, SimPrintsPiece, SimStalls, SimFinishesLine, SimExits,
       SimUnchanged, session
  <2> QED
    BY <2>1, <2>2 DEF VerdictIsTheRuns, Answered
<1> QED
  BY <1>1, <1>2, PassingWeakens, WeakerStep

-------------------------------------------------------------------------------
(* The caller, the launch and the discard.                                 *)

\* A command behind those in the pipe.
LEMMA WriteAppends ==
    ASSUME PipesOK, NEW name \in {"init", "run", "quit"}, Write(name)
    PROVE  \/ cmds' = cmds
           \/ /\ DOMAIN cmds = 1..Len(cmds) /\ DOMAIN cmds' = 1..(Len(cmds) + 1)
              /\ Len(cmds) \in Nat
              /\ \A i \in 1..Len(cmds) : cmds'[i] = cmds[i]
              /\ cmds'[Len(cmds) + 1] = [name |-> name, own |-> TRUE]
<1>1. CASE cmds' = Append(cmds, [name |-> name, own |-> TRUE])
  <2>1. [name |-> name, own |-> TRUE] \in Command
    BY DEF Command
  <2>2. /\ DOMAIN cmds = 1..Len(cmds) /\ DOMAIN cmds' = 1..(Len(cmds) + 1)
        /\ Len(cmds) \in Nat
    BY <1>1, <2>1, AppendProperties, LenProperties DEF PipesOK
  <2>3. \A i \in 1..Len(cmds) : cmds'[i] = cmds[i]
    BY <1>1, <2>1, AppendProperties DEF PipesOK
  <2>4. cmds'[Len(cmds) + 1] = [name |-> name, own |-> TRUE]
    BY <1>1, <2>1, AppendProperties DEF PipesOK
  <2> QED
    BY <2>2, <2>3, <2>4
<1> QED
  BY <1>1 DEF Write

\* A new job finds output of earlier ones that tells nothing, and no run queued.
LEMMA CallRunStep ==
    ASSUME PipesOK, VerdictInv, CallRun
    PROVE  VerdictInv'
<1>1. NoRunQueued /\ NoneTells(Pending)
  BY DEF VerdictInv, CallRun
<1>2. /\ out \in Seq(Item) /\ mid \in Seq(Item) /\ sim \in Run
      /\ Pending' = Output(StaleItems(out), StaleItems(mid), StaleRun(sim))
  BY DEF PipesOK, Run, CallRun, Pending
<1>3. NoneOwn(Pending') /\ NoneTells(Pending')
  BY <1>1, <1>2, StalePending DEF Pending
<1>4. GoodItems(Pending')
  BY <1>3, QuietIsGood
<1>5. NoRunQueued'
  BY <1>1 DEF CallRun, StaleCommands, NoRunQueued
<1>6. QueueOK'
  BY <1>5 DEF QueueOK, NoRunQueued
<1>7. pc' = "check"
  BY DEF CallRun
<1> QED
  BY <1>3, <1>4, <1>5, <1>6, <1>7 DEF VerdictInv, Waiting, VerdictIsTheRuns, Answered

\* stop() at most asks the simulator to quit.
LEMMA CallStopStep ==
    ASSUME PipesOK, VerdictInv, CallStop
    PROVE  VerdictInv'
<1>1. /\ Pending' = Pending
      /\ cmds' = cmds \/ Write("quit")
      /\ pc' \in {"discard", "killed"}
  BY DEF CallStop, Pending, Discard
<1>2. /\ GoodItems(Pending) /\ QueueOK /\ NoRunQueued
      /\ ~NoneOwn(Pending) => OnlyQuits
  BY DEF VerdictInv, CallStop
<1>3. QueueOK' /\ (OnlyQuits => OnlyQuits')
  <2>1. CASE cmds' = cmds
    BY <1>2, <2>1 DEF QueueOK, OnlyQuits
  <2>2. CASE /\ DOMAIN cmds = 1..Len(cmds) /\ DOMAIN cmds' = 1..(Len(cmds) + 1)
             /\ Len(cmds) \in Nat
             /\ \A i \in 1..Len(cmds) : cmds'[i] = cmds[i]
             /\ cmds'[Len(cmds) + 1] = [name |-> "quit", own |-> TRUE]
    <3>1. \A i \in DOMAIN cmds' : cmds'[i].name # "run"
      BY <1>2, <2>2 DEF NoRunQueued
    <3>2. OnlyQuits => OnlyQuits'
      BY <2>2 DEF OnlyQuits
    <3> QED
      BY <3>1, <3>2 DEF QueueOK
  <2> QED
    BY <1>1, <2>1, <2>2, WriteAppends
<1> QED
  BY <1>1, <1>2, <1>3 DEF VerdictInv, Waiting, VerdictIsTheRuns, Answered

\* A simulator that was just launched has only its banner to print.
LEMMA LaunchStep ==
    ASSUME Launch
    PROVE  VerdictInv'
<1>1. /\ Pending' = Output(<<>>, <<>>, Booting) /\ cmds' = <<>> /\ pc' = "handshake"
  BY DEF Launch, Pending
<1>2. Booting \in Run /\ Booting.lines = <<Marker("handshake")>> /\ Booting.own = FALSE
  BY SimTypes DEF Run, Booting
<1>3. /\ ToPrint(Booting) \in Seq(Item) /\ Len(ToPrint(Booting)) = 1
      /\ ToPrint(Booting)[1].line = Marker("handshake") /\ ~ToPrint(Booting)[1].own
  <2>1. Len(Booting.lines) = 1 /\ Booting.lines[1] = Marker("handshake")
    BY <1>2
  <2>2. /\ ToPrint(Booting) \in Seq(Item) /\ Len(ToPrint(Booting)) = 1
        /\ ToPrint(Booting)[1] =
               [line |-> Booting.lines[1], own |-> Booting.own, ok |-> Booting.ok]
    <3> DEFINE r == Booting
    <3>1. r \in Run /\ Len(r.lines) = 1
      BY <1>2, <2>1
    <3> HIDE DEF r
    <3>2. /\ ToPrint(r) \in Seq(Item) /\ Len(ToPrint(r)) = Len(r.lines)
          /\ \A i \in 1..Len(r.lines) :
               ToPrint(r)[i] = [line |-> r.lines[i], own |-> r.own, ok |-> r.ok]
      BY <3>1, ToPrintType
    <3>3. 1 \in 1..Len(r.lines)
      BY <3>1
    <3> QED
      BY <3>1, <3>2, <3>3 DEF r
  <2> QED
    BY <1>2, <2>1, <2>2
<1>4. Pending' = ToPrint(Booting)
  <2>1. <<>> \o <<>> = <<>> /\ <<>> \o ToPrint(Booting) = ToPrint(Booting)
    BY <1>3, EmptySeq, ConcatEmptySeq
  <2> QED
    BY <1>1, <2>1 DEF Output
<1>5. \A i \in DOMAIN Pending' : i = 1
  BY <1>3, <1>4, LenProperties
<1>6. ~Tells(Marker("handshake"))
  BY DEF Marker, Tells, Clean
<1>7. NoneOwn(Pending') /\ NoneTells(Pending')
  BY <1>3, <1>4, <1>5, <1>6 DEF NoneOwn, NoneTells
<1>8. GoodItems(Pending')
  BY <1>7, QuietIsGood
<1>9. QueueOK' /\ OnlyQuits' /\ NoRunQueued'
  BY <1>1 DEF QueueOK, OnlyQuits, NoRunQueued
<1> QED
  BY <1>1, <1>7, <1>8, <1>9 DEF VerdictInv, Waiting, VerdictIsTheRuns, Answered

\* discard_process leaves nothing to be read.
LEMMA DiscardStep ==
    ASSUME DiscardProcess, VerdictInv
    PROVE  VerdictInv'
<1>1. Pending' = <<>> /\ cmds' = <<>>
  BY EmptyIsGood DEF DiscardProcess, CloseAndForget, Pending
<1>2. /\ GoodItems(Pending') /\ AllOwn(Pending') /\ NoneOwn(Pending')
      /\ NoneTells(Pending')
  BY <1>1, EmptyIsGood
<1>3. QueueOK' /\ OnlyQuits' /\ NoRunQueued'
  BY <1>1 DEF QueueOK, OnlyQuits, NoRunQueued
<1>4. \/ pc' # "idle"
      \/ status' \in {"exception", "transport", "timeout", "stopped"}
  BY DEF DiscardProcess, Resume, NextAttempt, Return, Discard
<1> QED
  BY <1>2, <1>3, <1>4 DEF VerdictInv, VerdictIsTheRuns, Answered

-------------------------------------------------------------------------------
(* The commands, and the lines that decide.                                *)

\* The initial command is written before any run is.
LEMMA WriteInitStep ==
    ASSUME PipesOK, VerdictInv, WriteInit
    PROVE  VerdictInv'
<1>1. /\ Pending' = Pending /\ Write("init") /\ pc = "init" /\ op' = op
      /\ \/ pc' = "idle" /\ status' = "started"
         \/ pc' = "dispatch"
  BY DEF WriteInit, Pending, Return
<1>2. GoodItems(Pending) /\ NoneOwn(Pending) /\ NoneTells(Pending) /\ NoRunQueued
  BY <1>1 DEF VerdictInv
<1>3. NoRunQueued'
  <2>1. CASE cmds' = cmds
    BY <1>2, <2>1 DEF NoRunQueued
  <2>2. CASE /\ DOMAIN cmds = 1..Len(cmds) /\ DOMAIN cmds' = 1..(Len(cmds) + 1)
             /\ Len(cmds) \in Nat
             /\ \A i \in 1..Len(cmds) : cmds'[i] = cmds[i]
             /\ cmds'[Len(cmds) + 1] = [name |-> "init", own |-> TRUE]
    BY <1>2, <2>2 DEF NoRunQueued
  <2> QED
    BY <1>1, <2>1, <2>2, WriteAppends
<1>4. QueueOK'
  BY <1>3 DEF QueueOK, NoRunQueued
<1> QED
  BY <1>1, <1>2, <1>3, <1>4 DEF VerdictInv, Waiting, VerdictIsTheRuns, Answered

\* A run is submitted when nothing of this job, and no other run, is on its way.
LEMMA DispatchStep ==
    ASSUME PipesOK, VerdictInv, Dispatch
    PROVE  VerdictInv'
<1>1. /\ Pending' = Pending /\ Write("run") /\ pc = "dispatch" /\ pc' = "wait"
      /\ seen' = FALSE
  BY DEF Dispatch, Pending
<1>2. GoodItems(Pending) /\ NoneOwn(Pending) /\ NoRunQueued
  BY <1>1 DEF VerdictInv
<1>3. QueueOK'
  <2>1. CASE cmds' = cmds
    BY <1>2, <2>1 DEF NoRunQueued, QueueOK
  <2>2. CASE /\ DOMAIN cmds = 1..Len(cmds) /\ DOMAIN cmds' = 1..(Len(cmds) + 1)
             /\ Len(cmds) \in Nat
             /\ \A i \in 1..Len(cmds) : cmds'[i] = cmds[i]
             /\ cmds'[Len(cmds) + 1] = [name |-> "run", own |-> TRUE]
    <3>1. \A i \in 1..Len(cmds) : cmds'[i].name # "run"
      BY <1>2, <2>2 DEF NoRunQueued
    <3>2. ASSUME NEW i \in DOMAIN cmds', cmds'[i].name = "run" PROVE i = Len(cmds) + 1
      BY <2>2, <3>1, <3>2
    <3>3. \A j \in DOMAIN cmds' : ~(Len(cmds) + 1 < j)
      BY <2>2
    <3> QED
      BY <2>2, <3>2, <3>3 DEF QueueOK
  <2> QED
    BY <1>1, <2>1, <2>2, WriteAppends
<1> QED
  BY <1>1, <1>2, <1>3 DEF VerdictInv, Waiting, VerdictIsTheRuns, Answered

\* A line that ends a run says what the run came to, if it is truthful.
LEMMA ClassifyMeans ==
    ASSUME NEW line \in Line, NEW s \in BOOLEAN, NEW ok \in BOOLEAN, Truthful(line, ok),
           Classify(line, s) # "continue"
    PROVE  /\ Decides(line) /\ (Clean(line) \/ s)
           /\ (Classify(line, s) = "succeeded") = ok
<1> DEFINE verdict == Classify(line, s)
<1>1. CASE Clean(line)
  <2>1. line.kind = "completes" /\ ContainsZeroErrors(line.errors)
    BY <1>1 DEF Clean
  <2>2. verdict = "succeeded"
    BY <2>1, Zenon DEF Classify
  <2> QED
    BY <1>1, <2>1, <2>2 DEF Decides, Truthful
<1>2. CASE ~Clean(line) /\ line.kind = "t"
  <2>1. ~(line.kind = "completes" /\ ContainsZeroErrors(line.errors))
    BY <1>2 DEF Clean
  <2>2. line.kind # "nil" /\ line.kind # "completes" /\ line.kind # "stats"
    BY <1>2
  <2>3. CASE s
    <3>1. verdict = "succeeded"
      BY <1>2, <2>2, <2>3, Zenon DEF Classify, SeesResourceStats
    <3> QED
      BY <1>2, <2>3, <3>1 DEF Decides, Truthful
  <2>4. CASE ~s
    <3>1. verdict = "continue"
      BY <2>2, <2>4, Zenon DEF Classify, SeesResourceStats
    <3> QED
      BY <3>1
  <2> QED
    BY <2>3, <2>4
<1>3. CASE ~Clean(line) /\ line.kind = "nil"
  <2>1. line.kind # "t" /\ line.kind # "completes" /\ line.kind # "stats"
    BY <1>3
  <2>2. CASE s
    <3>1. verdict = "failed"
      BY <1>3, <2>1, <2>2, Zenon DEF Classify, SeesResourceStats
    <3> QED
      BY <1>3, <2>2, <3>1 DEF Decides, Truthful
  <2>3. CASE ~s
    <3>1. verdict = "continue"
      BY <2>1, <2>3, Zenon DEF Classify, SeesResourceStats
    <3> QED
      BY <3>1
  <2> QED
    BY <2>2, <2>3
<1>4. CASE ~Clean(line) /\ line.kind \notin {"t", "nil"}
  <2>1. /\ ~(line.kind = "completes" /\ ContainsZeroErrors(line.errors))
        /\ line.kind # "t" /\ line.kind # "nil"
    BY <1>4 DEF Clean
  <2>2. verdict = "continue"
    BY <2>1, Zenon DEF Classify
  <2> QED
    BY <2>2
<1> QED
  BY <1>1, <1>2, <1>3, <1>4

\* A line that is read in a run: the statistics are the job's own, and so is the line that
\* decides, after which nothing that tells is left.
LEMMA RunReadsLineStep ==
    ASSUME ControlOK, PipesOK, VerdictInv, RunReadsLine
    PROVE  VerdictInv'
<1> DEFINE before == Pending
           items == Tail(before)
           item == Head(out)
           verdict == Classify(item.line, seen)
<1>1. /\ before \in Seq(Item) /\ before # <<>> /\ Head(before) = item
      /\ Pending' = items
  BY ReadTakesFirst DEF RunReadsLine
<1>2. /\ items \in Seq(Item) /\ Weakens(before, items)
  BY <1>1, TailWeakens
<1>3. /\ GoodItems(before) => GoodItems(items)
      /\ AllOwn(before) => AllOwn(items)
      /\ NoneOwn(before) => NoneOwn(items)
  BY <1>1, <1>2, WeakensKeeps
<1>4. /\ item \in Item /\ item = before[1] /\ 1 \in DOMAIN before
      /\ \A i \in DOMAIN items :
           i + 1 \in DOMAIN before /\ 1 < i + 1 /\ items[i] = before[i + 1]
  <2> HIDE DEF before
  <2>1. /\ Head(before) \in Item /\ Head(before) = before[1]
        /\ Len(before) \in Nat /\ Len(before) > 0
        /\ DOMAIN before = 1..Len(before) /\ DOMAIN Tail(before) = 1..(Len(before) - 1)
        /\ \A i \in 1..(Len(before) - 1) : Tail(before)[i] = before[i + 1]
    BY <1>1, HeadTailProperties, EmptySeq, LenProperties
  <2>2. 1 \in DOMAIN before
    BY <2>1
  <2>3. ASSUME NEW i \in DOMAIN Tail(before)
        PROVE  i + 1 \in DOMAIN before /\ 1 < i + 1 /\ Tail(before)[i] = before[i + 1]
    BY <2>1
  <2> QED
    BY <1>1, <2>1, <2>2, <2>3
<1>5. /\ pc = "wait" /\ UNCHANGED cmds
      /\ seen' = SeesResourceStats(item.line, seen)
      /\ \/ /\ verdict = "continue"
            /\ pc' = "wait"
         \/ /\ verdict # "continue"
            /\ pc' = "idle"
            /\ status' = IF verdict = "succeeded" THEN "success" ELSE "sim_failed"
            /\ basis' = [own |-> item.own, ok |-> item.ok]
  BY DEF RunReadsLine, ReadsLine, Return
<1>6. /\ GoodItems(before) /\ QueueOK
      /\ ~NoneOwn(before) => OnlyQuits
      /\ seen => AllOwn(before) /\ OnlyQuits
  BY <1>5 DEF VerdictInv, Waiting
<1>7. /\ ~item.own => ~Tells(item.line)
      /\ item.own => Truthful(item.line, item.ok)
      /\ item.own => AllOwn(items)
      /\ item.own /\ Decides(item.line) => NoneTells(items)
  BY <1>4, <1>6 DEF GoodItems, AllOwn, NoneTells
<1>8. item.own => OnlyQuits
  BY <1>4, <1>6 DEF NoneOwn
<1>9. QueueOK' = QueueOK /\ OnlyQuits' = OnlyQuits /\ NoRunQueued' = NoRunQueued
  BY <1>5 DEF QueueOK, OnlyQuits, NoRunQueued
<1>10. item.line \in Line /\ item.ok \in BOOLEAN /\ item.own \in BOOLEAN
       /\ seen \in BOOLEAN
  BY <1>4 DEF Item, ControlOK
<1> HIDE DEF before, items, item
<1>11. CASE verdict = "continue"
  <2>1. pc' = "wait"
    BY <1>5, <1>11
  <2>2. seen' => AllOwn(items) /\ OnlyQuits
    <3>1. CASE seen
      BY <1>3, <1>6, <3>1
    <3>2. CASE item.line.kind = "stats"
      BY <1>7, <1>8, <3>2 DEF Tells
    <3> QED
      BY <1>5, <3>1, <3>2 DEF SeesResourceStats
  <2>3. GoodItems(items) /\ (~NoneOwn(items) => OnlyQuits)
    BY <1>3, <1>6
  <2> QED
    BY <1>1, <1>6, <1>9, <2>1, <2>2, <2>3 DEF VerdictInv, Waiting, VerdictIsTheRuns,
       Answered
<1>12. CASE verdict # "continue"
  <2>1. item.own
    <3>1. CASE seen
      BY <1>4, <1>6, <3>1 DEF AllOwn
    <3>2. CASE ~item.own
      <4>1. ~Tells(item.line)
        BY <1>7, <3>2
      <4>2. ~Clean(item.line) /\ item.line.kind # "stats"
        BY <4>1 DEF Tells
      <4>3. CASE ~seen
        <5>1. /\ ~(item.line.kind = "completes" /\ ContainsZeroErrors(item.line.errors))
              /\ ~SeesResourceStats(item.line, seen)
          BY <4>2, <4>3 DEF Clean, SeesResourceStats
        <5>2. verdict = "continue"
          BY <5>1, Zenon DEF Classify
        <5> QED
          BY <1>12, <5>2
      <4> QED
        BY <3>1, <4>3
    <3> QED
      BY <1>10, <3>2
  <2>2. /\ Decides(item.line)
        /\ (verdict = "succeeded") = item.ok
    BY <1>7, <1>10, <1>12, <2>1, ClassifyMeans
  <2>3. NoneTells(items) /\ OnlyQuits
    BY <1>7, <1>8, <2>1, <2>2
  <2>4. NoRunQueued
    BY <2>3 DEF OnlyQuits, NoRunQueued
  <2>5. /\ pc' = "idle"
        /\ status' = IF verdict = "succeeded" THEN "success" ELSE "sim_failed"
        /\ basis' = [own |-> item.own, ok |-> item.ok]
    BY <1>5, <1>12
  <2>6. basis'.own /\ (status' = "success") = basis'.ok
    BY <2>1, <2>2, <2>5
  <2>7. GoodItems(items) /\ (~NoneOwn(items) => OnlyQuits)
    BY <1>3, <1>6
  <2> QED
    BY <1>1, <1>6, <1>9, <2>3, <2>4, <2>5, <2>6, <2>7 DEF VerdictInv, Waiting,
       VerdictIsTheRuns, Answered
<1> QED
  BY <1>11, <1>12

\* The simulator takes the first command from its pipe.
LEMMA ReadsFirstCommand ==
    ASSUME PipesOK, cmds # <<>>, cmds' = Tail(cmds)
    PROVE  /\ 1 \in DOMAIN cmds /\ Head(cmds) = cmds[1] /\ Head(cmds) \in Command
           /\ \A i \in DOMAIN cmds' :
                /\ i + 1 \in DOMAIN cmds /\ 1 < i + 1 /\ cmds'[i] = cmds[i + 1]
                /\ \A j \in DOMAIN cmds' : i < j => i + 1 < j + 1
<1>1. /\ Len(cmds) \in Nat /\ Len(cmds) > 0
      /\ DOMAIN cmds = 1..Len(cmds) /\ DOMAIN cmds' = 1..(Len(cmds) - 1)
  BY HeadTailProperties, LenProperties, EmptySeq DEF PipesOK
<1>2. \A i \in 1..(Len(cmds) - 1) : cmds'[i] = cmds[i + 1]
  BY HeadTailProperties, LenProperties DEF PipesOK
<1>3. Head(cmds) = cmds[1] /\ Head(cmds) \in Command
  BY HeadTailProperties DEF PipesOK
<1>4. 1 \in DOMAIN cmds
  BY <1>1
<1>5. ASSUME NEW i \in DOMAIN cmds'
      PROVE  /\ i + 1 \in DOMAIN cmds /\ 1 < i + 1 /\ cmds'[i] = cmds[i + 1]
             /\ \A j \in DOMAIN cmds' : i < j => i + 1 < j + 1
  BY <1>1, <1>2
<1> QED
  BY <1>3, <1>4, <1>5

\* A run that prints behind what is in the pipe: which element is whose.
LEMMA RunBehind ==
    ASSUME NEW o \in Seq(Item), NEW r \in Run
    PROVE  LET items == Output(o, <<>>, r)
           IN  /\ items \in Seq(Item)
               /\ Len(o) \in Nat
               /\ DOMAIN items \subseteq Nat
               /\ \A i \in DOMAIN items :
                    \/ i \in DOMAIN o /\ i <= Len(o) /\ items[i] = o[i]
                    \/ \E j \in DOMAIN r.lines :
                         /\ j \in Nat /\ i = Len(o) + j /\ i > Len(o)
                         /\ items[i].line = r.lines[j]
                         /\ items[i].own = r.own /\ items[i].ok = r.ok
<1> DEFINE items == Output(o, <<>>, r)
           m == <<>>
           x == Len(o)
<1>1. m \in Seq(Item) /\ Len(m) = 0
  BY EmptySeq
<1>2. items = Output(o, m, r)
  OBVIOUS
<1> HIDE DEF items, m
<1>3. Joins(items, o, m, r)
  BY <1>1, <1>2, OutputJoins
<1>4. /\ items \in Seq(Item) /\ Len(o) \in Nat /\ Len(r.lines) \in Nat
      /\ Len(items) = Len(o) + Len(r.lines)
  BY <1>1, <1>3 DEF Joins
<1>5. /\ DOMAIN items = 1..Len(items) /\ DOMAIN o = 1..Len(o)
      /\ DOMAIN r.lines = 1..Len(r.lines)
  BY <1>4, LenProperties DEF Run
<1>6. ASSUME NEW i \in DOMAIN items
      PROVE  \/ i \in DOMAIN o /\ i <= x /\ items[i] = o[i]
             \/ \E j \in DOMAIN r.lines :
                  /\ j \in Nat /\ i = x + j /\ i > x
                  /\ items[i].line = r.lines[j]
                  /\ items[i].own = r.own /\ items[i].ok = r.ok
  <2>1. PartOf(i, items, o, m, r)
    BY <1>3, <1>5, EveryPart
  <2>2. CASE i \in 1..Len(o) /\ items[i] = o[i]
    BY <1>4, <1>5, <2>2
  <2>3. ASSUME NEW j \in 1..Len(m) PROVE FALSE
    BY <1>1
  <2>4. ASSUME NEW j \in 1..Len(r.lines), i = Len(o) + Len(m) + j,
               items[i] = [line |-> r.lines[j], own |-> r.own, ok |-> r.ok]
        PROVE  /\ j \in DOMAIN r.lines /\ j \in Nat /\ i = x + j /\ i > x
               /\ items[i].line = r.lines[j]
               /\ items[i].own = r.own /\ items[i].ok = r.ok
    <3>1. j \in DOMAIN r.lines /\ j \in Nat
      BY <1>5
    <3>2. i = x + j /\ i > x
      BY <1>1, <1>4, <2>4
    <3>3. /\ items[i].line = r.lines[j]
          /\ items[i].own = r.own /\ items[i].ok = r.ok
      BY <2>4
    <3> QED
      BY <3>1, <3>2, <3>3
  <2> HIDE DEF x
  <2> QED
    BY <2>1, <2>2, <2>3, <2>4 DEF PartOf
<1>7. DOMAIN items \subseteq Nat
  BY <1>4, <1>5
<1> QED
  BY <1>4, <1>6, <1>7 DEF items

\* Behind what is left of earlier jobs, the output of this one is good to read, if what
\* it may print decides once.
LEMMA OwnRunIsGood ==
    ASSUME DecideOnce(Scripts), NEW o \in Seq(Item), GoodItems(o), NoneOwn(o),
           NEW s \in Scripts, NEW r \in Run,
           r = [lines |-> s.lines, own |-> TRUE, ok |-> s.ok]
    PROVE  GoodItems(Output(o, <<>>, r))
<1> DEFINE items == Output(o, <<>>, r)
           Own(i, j) == /\ j \in DOMAIN s.lines /\ j \in Nat
                        /\ i = Len(o) + j /\ i > Len(o)
                        /\ items[i].line = s.lines[j]
                        /\ items[i].own /\ items[i].ok = s.ok
<1>1. /\ Len(o) \in Nat /\ DOMAIN items \subseteq Nat
      /\ \A i \in DOMAIN items :
           \/ i \in DOMAIN o /\ i <= Len(o) /\ items[i] = o[i]
           \/ \E j \in DOMAIN s.lines : Own(i, j)
  <2>1. r.lines = s.lines /\ r.own = TRUE /\ r.ok = s.ok
    OBVIOUS
  <2>2. /\ Len(o) \in Nat /\ DOMAIN items \subseteq Nat
        /\ \A i \in DOMAIN items :
             \/ i \in DOMAIN o /\ i <= Len(o) /\ items[i] = o[i]
             \/ \E j \in DOMAIN r.lines :
                  /\ j \in Nat /\ i = Len(o) + j /\ i > Len(o)
                  /\ items[i].line = r.lines[j]
                  /\ items[i].own = r.own /\ items[i].ok = r.ok
    BY RunBehind
  <2> HIDE DEF items
  <2> QED
    BY <2>1, <2>2
<1>2. \A j \in DOMAIN s.lines :
          /\ Truthful(s.lines[j], s.ok)
          /\ \A k \in DOMAIN s.lines :
               j < k /\ Decides(s.lines[j]) => ~Tells(s.lines[k])
  BY DEF DecideOnce
<1>3. \A i \in DOMAIN o : ~o[i].own /\ ~Tells(o[i].line)
  BY DEF GoodItems, NoneOwn
<1> HIDE DEF items
<1>4. ASSUME NEW i \in DOMAIN items
      PROVE  /\ ~items[i].own => ~Tells(items[i].line)
             /\ items[i].own => Truthful(items[i].line, items[i].ok)
             /\ \A k \in DOMAIN items : i < k /\ items[i].own =>
                  items[k].own /\ (Decides(items[i].line) => ~Tells(items[k].line))
  <2>1. CASE i \in DOMAIN o /\ i <= Len(o) /\ items[i] = o[i]
    BY <1>3, <2>1
  <2>2. ASSUME NEW j \in DOMAIN s.lines, Own(i, j)
        PROVE  /\ ~items[i].own => ~Tells(items[i].line)
               /\ items[i].own => Truthful(items[i].line, items[i].ok)
               /\ \A k \in DOMAIN items : i < k /\ items[i].own =>
                    items[k].own /\ (Decides(items[i].line) => ~Tells(items[k].line))
    <3>1. /\ ~items[i].own => ~Tells(items[i].line)
          /\ items[i].own => Truthful(items[i].line, items[i].ok)
      BY <1>2, <2>2
    <3>2. ASSUME NEW k \in DOMAIN items, i < k
          PROVE  items[k].own /\ (Decides(items[i].line) => ~Tells(items[k].line))
      <4>1. ~(k <= Len(o)) /\ k \in Nat /\ i \in Nat
        BY <1>1, <2>2, <3>2
      <4>2. PICK l \in DOMAIN s.lines : Own(k, l)
        BY <1>1, <4>1
      <4>3. j < l
        BY <1>1, <2>2, <3>2, <4>1, <4>2
      <4> QED
        BY <1>2, <2>2, <4>2, <4>3
    <3> QED
      BY <3>1, <3>2
  <2> QED
    BY <1>1, <2>1, <2>2
<1>5. GoodItems(items)
  BY <1>4 DEF GoodItems
<1> QED
  BY <1>5 DEF items

\* What the interpreter echoes tells nothing.
LEMMA EchoIsQuiet ==
    ASSUME NEW o \in Seq(Item), GoodItems(o), NoneOwn(o),
           NEW k \in {"noise", "nil"}
    PROVE  NoneOwn(Output(o, <<>>, Echo(k))) /\ NoneTells(Output(o, <<>>, Echo(k)))
<1> DEFINE r == Echo(k)
           items == Output(o, <<>>, r)
<1>1. r \in Run /\ r.lines = <<Marker(k)>> /\ r.own = FALSE
  BY SimTypes DEF Run, Echo, LineKinds
<1>2. /\ DOMAIN r.lines = {1} /\ ~Tells(r.lines[1])
  BY <1>1 DEF Marker, Tells, Clean
<1> HIDE DEF r
<1>3. \A i \in DOMAIN items :
          \/ i \in DOMAIN o /\ items[i] = o[i]
          \/ \E j \in DOMAIN r.lines :
               items[i].line = r.lines[j] /\ items[i].own = r.own
  <2>1. \A i \in DOMAIN items :
            \/ i \in DOMAIN o /\ i <= Len(o) /\ items[i] = o[i]
            \/ \E j \in DOMAIN r.lines :
                 /\ j \in Nat /\ i = Len(o) + j /\ i > Len(o)
                 /\ items[i].line = r.lines[j]
                 /\ items[i].own = r.own /\ items[i].ok = r.ok
    BY <1>1, RunBehind
  <2> HIDE DEF items
  <2> QED
    BY <2>1
<1>4. \A i \in DOMAIN o : ~o[i].own /\ ~Tells(o[i].line)
  BY DEF GoodItems, NoneOwn
<1> HIDE DEF items
<1>5. \A i \in DOMAIN items : ~items[i].own /\ ~Tells(items[i].line)
  BY <1>1, <1>2, <1>3, <1>4
<1>6. NoneOwn(items) /\ NoneTells(items)
  BY <1>5 DEF NoneOwn, NoneTells
<1> QED
  BY <1>6 DEF items, r

\* The simulator takes a command when nothing of the last one is left to print.  A run it
\* takes is this job's, and what is in the pipe is not.
LEMMA SimReadsCommandStep ==
    ASSUME DecideOnce(Scripts), PipesOK, PipesOK', VerdictInv, SimReadsCommand
    PROVE  VerdictInv'
<1>1. /\ mid = <<>> /\ mid' = <<>> /\ sim.lines = <<>> /\ out' = out
      /\ cmds # <<>> /\ cmds' = Tail(cmds)
      /\ UNCHANGED <<pc, op, seen, status, basis>>
      /\ out \in Seq(Item) /\ sim \in Run /\ sim' \in Run
  BY DEF SimReadsCommand, session, PipesOK, Run
<1>2. Pending = out
  <2>1. ToPrint(sim) \in Seq(Item) /\ Len(ToPrint(sim)) = 0
    BY <1>1, ToPrintType, EmptySeq
  <2>2. ToPrint(sim) = <<>>
    BY <2>1, EmptySeq
  <2>3. out \o <<>> = out
    BY <1>1, ConcatEmptySeq
  <2> QED
    BY <1>1, <2>2, <2>3 DEF Pending, Output
<1>3. Pending' = Output(out, <<>>, sim')
  BY <1>1 DEF Pending
<1>4. /\ 1 \in DOMAIN cmds /\ Head(cmds) = cmds[1] /\ Head(cmds) \in Command
      /\ \A i \in DOMAIN cmds' :
           /\ i + 1 \in DOMAIN cmds /\ 1 < i + 1 /\ cmds'[i] = cmds[i + 1]
           /\ \A j \in DOMAIN cmds' : i < j => i + 1 < j + 1
  BY <1>1, ReadsFirstCommand
<1>5. /\ GoodItems(out) /\ QueueOK
      /\ ~NoneOwn(out) => OnlyQuits
      /\ Waiting /\ seen => AllOwn(out) /\ OnlyQuits
      /\ Between => NoRunQueued /\ NoneTells(out)
      /\ Starting => NoneOwn(out)
      /\ AtRun => NoneOwn(out)
      /\ VerdictIsTheRuns
  BY <1>2 DEF VerdictInv, Between, Starting, AtRun
<1>6. QueueOK' /\ (OnlyQuits => OnlyQuits') /\ (NoRunQueued => NoRunQueued')
  BY <1>4, <1>5 DEF QueueOK, OnlyQuits, NoRunQueued
<1>7. VerdictIsTheRuns' = VerdictIsTheRuns /\ Waiting' = Waiting /\ Between' = Between
      /\ Starting' = Starting /\ AtRun' = AtRun /\ seen' = seen
  BY <1>1 DEF VerdictIsTheRuns, Answered, Waiting, Between, Starting, AtRun
<1>8. ASSUME GoodItems(Pending'), ~NoneOwn(Pending') => OnlyQuits',
             Waiting /\ seen => AllOwn(Pending') /\ OnlyQuits',
             Between => NoRunQueued' /\ NoneTells(Pending'),
             Starting => NoneOwn(Pending'), AtRun => NoneOwn(Pending')
      PROVE  VerdictInv'
  BY <1>5, <1>6, <1>7, <1>8 DEF VerdictInv, Between, Starting, AtRun
<1>9. CASE Head(cmds).name = "quit"
  <2>1. sim' = sim
    BY <1>9 DEF SimReadsCommand
  <2>2. Pending' = out
    BY <1>1, <1>2, <1>3, <2>1 DEF Pending
  <2> QED
    BY <1>5, <1>6, <1>8, <2>2
<1>10. Head(cmds).name # "quit" => NoneOwn(out) /\ ~(Waiting /\ seen)
  BY <1>4, <1>5 DEF OnlyQuits
<1>11. CASE Head(cmds).name = "init"
  <2>1. PICK k \in {"noise", "nil"} : sim' = Echo(k)
    BY <1>11 DEF SimReadsCommand
  <2>2. NoneOwn(out) /\ ~(Waiting /\ seen)
    BY <1>10, <1>11
  <2>3. NoneOwn(Pending') /\ NoneTells(Pending')
    BY <1>1, <1>3, <1>5, <2>1, <2>2, EchoIsQuiet
  <2>4. GoodItems(Pending')
    BY <2>3, QuietIsGood
  <2> QED
    BY <1>5, <1>6, <1>8, <2>2, <2>3, <2>4
<1>12. CASE Head(cmds).name = "run"
  <2>1. PICK s \in Scripts :
            sim' = [lines |-> s.lines, own |-> Head(cmds).own, ok |-> s.ok]
    BY <1>12 DEF SimReadsCommand
  <2>2. /\ Head(cmds).own
        /\ \A j \in DOMAIN cmds : 1 < j => cmds[j].name = "quit"
    BY <1>4, <1>5, <1>12 DEF QueueOK
  <2>3. NoneOwn(out) /\ ~(Waiting /\ seen)
    BY <1>10, <1>12
  <2>4. sim' = [lines |-> s.lines, own |-> TRUE, ok |-> s.ok]
    <3>1. Head(cmds).own = TRUE
      BY <1>4, <2>2 DEF Command
    <3> QED
      BY <2>1, <3>1
  <2>5. GoodItems(Pending')
    BY <1>1, <1>3, <1>5, <2>3, <2>4, OwnRunIsGood
  <2>6. OnlyQuits'
    BY <1>4, <2>2 DEF OnlyQuits
  <2>7. ~NoRunQueued
    BY <1>4, <1>12 DEF NoRunQueued
  <2>8. ~Between
    BY <1>5, <2>7
  <2>9. ~Starting /\ ~AtRun
    BY <2>8 DEF Between, Starting, AtRun
  <2> QED
    BY <1>8, <2>3, <2>5, <2>6, <2>8, <2>9
<1> QED
  BY <1>4, <1>9, <1>11, <1>12 DEF Command

-------------------------------------------------------------------------------
(* The invariant, and what follows from it.                                *)

\* Nothing is in the pipes of a session that has not been used.
LEMMA InitVerdict == Init => VerdictInv
<1> SUFFICES ASSUME Init PROVE VerdictInv
  OBVIOUS
<1>1. Pending = <<>> /\ cmds = <<>> /\ pc = "idle" /\ status = "stopped"
  BY EmptyIsGood DEF Init, Pending
<1>2. GoodItems(Pending) /\ AllOwn(Pending) /\ NoneOwn(Pending) /\ NoneTells(Pending)
  BY <1>1, EmptyIsGood
<1>3. QueueOK /\ OnlyQuits /\ NoRunQueued
  BY <1>1 DEF QueueOK, OnlyQuits, NoRunQueued
<1> QED
  BY <1>1, <1>2, <1>3 DEF VerdictInv, VerdictIsTheRuns, Answered

\* Every step preserves the invariant.
LEMMA NextVerdict ==
    ASSUME DecideOnce(Scripts), Inv, VerdictInv, [Next]_vars
    PROVE  VerdictInv'
<1>1. PipesOK /\ PipesOK' /\ ControlOK /\ CallShape
  BY NextInv DEF Inv, TypeOK
<1>2. CASE Aside
  BY <1>1, <1>2, AsideStep
<1>3. CASE Passing
  BY <1>1, <1>3, PassingStep
<1>4. CASE CallRun \/ CallStop \/ Launch \/ DiscardProcess
  BY <1>1, <1>4, CallRunStep, CallStopStep, LaunchStep, DiscardStep
<1>5. CASE WriteInit \/ Dispatch \/ RunReadsLine \/ SimReadsCommand
  BY <1>1, <1>5, WriteInitStep, DispatchStep, RunReadsLineStep, SimReadsCommandStep
<1> QED
  BY <1>2, <1>3, <1>4, <1>5 DEF Next, Caller, Session, Simulator, Aside, Passing

\* A verdict is read from the output of the very run it is reported for and is what that
\* run came to, whatever earlier jobs left in the pipe and however the simulator crashes,
\* is killed or tears its lines; for any scripts that decide once.
THEOREM VerdictsAreTrue ==
    ASSUME DecideOnce(Scripts)
    PROVE  Spec => []VerdictIsTheRuns
<1>1. Init => Inv /\ VerdictInv
  BY InitInv, InitVerdict
<1>2. Inv /\ VerdictInv /\ [Next]_vars => (Inv /\ VerdictInv)'
  BY NextInv, NextVerdict
<1>3. Inv /\ VerdictInv => VerdictIsTheRuns
  BY DEF VerdictInv
<1> QED
  BY <1>1, <1>2, <1>3, PTL DEF Spec

-------------------------------------------------------------------------------
(* The session as a SessionService.                                        *)

\* What came of a simulation, given the outcomes there are to be read of it.
Known(call, outcomes, commands) ==
    IF call # "run" THEN "none"
    ELSE IF TRUE \in outcomes THEN "success"
    ELSE IF FALSE \in outcomes THEN "sim_failed"
    ELSE IF commands # {} THEN "submitted" ELSE "none"

Unanswered == IF Answered THEN "none" ELSE op

\* The mapped variable, before a step and after it.
LEMMA SimulationIs ==
    /\ Simulation = Known(Unanswered, Outcomes(Pending), OwnCommands)
    /\ Simulation' = Known(Unanswered', Outcomes(Pending'), OwnCommands')
BY DEF Simulation, Known, Unanswered

\* Outcomes are told by the job's own lines.
LEMMA OutcomesAre ==
    ASSUME NEW items \in Seq(Item)
    PROVE  /\ Outcomes(items) \subseteq BOOLEAN
           /\ NoneOwn(items) <=> Outcomes(items) = {}
<1>1. \A i \in DOMAIN items : items[i] \in Item
  BY ElementOfSeq, LenProperties
<1>2. Outcomes(items) \subseteq BOOLEAN
  BY <1>1 DEF Outcomes, Item
<1>3. NoneOwn(items) <=> Outcomes(items) = {}
  BY DEF NoneOwn, Outcomes
<1> QED
  BY <1>2, <1>3

\* A later part of the output, torn or not, tells no more than the whole.
LEMMA FewerOutcomes ==
    ASSUME NEW before \in Seq(Item), NEW items \in Seq(Item), Weakens(before, items)
    PROVE  Outcomes(items) \subseteq Outcomes(before)
<1> SUFFICES ASSUME NEW i \in DOMAIN items, items[i].own
             PROVE  items[i].ok \in Outcomes(before)
  BY DEF Outcomes
<1>1. /\ DOMAIN items = 1..Len(items) /\ DOMAIN before = 1..Len(before)
      /\ Len(items) \in Nat /\ Len(before) \in Nat
  BY LenProperties
<1>2. PICK k \in Nat :
          /\ Len(items) + k <= Len(before)
          /\ \A j \in 1..Len(items) :
                items[j].own = before[j + k].own /\ items[j].ok = before[j + k].ok
  BY DEF Weakens
<1>3. i + k \in DOMAIN before
  BY <1>1, <1>2
<1>4. before[i + k].own /\ before[i + k].ok = items[i].ok
  BY <1>1, <1>2
<1> QED
  BY <1>3, <1>4 DEF Outcomes

\* While there is output of the job to be read, no run of it is in the queue.
LEMMA NoneQueued ==
    ASSUME VerdictInv, Pending \in Seq(Item), Outcomes(Pending) # {}
    PROVE  OwnCommands = {}
<1>1. ~NoneOwn(Pending)
  BY OutcomesAre
<1>2. OnlyQuits
  BY <1>1 DEF VerdictInv
<1> QED
  BY <1>2 DEF OnlyQuits, OwnCommands

\* A step that leaves a later part to be read, within the same call, at most loses what
\* the simulation came to.
LEMMA FewerKeep ==
    ASSUME VerdictInv, OneOutcome, Pending \in Seq(Item), Pending' \in Seq(Item),
           Weakens(Pending, Pending'), cmds' = cmds \/ cmds' = <<>>,
           op' = op, status' = status, pc' = "idle" <=> pc = "idle"
    PROVE  (Promised!CNext \/ UNCHANGED Promised!cvars) /\ OneOutcome'
<1> DEFINE old == Outcomes(Pending)
           new == Outcomes(Pending')
<1>1. new \subseteq old /\ old \subseteq BOOLEAN /\ old # BOOLEAN
  BY FewerOutcomes, OutcomesAre DEF OneOutcome
<1>2. OwnCommands' = OwnCommands \/ OwnCommands' = {}
  BY DEF OwnCommands
<1>3. old # {} => OwnCommands = {}
  BY NoneQueued
<1>4. OneOutcome'
  BY <1>1 DEF OneOutcome
<1>5. Unanswered' = Unanswered /\ CallInProgress' = CallInProgress
  BY DEF Unanswered, Answered, CallInProgress
<1>6. /\ Simulation = Known(Unanswered, old, OwnCommands)
      /\ Simulation' = Known(Unanswered, new, OwnCommands')
  BY <1>5, SimulationIs
<1> HIDE DEF old, new
<1>7. Simulation' \in {Simulation, "none"}
  BY <1>1, <1>2, <1>3, <1>6 DEF Known
<1>8. Promised!CLose \/ UNCHANGED Promised!cvars
  BY <1>5, <1>7 DEF Promised!CLose, Promised!cvars
<1> QED
  BY <1>4, <1>8 DEF Promised!CNext

\* A session between calls stays without a simulation until the next one.
LEMMA QuietFollows ==
    ASSUME ControlOK, ControlOK', QuietWhenIdle, Promised!CNext \/ UNCHANGED Promised!cvars
    PROVE  QuietWhenIdle'
<1> DEFINE Call == CallInProgress
           Job == Simulation
<1>1. /\ pc = "idle" <=> Call = "none"
      /\ pc' = "idle" <=> Call' = "none"
  BY DEF ControlOK, CallInProgress
<1>2. Call = "none" => Job = "none"
  BY <1>1 DEF QuietWhenIdle
<1> HIDE DEF Call, Job
<1>3. Call' = "none" => Job' = "none"
  <2>1. CASE UNCHANGED Promised!cvars
    BY <1>2, <2>1 DEF Promised!cvars, Call, Job
  <2>2. CASE Promised!CNext
    BY <1>2, <2>2 DEF Promised!CNext, Promised!CCall, Promised!CAtOnce, Promised!CSubmit,
       Promised!CFinish, Promised!CLose, Promised!CAnswer, Promised!CAnswerStale,
       Promised!CFail, Promised!CReturn, Call, Job
  <2> QED
    BY <2>1, <2>2
<1> QED
  BY <1>1, <1>3 DEF QuietWhenIdle, Job

\* Before a run is dispatched there is no simulation of the job.
LEMMA NotYetSubmitted ==
    ASSUME CallShape, PipesOK, NothingSubmitted, VerdictInv, Starting \/ pc = "start"
    PROVE  Simulation = "none"
<1>1. CASE op # "run"
  BY <1>1 DEF Simulation
<1>2. CASE op = "run"
  <2>1. NoneOwn(Pending) /\ OwnCommands = {}
    BY <1>2 DEF VerdictInv, Starting, NothingSubmitted
  <2>2. Outcomes(Pending) = {}
    BY <2>1, PendingType, OutcomesAre
  <2> QED
    BY <2>1, <2>2, SimulationIs DEF Known
<1> QED
  BY <1>1, <1>2

\* Where nothing is the job's to be read and none of its commands is queued, there is no
\* simulation of it after the step.
LEMMA NoneLeft ==
    ASSUME Pending' \in Seq(Item), NoneOwn(Pending'), OwnCommands' = {} \/ op' # "run"
    PROVE  Simulation' = "none" /\ OneOutcome'
<1>1. Outcomes(Pending') = {}
  BY OutcomesAre
<1> QED
  BY <1>1, SimulationIs DEF Known, Unanswered, OneOutcome

\* What can be read after a step is typed as what can be read before it.
LEMMA PendingTypeNext ==
    ASSUME PipesOK'
    PROVE  Pending' \in Seq(Item)
<1>1. out' \in Seq(Item) /\ mid' \in Seq(Item) /\ sim' \in Run
  BY DEF PipesOK, Run
<1>2. Joins(Output(out', mid', sim'), out', mid', sim')
  BY <1>1, OutputJoins
<1> QED
  BY <1>2 DEF Joins, Pending

-------------------------------------------------------------------------------
(* Step by step.                                                           *)

\* A call begins without a simulation of its job.
LEMMA CallsKeep ==
    ASSUME ControlOK, PipesOK, PipesOK', VerdictInv, ServiceInv,
           CallStart \/ CallRun \/ CallStop
    PROVE  Promised!CNext /\ OneOutcome'
<1>1. pc = "idle" /\ Simulation = "none" /\ CallInProgress = "none"
  BY DEF ServiceInv, QuietWhenIdle, CallStart, CallRun, CallStop, CallInProgress
<1>2. /\ pc' # "idle" /\ op' \in {"start", "run", "stop"} /\ status' = "none"
      /\ CallInProgress' \in {"start", "run", "stop"}
  BY DEF CallStart, CallRun, CallStop, Discard, CallInProgress
<1>3. Simulation' = "none" /\ OneOutcome'
  <2>1. CASE CallStart \/ CallStop
    <3>1. op' # "run" /\ Pending' = Pending
      BY <2>1 DEF CallStart, CallStop, Pending, simulator
    <3> QED
      BY <3>1 DEF ServiceInv, OneOutcome, Simulation
  <2>2. CASE CallRun
    <3>1. /\ out \in Seq(Item) /\ mid \in Seq(Item) /\ sim \in Run
          /\ Pending' = Output(StaleItems(out), StaleItems(mid), StaleRun(sim))
          /\ NoneTells(Output(out, mid, sim))
      BY <2>2 DEF PipesOK, Run, CallRun, Pending, VerdictInv
    <3>2. NoneOwn(Pending')
      BY <3>1, StalePending
    <3>3. OwnCommands' = {}
      BY <2>2 DEF CallRun, StaleCommands, OwnCommands
    <3> QED
      BY <3>2, <3>3, PendingTypeNext, NoneLeft
  <2> QED
    BY <2>1, <2>2
<1>4. Promised!CCall
  BY <1>1, <1>2, <1>3 DEF Promised!CCall
<1> QED
  BY <1>3, <1>4 DEF Promised!CNext

\* Steps that touch neither pipe and end no call.
LEMMA AsideKeep ==
    ASSUME PipesOK, VerdictInv, ServiceInv, Aside, ~CallStart,
           ~StartAlreadyActive, ~(StartFails /\ op = "start")
    PROVE  (Promised!CNext \/ UNCHANGED Promised!cvars) /\ OneOutcome'
<1>1. /\ UNCHANGED <<out, mid, sim, cmds, op, status>>
      /\ pc' = "idle" <=> pc = "idle"
  BY DEF Aside, CheckAlive, CheckDead, StartFails, StartThrows, Discard,
     HandshakeDeadline, HandshakePollAlive, HandshakePollExited, WriteInitFails,
     WriteInitKills, SigPipeKills, DispatchFails, DispatchKills, RunDeadline,
     RunPollAlive, RunPollExited, Tick, vars, session, simulator
<1>2. Pending' = Pending
  BY <1>1 DEF Pending
<1>3. Weakens(Pending, Pending') /\ Pending \in Seq(Item) /\ Pending' \in Seq(Item)
  BY <1>2, PendingType, SameWeakens
<1> QED
  BY <1>1, <1>3, FewerKeep DEF ServiceInv

\* start() that returns or throws, the launch, and the command that makes it active.
LEMMA StartsKeep ==
    ASSUME Inv, Inv', VerdictInv, VerdictInv', ServiceInv,
           \/ StartAlreadyActive \/ (StartFails /\ op = "start")
           \/ Launch \/ WriteInit
    PROVE  (Promised!CNext \/ UNCHANGED Promised!cvars) /\ OneOutcome'
<1>1. /\ PipesOK /\ PipesOK' /\ ControlOK /\ CallShape
      /\ NothingSubmitted /\ NothingSubmitted'
  BY DEF Inv, TypeOK
<1>2. pc \in {"start", "init"} /\ op' = op /\ CallInProgress = op
  BY DEF StartAlreadyActive, StartFails, Launch, WriteInit, CallInProgress
<1>3. Simulation = "none"
  BY <1>1, <1>2, NotYetSubmitted DEF Starting
<1>4. CASE StartAlreadyActive \/ (StartFails /\ op = "start")
  <2>1. op = "start"
    BY <1>1, <1>2, <1>4 DEF StartAlreadyActive, CallShape, ControlOK
  <2>2. pc' = "idle" /\ status' \in {"started", "exception"} /\ Pending' = Pending
    BY <1>4, <2>1 DEF StartAlreadyActive, StartFails, StartThrows, Return, Pending, simulator
  <2>3. Simulation' = "none" /\ CallInProgress' = "none"
    BY <1>2, <2>1, <2>2 DEF Simulation, CallInProgress
  <2>4. Promised!CFail
    BY <1>2, <1>3, <2>1, <2>2, <2>3 DEF Promised!CFail, Promised!CReturn, Promised!Endings
  <2> QED
    BY <2>2, <2>4 DEF Promised!CNext, ServiceInv, OneOutcome
<1>5. CASE Launch
  <2>1. pc' = "handshake" /\ status' = status /\ cmds' = <<>>
    BY <1>5 DEF Launch
  <2>2. NoneOwn(Pending') /\ OwnCommands' = {}
    BY <2>1 DEF VerdictInv, OwnCommands
  <2>3. Simulation' = "none" /\ OneOutcome'
    BY <1>1, <2>2, PendingTypeNext, NoneLeft
  <2> QED
    BY <1>2, <1>3, <2>1, <2>3 DEF Promised!cvars, CallInProgress
<1>6. CASE WriteInit
  <2>1. Pending' = Pending
    BY <1>6 DEF WriteInit, Pending
  <2>2. CASE op = "start"
    <3>1. pc' = "idle" /\ status' = "started"
      BY <1>6, <2>2 DEF WriteInit, Return
    <3>2. Simulation' = "none" /\ CallInProgress' = "none"
      BY <1>2, <2>2, <3>1 DEF Simulation, CallInProgress
    <3>3. Promised!CFail
      BY <1>2, <1>3, <2>2, <3>1, <3>2 DEF Promised!CFail, Promised!CReturn, Promised!Endings
    <3> QED
      BY <2>1, <3>3 DEF Promised!CNext, ServiceInv, OneOutcome
  <2>3. CASE op # "start"
    <3>1. pc' = "dispatch" /\ status' = status /\ op = "run"
      BY <1>1, <1>2, <1>6, <2>3 DEF WriteInit, CallShape, ControlOK
    <3>2. NoneOwn(Pending') /\ OwnCommands' = {}
      BY <1>1, <1>2, <3>1 DEF VerdictInv, NothingSubmitted
    <3>3. Simulation' = "none" /\ OneOutcome'
      BY <1>1, <3>2, PendingTypeNext, NoneLeft
    <3> QED
      BY <1>2, <1>3, <3>1, <3>3 DEF Promised!cvars, CallInProgress
  <2> QED
    BY <2>2, <2>3
<1> QED
  BY <1>4, <1>5, <1>6

\* discard_process leaves no simulation, and a call that ends with it has failed.
LEMMA DiscardKeeps ==
    ASSUME ControlOK, CallShape, DiscardProcess
    PROVE  (Promised!CNext \/ UNCHANGED Promised!cvars) /\ OneOutcome'
<1>1. /\ Pending' = <<>> /\ cmds' = <<>> /\ op' = op /\ pc = "discard"
      /\ CallInProgress = op
  BY EmptyIsGood DEF DiscardProcess, CloseAndForget, Pending, CallInProgress
<1>2. NoneOwn(Pending') /\ Pending' \in Seq(Item) /\ OwnCommands' = {}
  BY <1>1, EmptyIsGood, EmptySeq DEF OwnCommands
<1>3. Simulation' = "none" /\ OneOutcome'
  BY <1>2, NoneLeft
<1>4. CASE pc' # "idle"
  <2>1. status' = status /\ CallInProgress' = CallInProgress
    BY <1>1, <1>4 DEF DiscardProcess, Resume, NextAttempt, Return, Discard, CallInProgress
  <2>2. Promised!CLose \/ UNCHANGED Promised!cvars
    BY <1>3, <2>1 DEF Promised!CLose, Promised!cvars
  <2> QED
    BY <1>3, <2>2 DEF Promised!CNext
<1>5. CASE pc' = "idle"
  <2>1. status' \in Promised!Endings(op)
    BY <1>1, <1>5 DEF DiscardProcess, Resume, NextAttempt, Return, Discard, CallShape,
       Promised!Endings
  <2>2. status' # "sim_failed" /\ op # "none" /\ CallInProgress' = "none"
    BY <1>5 DEF DiscardProcess, Resume, NextAttempt, Return, Discard, ControlOK,
       CallInProgress
  <2>3. Promised!CFail
    BY <1>1, <1>3, <2>1, <2>2 DEF Promised!CFail, Promised!CReturn
  <2> QED
    BY <1>3, <2>3 DEF Promised!CNext
<1> QED
  BY <1>4, <1>5

\* A job is submitted when there is no simulation of it.
LEMMA DispatchKeeps ==
    ASSUME Inv, VerdictInv, ServiceInv, Dispatch
    PROVE  (Promised!CNext \/ UNCHANGED Promised!cvars) /\ OneOutcome'
<1>1. /\ PipesOK /\ CallShape /\ NothingSubmitted /\ pc = "dispatch" /\ pc' = "wait"
      /\ op' = op /\ op = "run" /\ status' = status /\ Pending' = Pending
  BY DEF Inv, TypeOK, CallShape, Dispatch, Pending
<1>2. Simulation = "none"
  BY <1>1, NotYetSubmitted DEF Starting
<1>3. Outcomes(Pending) = {}
  BY <1>1, PendingType, OutcomesAre DEF VerdictInv
<1>4. Simulation' \in {"none", "submitted"}
  BY <1>1, <1>3, SimulationIs DEF Known
<1>5. CallInProgress = "run" /\ CallInProgress' = "run"
  BY <1>1 DEF CallInProgress
<1>6. Promised!CSubmit \/ UNCHANGED Promised!cvars
  BY <1>1, <1>2, <1>4, <1>5 DEF Promised!CSubmit, Promised!cvars
<1> QED
  BY <1>1, <1>6 DEF Promised!CNext, ServiceInv, OneOutcome

\* The line that decides a run is its own, and the answer what the simulation came to.
LEMMA RunReadsLineKeeps ==
    ASSUME Inv, Inv', VerdictInv, VerdictInv', ServiceInv, RunReadsLine
    PROVE  (Promised!CNext \/ UNCHANGED Promised!cvars) /\ OneOutcome'
<1> DEFINE before == Pending
           item == Head(out)
<1>1. /\ PipesOK /\ PipesOK' /\ CallShape /\ pc = "wait" /\ op = "run" /\ op' = op
      /\ cmds' = cmds
  BY DEF Inv, TypeOK, CallShape, RunReadsLine, ReadsLine
<1>2. /\ before \in Seq(Item) /\ before # <<>> /\ Head(before) = item
      /\ Pending' = Tail(before)
  BY <1>1, ReadTakesFirst DEF RunReadsLine
<1>3. Pending' \in Seq(Item) /\ Weakens(before, Pending')
  BY <1>2, TailWeakens
<1>4. CASE pc' = "wait" /\ status' = status
  BY <1>1, <1>2, <1>3, <1>4, FewerKeep DEF ServiceInv
<1>5. CASE /\ pc' = "idle" /\ status' \in {"success", "sim_failed"}
           /\ basis' = [own |-> item.own, ok |-> item.ok]
  <2>1. item.own /\ (status' = "success") = item.ok
    BY <1>5 DEF VerdictInv, VerdictIsTheRuns, Answered
  <2>2. item = before[1] /\ 1 \in DOMAIN before
    <3> HIDE DEF before
    <3>1. /\ Head(before) = before[1] /\ Len(before) \in Nat /\ Len(before) > 0
          /\ DOMAIN before = 1..Len(before)
      BY <1>2, HeadTailProperties, EmptySeq, LenProperties
    <3> QED
      BY <1>2, <3>1
  <2>3. item.ok \in Outcomes(before) /\ Outcomes(before) \subseteq BOOLEAN
    BY <1>2, <2>1, <2>2, OutcomesAre DEF Outcomes
  <2>4. Outcomes(before) # BOOLEAN
    BY DEF ServiceInv, OneOutcome
  <2>5. Unanswered = "run" /\ Unanswered' = "none"
    BY <1>1, <1>5 DEF Unanswered, Answered
  <2>6. Simulation = Known("run", Outcomes(before), OwnCommands) /\ Simulation' = "none"
    BY <2>5, SimulationIs DEF Known
  <2>7. Simulation = status'
    <3> DEFINE told == Outcomes(before)
               ok == item.ok
    <3> HIDE DEF told, ok
    <3>1. ok \in told /\ told \subseteq BOOLEAN /\ told # BOOLEAN
      BY <2>3, <2>4 DEF told, ok
    <3>2. CASE ok = TRUE
      <4>1. status' = "success"
        BY <2>1, <3>2 DEF ok
      <4> QED
        BY <2>6, <3>1, <3>2, <4>1 DEF Known, told
    <3>3. CASE ok = FALSE
      <4>1. status' = "sim_failed"
        BY <1>5, <2>1, <3>3 DEF ok
      <4>2. TRUE \notin told /\ FALSE \in told
        BY <3>1, <3>3
      <4> QED
        BY <2>6, <4>1, <4>2 DEF Known, told
    <3> QED
      BY <3>1, <3>2, <3>3
  <2>8. Promised!CAnswer
    <3>1. CallInProgress = "run" /\ CallInProgress' = "none"
      BY <1>1, <1>5 DEF CallInProgress
    <3> QED
      BY <1>5, <2>6, <2>7, <3>1 DEF Promised!CAnswer, Promised!CReturn, Promised!Verdicts
  <2>9. OneOutcome'
    <3>1. Outcomes(Pending') \subseteq Outcomes(before)
      BY <1>2, <1>3, FewerOutcomes
    <3> QED
      BY <2>3, <2>4, <3>1 DEF OneOutcome
  <2> QED
    BY <2>8, <2>9 DEF Promised!CNext
<1>6. \/ pc' = "wait" /\ status' = status
      \/ /\ pc' = "idle" /\ status' \in {"success", "sim_failed"}
         /\ basis' = [own |-> item.own, ok |-> item.ok]
  BY <1>1 DEF RunReadsLine, Return
<1> QED
  BY <1>4, <1>5, <1>6

\* The simulator takes up the job's run: what it is going to print comes to one outcome.
LEMMA SimReadsCommandKeeps ==
    ASSUME Inv, Inv', VerdictInv, VerdictInv', ServiceInv, SimReadsCommand
    PROVE  (Promised!CNext \/ UNCHANGED Promised!cvars) /\ OneOutcome'
<1>1. /\ PipesOK /\ PipesOK' /\ OneSimulationPerJob
      /\ mid = <<>> /\ mid' = <<>> /\ sim.lines = <<>> /\ out' = out
      /\ cmds # <<>> /\ cmds' = Tail(cmds)
      /\ UNCHANGED <<pc, op, seen, status, basis>>
      /\ out \in Seq(Item) /\ sim \in Run /\ sim' \in Run
  BY DEF SimReadsCommand, session, Inv, TypeOK, PipesOK, Run
<1>2. Pending = out
  <2>1. ToPrint(sim) \in Seq(Item) /\ Len(ToPrint(sim)) = 0
    BY <1>1, ToPrintType, EmptySeq
  <2>2. ToPrint(sim) = <<>>
    BY <2>1, EmptySeq
  <2>3. out \o <<>> = out
    BY <1>1, ConcatEmptySeq
  <2> QED
    BY <1>1, <2>2, <2>3 DEF Pending, Output
<1>3. Pending' = Output(out, <<>>, sim')
  BY <1>1 DEF Pending
<1>4. /\ 1 \in DOMAIN cmds /\ Head(cmds) = cmds[1] /\ Head(cmds) \in Command
      /\ \A i \in DOMAIN cmds' : i + 1 \in DOMAIN cmds /\ 1 < i + 1 /\ cmds'[i] = cmds[i + 1]
  BY <1>1, ReadsFirstCommand
<1>5. Unanswered' = Unanswered /\ CallInProgress' = CallInProgress
  BY <1>1 DEF Unanswered, Answered, CallInProgress
<1>6. /\ Simulation = Known(Unanswered, Outcomes(Pending), OwnCommands)
      /\ Simulation' = Known(Unanswered, Outcomes(Pending'), OwnCommands')
  BY <1>5, SimulationIs
<1>7. Outcomes(Pending) \subseteq BOOLEAN /\ Outcomes(Pending) # BOOLEAN
  BY <1>1, PendingType, OutcomesAre DEF ServiceInv, OneOutcome
<1>8. OwnCommands # {} => Outcomes(Pending) = {}
  BY <1>1, PendingType, NoneQueued
<1>9. CASE Head(cmds).name = "quit"
  <2>1. sim' = sim
    BY <1>9 DEF SimReadsCommand
  <2>2. Pending' = Pending
    BY <1>1, <2>1 DEF Pending
  <2>3. OwnCommands = {} => OwnCommands' = {}
    BY <1>4 DEF OwnCommands
  <2>4. Simulation' \in {Simulation, "none"}
    BY <1>6, <1>8, <2>2, <2>3 DEF Known
  <2>5. Promised!CLose \/ UNCHANGED Promised!cvars
    BY <1>1, <1>5, <2>4 DEF Promised!CLose, Promised!cvars
  <2> QED
    BY <1>7, <2>2, <2>5 DEF Promised!CNext, OneOutcome
<1>10. Head(cmds).name # "quit" => NoneOwn(Pending)
  BY <1>4 DEF VerdictInv, OnlyQuits
<1>11. CASE Head(cmds).name = "init"
  <2>1. PICK k \in {"noise", "nil"} : sim' = Echo(k)
    BY <1>11 DEF SimReadsCommand
  <2>2. NoneOwn(out) /\ GoodItems(out)
    BY <1>2, <1>10, <1>11 DEF VerdictInv
  <2>3. NoneOwn(Pending')
    BY <1>1, <1>3, <2>1, <2>2, EchoIsQuiet
  <2>4. Outcomes(Pending) = {} /\ Outcomes(Pending') = {}
    BY <1>1, <1>10, <1>11, <2>3, PendingType, PendingTypeNext, OutcomesAre
  <2>5. OwnCommands = {} => OwnCommands' = {}
    BY <1>4 DEF OwnCommands
  <2>6. Simulation' \in {Simulation, "none"}
    BY <1>6, <2>4, <2>5 DEF Known
  <2>7. Promised!CLose \/ UNCHANGED Promised!cvars
    BY <1>1, <1>5, <2>6 DEF Promised!CLose, Promised!cvars
  <2> QED
    BY <2>4, <2>7 DEF Promised!CNext, OneOutcome
<1>12. CASE Head(cmds).name = "run"
  <2>1. PICK s \in Scripts :
            sim' = [lines |-> s.lines, own |-> Head(cmds).own, ok |-> s.ok]
    BY <1>12 DEF SimReadsCommand
  <2>2. /\ Head(cmds).own
        /\ \A j \in DOMAIN cmds : 1 < j => cmds[j].name = "quit"
    BY <1>4, <1>12 DEF VerdictInv, QueueOK
  <2>3. NoneOwn(out)
    BY <1>2, <1>10, <1>12
  <2>4. OwnCommands # {} /\ OwnCommands' = {}
    BY <1>4, <1>12, <2>2 DEF OwnCommands
  <2>5. Outcomes(Pending') \subseteq {s.ok}
    <3> DEFINE r == sim'
               items == Output(out, <<>>, r)
    <3>1. r \in Run /\ r.ok = s.ok
      BY <1>1, <2>1
    <3>2. \A i \in DOMAIN items :
             \/ i \in DOMAIN out /\ items[i] = out[i]
             \/ items[i].ok = r.ok
      <4> HIDE DEF r
      <4>1. \A i \in DOMAIN Output(out, <<>>, r) :
               \/ i \in DOMAIN out /\ i <= Len(out) /\ Output(out, <<>>, r)[i] = out[i]
               \/ \E j \in DOMAIN r.lines :
                    /\ j \in Nat /\ i = Len(out) + j /\ i > Len(out)
                    /\ Output(out, <<>>, r)[i].line = r.lines[j]
                    /\ Output(out, <<>>, r)[i].own = r.own /\ Output(out, <<>>, r)[i].ok = r.ok
        BY <1>1, <3>1, RunBehind
      <4> HIDE DEF items
      <4> QED
        BY <4>1 DEF items
    <3> HIDE DEF r, items
    <3>3. \A i \in DOMAIN items : items[i].own => items[i].ok = s.ok
      BY <2>3, <3>1, <3>2 DEF NoneOwn
    <3>4. Outcomes(items) \subseteq {s.ok}
      BY <3>3 DEF Outcomes
    <3> QED
      BY <1>3, <3>4 DEF items, r
  <2>6. OneOutcome'
    <3>1. SUFFICES ASSUME Outcomes(Pending') = BOOLEAN PROVE FALSE
      BY DEF OneOutcome
    <3>2. TRUE = s.ok /\ FALSE = s.ok
      BY <2>5, <3>1
    <3> QED
      BY <3>2
  <2>7. \/ Simulation = "none" /\ Simulation' = "none"
        \/ Simulation = "submitted" /\ Simulation' \in {"none", "success", "sim_failed"}
    <3>1. Outcomes(Pending) = {}
      BY <1>8, <2>4
    <3> QED
      BY <1>6, <2>4, <3>1 DEF Known
  <2>8. Promised!CFinish \/ Promised!CLose \/ UNCHANGED Promised!cvars
    BY <1>1, <1>5, <2>7 DEF Promised!CFinish, Promised!CLose, Promised!Verdicts,
       Promised!cvars
  <2> QED
    BY <2>6, <2>8 DEF Promised!CNext
<1> QED
  BY <1>4, <1>9, <1>11, <1>12 DEF Command

\* Every step of the session and of its simulator is one of the service, or none.
LEMMA NextService ==
    ASSUME Inv, Inv', VerdictInv, VerdictInv', ServiceInv, [Next]_vars
    PROVE  (Promised!CNext \/ UNCHANGED Promised!cvars) /\ ServiceInv'
<1>1. /\ ControlOK /\ ControlOK' /\ PipesOK /\ PipesOK' /\ CallShape
  BY DEF Inv, TypeOK
<1>2. (Promised!CNext \/ UNCHANGED Promised!cvars) /\ OneOutcome'
  <2>1. CASE CallStart \/ CallRun \/ CallStop
    BY <1>1, <2>1, CallsKeep
  <2>2. CASE StartAlreadyActive \/ (StartFails /\ op = "start") \/ Launch \/ WriteInit
    BY <2>2, StartsKeep
  <2>3. CASE /\ Aside /\ ~CallStart /\ ~StartAlreadyActive
             /\ ~(StartFails /\ op = "start")
    BY <1>1, <2>3, AsideKeep
  <2>4. CASE Passing
    <3>1. /\ cmds' = cmds \/ cmds' = <<>>
          /\ op' = op /\ status' = status /\ (pc' = "idle" <=> pc = "idle")
      BY <2>4 DEF Passing, HandshakeReadsLine, HandshakeReadsNothing, RunReadsNothing,
         ReadsLine, ReadsNothing, SimPrintsLine, SimPrintsPiece, SimStalls,
         SimFinishesLine, SimExits, SimUnchanged, session
    <3> QED
      BY <1>1, <2>4, <3>1, PassingWeakens, FewerKeep DEF ServiceInv
  <2>5. CASE DiscardProcess
    BY <1>1, <2>5, DiscardKeeps
  <2>6. CASE Dispatch \/ RunReadsLine \/ SimReadsCommand
    BY <2>6, DispatchKeeps, RunReadsLineKeeps, SimReadsCommandKeeps
  <2> QED
    BY <2>1, <2>2, <2>3, <2>4, <2>5, <2>6
       DEF Next, Caller, Session, Simulator, Aside, Passing
<1> QED
  BY <1>1, <1>2, QuietFollows DEF ServiceInv

\* A Spectre session does what a SessionService does, however its simulators crash, fall
\* silent or tear their lines: one simulation of a job at a time, again only after a
\* failure, an answer that is what it came to, and nothing left of a run that failed;
\* for any scripts that decide once.
THEOREM SpectreImplementsService ==
    ASSUME DecideOnce(Scripts)
    PROVE  Spec => ImplementsSessionService
<1>1. Init => Inv /\ VerdictInv
  BY InitInv, InitVerdict
<1>2. Inv /\ VerdictInv /\ [Next]_vars => (Inv /\ VerdictInv)'
  BY NextInv, NextVerdict
<1>3. Init => Promised!CInit /\ ServiceInv
  <2> SUFFICES ASSUME Init PROVE Promised!CInit /\ ServiceInv
    OBVIOUS
  <2>1. Pending = <<>> /\ pc = "idle" /\ op = "stop" /\ status = "stopped"
    BY EmptyIsGood DEF Init, Pending
  <2>2. Outcomes(Pending) = {}
    BY <2>1, EmptyIsGood, EmptySeq, OutcomesAre
  <2> QED
    BY <2>1, <2>2 DEF Promised!CInit, ServiceInv, OneOutcome, QuietWhenIdle, Simulation,
       CallInProgress
<1>4. Inv /\ Inv' /\ VerdictInv /\ VerdictInv' /\ ServiceInv /\ [Next]_vars =>
          [Promised!CNext]_(Promised!cvars) /\ ServiceInv'
  BY NextService
<1> QED
  BY <1>1, <1>2, <1>3, <1>4, PTL DEF Spec, ImplementsSessionService, Promised!CSpec
===============================================================================
