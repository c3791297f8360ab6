--------------------------- MODULE Journal_proofs ---------------------------
(***************************************************************************)
(* Proofs about Journal: for any number of events, failing I/O calls,      *)
(* raised close() calls and crashes, in any order.                         *)
(***************************************************************************)
EXTENDS Journal, WellFoundedInduction, SequenceTheorems, TLAPS

\* What the file is once the file object has written what it holds.
Whole == file \o buffer

EndsLine(f) == f = <<>> \/ f[Len(f)] = Newline

\* Only an open file object holds something back.
BufferInv == /\ journal # "open" => ~handle
             /\ ~handle => buffer = <<>>

\* Neither numbers nor calls in the file run ahead of the calls made.
Bounded(f, b) == \A i \in 1..Len(f) : f[i].event.n <= b /\ f[i].event.call <= b

TInv == TypeOK /\ BufferInv /\ Bounded(Whole, calls) /\ seq <= calls

-----------------------------------------------------------------------------
(* Sequences of pieces. *)

\* A set of numbers with a bound has a largest element, and Max is that element.
LEMMA MaxOfBounded ==
  ASSUME NEW S, S \subseteq Nat, S # {}, NEW b \in Nat, \A x \in S : x <= b
  PROVE  Max(S) \in S /\ \A x \in S : x <= Max(S)
<1> DEFINE R == OpToRel(<, Nat)
           T == {b - x : x \in S}
<1>1. T \subseteq Nat /\ T # {}
  <2>1. \A x \in S : x \in Nat /\ x <= b
    OBVIOUS
  <2>2. \A x \in S : b - x \in Nat
    BY <2>1
  <2>. QED BY <2>2
<1>2. IsWellFoundedOn(R, Nat)
  BY NatLessThanWellFounded
<1>3. PICK t \in T : \A y \in T : ~(<<y, t>> \in R)
  <2> HIDE DEF R, T
  <2>. QED BY <1>1, <1>2, WFMin
<1>4. \A y \in T : ~(y < t)
  BY <1>1, <1>3 DEF OpToRel
<1>5. PICK m \in S : t = b - m
  BY <1>3
<1>6. \A x \in S : x <= m
  <2> TAKE x \in S
  <2>1. ~(b - x < t)
    BY <1>4
  <2>. QED BY <2>1, <1>5
<1>. QED
  BY <1>5, <1>6 DEF Max

\* What is appended to a file, and what is cut off behind a line, leaves the
\* records before it readable.
LEMMA RecordsGrow ==
  ASSUME NEW f \in Seq(Piece), NEW g \in Seq(Piece), Len(f) <= Len(g),
         \A i \in 1..Len(f) : g[i] = f[i]
  PROVE  Records(f) \subseteq Records(g)
<1> SUFFICES ASSUME NEW i \in 1..Len(f), Reads(f, i)
             PROVE  i \in 1..Len(g) /\ Reads(g, i) /\ g[i] = f[i]
  BY DEF Records
<1>1. i + 1 \in 1..Len(f) /\ i + 2 \in 1..Len(f) /\ (i = 1 \/ i - 1 \in 1..Len(f))
  BY DEF Reads
<1>. QED
  BY <1>1 DEF Reads

\* The prefixes of a file, and how they compose.
LEMMA Prefixes ==
  ASSUME NEW f \in Seq(Piece), NEW k \in 0..Len(f)
  PROVE  /\ Prefix(f, k) \in Seq(Piece)
         /\ Len(Prefix(f, k)) = k
         /\ \A i \in 1..k : Prefix(f, k)[i] = f[i]
         /\ Records(Prefix(f, k)) \subseteq Records(f)
         /\ \A j \in 0..k : Prefix(Prefix(f, k), j) = Prefix(f, j)
<1>1. Prefix(f, k) \in Seq(Piece) /\ Len(Prefix(f, k)) = k
       /\ \A i \in 1..k : Prefix(f, k)[i] = f[i]
  BY DEF Prefix
<1>2. Records(Prefix(f, k)) \subseteq Records(f)
  BY <1>1, RecordsGrow
<1>3. \A j \in 0..k : Prefix(Prefix(f, k), j) = Prefix(f, j)
  BY <1>1 DEF Prefix
<1>. QED
  BY <1>1, <1>2, <1>3

\* What joining two texts keeps of the first and adds of the second.
LEMMA Appending ==
  ASSUME NEW f \in Seq(Piece), NEW g \in Seq(Piece)
  PROVE  /\ f \o g \in Seq(Piece)
         /\ Len(f \o g) = Len(f) + Len(g)
         /\ \A i \in 1..Len(f) : (f \o g)[i] = f[i]
         /\ \A i \in 1..Len(g) : (f \o g)[Len(f) + i] = g[i]
         /\ Records(f) \subseteq Records(f \o g)
         /\ \A k \in 0..Len(f) : Prefix(f \o g, k) = Prefix(f, k)
<1>1. /\ f \o g \in Seq(Piece)
      /\ Len(f \o g) = Len(f) + Len(g)
      /\ \A i \in 1..Len(f) : (f \o g)[i] = f[i]
      /\ \A i \in 1..Len(g) : (f \o g)[Len(f) + i] = g[i]
  OBVIOUS
<1>2. Records(f) \subseteq Records(f \o g)
  <2>1. Len(f) <= Len(f \o g)
    BY <1>1
  <2>. QED BY <1>1, <2>1, RecordsGrow
<1>3. \A k \in 0..Len(f) : Prefix(f \o g, k) = Prefix(f, k)
  BY <1>1 DEF Prefix
<1>. QED
  BY <1>1, <1>2, <1>3

\* A line behind the end of a line is a record.
LEMMA LineReads ==
  ASSUME NEW f \in Seq(Piece), EndsLine(f), NEW e \in Event
  PROVE  /\ Line(e) \in Seq(Piece)
         /\ e \in Records(f \o Line(e))
         /\ EndsLine(f \o Line(e))
         /\ Len(Line(e)) = 3
         /\ \A i \in 1..3 : Line(e)[i].event \in {e, NoEvent}
<1>1. Line(e) \in Seq(Piece) /\ Len(Line(e)) = 3
      /\ Line(e)[1] = Left(e) /\ Line(e)[2] = Right(e) /\ Line(e)[3] = Newline
  BY DEF Line, Left, Right, Newline, Piece, NoEvent, Event
<1> DEFINE g == f \o Line(e)
           i == Len(f) + 1
<1>2. Len(g) = Len(f) + 3 /\ g[i] = Left(e) /\ g[i + 1] = Right(e) /\ g[i + 2] = Newline
  <2>0. /\ Len(g) = Len(f) + Len(Line(e))
        /\ \A j \in 1..Len(Line(e)) : g[Len(f) + j] = Line(e)[j]
    BY <1>1, Appending
  <2>1. /\ Len(g) = Len(f) + 3
        /\ \A j \in 1..3 : g[Len(f) + j] = Line(e)[j]
    BY <1>1, <2>0
  <2>2. g[Len(f) + 1] = Line(e)[1] /\ g[Len(f) + 2] = Line(e)[2] /\ g[Len(f) + 3] = Line(e)[3]
    BY <2>1
  <2>. QED BY <1>1, <2>1, <2>2
<1>3. i = 1 \/ g[i - 1] = Newline
  BY <1>1, Appending DEF EndsLine
<1>4. Reads(g, i) /\ g[i].event = e
  BY <1>2, <1>3 DEF Reads, Left
<1>5. e \in Records(g)
  BY <1>2, <1>4 DEF Records
<1>. QED
  BY <1>1, <1>2, <1>5 DEF EndsLine, Left, Right, Newline

\* The last number of a file with bounded numbers is the largest of its records.
LEMMA LastNumberIsLast ==
  ASSUME NEW f \in Seq(Piece), NEW b \in Nat, Bounded(f, b)
  PROVE  /\ LastNumber(f) \in 0..b
         /\ \A e \in Records(f) : e.n <= LastNumber(f)
         /\ \/ LastNumber(f) = 0
            \/ \E i \in 1..Len(f) : Reads(f, i) /\ f[i].event.n = LastNumber(f)
<1> DEFINE S == {0} \cup {e.n : e \in Records(f)}
<1>0. \A i \in 1..Len(f) : f[i].event \in Event
  <2>1. \A i \in 1..Len(f) : f[i] \in Piece
    BY ElementOfSeq
  <2>. QED BY <2>1 DEF Piece
<1>1. \A e \in Records(f) : e \in Event /\ e.n <= b
  BY <1>0 DEF Records, Bounded
<1>2. S \subseteq Nat /\ S # {} /\ \A x \in S : x <= b
  BY <1>1 DEF Event
<1>3. Max(S) \in S /\ \A x \in S : x <= Max(S)
  <2> HIDE DEF S
  <2>. QED BY <1>2, MaxOfBounded
<1>4. LastNumber(f) = Max(S)
  BY DEF LastNumber
<1>5. \A e \in Records(f) : \E i \in 1..Len(f) : Reads(f, i) /\ f[i].event = e
  BY DEF Records
<1>6. \A e \in Records(f) : e.n \in S
  OBVIOUS
<1>7. LastNumber(f) = 0 \/ \E e \in Records(f) : LastNumber(f) = e.n
  BY <1>3, <1>4
<1>8. LastNumber(f) \in 0..b
  <2>1. ASSUME NEW m \in S PROVE m \in 0..b
    BY <1>2
  <2>. QED BY <1>3, <1>4, <2>1
<1>. QED
  BY <1>3, <1>4, <1>5, <1>6, <1>7, <1>8

\* Joining texts is associative.
LEMMA Regroup ==
  ASSUME NEW f \in Seq(Piece), NEW g \in Seq(Piece), NEW h \in Seq(Piece)
  PROVE  (f \o g) \o h = f \o (g \o h)
<1>1. \A i \in 1..Len((f \o g) \o h) : ((f \o g) \o h)[i] = (f \o (g \o h))[i]
  OBVIOUS
<1>2. /\ (f \o g) \o h \in Seq(Piece) /\ f \o (g \o h) \in Seq(Piece)
      /\ Len((f \o g) \o h) = Len(f \o (g \o h))
  OBVIOUS
<1>. QED
  BY <1>1, <1>2, SeqEqual

\* Flushing a prefix of the buffer cuts the whole.
LEMMA CutWhole ==
  ASSUME NEW f \in Seq(Piece), NEW g \in Seq(Piece), NEW k \in 0..Len(g)
  PROVE  /\ f \o Prefix(g, k) = Prefix(f \o g, Len(f) + k)
         /\ Prefix(g, k) \o SubSeq(g, k + 1, Len(g)) = g
         /\ SubSeq(g, k + 1, Len(g)) \in Seq(Piece)
         /\ (f \o Prefix(g, k)) \o SubSeq(g, k + 1, Len(g)) = f \o g
<1> DEFINE h == Prefix(g, k)
           r == SubSeq(g, k + 1, Len(g))
<1>1. h \in Seq(Piece) /\ Len(h) = k /\ \A i \in 1..k : h[i] = g[i]
  BY Prefixes
<1>2. r \in Seq(Piece)
  BY SubSeqProperties
<1>3. h \o r = g
  <2>0. /\ 1 \in 1..(Len(g) + 1) /\ k \in (1 - 1)..Len(g)
        /\ Len(g) \in k..Len(g)
    OBVIOUS
  <2>1. SubSeq(g, 1, k) \o SubSeq(g, k + 1, Len(g)) = SubSeq(g, 1, Len(g))
    BY <2>0, ConcatAdjacentSubSeq
  <2>. QED BY <2>1, SubSeqFull DEF Prefix
<1>4. f \o h = Prefix(f \o g, Len(f) + k)
  <2>1. /\ f \o h \in Seq(Piece) /\ Len(f \o h) = Len(f) + k
        /\ \A i \in 1..Len(f) : (f \o h)[i] = f[i]
        /\ \A i \in 1..k : (f \o h)[Len(f) + i] = g[i]
    <3> HIDE DEF h
    <3>. QED BY <1>1, Appending
  <2>2. /\ f \o g \in Seq(Piece) /\ Len(f) + k \in 0..Len(f \o g)
        /\ \A i \in 1..Len(f) : (f \o g)[i] = f[i]
        /\ \A i \in 1..Len(g) : (f \o g)[Len(f) + i] = g[i]
    BY Appending
  <2>3. /\ Prefix(f \o g, Len(f) + k) \in Seq(Piece)
        /\ Len(Prefix(f \o g, Len(f) + k)) = Len(f) + k
        /\ \A i \in 1..(Len(f) + k) : Prefix(f \o g, Len(f) + k)[i] = (f \o g)[i]
    BY <2>2, Prefixes
  <2>4. ASSUME NEW i \in 1..(Len(f) + k)
        PROVE  (f \o h)[i] = Prefix(f \o g, Len(f) + k)[i]
    <3>1. CASE i <= Len(f)
      BY <3>1, <2>1, <2>2, <2>3
    <3>2. CASE i > Len(f)
      <4>1. i - Len(f) \in 1..k /\ i - Len(f) \in 1..Len(g) /\ i = Len(f) + (i - Len(f))
        BY <3>2
      <4>. QED BY <4>1, <2>1, <2>2, <2>3
    <3>3. i \in Nat /\ Len(f) \in Nat
      BY LenProperties
    <3>4. i <= Len(f) \/ i > Len(f)
      BY <3>3
    <3>. QED BY <3>1, <3>2, <3>4
  <2>. QED
    BY <2>1, <2>3, <2>4, SeqEqual
<1>5. (f \o h) \o r = f \o g
  <2>1. PICK u \in Seq(Piece), v \in Seq(Piece) : u = h /\ v = r
    BY <1>1, <1>2
  <2>2. u \o v = g
    BY <1>3, <2>1
  <2>3. (f \o u) \o v = f \o (u \o v)
    BY Regroup
  <2>. QED BY <2>1, <2>2, <2>3
<1>. QED
  BY <1>2, <1>3, <1>4, <1>5

\* Bounds of a text are the bounds of its parts.
LEMMA BoundedParts ==
  ASSUME NEW f \in Seq(Piece), NEW g \in Seq(Piece), NEW b \in Nat
  PROVE  /\ Bounded(f \o g, b) <=> Bounded(f, b) /\ Bounded(g, b)
         /\ \A k \in 0..Len(f) : Bounded(f, b) => Bounded(Prefix(f, k), b)
         /\ Bounded(f, b) => Bounded(f, b + 1)
<1>1. Bounded(f \o g, b) => Bounded(f, b) /\ Bounded(g, b)
  <2>1. /\ \A i \in 1..Len(f) : i \in 1..Len(f \o g) /\ (f \o g)[i] = f[i]
        /\ \A i \in 1..Len(g) : Len(f) + i \in 1..Len(f \o g) /\ (f \o g)[Len(f) + i] = g[i]
    BY Appending
  <2>. QED BY <2>1 DEF Bounded
<1>2. ASSUME Bounded(f, b), Bounded(g, b), NEW i \in 1..Len(f \o g)
      PROVE  (f \o g)[i].event.n <= b /\ (f \o g)[i].event.call <= b
  <2>1. CASE i <= Len(f)
    BY <1>2, <2>1, Appending DEF Bounded
  <2>2. CASE i > Len(f)
    <3>1. i - Len(f) \in 1..Len(g) /\ i = Len(f) + (i - Len(f))
      BY <2>2, Appending
    <3>. QED BY <1>2, <3>1, Appending DEF Bounded
  <2>. QED BY <2>1, <2>2
<1>3. ASSUME NEW k \in 0..Len(f), Bounded(f, b)
      PROVE  Bounded(Prefix(f, k), b)
  <2>1. Len(Prefix(f, k)) = k /\ \A i \in 1..k : i \in 1..Len(f) /\ Prefix(f, k)[i] = f[i]
    BY Prefixes
  <2>. QED BY <1>3, <2>1 DEF Bounded
<1>4. Bounded(f, b) => Bounded(f, b + 1)
  <2>0. \A i \in 1..Len(f) : f[i] \in Piece
    BY ElementOfSeq
  <2>1. \A i \in 1..Len(f) : f[i].event.n \in Nat /\ f[i].event.call \in Nat
    BY <2>0 DEF Piece, Event
  <2>. QED BY <2>1 DEF Bounded
<1>. QED
  BY <1>1, <1>2, <1>3, <1>4 DEF Bounded

\* The line of an event stays within the bounds of the event.
LEMMA BoundedLine ==
  ASSUME NEW e \in Event, NEW b \in Nat, e.n <= b, e.call <= b
  PROVE  Bounded(Line(e), b)
BY LineReads, EmptySeq DEF Bounded, Line, Left, Right, Newline, NoEvent, EndsLine

-----------------------------------------------------------------------------
(* Types. *)

\* A newline is a piece of no event.
LEMMA NewlinePiece ==
  Newline \in Piece /\ Newline.event.n = 0 /\ Newline.event.call = 0
BY DEF Newline, NoEvent, Piece, Event

\* The newline owed to a torn tail, and what it leaves.
LEMMA NewlineEnds ==
  ASSUME NEW f \in Seq(Piece)
  PROVE  /\ PendingNewline(f) \in Seq(Piece)
         /\ EndsLine(f \o PendingNewline(f))
         /\ \A b \in Nat : Bounded(PendingNewline(f), b)
<1>1. CASE TornTail(f)
  <2>1. PendingNewline(f) = <<Newline>>
    BY <1>1 DEF PendingNewline
  <2>2. /\ <<Newline>> \in Seq(Piece) /\ Len(<<Newline>>) = 1
        /\ <<Newline>>[1] = Newline
    BY NewlinePiece
  <2>3. Len(f \o <<Newline>>) = Len(f) + 1 /\ (f \o <<Newline>>)[Len(f) + 1] = Newline
    BY <2>2, Appending
  <2>. QED
    BY <2>1, <2>2, <2>3, NewlinePiece DEF EndsLine, Bounded
<1>2. CASE ~TornTail(f)
  <2>1. PendingNewline(f) = <<>> /\ <<>> \in Seq(Piece)
    BY <1>2 DEF PendingNewline
  <2>2. f \o <<>> = f
    BY ConcatEmptySeq
  <2>. QED
    BY <1>2, <2>1, <2>2 DEF EndsLine, TornTail, Bounded
<1>. QED
  BY <1>1, <1>2

\* The data of an append: what the file object holds or the owed newline, and
\* the line of an event.
LEMMA DataTypes ==
  ASSUME TInv, NEW pre \in Seq(Piece), Bounded(pre, calls),
         NEW e \in Event, e.n <= calls + 1, e.call = calls + 1
  PROVE  /\ pre \o Line(e) \in Seq(Piece)
         /\ Bounded(pre \o Line(e), calls + 1)
         /\ Bounded(file \o (pre \o Line(e)), calls + 1)
<1>1. calls \in Nat /\ file \in Seq(Piece) /\ buffer \in Seq(Piece) /\ Bounded(file, calls)
  BY BoundedParts DEF TInv, TypeOK, Whole
<1>2. Line(e) \in Seq(Piece) /\ Bounded(Line(e), calls + 1)
  <2>1. <<>> \in Seq(Piece) /\ EndsLine(<<>>)
    BY EmptySeq DEF EndsLine
  <2>2. Line(e) \in Seq(Piece)
    BY <2>1, LineReads
  <2>3. calls + 1 \in Nat
    BY <1>1
  <2>. QED BY <2>2, <2>3, BoundedLine
<1>3. pre \o Line(e) \in Seq(Piece)
  BY <1>2, Appending
<1>4. Bounded(pre, calls + 1) /\ Bounded(file, calls + 1)
  BY <1>1, BoundedParts
<1>5. Bounded(pre \o Line(e), calls + 1)
  BY <1>1, <1>2, <1>4, BoundedParts
<1>6. Bounded(file \o (pre \o Line(e)), calls + 1)
  <2>1. calls + 1 \in Nat
    BY <1>1
  <2>2. ASSUME NEW d \in Seq(Piece), Bounded(d, calls + 1)
        PROVE  Bounded(file \o d, calls + 1)
    BY <1>1, <1>4, <2>1, <2>2, BoundedParts
  <2>. QED BY <1>3, <1>5, <2>2
<1>. QED
  BY <1>3, <1>5, <1>6

\* An append keeps the types.
LEMMA AppendedTypes ==
  ASSUME TInv, NEW data \in Seq(Piece), Bounded(file \o data, calls + 1),
         NEW e \in Event, e.n <= calls + 1, NEW known \in SUBSET Event,
         Appended(data, e, known), calls' = calls + 1, cut' \in BOOLEAN,
         glued' \subseteq Event, UNCHANGED <<caches, crashes>>
  PROVE  TInv'
<1>1. file \o data \in Seq(Piece)
  BY Appending DEF TInv, TypeOK
<1>2. (file \o data) \o <<>> = file \o data
  BY <1>1, ConcatEmptySeq
<1>3. Len(file \o data) \in 0..Len(file \o data)
  BY <1>1
<1>. QED
  BY <1>1, <1>2, <1>3, EmptySeq DEF TInv, TypeOK, BufferInv, Appended, Event, caches, Whole

\* A prefix of what was to be written is in the file, the rest is lost.
LEMMA CutTypes ==
  ASSUME TInv, NEW data \in Seq(Piece), NEW k \in 0..Len(data), NEW b \in Nat,
         Bounded(file \o data, b)
  PROVE  /\ file \o Prefix(data, k) \in Seq(Piece)
         /\ synced \in 0..Len(file \o Prefix(data, k))
         /\ Bounded((file \o Prefix(data, k)) \o <<>>, b)
<1>1. file \in Seq(Piece) /\ synced \in 0..Len(file)
  BY DEF TInv, TypeOK
<1>2. Prefix(data, k) \in Seq(Piece)
  BY Prefixes
<1>3. /\ file \o Prefix(data, k) \in Seq(Piece)
      /\ Len(file \o Prefix(data, k)) = Len(file) + Len(Prefix(data, k))
  BY <1>1, <1>2, Appending
<1>4. Bounded(file, b) /\ Bounded(Prefix(data, k), b)
  BY <1>1, BoundedParts
<1>5. Bounded(file \o Prefix(data, k), b)
  BY <1>1, <1>2, <1>4, BoundedParts
<1>6. (file \o Prefix(data, k)) \o <<>> = file \o Prefix(data, k)
  BY <1>3, ConcatEmptySeq
<1>7. Len(Prefix(data, k)) \in Nat /\ Len(file) \in Nat
  BY <1>1, <1>2, LenProperties
<1>. QED
  BY <1>1, <1>3, <1>5, <1>6, <1>7

\* The types hold at first.
LEMMA TypeInit == Init => TInv
<1> SUFFICES ASSUME Init PROVE TInv
  OBVIOUS
<1>1. file = <<>> /\ buffer = <<>> /\ Len(<<>>) = 0 /\ <<>> \o <<>> = <<>> /\ <<>> \in Seq(Piece)
  BY EmptySeq, ConcatEmptySeq DEF Init
<1>. QED
  <2>0. file \in Seq(Piece) /\ buffer \in Seq(Piece) /\ synced \in 0..Len(file)
    <3>1. synced = 0 /\ Len(file) = 0
      BY <1>1 DEF Init
    <3>. QED BY <1>1, <3>1
  <2>1. TypeOK /\ BufferInv
    BY <1>1, <2>0 DEF Init, TypeOK, BufferInv
  <2>2. Whole = <<>> /\ calls = 0 /\ seq = 0
    BY <1>1 DEF Init, Whole
  <2>3. Bounded(<<>>, 0)
    BY <1>1 DEF Bounded
  <2>. QED BY <2>1, <2>2, <2>3 DEF TInv


\* Every step keeps the types.
LEMMA TypeStep == TInv /\ [Next]_vars => TInv'
<1> SUFFICES ASSUME TInv, [Next]_vars PROVE TInv'
  OBVIOUS
<1>0. /\ file \in Seq(Piece) /\ buffer \in Seq(Piece) /\ calls \in Nat /\ seq \in Nat
      /\ Bounded(file, calls) /\ Bounded(buffer, calls) /\ synced \in 0..Len(file)
  BY BoundedParts DEF TInv, TypeOK, Whole
<1>1. \A n \in 0..calls :
        /\ NextEvent(n) \in Event /\ NextEvent(n).n <= calls + 1
        /\ NextEvent(n).call = calls + 1
  BY <1>0 DEF NextEvent, Event
<1>2. Records(file) \subseteq Event /\ Torn(file) \subseteq Event
  <2>1. \A i \in 1..Len(file) : file[i] \in Piece
    BY <1>0, ElementOfSeq
  <2>2. \A i \in 1..Len(file) : file[i].event \in Event
    BY <2>1 DEF Piece
  <2>. QED BY <2>2 DEF Records, Torn
<1>3. LastNumber(file) \in 0..calls
  BY <1>0, LastNumberIsLast
<1>4. ASSUME Open /\ OpenClean PROVE TInv'
  <2>1. /\ UNCHANGED <<file, synced, calls, faults, returned, glued, summary, snapshot,
                       crashes>>
        /\ seq' = LastNumber(file) /\ events' = Records(file) /\ journal' = "open"
        /\ handle' = FALSE /\ buffer' = <<>> /\ cut' = FALSE
    BY <1>4 DEF Open, OpenClean, disk, caches
  <2>2. Whole' = file /\ <<>> \in Seq(Piece)
    BY <1>0, <2>1, ConcatEmptySeq, EmptySeq DEF Whole
  <2>3. TypeOK'
    <3>1. seq' \in Nat /\ synced' \in 0..Len(file') /\ file' \in Seq(Piece) /\ buffer' \in Seq(Piece)
      BY <1>0, <1>3, <2>1, <2>2
    <3>. QED BY <1>2, <2>1, <3>1 DEF TInv, TypeOK
  <2>5. BufferInv'
    BY <2>1 DEF BufferInv
  <2>4. Bounded(Whole, calls)' /\ (seq <= calls)'
    BY <1>0, <1>3, <2>1, <2>2
  <2>. QED
    BY <2>3, <2>4, <2>5 DEF TInv
<1>5. ASSUME Open, OpenTorn PROVE TInv'
  <2> DEFINE e == NextEvent(LastNumber(file))
             data == PendingNewline(file) \o Line(e)
  <2>1. /\ e \in Event /\ e.n <= calls + 1 /\ e.call = calls + 1
        /\ PendingNewline(file) \in Seq(Piece) /\ Bounded(PendingNewline(file), calls)
    BY <1>0, <1>1, <1>3, NewlineEnds
  <2>2. data \in Seq(Piece) /\ Bounded(file \o data, calls + 1)
    BY <2>1, DataTypes
  <2>3. /\ UNCHANGED <<caches, crashes, glued>> /\ calls' = calls + 1 /\ cut' = FALSE
        /\ glued' \subseteq Event
        /\ Appended(data, e, Records(file)) \/ ConstructorFailed(data)
    BY <1>2, <1>5 DEF Open, OpenTorn, TInv, TypeOK
  <2> HIDE DEF e, data
  <2>4. CASE Appended(data, e, Records(file))
    BY <1>2, <2>1, <2>2, <2>3, <2>4, AppendedTypes
  <2>5. CASE ConstructorFailed(data)
    <3>1. PICK k \in 0..Len(data) : file' = file \o Prefix(data, k)
      BY <2>5 DEF ConstructorFailed
    <3>2. /\ file' \in Seq(Piece) /\ synced \in 0..Len(file') /\ Bounded(file' \o <<>>, calls + 1)
      BY <1>0, <2>2, <3>1, CutTypes
    <3>3. /\ UNCHANGED <<synced, returned, summary, snapshot, crashes>> /\ faults' = faults + 1
          /\ journal' = "absent" /\ handle' = FALSE /\ buffer' = <<>> /\ seq' = 0 /\ events' = {}
      BY <2>3, <2>5 DEF ConstructorFailed, IOFails, NoObject, caches
    <3>4. TypeOK' /\ BufferInv'
      <4>1. seq' \in Nat /\ events' \subseteq Event /\ buffer' \in Seq(Piece)
        BY <3>3, EmptySeq
      <4>2. TypeOK'
        <5>1. /\ faults' \in Nat /\ calls' \in Nat /\ crashes' \in Nat
              /\ synced' \in 0..Len(file') /\ file' \in Seq(Piece)
          BY <1>0, <2>3, <3>2, <3>3 DEF TInv, TypeOK
        <5>2. /\ journal' \in {"absent", "open", "closed"} /\ handle' \in BOOLEAN
              /\ cut' \in BOOLEAN /\ summary' \subseteq Event /\ snapshot' \subseteq Event
              /\ glued' \subseteq Event /\ returned' \subseteq Event
          BY <2>3, <3>3 DEF TInv, TypeOK
        <5>. QED BY <4>1, <5>1, <5>2 DEF TypeOK
      <4>3. BufferInv'
        BY <3>3 DEF BufferInv
      <4>. QED BY <4>2, <4>3
    <3>5. Whole' = file' \o <<>> /\ calls' = calls + 1
      BY <2>3, <3>3 DEF Whole
    <3>6. Bounded(Whole, calls)' /\ (seq <= calls)'
      BY <1>0, <3>2, <3>3, <3>5
    <3>. QED
      BY <3>4, <3>6 DEF TInv
  <2>. QED BY <2>3, <2>4, <2>5
<1>6. ASSUME Emit PROVE TInv'
  <2> DEFINE e == NextEvent(seq)
             data == buffer \o Line(e)
  <2>1. e \in Event /\ e.n <= calls + 1 /\ e.call = calls + 1
    BY <1>0, <1>1 DEF TInv
  <2>2. /\ data \in Seq(Piece) /\ Bounded(data, calls + 1) /\ Bounded(file \o data, calls + 1)
    BY <1>0, <2>1, DataTypes
  <2>3. /\ UNCHANGED <<caches, crashes>> /\ calls' = calls + 1
        /\ journal = "open"
        /\ Appended(data, e, events) \/ OpenFailed \/ AppendFailed(data)
        /\ glued' \in {glued, glued \cup {e}} /\ cut' \in {cut, FALSE}
    BY <1>6 DEF Emit, OpenFailed, history
  <2>7. cut' \in BOOLEAN /\ glued' \subseteq Event
    BY <2>1, <2>3 DEF TInv, TypeOK
  <2> HIDE DEF e, data
  <2>4. CASE Appended(data, e, events)
    BY <2>1, <2>2, <2>3, <2>4, <2>7, AppendedTypes DEF TInv, TypeOK
  <2>5. CASE OpenFailed
    <3>1. UNCHANGED <<file, synced, journal, handle, buffer, seq, events, cut, glued, returned>>
      BY <2>5 DEF OpenFailed, disk, object, history
    <3>2. Bounded(Whole, calls + 1) /\ Whole \in Seq(Piece)
      BY <1>0, Appending, BoundedParts DEF TInv, Whole
    <3>. QED
      BY <1>0, <2>3, <2>5, <3>1, <3>2
      DEF OpenFailed, IOFails, TInv, TypeOK, BufferInv, Whole, caches
  <2>6. CASE AppendFailed(data)
    <3>1. PICK k \in 0..Len(data) :
            file' = file \o Prefix(data, k) /\ buffer' = SubSeq(data, k + 1, Len(data))
      BY <2>6 DEF AppendFailed
    <3>2. file' \in Seq(Piece) /\ synced \in 0..Len(file')
      BY <1>0, <2>2, <3>1, CutTypes
    <3>3. /\ (file \o Prefix(data, k)) \o SubSeq(data, k + 1, Len(data)) = file \o data
          /\ SubSeq(data, k + 1, Len(data)) \in Seq(Piece)
      BY <1>0, <2>2, CutWhole
    <3>4. Whole' = file \o data /\ buffer' \in Seq(Piece)
      BY <3>1, <3>3 DEF Whole
    <3>5. /\ UNCHANGED <<synced, returned, summary, snapshot, crashes, journal, seq, events>>
          /\ faults' = faults + 1 /\ handle' = TRUE
      BY <2>3, <2>6 DEF AppendFailed, IOFails, caches
    <3>6. TypeOK' /\ BufferInv'
      BY <1>0, <2>3, <2>7, <3>2, <3>4, <3>5 DEF TInv, TypeOK, BufferInv
    <3>7. Bounded(Whole, calls)' /\ (seq <= calls)'
      BY <1>0, <2>2, <2>3, <3>4, <3>5 DEF TInv
    <3>. QED
      BY <3>6, <3>7 DEF TInv
  <2>. QED BY <2>3, <2>4, <2>5, <2>6
<1>7. ASSUME (Close /\ CloseFailed) \/ Abandon PROVE TInv'
  <2>1. PICK k \in 0..Len(buffer) : file' = file \o Prefix(buffer, k)
    BY <1>7 DEF CloseFailed, Abandon
  <2>2. file' \in Seq(Piece) /\ synced \in 0..Len(file') /\ Bounded(file' \o <<>>, calls)
    BY <1>0, <2>1, CutTypes DEF TInv, Whole
  <2>3. /\ UNCHANGED <<synced, seq, events, summary, snapshot, calls, crashes, glued,
                       returned>>
        /\ handle' = FALSE /\ buffer' = <<>> /\ cut' \in BOOLEAN
        /\ faults' \in Nat /\ journal' \in {"open", "closed"}
    <3>1. faults \in Nat
      BY DEF TInv, TypeOK
    <3>2. CASE Close /\ CloseFailed
      BY <3>1, <3>2 DEF Close, CloseFailed, IOFails, caches, TornTail
    <3>3. CASE Abandon
      BY <3>1, <3>3 DEF Abandon, caches, history, TInv, TypeOK
    <3>. QED BY <1>7, <3>2, <3>3
  <2>. QED
    BY <1>0, <2>2, <2>3, EmptySeq DEF TInv, TypeOK, BufferInv, Whole
<1>8. ASSUME Close /\ CloseFile PROVE TInv'
  <2>1. /\ file' = Whole /\ buffer' = <<>> /\ handle' = FALSE /\ journal' = "closed"
        /\ synced' \in {Len(Whole), synced}
        /\ UNCHANGED <<seq, events, calls, crashes, history>>
        /\ summary' \subseteq Event /\ snapshot' \subseteq Event /\ faults' \in Nat
    BY <1>8 DEF Close, CloseFile, Project, IOFails, Whole, TInv, TypeOK, history
  <2>2. Whole \in Seq(Piece) /\ Len(Whole) = Len(file) + Len(buffer) /\ Whole \o <<>> = Whole
    BY <1>0, Appending, ConcatEmptySeq DEF Whole
  <2>3. synced' \in 0..Len(Whole)
    BY <1>0, <2>1, <2>2, LenProperties
  <2>4. Whole' = Whole
    BY <2>1, <2>2 DEF Whole
  <2>. QED
    BY <1>0, <2>1, <2>2, <2>3, <2>4, EmptySeq DEF TInv, TypeOK, BufferInv, history
<1>9. ASSUME WriteSummary \/ WriteSnapshot PROVE TInv'
  <2>1. /\ UNCHANGED <<file, synced, journal, handle, buffer, seq, events, calls, faults,
                       crashes, cut, glued, returned>>
        /\ summary' \subseteq Event /\ snapshot' \subseteq Event
    BY <1>9 DEF WriteSummary, WriteSnapshot, disk, object, history, TInv, TypeOK
  <2>. QED
    BY <2>1 DEF TInv, TypeOK, BufferInv, Bounded, Whole
<1>10. ASSUME Crash PROVE TInv'
  <2>1. PICK k \in synced..Len(file) : file' = Prefix(file, k)
    BY <1>10 DEF Crash
  <2>2. k \in 0..Len(file) /\ Len(file) \in Nat
    BY <1>0
  <2>3. file' \in Seq(Piece) /\ Len(file') = k /\ Bounded(file', calls)
    BY <1>0, <2>1, <2>2, Prefixes, BoundedParts
  <2>4. file' \o <<>> = file' /\ synced \in 0..Len(file')
    BY <1>0, <2>2, <2>3, ConcatEmptySeq
  <2>5. /\ UNCHANGED <<synced, glued, returned, summary, snapshot, calls, faults>>
        /\ crashes' = crashes + 1 /\ cut' = FALSE
        /\ journal' = "absent" /\ handle' = FALSE /\ buffer' = <<>> /\ seq' = 0 /\ events' = {}
    BY <1>10 DEF Crash, NoObject, caches
  <2>6. TypeOK' /\ BufferInv'
    <3>1. seq' \in Nat /\ events' \subseteq Event /\ buffer' \in Seq(Piece)
      BY <2>5, EmptySeq
    <3>2. TypeOK'
      <4>1. /\ faults' \in Nat /\ calls' \in Nat /\ crashes' \in Nat
            /\ synced' \in 0..Len(file') /\ file' \in Seq(Piece)
        BY <1>0, <2>3, <2>4, <2>5 DEF TInv, TypeOK
      <4>2. /\ journal' \in {"absent", "open", "closed"} /\ handle' \in BOOLEAN
            /\ cut' \in BOOLEAN /\ summary' \subseteq Event /\ snapshot' \subseteq Event
            /\ glued' \subseteq Event /\ returned' \subseteq Event
        BY <2>5 DEF TInv, TypeOK
      <4>. QED BY <3>1, <4>1, <4>2 DEF TypeOK
    <3>3. BufferInv'
      BY <2>5 DEF BufferInv
    <3>. QED BY <3>2, <3>3
  <2>7. Whole' = file'
    BY <2>4, <2>5 DEF Whole
  <2>8. Bounded(Whole, calls)' /\ (seq <= calls)'
    BY <1>0, <2>3, <2>5, <2>7
  <2>. QED
    BY <2>6, <2>8 DEF TInv
<1>11. ASSUME UNCHANGED vars PROVE TInv'
  BY <1>11 DEF vars, disk, object, caches, history, TInv, TypeOK, BufferInv, Bounded, Whole
<1>. QED
  BY <1>4, <1>5, <1>6, <1>7, <1>8, <1>9, <1>10, <1>11 DEF Next, Open, Close

\* Every variable keeps its type, and no file is shorter than what was synced.
THEOREM TypeCorrect == Spec => []TypeOK
<1>1. Spec => []TInv
  BY TypeInit, TypeStep, PTL DEF Spec
<1>2. TInv => TypeOK
  BY DEF TInv
<1>. QED
  BY <1>1, <1>2, PTL
-----------------------------------------------------------------------------
(***************************************************************************)
(* The order of the file.  Numbers do not fall along the text of the file, *)
(* and a number is at most one above that of some record before it: so the *)
(* number a scan continues with is not below any number in the file, torn  *)
(* lines included, and stays so when a crash cuts the file.                *)
(***************************************************************************)
HasRecord(f, n) == \E j \in 1..Len(f) : Reads(f, j) /\ f[j].event.n = n

Ordered(f) ==
  \A i, j \in 1..Len(f) :
    i < j /\ f[i] # Newline /\ f[j] # Newline => f[i].event.n <= f[j].event.n

Supported(f) ==
  \A i \in 1..Len(f) :
    f[i] # Newline => \/ f[i].event.n <= 1
                      \/ \E j \in 1..Len(f) : /\ j + 2 < i /\ Reads(f, j)
                                              /\ f[i].event.n <= f[j].event.n + 1

UpTo(f, n) == \A i \in 1..Len(f) : f[i] # Newline => f[i].event.n <= n

\* The line of event d is not at the beginning of a line wherever it is in f.
Unread(f, d) == \A i \in 1..Len(f) : f[i] = Left(d) => i # 1 /\ f[i - 1] # Newline

\* A glued event is never read again, and its call is over.
GlueInv == \A d \in glued : d.call <= calls /\ Unread(Whole, d)

\* An open object continues with a number the file supports, at the end of a
\* line unless a close() has cut one.  Numbers are supported until an event is
\* glued, and ordered until a reopening has forgotten one.
OpenInv ==
  journal = "open" =>
    /\ Lost = {} => UpTo(Whole, seq + 1)
    /\ glued = {} => seq = 0 \/ HasRecord(file, seq)
    /\ cut => TornTail(file) /\ buffer = <<>>
    /\ ~cut => EndsLine(Whole)

OrderInv ==
  /\ Lost = {} => Ordered(Whole)
  /\ glued = {} => Supported(Whole)
  /\ GlueInv
  /\ OpenInv

\* A record is read from its own line and what precedes it.
LEMMA ReadsAlike ==
  ASSUME NEW f \in Seq(Piece), NEW g \in Seq(Piece), Len(f) <= Len(g),
         \A i \in 1..Len(f) : g[i] = f[i]
  PROVE  /\ \A i \in 1..Len(f) : Reads(f, i) => Reads(g, i)
         /\ \A i \in 1..Len(f) : i + 2 <= Len(f) /\ Reads(g, i) => Reads(f, i)
         /\ \A n \in Nat : HasRecord(f, n) => HasRecord(g, n)
<1>1. ASSUME NEW i \in 1..Len(f), i + 2 <= Len(f)
      PROVE  Reads(f, i) <=> Reads(g, i)
  <2>1. /\ i + 1 \in 1..Len(f) /\ i + 2 \in 1..Len(f) /\ (i = 1 \/ i - 1 \in 1..Len(f))
        /\ i + 2 <= Len(g)
    BY <1>1
  <2>. QED
    BY <1>1, <2>1 DEF Reads
<1>2. \A i \in 1..Len(f) : Reads(f, i) => i + 2 <= Len(f)
  BY DEF Reads
<1>3. 1..Len(f) \subseteq 1..Len(g)
  OBVIOUS
<1>. QED
  BY <1>1, <1>2, <1>3 DEF HasRecord

\* Text that is cut keeps what is known of its order.
LEMMA OrderCut ==
  ASSUME NEW f \in Seq(Piece), NEW k \in 0..Len(f)
  PROVE  /\ Ordered(f) => Ordered(Prefix(f, k))
         /\ Supported(f) => Supported(Prefix(f, k))
         /\ \A n \in Nat : UpTo(f, n) => UpTo(Prefix(f, k), n)
         /\ \A d : Unread(f, d) => Unread(Prefix(f, k), d)
<1>1. PICK g \in Seq(Piece) : g = Prefix(f, k)
  BY Prefixes
<1>2. Len(g) = k /\ Len(g) <= Len(f) /\ \A i \in 1..Len(g) : f[i] = g[i]
  BY <1>1, Prefixes
<1>3. \A i \in 1..Len(g) : i + 2 <= Len(g) /\ Reads(f, i) => Reads(g, i)
  BY <1>2, ReadsAlike
<1>4. 1..Len(g) \subseteq 1..Len(f)
  BY <1>2
<1>5. Ordered(f) => Ordered(g)
  BY <1>2, <1>4 DEF Ordered
<1>6. ASSUME Supported(f), NEW i \in 1..Len(g), g[i] # Newline, ~(g[i].event.n <= 1)
      PROVE  \E j \in 1..Len(g) : j + 2 < i /\ Reads(g, j) /\ g[i].event.n <= g[j].event.n + 1
  <2>1. PICK j \in 1..Len(f) : j + 2 < i /\ Reads(f, j) /\ f[i].event.n <= f[j].event.n + 1
    BY <1>2, <1>4, <1>6 DEF Supported
  <2>2. j \in 1..Len(g) /\ j + 2 <= Len(g)
    BY <2>1
  <2>. QED
    BY <1>2, <1>3, <2>1, <2>2
<1>7. Supported(f) => Supported(g)
  BY <1>6 DEF Supported
<1>8. \A n \in Nat : UpTo(f, n) => UpTo(g, n)
  BY <1>2, <1>4 DEF UpTo
<1>9. ASSUME NEW d, Unread(f, d), NEW i \in 1..Len(g), g[i] = Left(d)
      PROVE  i # 1 /\ g[i - 1] # Newline
  <2>1. i # 1 /\ f[i - 1] # Newline
    BY <1>2, <1>4, <1>9 DEF Unread
  <2>2. i - 1 \in 1..Len(g)
    BY <2>1
  <2>. QED BY <1>2, <2>1, <2>2
<1>. QED
  BY <1>1, <1>5, <1>7, <1>8, <1>9 DEF Unread

\* An event whose line is nowhere read is no record.
LEMMA UnreadIsNoRecord ==
  ASSUME NEW f \in Seq(Piece), NEW d, Unread(f, d)
  PROVE  d \notin Records(f)
<1> SUFFICES ASSUME NEW i \in 1..Len(f), Reads(f, i), f[i].event = d PROVE FALSE
  BY DEF Records
<1>1. f[i] = Left(d) /\ (i = 1 \/ f[i - 1] = Newline)
  BY DEF Reads
<1>. QED
  BY <1>1 DEF Unread

\* The line of a later event brings none of them back, and behind torn text it
\* is not read itself.
LEMMA UnreadLine ==
  ASSUME NEW f \in Seq(Piece), NEW c \in Nat, Bounded(f, c), NEW e \in Event, e.call = c + 1
  PROVE  /\ \A d \in Event : d.call <= c /\ Unread(f, d) => Unread(f \o Line(e), d)
         /\ TornTail(f) => Unread(f \o Line(e), e)
<1>1. Line(e) \in Seq(Piece) /\ Len(Line(e)) = 3
  <2>1. <<>> \in Seq(Piece) /\ EndsLine(<<>>)
    BY EmptySeq DEF EndsLine
  <2>. QED BY <2>1, LineReads
<1>2. PICK g \in Seq(Piece) : g = f \o Line(e)
  BY <1>1, Appending
<1>3. /\ Len(g) = Len(f) + 3
      /\ \A i \in 1..Len(f) : g[i] = f[i]
      /\ \A i \in 1..3 : g[Len(f) + i] = Line(e)[i]
  <2>1. PICK l \in Seq(Piece) : l = Line(e)
    BY <1>1
  <2>2. /\ Len(g) = Len(f) + Len(l)
        /\ \A i \in 1..Len(f) : g[i] = f[i]
        /\ \A i \in 1..Len(l) : g[Len(f) + i] = l[i]
    BY <1>2, <2>1, Appending
  <2>. QED BY <1>1, <2>1, <2>2
<1>4. g[Len(f) + 1] = Left(e) /\ g[Len(f) + 2] = Right(e) /\ g[Len(f) + 3] = Newline
  <2>1. /\ g[Len(f) + 1] = Line(e)[1] /\ g[Len(f) + 2] = Line(e)[2]
        /\ g[Len(f) + 3] = Line(e)[3]
    BY <1>3
  <2>. QED BY <2>1 DEF Line
<1>5. ASSUME NEW d \in Event, NEW i \in 1..Len(g), g[i] = Left(d)
      PROVE  \/ i \in 1..Len(f) /\ f[i] = Left(d)
             \/ i = Len(f) + 1 /\ d = e
  <2>1. CASE i <= Len(f)
    <3>1. i \in 1..Len(f)
      BY <2>1
    <3>. QED BY <1>3, <1>5, <3>1
  <2>2. CASE i > Len(f)
    <3>1. i = Len(f) + 1 \/ i = Len(f) + 2 \/ i = Len(f) + 3
      BY <1>3, <2>2
    <3>2. i # Len(f) + 2 /\ i # Len(f) + 3
      BY <1>4, <1>5 DEF Left, Right, Newline
    <3>3. d = e
      BY <1>4, <1>5, <3>1, <3>2 DEF Left
    <3>. QED BY <3>1, <3>2, <3>3
  <2>. QED BY <2>1, <2>2
<1>6. ASSUME NEW d \in Event, d.call <= c, Unread(f, d) PROVE Unread(g, d)
  <2> SUFFICES ASSUME NEW i \in 1..Len(g), g[i] = Left(d)
               PROVE  i # 1 /\ g[i - 1] # Newline
    BY DEF Unread
  <2>1. d # e
    BY <1>6
  <2>2. i \in 1..Len(f) /\ f[i] = Left(d)
    BY <1>5, <2>1
  <2>3. i # 1 /\ f[i - 1] # Newline
    BY <1>6, <2>2 DEF Unread
  <2>4. i - 1 \in 1..Len(f)
    BY <2>2, <2>3
  <2>. QED BY <1>3, <2>3, <2>4
<1>7. ASSUME TornTail(f) PROVE Unread(g, e)
  <2> SUFFICES ASSUME NEW i \in 1..Len(g), g[i] = Left(e)
               PROVE  i # 1 /\ g[i - 1] # Newline
    BY DEF Unread
  <2>1. Len(f) \in 1..Len(f) /\ f[Len(f)] # Newline
    <3>1. f # <<>> /\ f[Len(f)] # Newline
      BY <1>7 DEF TornTail
    <3>2. Len(f) # 0 /\ Len(f) \in Nat
      BY <3>1, EmptySeq
    <3>. QED BY <3>1, <3>2
  <2>2. ~(i \in 1..Len(f) /\ f[i] = Left(e))
    <3>1. ASSUME i \in 1..Len(f), f[i] = Left(e) PROVE FALSE
      <4>1. f[i].event.call <= c
        BY <3>1 DEF Bounded
      <4>2. f[i].event = e
        BY <3>1 DEF Left
      <4>. QED BY <4>1, <4>2
    <3>. QED BY <3>1
  <2>3. i = Len(f) + 1
    BY <1>5, <2>2
  <2>4. i - 1 = Len(f)
    BY <2>3
  <2>. QED BY <1>3, <2>1, <2>3, <2>4
<1>. QED
  BY <1>2, <1>6, <1>7

\* The line of the next event keeps the order.
LEMMA OrderLine ==
  ASSUME NEW f \in Seq(Piece), NEW n \in Nat, NEW e \in Event, e.n = n + 1
  PROVE  /\ Ordered(f) /\ UpTo(f, n + 1) => Ordered(f \o Line(e))
         /\ Supported(f) /\ (n = 0 \/ HasRecord(f, n)) => Supported(f \o Line(e))
         /\ UpTo(f, n + 1) => UpTo(f \o Line(e), n + 1) /\ UpTo(f \o Line(e), n + 2)
<1>1. Line(e) \in Seq(Piece) /\ Len(Line(e)) = 3
  <2>1. <<>> \in Seq(Piece) /\ EndsLine(<<>>)
    BY EmptySeq DEF EndsLine
  <2>. QED BY <2>1, LineReads
<1>2. PICK g \in Seq(Piece) : g = f \o Line(e)
  BY <1>1, Appending
<1>3. /\ Len(g) = Len(f) + 3 /\ Len(f) <= Len(g)
      /\ \A i \in 1..Len(f) : g[i] = f[i]
      /\ \A i \in 1..3 : g[Len(f) + i] = Line(e)[i]
  <2>1. /\ Len(g) = Len(f) + Len(Line(e))
        /\ \A i \in 1..Len(f) : g[i] = f[i]
        /\ \A i \in 1..Len(Line(e)) : g[Len(f) + i] = Line(e)[i]
    <3>1. PICK l \in Seq(Piece) : l = Line(e)
      BY <1>1
    <3>2. g = f \o l
      BY <1>2, <3>1
    <3>3. /\ Len(g) = Len(f) + Len(l)
          /\ \A i \in 1..Len(f) : g[i] = f[i]
          /\ \A i \in 1..Len(l) : g[Len(f) + i] = l[i]
      BY <3>2, Appending
    <3>. QED BY <3>1, <3>3
  <2>. QED BY <1>1, <2>1
<1>4. /\ g[Len(f) + 1].event = e /\ g[Len(f) + 2].event = e /\ g[Len(f) + 3] = Newline
  <2>1. /\ g[Len(f) + 1] = Line(e)[1] /\ g[Len(f) + 2] = Line(e)[2]
        /\ g[Len(f) + 3] = Line(e)[3]
    BY <1>3
  <2>. QED BY <2>1 DEF Line, Left, Right
<1>5. ASSUME NEW i \in 1..Len(g), g[i] # Newline, i > Len(f)
      PROVE  g[i].event = e
  <2>1. i = Len(f) + 1 \/ i = Len(f) + 2 \/ i = Len(f) + 3
    BY <1>3, <1>5
  <2>. QED BY <1>4, <1>5, <2>1
<1>6. \A i \in 1..Len(g) : i <= Len(f) => i \in 1..Len(f)
  OBVIOUS
<1>7. UpTo(f, n + 1) => UpTo(g, n + 1)
  <2>1. ASSUME UpTo(f, n + 1), NEW i \in 1..Len(g), g[i] # Newline PROVE g[i].event.n <= n + 1
    <3>1. CASE i <= Len(f)
      BY <1>3, <1>6, <2>1, <3>1 DEF UpTo
    <3>2. CASE i > Len(f)
      BY <1>5, <2>1, <3>2
    <3>. QED BY <3>1, <3>2
  <2>. QED BY <2>1 DEF UpTo
<1>8. Ordered(f) /\ UpTo(f, n + 1) => Ordered(g)
  <2>1. ASSUME Ordered(f), UpTo(f, n + 1), NEW i \in 1..Len(g), NEW j \in 1..Len(g),
               i < j, g[i] # Newline, g[j] # Newline
        PROVE  g[i].event.n <= g[j].event.n
    <3>1. CASE j <= Len(f)
      <4>1. i \in 1..Len(f) /\ j \in 1..Len(f)
        BY <2>1, <3>1
      <4>. QED BY <1>3, <2>1, <4>1 DEF Ordered
    <3>2. CASE j > Len(f)
      BY <1>5, <1>7, <2>1, <3>2 DEF UpTo
    <3>. QED BY <3>1, <3>2
  <2>. QED BY <2>1 DEF Ordered
<1>9. \A i \in 1..Len(f) : Reads(f, i) => Reads(g, i)
  BY <1>3, ReadsAlike
<1>10. Supported(f) /\ (n = 0 \/ HasRecord(f, n)) => Supported(g)
  <2>1. ASSUME Supported(f), n = 0 \/ HasRecord(f, n),
               NEW i \in 1..Len(g), g[i] # Newline, ~(g[i].event.n <= 1)
        PROVE  \E j \in 1..Len(g) : j + 2 < i /\ Reads(g, j) /\ g[i].event.n <= g[j].event.n + 1
    <3>1. CASE i <= Len(f)
      <4>1. i \in 1..Len(f) /\ g[i] = f[i]
        BY <1>3, <3>1
      <4>2. PICK j \in 1..Len(f) : j + 2 < i /\ Reads(f, j) /\ f[i].event.n <= f[j].event.n + 1
        BY <2>1, <4>1 DEF Supported
      <4>3. j \in 1..Len(g) /\ g[j] = f[j]
        BY <1>3
      <4>. QED BY <1>9, <4>1, <4>2, <4>3
    <3>2. CASE i > Len(f)
      <4>1. g[i].event.n = n + 1
        BY <1>5, <2>1, <3>2
      <4>2. n # 0
        BY <2>1, <4>1
      <4>3. PICK j \in 1..Len(f) : Reads(f, j) /\ f[j].event.n = n
        BY <2>1, <4>2 DEF HasRecord
      <4>4. j + 2 <= Len(f)
        BY <4>3 DEF Reads
      <4>5. j \in 1..Len(g) /\ g[j] = f[j] /\ j + 2 < i
        BY <1>3, <3>2, <4>4
      <4>. QED BY <1>9, <4>1, <4>3, <4>5
    <3>. QED BY <3>1, <3>2
  <2>. QED BY <2>1 DEF Supported
<1>11. UpTo(g, n + 1) => UpTo(g, n + 2)
  <2>0. \A i \in 1..Len(g) : g[i] \in Piece
    BY ElementOfSeq
  <2>1. \A i \in 1..Len(g) : g[i].event.n \in Nat
    BY <2>0 DEF Piece, Event
  <2>. QED BY <2>1 DEF UpTo
<1>. QED
  BY <1>2, <1>7, <1>8, <1>10, <1>11

\* So does the newline that ends a torn tail.
LEMMA OrderNewline ==
  ASSUME NEW f \in Seq(Piece)
  PROVE  /\ Ordered(f) => Ordered(f \o PendingNewline(f))
         /\ Supported(f) => Supported(f \o PendingNewline(f))
         /\ \A n \in Nat : UpTo(f, n) => UpTo(f \o PendingNewline(f), n)
         /\ \A n \in Nat : HasRecord(f, n) => HasRecord(f \o PendingNewline(f), n)
         /\ \A d : Unread(f, d) => Unread(f \o PendingNewline(f), d)
<1>1. CASE TornTail(f)
  <2>1. PendingNewline(f) = <<Newline>>
    BY <1>1 DEF PendingNewline
  <2>2. <<Newline>> \in Seq(Piece) /\ Len(<<Newline>>) = 1 /\ <<Newline>>[1] = Newline
    BY NewlinePiece
  <2>3. PICK g \in Seq(Piece) : g = f \o <<Newline>>
    BY <2>2, Appending
  <2>4. /\ Len(g) = Len(f) + 1 /\ Len(f) <= Len(g)
        /\ \A i \in 1..Len(f) : g[i] = f[i]
        /\ g[Len(f) + 1] = Newline
    BY <2>2, <2>3, Appending
  <2>5. /\ \A i \in 1..Len(f) : Reads(f, i) => Reads(g, i)
        /\ \A n \in Nat : HasRecord(f, n) => HasRecord(g, n)
    BY <2>4, ReadsAlike
  <2>6. ASSUME NEW i \in 1..Len(g), g[i] # Newline
        PROVE  i \in 1..Len(f) /\ g[i] = f[i]
    <3>1. i # Len(f) + 1
      BY <2>4, <2>6
    <3>. QED BY <2>4, <3>1
  <2>7. (Ordered(f) => Ordered(g)) /\ \A n \in Nat : UpTo(f, n) => UpTo(g, n)
    BY <2>6 DEF Ordered, UpTo
  <2>8. ASSUME Supported(f), NEW i \in 1..Len(g), g[i] # Newline, ~(g[i].event.n <= 1)
        PROVE  \E j \in 1..Len(g) : j + 2 < i /\ Reads(g, j) /\ g[i].event.n <= g[j].event.n + 1
    <3>1. i \in 1..Len(f) /\ g[i] = f[i]
      BY <2>6, <2>8
    <3>2. PICK j \in 1..Len(f) : j + 2 < i /\ Reads(f, j) /\ f[i].event.n <= f[j].event.n + 1
      BY <2>8, <3>1 DEF Supported
    <3>3. j \in 1..Len(g) /\ g[j] = f[j]
      BY <2>4
    <3>. QED BY <2>5, <3>1, <3>2, <3>3
  <2>9. Supported(f) => Supported(g)
    BY <2>8 DEF Supported
  <2>10. ASSUME NEW d, Unread(f, d), NEW i \in 1..Len(g), g[i] = Left(d)
         PROVE  i # 1 /\ g[i - 1] # Newline
    <3>1. g[i] # Newline
      BY <2>10 DEF Left, Newline
    <3>2. i \in 1..Len(f) /\ g[i] = f[i]
      BY <2>6, <3>1
    <3>3. i # 1 /\ f[i - 1] # Newline
      BY <2>10, <3>2 DEF Unread
    <3>4. i - 1 \in 1..Len(f)
      BY <3>2, <3>3
    <3>. QED BY <2>4, <3>3, <3>4
  <2>11. \A d : Unread(f, d) => Unread(g, d)
    BY <2>10 DEF Unread
  <2>. QED
    BY <2>1, <2>3, <2>5, <2>7, <2>9, <2>11
<1>2. CASE ~TornTail(f)
  <2>1. f \o PendingNewline(f) = f
    BY <1>2, ConcatEmptySeq DEF PendingNewline
  <2>. QED BY <2>1
<1>. QED
  BY <1>1, <1>2

\* What a scan continues with is supported, and not below any number in the file.
LEMMA ScanOrder ==
  ASSUME NEW f \in Seq(Piece), Supported(f), NEW b \in Nat, Bounded(f, b)
  PROVE  /\ LastNumber(f) \in Nat
         /\ UpTo(f, LastNumber(f) + 1)
         /\ LastNumber(f) = 0 \/ HasRecord(f, LastNumber(f))
<1>1. /\ LastNumber(f) \in Nat
      /\ \A e \in Records(f) : e.n <= LastNumber(f)
      /\ LastNumber(f) = 0 \/ HasRecord(f, LastNumber(f))
  BY LastNumberIsLast DEF HasRecord
<1>2. ASSUME NEW i \in 1..Len(f), f[i] # Newline
      PROVE  f[i].event.n <= LastNumber(f) + 1
  <2>0. \A j \in 1..Len(f) : f[j] \in Piece
    BY ElementOfSeq
  <2>1. \A j \in 1..Len(f) : f[j].event.n \in Nat
    BY <2>0 DEF Piece, Event
  <2>2. CASE f[i].event.n <= 1
    BY <1>1, <2>1, <2>2
  <2>3. CASE ~(f[i].event.n <= 1)
    <3>1. PICK j \in 1..Len(f) : Reads(f, j) /\ f[i].event.n <= f[j].event.n + 1
      BY <1>2, <2>3 DEF Supported
    <3>2. f[j].event \in Records(f)
      BY <3>1 DEF Records
    <3>. QED BY <1>1, <2>1, <3>1, <3>2
  <2>. QED BY <2>2, <2>3
<1>. QED
  BY <1>1, <1>2 DEF UpTo

\* The order holds at first.
LEMMA OrderInit == Init => OrderInv
<1> SUFFICES ASSUME Init PROVE OrderInv
  OBVIOUS
<1>1. Whole = <<>> /\ journal = "absent" /\ glued = {}
  BY ConcatEmptySeq DEF Init, Whole
<1>2. Len(<<>>) = 0
  OBVIOUS
<1>. QED
  BY <1>1, <1>2 DEF OrderInv, Ordered, Supported, OpenInv, GlueInv

\* What a constructor appends behind: the file and the newline it owes.
LEMMA OrderScanned ==
  ASSUME TInv, OrderInv, journal # "open"
  PROVE  /\ Whole = file /\ file \in Seq(Piece) /\ LastNumber(file) \in Nat
         /\ NextEvent(LastNumber(file)) \in Event
         /\ glued \cap Records(file) = {}
         /\ glued = {} =>
              /\ Ordered(file) /\ Supported(file) /\ UpTo(file, LastNumber(file) + 1)
              /\ LastNumber(file) = 0 \/ HasRecord(file, LastNumber(file))
<1>1. /\ file \in Seq(Piece) /\ buffer = <<>> /\ calls \in Nat /\ Bounded(Whole, calls)
  BY DEF TInv, TypeOK, BufferInv
<1>2. Whole = file
  BY <1>1, ConcatEmptySeq DEF Whole
<1>3. glued = {} => Ordered(file) /\ Supported(file)
  BY <1>2 DEF OrderInv, Lost
<1>4. LastNumber(file) \in Nat
  BY <1>1, <1>2, LastNumberIsLast
<1>5. glued \cap Records(file) = {}
  BY <1>1, <1>2, UnreadIsNoRecord DEF OrderInv, GlueInv
<1>6. ASSUME glued = {}
      PROVE  /\ UpTo(file, LastNumber(file) + 1)
             /\ LastNumber(file) = 0 \/ HasRecord(file, LastNumber(file))
  BY <1>1, <1>2, <1>3, <1>6, ScanOrder
<1>. QED
  BY <1>1, <1>2, <1>3, <1>4, <1>5, <1>6 DEF NextEvent, Event

\* The data of an append, joined to the file.
LEMMA Join ==
  ASSUME TInv, NEW pre \in Seq(Piece), NEW e \in Event
  PROVE  /\ Line(e) \in Seq(Piece)
         /\ pre \o Line(e) \in Seq(Piece)
         /\ file \o (pre \o Line(e)) = (file \o pre) \o Line(e)
         /\ file \o (pre \o Line(e)) \in Seq(Piece)
<1>1. <<>> \in Seq(Piece) /\ EndsLine(<<>>)
  BY EmptySeq DEF EndsLine
<1>2. Line(e) \in Seq(Piece)
  BY <1>1, LineReads
<1>3. file \in Seq(Piece)
  BY DEF TInv, TypeOK
<1>4. pre \o Line(e) \in Seq(Piece)
  BY <1>2, Appending
<1>5. file \o (pre \o Line(e)) \in Seq(Piece)
  BY <1>3, <1>4, Appending
<1>. QED
  BY <1>2, <1>3, <1>4, <1>5, Regroup

\* A number that a file records is recorded in what the file grows to.
LEMMA RecordStays ==
  ASSUME NEW f \in Seq(Piece), NEW g \in Seq(Piece), NEW n \in Nat, HasRecord(f, n)
  PROVE  HasRecord(f \o g, n)
<1>1. PICK h \in Seq(Piece) : h = f \o g
  BY Appending
<1>2. Len(f) <= Len(h) /\ \A i \in 1..Len(f) : h[i] = f[i]
  BY <1>1, Appending
<1>. QED
  BY <1>1, <1>2, ReadsAlike

\* Text is cut and no object is open.
LEMMA OrderClosed ==
  ASSUME TInv, OrderInv, NEW k \in 0..Len(Whole), Whole' = Prefix(Whole, k),
         journal' # "open", UNCHANGED <<glued, calls>>, Lost' = {} => Lost = {}
  PROVE  OrderInv'
<1>1. Whole \in Seq(Piece)
  BY Appending DEF TInv, TypeOK, Whole
<1>2. Lost' = {} => Ordered(Whole')
  BY <1>1, OrderCut DEF OrderInv
<1>3. glued' = {} => Supported(Whole')
  BY <1>1, OrderCut DEF OrderInv
<1>4. GlueInv'
  BY <1>1, OrderCut DEF OrderInv, GlueInv
<1>. QED
  BY <1>2, <1>3, <1>4 DEF OrderInv, OpenInv

\* The end of a line, whatever it goes behind.
LEMMA LineEnds ==
  ASSUME NEW f \in Seq(Piece), NEW e \in Event
  PROVE  EndsLine(f \o Line(e))
<1>1. Line(e) \in Seq(Piece) /\ Len(Line(e)) = 3 /\ Line(e)[3] = Newline
  <2>1. <<>> \in Seq(Piece) /\ EndsLine(<<>>)
    BY EmptySeq DEF EndsLine
  <2>. QED BY <2>1, LineReads DEF Line
<1>2. PICK l \in Seq(Piece) : l = Line(e)
  BY <1>1
<1>3. /\ Len(f \o l) = Len(f) + Len(l)
      /\ \A i \in 1..Len(l) : (f \o l)[Len(f) + i] = l[i]
  BY Appending
<1>4. Len(f \o l) = Len(f) + 3 /\ (f \o l)[Len(f) + 3] = Newline
  <2>1. Len(l) = 3 /\ l[3] = Newline
    BY <1>1, <1>2, Zenon
  <2>2. 3 \in 1..Len(l)
    BY <2>1
  <2>. QED BY <1>3, <2>1, <2>2
<1>. QED
  BY <1>2, <1>4 DEF EndsLine

\* A constructor: what it appends, or how far it came.
LEMMA OrderOpens ==
  ASSUME TInv, OrderInv, Open
  PROVE  OrderInv'
<1>0. /\ file \in Seq(Piece) /\ calls \in Nat /\ journal # "open" /\ cut' = FALSE /\ glued' = glued
      /\ Whole = file /\ Bounded(file, calls) /\ LastNumber(file) \in Nat
      /\ NextEvent(LastNumber(file)) \in Event /\ glued \cap Records(file) = {}
      /\ glued \subseteq Event
  BY OrderScanned DEF Open, TInv, TypeOK
<1>1. ASSUME OpenClean PROVE OrderInv'
  <2>1. /\ UNCHANGED <<file, calls>> /\ buffer' = <<>> /\ seq' = LastNumber(file)
        /\ events' = Records(file) /\ ~TornTail(file) /\ journal' = "open"
    BY <1>1 DEF OpenClean, Damaged, disk
  <2>2. Whole' = file /\ EndsLine(file)
    BY <1>0, <2>1, ConcatEmptySeq DEF Whole, EndsLine, TornTail
  <2>3. Lost' = {} => glued = {}
    BY <1>0, <2>1 DEF Lost
  <2>4. GlueInv'
    BY <1>0, <2>1, <2>2 DEF OrderInv, GlueInv
  <2>5. OpenInv'
    BY <1>0, <2>1, <2>2, <2>3, OrderScanned DEF OpenInv
  <2>6. (Lost' = {} => Ordered(Whole')) /\ (glued' = {} => Supported(Whole'))
    BY <1>0, <2>2, <2>3, OrderScanned
  <2>. QED
    BY <2>4, <2>5, <2>6 DEF OrderInv
<1>2. ASSUME OpenTorn PROVE OrderInv'
  <2>1. PICK e \in Event : e = NextEvent(LastNumber(file))
    BY <1>0
  <2>2. PICK pre \in Seq(Piece) : pre = PendingNewline(file)
    BY <1>0, NewlineEnds
  <2>3. PICK data \in Seq(Piece) : data = pre \o Line(e)
    BY <2>1, <2>2, Join
  <2>4. PICK n \in Nat : n = LastNumber(file) /\ e.n = n + 1 /\ e.call = calls + 1
    BY <1>0, <2>1 DEF NextEvent
  <2>5. PICK f \in Seq(Piece) : f = file \o pre
    BY <1>0, Appending
  <2>6. /\ EndsLine(f) /\ Bounded(f, calls)
        /\ glued = {} => /\ Ordered(f) /\ Supported(f) /\ UpTo(f, n + 1)
                         /\ n = 0 \/ HasRecord(f, n)
        /\ \A d \in glued : Unread(f, d)
    <3>1. EndsLine(f) /\ Bounded(f, calls)
      BY <1>0, <2>2, <2>5, NewlineEnds, BoundedParts
    <3>2. glued = {} => /\ Ordered(f) /\ Supported(f) /\ UpTo(f, n + 1)
                        /\ n = 0 \/ HasRecord(f, n)
      BY <1>0, <2>2, <2>4, <2>5, OrderScanned, OrderNewline
    <3>3. \A d \in glued : Unread(f, d)
      BY <1>0, <2>2, <2>5, OrderNewline DEF OrderInv, GlueInv
    <3>. QED BY <3>1, <3>2, <3>3
  <2>7. PICK g \in Seq(Piece) : g = file \o data /\ g = f \o Line(e)
    BY <2>1, <2>2, <2>3, <2>5, Join
  <2>8. /\ EndsLine(g) /\ HasRecord(g, n + 1)
        /\ glued = {} => Ordered(g) /\ Supported(g) /\ UpTo(g, n + 2)
        /\ \A d \in glued : d.call <= calls /\ Unread(g, d)
    <3>1. EndsLine(g) /\ e \in Records(g)
      BY <2>6, <2>7, LineReads
    <3>2. glued = {} => Ordered(g) /\ Supported(g) /\ UpTo(g, n + 2)
      BY <2>4, <2>6, <2>7, OrderLine
    <3>3. \A d \in glued : d.call <= calls /\ Unread(g, d)
      BY <1>0, <2>4, <2>6, <2>7, UnreadLine DEF OrderInv, GlueInv
    <3>4. HasRecord(g, n + 1)
      BY <2>4, <3>1 DEF HasRecord, Records
    <3>. QED BY <3>1, <3>2, <3>3, <3>4
  <2>9. /\ calls' = calls + 1
        /\ Appended(data, e, Records(file)) \/ ConstructorFailed(data)
    BY <1>2, <2>1, <2>2, <2>3 DEF OpenTorn
  <2>10. CASE Appended(data, e, Records(file))
    <3>1. /\ file' = g /\ buffer' = <<>> /\ seq' = n + 1
          /\ events' = Records(file) \cup {e} /\ journal' = "open"
      BY <2>4, <2>7, <2>10 DEF Appended
    <3>2. Whole' = g
      BY <3>1, ConcatEmptySeq DEF Whole
    <3>3. seq' + 1 = n + 2
      BY <3>1
    <3>4. e \notin glued
      BY <1>0, <2>4, <2>8
    <3>5. Lost' = {} => glued = {}
      BY <1>0, <3>1, <3>4 DEF Lost
    <3>6. GlueInv'
      BY <1>0, <2>8, <2>9, <3>2 DEF GlueInv, Event
    <3>7. OpenInv'
      BY <1>0, <2>8, <3>1, <3>2, <3>3, <3>5 DEF OpenInv
    <3>. QED
      BY <1>0, <2>8, <3>2, <3>5, <3>6, <3>7 DEF OrderInv
  <2>11. CASE ConstructorFailed(data)
    <3>1. PICK k \in 0..Len(data) : file' = file \o Prefix(data, k)
      BY <2>11 DEF ConstructorFailed
    <3>2. PICK m \in 0..Len(g) : file' = Prefix(g, m)
      <4>0. file \in Seq(Piece)
        BY <1>0
      <4>1. file \o Prefix(data, k) = Prefix(file \o data, Len(file) + k)
        BY <4>0, CutWhole
      <4>2. Len(file \o data) = Len(file) + Len(data) /\ Len(file) \in Nat /\ Len(data) \in Nat
        BY <1>0, Appending, LenProperties
      <4>3. Len(g) = Len(file) + Len(data)
        BY <2>7, <4>2
      <4>4. Len(file) + k \in 0..Len(g)
        BY <4>2, <4>3
      <4>. QED BY <2>7, <3>1, <4>1, <4>4
    <3>3. buffer' = <<>> /\ journal' # "open" /\ events' = {}
      BY <2>11 DEF ConstructorFailed, NoObject
    <3>4. Whole' = Prefix(g, m)
      <4>1. Prefix(g, m) \in Seq(Piece)
        BY <3>2, Prefixes
      <4>. QED BY <3>2, <3>3, <4>1, ConcatEmptySeq DEF Whole
    <3>5. Lost' = {} => glued = {}
      BY <1>0, <3>3 DEF Lost
    <3>6. /\ Lost' = {} => Ordered(Whole')
          /\ glued' = {} => Supported(Whole')
      BY <1>0, <2>8, <3>4, <3>5, OrderCut
    <3>7. GlueInv'
      <4>1. \A d \in glued : Unread(Prefix(g, m), d)
        BY <2>8, OrderCut
      <4>2. \A d \in glued : d.call <= calls + 1
        <5>1. \A d \in glued : d.call \in Nat /\ d.call <= calls
          BY <1>0, <2>8 DEF Event
        <5>2. calls \in Nat
          BY <1>0
        <5>. QED BY <5>1, <5>2
      <4>. QED BY <1>0, <2>9, <3>4, <4>1, <4>2 DEF GlueInv
    <3>. QED
      BY <3>3, <3>6, <3>7 DEF OrderInv, OpenInv
  <2>. QED BY <2>9, <2>10, <2>11
<1>. QED
  BY <1>1, <1>2 DEF Open

\* The event of a call is numbered one above the last, and by the call.
LEMMA NextIsEvent ==
  ASSUME NEW n \in Nat, calls \in Nat
  PROVE  /\ NextEvent(n) \in Event /\ NextEvent(n).n = n + 1
         /\ NextEvent(n).call = calls + 1
BY DEF NextEvent, Event

\* An emit(): its line goes behind the whole text, glued or not.
LEMMA OrderEmits ==
  ASSUME TInv, OrderInv, Emit
  PROVE  OrderInv'
<1>0. /\ file \in Seq(Piece) /\ buffer \in Seq(Piece) /\ Whole \in Seq(Piece)
      /\ seq \in Nat /\ calls \in Nat /\ journal = "open" /\ Bounded(Whole, calls)
      /\ glued \subseteq Event /\ cut \in BOOLEAN /\ calls' = calls + 1
  BY Appending DEF TInv, TypeOK, Whole, Emit
<1>1. PICK e \in Event : e = NextEvent(seq) /\ e.n = seq + 1 /\ e.call = calls + 1
  BY <1>0, NextIsEvent
<1>2. PICK data \in Seq(Piece) : data = buffer \o Line(e)
  BY <1>0, <1>1, Join
<1>3. PICK f \in Seq(Piece) : f = Whole
  BY <1>0
<1>4. PICK g \in Seq(Piece) : g = file \o data /\ g = f \o Line(e)
  BY <1>0, <1>1, <1>2, <1>3, Join DEF Whole
<1>5. /\ Lost = {} => UpTo(f, seq + 1) /\ Ordered(f)
      /\ glued = {} => (seq = 0 \/ HasRecord(file, seq)) /\ Supported(f)
      /\ cut => TornTail(file) /\ buffer = <<>>
      /\ ~cut => EndsLine(f)
      /\ \A d \in glued : d.call <= calls /\ Unread(f, d)
  BY <1>0, <1>3 DEF OrderInv, OpenInv, GlueInv
<1>6. /\ EndsLine(g)
      /\ Lost = {} => Ordered(g) /\ UpTo(g, seq + 1) /\ UpTo(g, seq + 2)
      /\ glued = {} => Supported(g)
      /\ \A d \in glued : Unread(g, d)
  <2>1. glued = {} => seq = 0 \/ HasRecord(f, seq)
    BY <1>0, <1>3, <1>5, RecordStays DEF Whole
  <2>2. EndsLine(g)
    BY <1>4, LineEnds
  <2>3. Lost = {} => Ordered(g) /\ UpTo(g, seq + 1) /\ UpTo(g, seq + 2)
    BY <1>0, <1>1, <1>4, <1>5, OrderLine
  <2>4. glued = {} => Supported(g)
    BY <1>0, <1>1, <1>4, <1>5, <2>1, OrderLine
  <2>5. \A d \in glued : Unread(g, d)
    <3>1. Bounded(f, calls) /\ calls \in Nat /\ e.call = calls + 1
      BY <1>0, <1>1, <1>3
    <3>2. \A d \in Event : d.call <= calls /\ Unread(f, d) => Unread(f \o Line(e), d)
      BY <3>1, UnreadLine
    <3>. QED BY <1>0, <1>4, <1>5, <3>2
  <2>. QED BY <2>2, <2>3, <2>4, <2>5
<1>7. e \notin glued
  BY <1>0, <1>1, <1>5
<1>8. \/ /\ Appended(data, e, events) /\ cut' = FALSE
         /\ glued' = glued \cup (IF cut THEN {e} ELSE {})
      \/ AppendFailed(data) /\ cut' = FALSE /\ UNCHANGED glued
      \/ OpenFailed
  BY <1>1, <1>2 DEF Emit
<1>9. ASSUME Appended(data, e, events), cut' = FALSE,
             glued' = glued \cup (IF cut THEN {e} ELSE {})
      PROVE  OrderInv'
  <2>1. /\ file' = g /\ buffer' = <<>> /\ seq' = seq + 1 /\ journal' = "open"
        /\ events' = events \cup {e}
    BY <1>1, <1>4, <1>9 DEF Appended
  <2>2. Whole' = g
    BY <2>1, ConcatEmptySeq DEF Whole
  <2>3. seq' + 1 = seq + 2
    BY <1>0, <2>1
  <2>4. Lost' = {} => Lost = {}
    BY <1>7, <1>9, <2>1 DEF Lost
  <2>5. glued' = {} => glued = {} /\ ~cut
    BY <1>9
  <2>6. ~cut => HasRecord(g, seq + 1)
    <3>1. ~cut => e \in Records(g)
      BY <1>4, <1>5, LineReads
    <3>. QED BY <1>1, <3>1 DEF HasRecord, Records
  <2>7. cut => Unread(g, e)
    <3>1. cut => f = file /\ TornTail(f)
      BY <1>0, <1>3, <1>5, ConcatEmptySeq DEF Whole
    <3>. QED BY <1>0, <1>1, <1>3, <1>4, <3>1, UnreadLine
  <2>8. GlueInv'
    <3>1. ASSUME NEW d \in glued' PROVE d.call <= calls + 1 /\ Unread(g, d)
      <4>1. CASE d \in glued
        BY <1>0, <1>5, <1>6, <4>1 DEF Event
      <4>2. CASE d \notin glued
        <5>1. cut /\ d = e
          BY <1>9, <4>2
        <5>. QED BY <1>0, <1>1, <2>7, <5>1
      <4>. QED BY <4>1, <4>2
    <3>. QED BY <1>0, <2>2, <3>1 DEF GlueInv
  <2>9. OpenInv'
    BY <1>6, <1>9, <2>1, <2>2, <2>3, <2>4, <2>5, <2>6 DEF OpenInv
  <2>. QED
    BY <1>6, <2>2, <2>4, <2>5, <2>8, <2>9 DEF OrderInv
<1>10. ASSUME AppendFailed(data), cut' = FALSE, UNCHANGED glued PROVE OrderInv'
  <2>1. PICK k \in 0..Len(data) :
          file' = file \o Prefix(data, k) /\ buffer' = SubSeq(data, k + 1, Len(data))
    BY <1>10 DEF AppendFailed
  <2>2. (file \o Prefix(data, k)) \o SubSeq(data, k + 1, Len(data)) = file \o data
    BY <1>0, CutWhole
  <2>3. Whole' = g
    BY <1>4, <2>1, <2>2 DEF Whole
  <2>4. UNCHANGED <<journal, seq, events>> /\ Lost' = Lost
    BY <1>10 DEF AppendFailed, Lost
  <2>5. HasRecord(file, seq) => HasRecord(file', seq)
    <3>1. Prefix(data, k) \in Seq(Piece)
      BY Prefixes
    <3>. QED BY <1>0, <2>1, <3>1, RecordStays
  <2>6. GlueInv'
    <3>1. \A d \in glued : d.call <= calls + 1 /\ Unread(g, d)
      BY <1>0, <1>5, <1>6 DEF Event
    <3>. QED BY <1>0, <1>10, <2>3, <3>1 DEF GlueInv
  <2>7. OpenInv'
    BY <1>5, <1>6, <1>10, <2>3, <2>4, <2>5 DEF OpenInv
  <2>. QED
    BY <1>6, <1>10, <2>3, <2>4, <2>6, <2>7 DEF OrderInv
<1>11. ASSUME OpenFailed PROVE OrderInv'
  <2>1. UNCHANGED <<file, buffer, journal, seq, events, cut, glued>>
    BY <1>11 DEF OpenFailed, disk, object, history
  <2>2. Whole' = Whole /\ Lost' = Lost
    BY <2>1 DEF Whole, Lost
  <2>3. GlueInv'
    <3>1. \A d \in glued : d.call <= calls + 1 /\ Unread(Whole, d)
      BY <1>0, <1>3, <1>5 DEF Event
    <3>. QED BY <1>0, <2>1, <2>2, <3>1 DEF GlueInv
  <2>. QED
    BY <2>1, <2>2, <2>3 DEF OrderInv, OpenInv
<1>. QED
  BY <1>8, <1>9, <1>10, <1>11

\* Every step keeps the order.
LEMMA OrderStep == TInv /\ OrderInv /\ [Next]_vars => OrderInv'
<1> SUFFICES ASSUME TInv, OrderInv, [Next]_vars PROVE OrderInv'
  OBVIOUS
<1>0. /\ file \in Seq(Piece) /\ buffer \in Seq(Piece) /\ Whole \in Seq(Piece) /\ seq \in Nat
      /\ Len(Whole) = Len(file) + Len(buffer)
  BY Appending DEF TInv, TypeOK, Whole
<1>1. ASSUME (Close /\ CloseFailed) \/ Abandon PROVE OrderInv'
  <2>1. PICK k \in 0..Len(buffer) : file' = file \o Prefix(buffer, k)
    BY <1>1 DEF CloseFailed, Abandon
  <2>2. PICK m \in 0..Len(Whole) : file' = Prefix(Whole, m)
    <3>1. file \o Prefix(buffer, k) = Prefix(file \o buffer, Len(file) + k)
      BY <1>0, CutWhole
    <3>2. Len(file) + k \in 0..Len(Whole)
      BY <1>0, LenProperties
    <3>. QED BY <2>1, <3>1, <3>2 DEF Whole
  <2>3. buffer' = <<>>
    BY <1>1 DEF CloseFailed, Abandon
  <2>4. Whole' = Prefix(Whole, m) /\ Whole' = file'
    <3>1. Prefix(Whole, m) \in Seq(Piece)
      BY <1>0, Prefixes
    <3>. QED BY <2>2, <2>3, <3>1, ConcatEmptySeq DEF Whole
  <2>5. CASE Abandon
    <3>1. journal' # "open" /\ UNCHANGED <<events, glued, calls>>
      BY <2>5 DEF Abandon, history
    <3>2. Lost' = Lost
      BY <3>1 DEF Lost
    <3>. QED BY <2>4, <3>1, <3>2, OrderClosed
  <2>6. CASE Close /\ CloseFailed
    <3>1. /\ UNCHANGED <<journal, seq, events, glued, calls>> /\ journal = "open"
          /\ cut' = TornTail(file')
      BY <2>6 DEF Close, CloseFailed
    <3>2. Lost' = Lost
      BY <3>1 DEF Lost
    <3>3. (Lost = {} => Ordered(Whole')) /\ (glued = {} => Supported(Whole'))
      BY <1>0, <2>4, OrderCut DEF OrderInv
    <3>4. GlueInv'
      BY <1>0, <2>4, <3>1, OrderCut DEF OrderInv, GlueInv
    <3>5. ASSUME Lost = {} PROVE UpTo(Whole', seq + 1)
      <4>1. UpTo(Whole, seq + 1) /\ seq + 1 \in Nat
        BY <1>0, <3>1, <3>5 DEF OrderInv, OpenInv
      <4>2. UpTo(Prefix(Whole, m), seq + 1)
        BY <1>0, <4>1, OrderCut
      <4>. QED BY <2>4, <4>2
    <3>6. glued = {} => seq = 0 \/ HasRecord(file', seq)
      <4>1. Prefix(buffer, k) \in Seq(Piece)
        BY <1>0, Prefixes
      <4>. QED BY <1>0, <2>1, <3>1, <4>1, RecordStays DEF OrderInv, OpenInv
    <3>7. ~cut' => EndsLine(Whole')
      BY <2>4, <3>1 DEF TornTail, EndsLine
    <3>8. cut' => TornTail(file')
      BY <3>1
    <3>9. OpenInv'
      BY <2>3, <3>1, <3>2, <3>5, <3>6, <3>7, <3>8 DEF OpenInv
    <3>. QED
      BY <3>1, <3>2, <3>3, <3>4, <3>9 DEF OrderInv
  <2>. QED BY <1>1, <2>5, <2>6
<1>2. ASSUME Close, CloseFile PROVE OrderInv'
  <2>1. /\ file' = Whole /\ buffer' = <<>> /\ journal' # "open"
        /\ UNCHANGED <<events, glued, calls>>
    BY <1>2 DEF Close, CloseFile, Whole
  <2>2. Whole' = Prefix(Whole, Len(Whole)) /\ Lost' = Lost
    BY <1>0, <2>1, ConcatEmptySeq, SubSeqFull DEF Whole, Prefix, Lost
  <2>3. Len(Whole) \in 0..Len(Whole)
    BY <1>0, LenProperties
  <2>. QED
    BY <2>1, <2>2, <2>3, OrderClosed
<1>3. ASSUME WriteSummary \/ WriteSnapshot \/ UNCHANGED vars PROVE OrderInv'
  <2>1. UNCHANGED <<file, buffer, journal, seq, events, calls, cut, glued>>
    BY <1>3 DEF WriteSummary, WriteSnapshot, vars, disk, object, history
  <2>2. Whole' = Whole /\ Lost' = Lost
    BY <2>1 DEF Whole, Lost
  <2>. QED
    BY <2>1, <2>2 DEF OrderInv, OpenInv, GlueInv
<1>4. ASSUME Crash PROVE OrderInv'
  <2>1. PICK k \in synced..Len(file) : file' = Prefix(file, k)
    BY <1>4 DEF Crash
  <2>2. k \in 0..Len(file) /\ synced \in 0..Len(file) /\ Len(file) \in Nat
    BY <1>0, LenProperties DEF TInv, TypeOK
  <2>3. buffer' = <<>> /\ journal' # "open" /\ events' = {} /\ UNCHANGED <<calls, glued>>
    BY <1>4 DEF Crash, NoObject
  <2>4. Prefix(Whole, k) = Prefix(file, k) /\ Prefix(file, k) \in Seq(Piece)
    BY <1>0, <2>2, Appending, Prefixes DEF Whole
  <2>5. Whole' = Prefix(Whole, k)
    BY <2>1, <2>3, <2>4, ConcatEmptySeq DEF Whole
  <2>6. k \in 0..Len(Whole)
    BY <1>0, <2>2, LenProperties
  <2>7. Lost' = {} => Lost = {}
    BY <2>3 DEF Lost
  <2>. QED
    BY <2>3, <2>5, <2>6, <2>7, OrderClosed
<1>. QED
  BY <1>1, <1>2, <1>3, <1>4, OrderOpens, OrderEmits DEF Next, Close
-----------------------------------------------------------------------------
(***************************************************************************)
(* What was returned stays readable and an object remembers it, but for    *)
(* the events that were glued to cut text.                                 *)
(***************************************************************************)
Remembers ==
  journal # "absent" => returned \ events \subseteq glued /\ \A d \in events : d.n <= seq

KeepInv == Durable /\ MemoryInFile /\ Remembers

IInv == TInv /\ OrderInv /\ KeepInv

\* The newly returned number is above all that the file still has.
Advance == \A e \in returned' \ returned : \A d \in returned \ Lost' : d.n < e.n

\* Nothing was returned at first.
LEMMA KeepInit == Init => KeepInv
BY DEF Init, KeepInv, Durable, MemoryInFile, Remembers

\* A file that only grows keeps what was durable and what an object remembers.
LEMMA Grown ==
  ASSUME TInv, KeepInv, NEW x \in Seq(Piece), file' = file \o x,
         UNCHANGED <<synced, glued, returned>>,
         \/ journal' = "absent"
         \/ journal # "absent" /\ UNCHANGED <<events, seq>>
  PROVE  KeepInv'
<1>1. file \in Seq(Piece) /\ synced \in 0..Len(file)
  BY DEF TInv, TypeOK
<1>2. /\ Prefix(file \o x, synced) = Prefix(file, synced)
      /\ Records(file) \subseteq Records(file \o x)
  BY <1>1, Appending
<1>3. Durable'
  BY <1>2 DEF KeepInv, Durable
<1>4. MemoryInFile' /\ Remembers'
  BY <1>2 DEF KeepInv, MemoryInFile, Remembers
<1>. QED
  BY <1>3, <1>4 DEF KeepInv

\* An event with a number above all the object knows, whose line can be read
\* or is glued.
LEMMA KeepAppended ==
  ASSUME TInv, KeepInv, NEW data \in Seq(Piece), NEW e \in Event, NEW known \in SUBSET Event,
         Appended(data, e, known), glued \subseteq glued',
         e \in Records(file \o data) \/ e \in glued',
         known \ Records(file) \subseteq glued, returned \ known \subseteq glued,
         \A d \in known : d.n < e.n
  PROVE  KeepInv' /\ Advance
<1>1. file \in Seq(Piece) /\ synced \in 0..Len(file)
  BY DEF TInv, TypeOK
<1>2. PICK g \in Seq(Piece) : g = file \o data
  BY <1>1, Appending
<1>3. /\ file' = g /\ synced' = Len(g) /\ seq' = e.n
      /\ events' = known \cup {e} /\ returned' = returned \cup {e}
  BY <1>2 DEF Appended
<1>4. Records(file) \subseteq Records(g) /\ (e \in Records(g) \/ e \in glued')
  BY <1>1, <1>2, Appending
<1>5. Prefix(g, Len(g)) = g
  BY SubSeqFull DEF Prefix
<1>6. Durable'
  <2>1. Records(Prefix(file, synced)) \subseteq Records(file)
    BY <1>1, Prefixes
  <2>2. returned \ Records(g) \subseteq glued'
    BY <1>4, <2>1 DEF KeepInv, Durable
  <2>. QED BY <1>3, <1>4, <1>5, <2>2 DEF Durable
<1>7. MemoryInFile'
  BY <1>3, <1>4 DEF MemoryInFile
<1>8. Remembers'
  <2>1. e.n \in Nat /\ \A d \in known : d.n \in Nat
    BY DEF Event
  <2>2. \A d \in events' : d.n <= seq'
    BY <1>3, <2>1
  <2>3. returned' \ events' \subseteq glued'
    BY <1>3
  <2>. QED BY <2>2, <2>3 DEF Remembers
<1>9. Advance
  <2> SUFFICES ASSUME e \notin returned, NEW d \in returned \ Lost' PROVE d.n < e.n
    BY <1>3 DEF Advance
  <2>1. d \in known \cup {e}
    BY <1>3 DEF Lost
  <2>. QED BY <2>1
<1>. QED
  BY <1>6, <1>7, <1>8, <1>9 DEF KeepInv

\* Every step keeps what was returned, and numbers advance.
LEMMA KeepStep == IInv /\ [Next]_vars => KeepInv' /\ Advance
<1> SUFFICES ASSUME IInv, [Next]_vars PROVE KeepInv' /\ Advance
  OBVIOUS
<1>0. /\ TInv /\ OrderInv /\ KeepInv
      /\ file \in Seq(Piece) /\ buffer \in Seq(Piece) /\ synced \in 0..Len(file)
      /\ seq \in Nat /\ events \subseteq Event
  BY DEF IInv, TInv, TypeOK
<1>1. returned \ Records(file) \subseteq glued /\ Records(file) \subseteq Event
  <2>1. \A i \in 1..Len(file) : file[i] \in Piece
    BY <1>0, ElementOfSeq
  <2>2. Records(file) \subseteq Event
    BY <2>1 DEF Records, Piece
  <2>3. Records(Prefix(file, synced)) \subseteq Records(file)
    BY <1>0, Prefixes
  <2>. QED BY <1>0, <2>2, <2>3 DEF KeepInv, Durable
<1>2. \A k \in 0..Len(buffer) : Prefix(buffer, k) \in Seq(Piece)
  BY <1>0, Prefixes
<1>3. \A e \in Records(file) : e.n <= LastNumber(file)
  <2>1. \E b \in Nat : Bounded(file, b)
    BY <1>0, BoundedParts DEF TInv, TypeOK, Whole
  <2>. QED BY <1>0, <2>1, LastNumberIsLast
<1>11. UNCHANGED returned => Advance
  BY DEF Advance
<1>4. ASSUME Open, OpenClean PROVE KeepInv' /\ Advance
  <2>1. /\ UNCHANGED <<file, synced, returned, glued>>
        /\ seq' = LastNumber(file) /\ events' = Records(file)
    BY <1>4 DEF Open, OpenClean, disk
  <2>2. Durable'
    BY <1>0, <2>1 DEF KeepInv, Durable
  <2>3. MemoryInFile' /\ Remembers'
    BY <1>1, <1>3, <2>1 DEF MemoryInFile, Remembers
  <2>. QED
    BY <1>11, <2>1, <2>2, <2>3 DEF KeepInv
<1>5. ASSUME Open, OpenTorn PROVE KeepInv' /\ Advance
  <2>0. journal # "open" /\ LastNumber(file) \in Nat /\ UNCHANGED glued
    BY <1>0, <1>5, OrderScanned DEF Open
  <2>1. PICK e \in Event : e = NextEvent(LastNumber(file)) /\ e.n = LastNumber(file) + 1
    BY <1>0, <2>0, OrderScanned DEF NextEvent
  <2>2. PICK pre \in Seq(Piece) : pre = PendingNewline(file)
    BY <1>0, NewlineEnds
  <2>3. PICK data \in Seq(Piece) : data = pre \o Line(e)
    BY <1>0, <2>1, <2>2, Join
  <2>4. Appended(data, e, Records(file)) \/ ConstructorFailed(data)
    BY <1>5, <2>1, <2>2, <2>3 DEF OpenTorn
  <2>5. CASE Appended(data, e, Records(file))
    <3>1. PICK f \in Seq(Piece) : f = file \o pre /\ EndsLine(f)
      BY <1>0, <2>2, NewlineEnds, Appending
    <3>2. e \in Records(f \o Line(e))
      BY <3>1, LineReads
    <3>3. file \o data = f \o Line(e)
      BY <1>0, <2>1, <2>2, <2>3, <3>1, Join
    <3>4. \A d \in Records(file) : d.n < e.n
      <4>1. \A d \in Records(file) : d.n \in Nat
        BY <1>1 DEF Event
      <4>. QED BY <1>3, <2>0, <2>1, <4>1
    <3>. QED
      BY <1>0, <1>1, <2>0, <2>5, <3>2, <3>3, <3>4, KeepAppended
  <2>6. CASE ConstructorFailed(data)
    <3>1. PICK k \in 0..Len(data) : file' = file \o Prefix(data, k)
      BY <2>6 DEF ConstructorFailed
    <3>2. Prefix(data, k) \in Seq(Piece)
      BY Prefixes
    <3>3. UNCHANGED <<synced, returned>> /\ journal' = "absent"
      BY <2>6 DEF ConstructorFailed
    <3>. QED
      BY <1>0, <1>11, <2>0, <3>1, <3>2, <3>3, Grown
  <2>. QED BY <2>4, <2>5, <2>6
<1>6. ASSUME Emit PROVE KeepInv' /\ Advance
  <2>0. journal = "open"
    BY <1>6 DEF Emit
  <2>1. PICK e \in Event : e = NextEvent(seq) /\ e.n = seq + 1
    BY <1>0, NextIsEvent DEF TInv, TypeOK
  <2>2. PICK data \in Seq(Piece) : data = buffer \o Line(e)
    BY <1>0, <2>1, Join
  <2>3. \/ /\ Appended(data, e, events)
           /\ glued' = glued \cup (IF cut THEN {e} ELSE {})
        \/ AppendFailed(data) /\ UNCHANGED glued
        \/ OpenFailed
    BY <1>6, <2>1, <2>2 DEF Emit
  <2>4. ASSUME Appended(data, e, events), glued' = glued \cup (IF cut THEN {e} ELSE {})
        PROVE  KeepInv' /\ Advance
    <3>1. PICK f \in Seq(Piece) : f = Whole
      BY <1>0, Appending DEF Whole
    <3>2. ~cut => e \in Records(f \o Line(e))
      BY <1>0, <2>0, <3>1, LineReads DEF OrderInv, OpenInv
    <3>3. file \o data = f \o Line(e)
      BY <1>0, <2>1, <2>2, <3>1, Join DEF Whole
    <3>4. /\ events \ Records(file) \subseteq glued /\ returned \ events \subseteq glued
          /\ \A d \in events : d.n <= seq
      BY <1>0, <2>0 DEF KeepInv, MemoryInFile, Remembers
    <3>5. \A d \in events : d.n < e.n
      <4>1. \A d \in events : d.n \in Nat
        BY <1>0 DEF Event
      <4>. QED BY <1>0, <2>1, <3>4, <4>1
    <3>6. glued \subseteq glued' /\ (cut => e \in glued')
      BY <2>4
    <3>. QED
      BY <1>0, <2>4, <3>2, <3>3, <3>4, <3>5, <3>6, KeepAppended
  <2>5. CASE OpenFailed
    <3>1. UNCHANGED <<file, synced, journal, seq, events, glued, returned>>
      BY <2>5 DEF OpenFailed, disk, object, history
    <3>2. KeepInv'
      BY <1>0, <3>1 DEF KeepInv, Durable, MemoryInFile, Remembers
    <3>. QED
      BY <1>11, <3>1, <3>2
  <2>6. ASSUME AppendFailed(data), UNCHANGED glued PROVE KeepInv' /\ Advance
    <3>1. PICK k \in 0..Len(data) : file' = file \o Prefix(data, k)
      BY <2>6 DEF AppendFailed
    <3>2. Prefix(data, k) \in Seq(Piece)
      BY Prefixes
    <3>3. UNCHANGED <<synced, returned, events, seq>>
      BY <2>6 DEF AppendFailed
    <3>. QED
      BY <1>0, <1>11, <2>0, <2>6, <3>1, <3>2, <3>3, Grown
  <2>. QED BY <2>3, <2>4, <2>5, <2>6
<1>7. ASSUME (Close /\ CloseFailed) \/ Abandon PROVE KeepInv' /\ Advance
  <2>1. PICK k \in 0..Len(buffer) : file' = file \o Prefix(buffer, k)
    BY <1>7 DEF CloseFailed, Abandon
  <2>2. UNCHANGED <<synced, returned, glued, events, seq>> /\ journal # "absent"
    BY <1>7 DEF Close, CloseFailed, Abandon, history
  <2>. QED
    BY <1>0, <1>2, <1>11, <2>1, <2>2, Grown
<1>8. ASSUME Close, CloseFile PROVE KeepInv' /\ Advance
  <2>1. /\ file' = Whole /\ synced' \in {Len(Whole), synced}
        /\ UNCHANGED <<returned, glued, events, seq>> /\ journal # "absent"
    BY <1>8 DEF Close, CloseFile, Whole
  <2>2. /\ Whole \in Seq(Piece) /\ Records(file) \subseteq Records(Whole)
        /\ Prefix(Whole, synced) = Prefix(file, synced)
    BY <1>0, Appending DEF Whole
  <2>3. Prefix(Whole, Len(Whole)) = Whole
    BY <2>2, SubSeqFull DEF Prefix
  <2>4. returned \ Records(Prefix(Whole, synced')) \subseteq glued
    <3>1. CASE synced' = Len(Whole)
      BY <1>1, <2>2, <2>3, <3>1
    <3>2. CASE synced' = synced
      BY <1>0, <2>2, <3>2 DEF KeepInv, Durable
    <3>. QED BY <2>1, <3>1, <3>2
  <2>5. Durable'
    BY <2>1, <2>4 DEF Durable
  <2>6. MemoryInFile' /\ Remembers'
    BY <1>0, <2>1, <2>2 DEF KeepInv, MemoryInFile, Remembers
  <2>. QED
    BY <1>11, <2>1, <2>5, <2>6 DEF KeepInv
<1>9. ASSUME WriteSummary \/ WriteSnapshot \/ UNCHANGED vars PROVE KeepInv' /\ Advance
  <2>1. UNCHANGED <<file, synced, journal, seq, events, glued, returned>>
    BY <1>9 DEF WriteSummary, WriteSnapshot, vars, disk, object, history
  <2>2. KeepInv'
    BY <1>0, <2>1 DEF KeepInv, Durable, MemoryInFile, Remembers
  <2>. QED
    BY <1>11, <2>1, <2>2
<1>10. ASSUME Crash PROVE KeepInv' /\ Advance
  <2>1. PICK k \in synced..Len(file) : file' = Prefix(file, k)
    BY <1>10 DEF Crash
  <2>2. k \in 0..Len(file) /\ synced \in 0..k
    BY <1>0, LenProperties
  <2>3. Prefix(Prefix(file, k), synced) = Prefix(file, synced)
    BY <1>0, <2>2, Prefixes
  <2>4. UNCHANGED <<synced, glued, returned>> /\ journal' = "absent"
    BY <1>10 DEF Crash
  <2>5. Durable'
    BY <1>0, <2>1, <2>3, <2>4 DEF KeepInv, Durable
  <2>6. MemoryInFile' /\ Remembers'
    BY <2>4 DEF MemoryInFile, Remembers
  <2>. QED
    BY <1>11, <2>4, <2>5, <2>6 DEF KeepInv
<1>. QED
  BY <1>4, <1>5, <1>6, <1>7, <1>8, <1>9, <1>10 DEF Next, Open, Close

\* A projection is replaced by what the object remembers, which is all that was
\* returned and not lost.
LEMMA ProjectionStep ==
  IInv /\ [Next]_vars =>
    /\ summary \cap returned \subseteq summary' \cup Lost
    /\ snapshot \cap returned \subseteq snapshot' \cup Lost
<1> SUFFICES ASSUME IInv, [Next]_vars
             PROVE  /\ summary \cap returned \subseteq summary' \cup Lost
                    /\ snapshot \cap returned \subseteq snapshot' \cup Lost
  OBVIOUS
<1>1. journal # "absent" => returned \subseteq events \cup Lost
  BY DEF IInv, KeepInv, Remembers, Lost
<1>2. CASE Open \/ Emit \/ Abandon \/ Crash \/ UNCHANGED vars
  <2>1. UNCHANGED <<summary, snapshot>>
    BY <1>2 DEF Open, Emit, Abandon, Crash, vars, caches
  <2>. QED BY <2>1
<1>3. CASE Close \/ WriteSummary \/ WriteSnapshot
  <2>1. /\ journal # "absent"
        /\ summary' \in {summary, events} /\ snapshot' \in {snapshot, events}
    BY <1>3 DEF Close, CloseFailed, CloseFile, Project, WriteSummary, WriteSnapshot, caches
  <2>. QED BY <1>1, <2>1
<1>. QED
  BY <1>2, <1>3 DEF Next

\* Types, order and memory hold together in every state.
LEMMA InductiveInvariant == Spec => []IInv
<1>1. Init => IInv
  BY TypeInit, OrderInit, KeepInit DEF IInv
<1>2. IInv /\ [Next]_vars => IInv'
  BY TypeStep, OrderStep, KeepStep DEF IInv
<1>. QED
  BY <1>1, <1>2, PTL DEF Spec

-----------------------------------------------------------------------------
\* An event that an emit() returned stays readable in the synced part of the
\* file, but for the first behind text that a close() which raised cut.
THEOREM DurableCorrect == Spec => []Durable
<1>1. IInv => Durable
  BY DEF IInv, KeepInv
<1>. QED
  BY <1>1, InductiveInvariant, PTL

\* What an open or closed object remembers is in the file, or was glued.
THEOREM MemoryInFileCorrect == Spec => []MemoryInFile
<1>1. IInv => MemoryInFile
  BY DEF IInv, KeepInv
<1>. QED
  BY <1>1, InductiveInvariant, PTL

\* Numbers do not fall along the records of the file until a reopening has
\* forgotten an acknowledged event.
THEOREM FileInOrderCorrect == Spec => []FileInOrder
<1>1. IInv => FileInOrder
  <2> SUFFICES ASSUME IInv, Lost = {}, NEW i \in 1..Len(file), NEW j \in 1..Len(file), i < j,
                      Reads(file, i), Reads(file, j)
               PROVE  file[i].event.n <= file[j].event.n
    BY DEF FileInOrder
  <2>1. file \in Seq(Piece) /\ buffer \in Seq(Piece) /\ Ordered(Whole)
    BY DEF IInv, TInv, TypeOK, OrderInv
  <2>2. /\ i \in 1..Len(Whole) /\ j \in 1..Len(Whole)
        /\ Whole[i] = file[i] /\ Whole[j] = file[j]
    BY <2>1, Appending DEF Whole
  <2>3. file[i] # Newline /\ file[j] # Newline
    BY DEF Reads, Left, Newline
  <2>. QED
    BY <2>1, <2>2, <2>3 DEF Ordered
<1>. QED
  BY <1>1, InductiveInvariant, PTL

\* Each returned number is above all returned before it, across restarts, but
\* for the numbers of the events that the file lost.
THEOREM NumbersAdvanceCorrect == Spec => NumbersAdvance
<1>1. IInv /\ [Next]_vars =>
        [\A e \in returned' \ returned : \A d \in returned \ Lost' : d.n < e.n]_vars
  BY KeepStep DEF Advance
<1>. QED
  BY <1>1, InductiveInvariant, PTL DEF Spec, NumbersAdvance

\* A projection never loses an event that was returned and that it showed, but
\* for those that the file lost.
THEOREM ProjectionsGrowCorrect == Spec => ProjectionsGrow
<1>1. IInv /\ [Next]_vars =>
        [/\ summary \cap returned \subseteq summary' \cup Lost
         /\ snapshot \cap returned \subseteq snapshot' \cup Lost]_vars
  BY ProjectionStep
<1>. QED
  BY <1>1, InductiveInvariant, PTL DEF Spec, ProjectionsGrow
=============================================================================
