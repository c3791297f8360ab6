-------------------------- MODULE Knowledge_proofs --------------------------
(***************************************************************************)
(* What is proved of knowledge: of the log of what people taught           *)
(* (TeachingStore), of what is learned from episodes (LearnedReuse), and   *)
(* of the pure decisions that use it (Advice, Selection).                  *)
(***************************************************************************)
EXTENDS TeachingStore, MCDecisions, FiniteSetTheorems, FunctionTheorems, SequenceTheorems,
        WellFoundedInduction, TLAPS

(***************************************************************************)
(* TeachingStore, for any handlers, curators and bounds.  A line is        *)
(* appended long after what allowed it was looked up.  The argument is     *)
(* that a line which is still to be written excludes the lines that would  *)
(* contradict it, unless the two crossed: a teaching that is about to be   *)
(* submitted has no line yet, and one that is about to be reviewed is not  *)
(* learned, or was while the review was on its way.                        *)
(***************************************************************************)
\* The events of a line that load() gets nothing from.
Unread == {"garbage", "raises"}

\* A line of the log, as load() reads it.
StoredLine ==
  {x \in [event : {"created", "submitted", "answered", "reviewed", "learned", "qlearned"}
                  \cup Unread,
          question : Nat \cup {NoQuestion}, teaching : Nat, flag : BOOLEAN] :
     x.event \in Unread => x.teaching = 0}

\* Only a torn write leaves a log without a newline at its end.
TypeOK ==
  /\ log \in Seq(StoredLine) /\ ended \in BOOLEAN
  /\ ended \/ log # <<>>
  /\ todo \in [Actor -> Seq(StoredLine)]
  /\ promoting \in [Actor -> [teaching : Nat, spelling : Spelling]]
  /\ asked \in Nat /\ taught \in Nat /\ tears \in Nat
  /\ tears = 0 => ended

\* The events of a teaching's own history.
OnTeaching == {"submitted", "reviewed", "learned"}

\* No line is about a teaching that is not numbered yet.
NumberedInv ==
  /\ \A j \in DOMAIN log : log[j].teaching <= taught
  /\ \A a \in Actor : \A j \in DOMAIN todo[a] : todo[a][j].teaching <= taught

\* A teaching is submitted once, before anything else is written or pending on it.
SubmittedInv ==
  /\ \A i, j \in DOMAIN log :
       /\ log[i].event = "submitted" /\ log[j].event = "submitted"
       /\ log[i].teaching = log[j].teaching
       => i = j
  /\ \A a \in Actor : \A i \in DOMAIN todo[a] :
       todo[a][i].event = "submitted" =>
         /\ \A j \in DOMAIN log :
              log[j].event \in OnTeaching => log[j].teaching # todo[a][i].teaching
         /\ \A b \in Actor : \A j \in DOMAIN todo[b] :
              /\ todo[b][j].event \in OnTeaching
              /\ todo[b][j].teaching = todo[a][i].teaching
              => b = a /\ j = i

\* Only a curator reviews or learns, and begins with it.
CuratorInv ==
  \A a \in Actor : \A i \in DOMAIN todo[a] :
    todo[a][i].event \in {"reviewed", "learned"} => a \in Curator /\ i = 1

\* Nothing is submitted behind its learning.  A review is behind it, or about to be, only if
\* the two crossed.
ReviewedInv ==
  /\ \A i, j \in DOMAIN log :
       i < j /\ log[i].event = "learned" /\ log[i].teaching = log[j].teaching =>
         /\ log[j].event # "submitted"
         /\ log[j].event = "reviewed" => log[j].teaching \in crossed
  /\ \A a \in Actor : \A i \in DOMAIN todo[a] : \A j \in DOMAIN log :
       /\ todo[a][i].event = "reviewed" /\ log[j].event = "learned"
       /\ log[j].teaching = todo[a][i].teaching
       => log[j].teaching \in crossed

\* The teaching is reviewed, and its last review found no conflict, or crossed its learning.
Cleared(t) == Checked(t) /\ (Conflict(t) => t \in crossed)

\* The lines that operations in progress are still to write.
Pending == UNION {ToSet(todo[a]) : a \in Actor}

\* What is learned, or about to be, is cleared.
ClearedInv ==
  tears = 0 => \A y \in ToSet(log) \cup Pending : y.event = "learned" => Cleared(y.teaching)

\* x says that a question has its answer: y is the submission it speaks of.
Backs(y, x) == y.event = "submitted" /\ y.teaching = x.teaching /\ y.question = x.question
Backed(x) == \E j \in DOMAIN log : Backs(log[j], x)

AnswerEvents == {"answered", "qlearned"}

\* An answer is in the log, spoilt, or the line that is appended before it is said to be there.
BackedInv ==
  tears = 0 =>
    /\ \A y \in ToSet(log) : y.event \in AnswerEvents => Backed(y) \/ y.teaching \in spoilt
    /\ \A a \in Actor : \A y \in ToSet(todo[a]) :
         y.event \in AnswerEvents =>
           \/ Backed(y) \/ y.teaching \in spoilt
           \/ 2 \in DOMAIN todo[a] /\ y = todo[a][2] /\ Backs(todo[a][1], y)

\* The lines a further append leaves as they are.
Sure == IF ended THEN log ELSE Front(log)

\* A line is gone only with a tear, and one that is open has taken nothing yet.
TornInv ==
  /\ IsFiniteSet(written)
  /\ Cardinality(written \ ToSet(Sure)) + (IF ended THEN 0 ELSE 1) <= tears

-----------------------------------------------------------------------------
\* A bounded set of numbers has a largest member.
LEMMA MaxOfBounded ==
  ASSUME NEW S, S \subseteq Nat, S # {}, NEW M \in Nat, \A x \in S : x <= M
  PROVE  Max(S) \in S /\ \A x \in S : x <= Max(S)
<1> DEFINE R == OpToRel(<, Nat)
           D == {M - x : x \in S}
<1>1. D \subseteq Nat /\ D # {}
  <2>1. \A x \in S : M - x \in Nat
    <3>1. \A x \in S : x \in Nat /\ x <= M
      OBVIOUS
    <3> QED
      BY <3>1
  <2> QED
    BY <2>1
<1>2. PICK d \in D : \A e \in D : ~(<<e, d>> \in R)
  <2> HIDE DEF R, D
  <2>1. IsWellFoundedOn(R, Nat)
    BY NatLessThanWellFounded DEF R
  <2> QED
    BY <1>1, <2>1, WFMin
<1>3. \A e \in D : ~(e < d)
  BY <1>1, <1>2 DEF OpToRel
<1>4. PICK m \in S : d = M - m
  BY <1>2
<1>5. \A x \in S : x <= m
  <2> TAKE x \in S
  <2>1. M - x \in D /\ x \in Nat /\ m \in Nat
    OBVIOUS
  <2>2. ~(M - x < M - m)
    BY <1>3, <1>4, <2>1
  <2> QED
    BY <2>1, <2>2
<1> QED
  BY <1>4, <1>5 DEF Max

\* Latest() is a line of the set, and the last one.
LEMMA LatestOf ==
  ASSUME log \in Seq(StoredLine), NEW S \in SUBSET DOMAIN log, S # {}
  PROVE  /\ Max(S) \in S /\ \A i \in S : i <= Max(S)
         /\ Latest(S) = log[Max(S)] /\ Latest(S) \in StoredLine
<1>1. S \subseteq Nat /\ Len(log) \in Nat /\ \A i \in S : i <= Len(log)
  OBVIOUS
<1>2. Max(S) \in S /\ \A i \in S : i <= Max(S)
  BY <1>1, MaxOfBounded
<1> QED
  BY <1>2 DEF Latest

\* What is behind no longer counts: a set has one largest member.
LEMMA MaxIs ==
  ASSUME NEW S, S \subseteq Nat, NEW n \in S, \A x \in S : x <= n
  PROVE  Max(S) = n
<1>1. n \in Nat
  OBVIOUS
<1>2. Max(S) \in S /\ n <= Max(S)
  BY <1>1, MaxOfBounded
<1>3. Max(S) \in Nat /\ Max(S) <= n
  BY <1>2
<1> QED
  BY <1>1, <1>2, <1>3

\* Front() is all but the last line.
LEMMA FrontOf ==
  ASSUME NEW S, NEW s \in Seq(S), s # <<>>
  PROVE  /\ Len(s) - 1 \in Nat
         /\ Front(s) \in Seq(S) /\ Len(Front(s)) = Len(s) - 1
         /\ \A j \in 1 .. Len(s) - 1 : Front(s)[j] = s[j]
<1>1. Len(s) \in Nat /\ Len(s) # 0 /\ DOMAIN s = 1 .. Len(s)
  BY EmptySeq, LenProperties
<1>2. PICK n \in Nat : Len(s) = n + 1
  <2>1. Len(s) - 1 \in Nat /\ Len(s) = (Len(s) - 1) + 1
    BY <1>1
  <2> QED
    BY <2>1
<1>3. \A i \in 1 .. n : s[i] \in S
  BY <1>1, <1>2, ElementOfSeq
<1>4. /\ SubSeq(s, 1, n) \in Seq(S)
      /\ Len(SubSeq(s, 1, n)) = IF 1 <= n THEN n - 1 + 1 ELSE 0
      /\ \A i \in 1 .. n - 1 + 1 : SubSeq(s, 1, n)[i] = s[1 + i - 1]
  BY <1>2, <1>3, SubSeqProperties
<1>5. /\ Len(SubSeq(s, 1, n)) = n
      /\ \A i \in 1 .. n : SubSeq(s, 1, n)[i] = s[i]
  BY <1>4
<1> QED
  BY <1>2, <1>4, <1>5 DEF Front

LEMMA LineType ==
  ASSUME NEW e \in {"created", "submitted", "answered", "reviewed", "learned", "qlearned"},
         NEW q \in Nat \cup {NoQuestion}, NEW t \in Nat, NEW f \in BOOLEAN
  PROVE  /\ Line(e, q, t, f) \in StoredLine
         /\ Line(e, q, t, f).event = e /\ Line(e, q, t, f).question = q
         /\ Line(e, q, t, f).teaching = t
BY DEF Line, StoredLine, Unread

LEMMA UnreadLines ==
  \A x \in {Garbage, Breaking, Dangling} :
    x \in StoredLine /\ x.event \in Unread /\ x.teaching = 0
<1> DEFINE Lines(e) == {Line(e, NoQuestion, 0, f) : f \in BOOLEAN}
<1>1. \A x \in Lines("garbage") : x \in StoredLine /\ x.event \in Unread /\ x.teaching = 0
  BY DEF Line, StoredLine, Unread
<1>2. \A x \in Lines("raises") : x \in StoredLine /\ x.event \in Unread /\ x.teaching = 0
  BY DEF Line, StoredLine, Unread
<1>3. Garbage \in Lines("garbage") /\ Breaking \in Lines("raises") /\ Dangling \in Lines("raises")
  BY DEF Garbage, Breaking, Dangling
<1> QED
  BY <1>1, <1>2, <1>3

\* A line that is spelled on one line is that line, and load() gets nothing from the others.
LEMMA SpelledOf ==
  ASSUME NEW x \in StoredLine, NEW spelling \in Spelling
  PROVE  /\ Spelled(x, spelling) \in StoredLine
         /\ \/ spelling = "plain" /\ Spelled(x, spelling) = x
            \/ /\ spelling # "plain"
               /\ Spelled(x, spelling).event \in Unread /\ Spelled(x, spelling).teaching = 0
<1>1. CASE spelling = "plain"
  BY <1>1 DEF Spelled
<1>2. CASE spelling = "splits"
  BY <1>2, UnreadLines DEF Spelled
<1>3. CASE spelling = "raises"
  BY <1>3, UnreadLines DEF Spelled
<1> QED
  BY <1>1, <1>2, <1>3 DEF Spelling

\* An append adds the line, or is glued to the torn one before it.
LEMMA AppendedOf ==
  ASSUME TypeOK, NEW x \in StoredLine
  PROVE  /\ Appended(x) \in Seq(StoredLine) /\ Appended(x) # <<>>
         /\ \A j \in DOMAIN Appended(x) :
              \/ j \in DOMAIN log /\ Appended(x)[j] = log[j]
              \/ Appended(x)[j].event \in Unread /\ Appended(x)[j].teaching = 0
              \/ ended /\ j = Len(log) + 1 /\ Appended(x)[j] = x
         /\ ended => Appended(x) = Append(log, x)
<1>1. Glued(x) \in StoredLine /\ Glued(x).event \in Unread /\ Glued(x).teaching = 0
  <2>1. CASE x.event = "raises"
    BY <2>1 DEF Glued, Unread, StoredLine
  <2>2. CASE x.event # "raises"
    BY <2>2, UnreadLines DEF Glued
  <2> QED
    BY <2>1, <2>2
<1>2. CASE ended
  <2>1. Appended(x) = Append(log, x)
    BY <1>2 DEF Appended
  <2> QED
    BY <2>1, <1>2 DEF TypeOK
<1>3. CASE ~ended
  <2>1. log \in Seq(StoredLine) /\ log # <<>>
    BY <1>3 DEF TypeOK
  <2>3. /\ Len(log) - 1 \in Nat /\ Front(log) \in Seq(StoredLine) /\ Len(Front(log)) = Len(log) - 1
        /\ \A j \in 1 .. Len(log) - 1 : Front(log)[j] = log[j]
    BY <2>1, FrontOf
  <2>4. Appended(x) = Append(Front(log), Glued(x))
    BY <1>3 DEF Appended
  <2> HIDE DEF Glued
  <2> QED
    BY <1>1, <1>3, <2>1, <2>3, <2>4
<1> QED
  BY <1>2, <1>3 DEF TypeOK

LEMMA InitType == Init => TypeOK
<1> SUFFICES ASSUME Init PROVE TypeOK
  OBVIOUS
<1>1. NoPromotion \in [teaching : Nat, spelling : Spelling]
  BY DEF NoPromotion, Spelling
<1>2. promoting \in [Actor -> [teaching : Nat, spelling : Spelling]]
  BY <1>1 DEF Init
<1>3. todo \in [Actor -> Seq(StoredLine)]
  BY DEF Init
<1> QED
  BY <1>2, <1>3 DEF Init, TypeOK

\* A teaching that exists has a line that says what it answers.
LEMMA QuestionOfLine ==
  ASSUME log \in Seq(StoredLine), NEW t, Exists(t)
  PROVE  \E j \in DOMAIN log : /\ log[j].event = "submitted" /\ log[j].teaching = t
                               /\ QuestionOf(t) = log[j].question
                               /\ QuestionOf(t) \in Nat \cup {NoQuestion}
<1>1. Submitted(t) \in SUBSET DOMAIN log /\ Submitted(t) # {}
  BY DEF Submitted, On, Exists
<1>2. Max(Submitted(t)) \in Submitted(t) /\ Latest(Submitted(t)) = log[Max(Submitted(t))]
      /\ Latest(Submitted(t)) \in StoredLine
  BY <1>1, LatestOf
<1>3. PICK j \in Submitted(t) : Latest(Submitted(t)) = log[j]
  BY <1>2
<1> QED
  BY <1>1, <1>2, <1>3 DEF QuestionOf, Submitted, On, StoredLine

(***************************************************************************)
(* The steps of an actor that put lines before it, and the others.         *)
(***************************************************************************)
\* What a may be about to append, at the beginning of an operation.
BegunText(a) ==
  \E q \in Nat, spelling \in Spelling :
    /\ todo'[a] = <<Spelled(Line("created", q, 0, FALSE), spelling)>>
    /\ UNCHANGED <<taught, spoilt>>
BegunTeaching(a) ==
  \E q \in Nat \cup {NoQuestion}, spelling \in Spelling :
    /\ taught' = taught + 1 /\ spoilt' = Spoils(taught', spelling)
    /\ \/ todo'[a] = <<Spelled(Line("submitted", q, taught', FALSE), spelling)>>
       \/ todo'[a] = AnswerLines(q, taught', spelling)
BegunReview(a) ==
  \E t \in Nat \ {0}, flag \in BOOLEAN, spelling \in Spelling :
    /\ a \in Curator /\ Exists(t) /\ ~Learned(t) /\ UNCHANGED <<taught, spoilt>>
    /\ todo'[a] = <<Spelled(Line("reviewed", NoQuestion, t, flag), spelling)>>
BegunLearning(a) ==
  \E t \in Nat \ {0}, spelling \in Spelling :
    /\ a \in Curator /\ MayLearn(t) /\ UNCHANGED <<taught, spoilt>>
    /\ todo'[a] = LearnedLines(t, spelling)
BegunNothing(a) == todo'[a] = <<>> /\ UNCHANGED <<taught, spoilt>>

Begun(a) == \/ BegunText(a) \/ BegunTeaching(a) \/ BegunReview(a) \/ BegunLearning(a)
            \/ BegunNothing(a)

\* a begins an operation, or gives one up.
Begins(a) ==
  /\ UNCHANGED <<log, ended, written, crossed, tears>> /\ asked' \in Nat
  /\ promoting' \in [Actor -> [teaching : Nat, spelling : Spelling]]
  /\ todo' = [todo EXCEPT ![a] = todo'[a]]
  /\ Begun(a)

\* Every step begins an operation, writes, or is torn.
LEMMA StepCases ==
  ASSUME TypeOK, Next
  PROVE  \E a \in Actor : Begins(a) \/ Write(a) \/ TornWrite(a)
<1>1. \A a \in Actor : \A s :
        todo' = [todo EXCEPT ![a] = s] =>
          todo'[a] = s /\ todo' = [todo EXCEPT ![a] = todo'[a]]
  BY DEF TypeOK
<1> DEFINE Promoting == [teaching : Nat, spelling : Spelling]
<1>2. /\ asked \in Nat /\ taught \in Nat /\ promoting \in [Actor -> Promoting]
      /\ Handler \subseteq Actor /\ Curator \subseteq Actor /\ Spellings \subseteq Spelling
  BY DEF TypeOK, Actor, Spellings, Spelling
<1>3. \A a \in Actor : \A r \in Promoting : [promoting EXCEPT ![a] = r] \in [Actor -> Promoting]
  BY <1>2
<1>0. NoPromotion \in Promoting
  BY DEF NoPromotion, Spelling
<1>4. ASSUME NEW a \in Handler, NEW spelling \in Spelling, Ask(a, spelling)
      PROVE  Begins(a)
  <2>1. /\ UNCHANGED <<log, ended, written, crossed, tears, promoting, taught, spoilt>>
        /\ asked' = asked + 1 /\ asked' \in Nat
        /\ todo' = [todo EXCEPT ![a] = <<Spelled(Line("created", asked', 0, FALSE), spelling)>>]
    BY <1>2, <1>4 DEF Ask, recorded
  <2>2. BegunText(a)
    BY <1>1, <1>2, <2>1 DEF BegunText
  <2> QED
    BY <1>1, <1>2, <2>1, <2>2 DEF Begins, Begun
<1>5. ASSUME NEW a \in Handler, NEW spelling \in Spelling, Submit(a, spelling)
      PROVE  Begins(a)
  <2>1. /\ UNCHANGED <<log, ended, written, crossed, tears, promoting, asked>>
        /\ taught' = taught + 1 /\ spoilt' = Spoils(taught', spelling)
        /\ todo' = [todo EXCEPT ![a] =
                      <<Spelled(Line("submitted", NoQuestion, taught', FALSE), spelling)>>]
    BY <1>5 DEF Submit
  <2>3. todo'[a] = <<Spelled(Line("submitted", NoQuestion, taught', FALSE), spelling)>>
    BY <1>1, <1>2, <2>1
  <2>2. BegunTeaching(a)
    BY <2>1, <2>3 DEF BegunTeaching
  <2> QED
    BY <1>1, <1>2, <2>1, <2>2 DEF Begins, Begun
<1>6. ASSUME NEW a \in Handler, NEW spelling \in Spelling, NEW q \in 1..asked,
             Answer(a, q, spelling)
      PROVE  Begins(a)
  <2>1. /\ UNCHANGED <<log, ended, written, crossed, tears, promoting, asked>> /\ q \in Nat
        /\ taught' = taught + 1 /\ spoilt' = Spoils(taught', spelling)
        /\ todo' = [todo EXCEPT ![a] = AnswerLines(q, taught', spelling)]
    BY <1>2, <1>6 DEF Answer
  <2>3. todo'[a] = AnswerLines(q, taught', spelling)
    BY <1>1, <1>2, <2>1
  <2>2. BegunTeaching(a)
    BY <2>1, <2>3 DEF BegunTeaching
  <2> QED
    BY <1>1, <1>2, <2>1, <2>2 DEF Begins, Begun
<1>7. ASSUME NEW a \in Curator, NEW t \in 1..taught, NEW conflict \in BOOLEAN,
             NEW spelling \in Spelling, Review(a, t, conflict, spelling)
      PROVE  Begins(a)
  <2>1. /\ UNCHANGED <<log, ended, written, crossed, tears, promoting, asked, taught, spoilt>>
        /\ Exists(t) /\ ~Learned(t) /\ t \in Nat \ {0}
        /\ todo' = [todo EXCEPT ![a] =
                      <<Spelled(Line("reviewed", NoQuestion, t, conflict), spelling)>>]
    BY <1>2, <1>7 DEF Review, MayReview, recorded
  <2>2. BegunReview(a)
    BY <1>1, <1>2, <2>1 DEF BegunReview
  <2> QED
    BY <1>1, <1>2, <2>1, <2>2 DEF Begins, Begun
<1>8. ASSUME NEW a \in Curator, NEW t \in 1..taught, NEW spelling \in Spelling,
             MarkLearned(a, t, spelling)
      PROVE  Begins(a)
  <2>1. /\ UNCHANGED <<log, ended, written, crossed, tears, promoting, asked, taught, spoilt>>
        /\ MayLearn(t) /\ t \in Nat \ {0}
        /\ todo' = [todo EXCEPT ![a] = LearnedLines(t, spelling)]
    BY <1>2, <1>8 DEF MarkLearned, recorded
  <2>2. BegunLearning(a)
    BY <1>1, <1>2, <2>1 DEF BegunLearning
  <2> QED
    BY <1>1, <1>2, <2>1, <2>2 DEF Begins, Begun
<1>9. ASSUME NEW a \in Curator, NEW t \in 1..taught, NEW spelling \in Spelling,
             NEW support \in BOOLEAN, NEW contradicted \in BOOLEAN, NEW conflicting \in BOOLEAN,
             PromoteFact(a, t, support, contradicted, conflicting, spelling)
      PROVE  Begins(a)
  <2> DEFINE flag == conflicting \/ contradicted
  <2>1. /\ UNCHANGED <<log, ended, written, crossed, tears, asked, taught, spoilt>>
        /\ Exists(t) /\ ~Learned(t) /\ t \in Nat \ {0}
        /\ todo' = [todo EXCEPT ![a] =
                      <<Spelled(Line("reviewed", NoQuestion, t, flag), spelling)>>]
    BY <1>2, <1>9 DEF PromoteFact, MayReview, recorded
  <2>2. promoting' \in [Actor -> Promoting]
    <3>1. \/ promoting' = promoting
          \/ promoting' = [promoting EXCEPT ![a] = [teaching |-> t, spelling |-> spelling]]
      BY <1>9 DEF PromoteFact
    <3>2. [teaching |-> t, spelling |-> spelling] \in Promoting
      BY <2>1
    <3> QED
      BY <1>2, <1>3, <3>1, <3>2
  <2>3. flag \in BOOLEAN
    OBVIOUS
  <2> HIDE DEF flag
  <2>4. BegunReview(a)
    BY <1>1, <1>2, <2>1, <2>3 DEF BegunReview
  <2> QED
    BY <1>1, <1>2, <2>1, <2>2, <2>4 DEF Begins, Begun
<1>10. ASSUME NEW a \in Curator, PromoteLearns(a) PROVE Begins(a)
  <2> DEFINE t == promoting[a].teaching
             spelling == promoting[a].spelling
  <2>1. /\ UNCHANGED <<log, ended, written, crossed, tears, asked, taught, spoilt>>
        /\ t # 0
        /\ \/ MayLearn(t) /\ todo' = [todo EXCEPT ![a] = LearnedLines(t, spelling)]
           \/ todo' = [todo EXCEPT ![a] = <<>>]
        /\ promoting' = [promoting EXCEPT ![a] = NoPromotion]
    BY <1>10 DEF PromoteLearns, recorded
  <2>2. t \in Nat /\ spelling \in Spelling
    BY <1>2
  <2> HIDE DEF t, spelling
  <2>3. BegunLearning(a) \/ BegunNothing(a)
    <3>1. CASE MayLearn(t) /\ todo' = [todo EXCEPT ![a] = LearnedLines(t, spelling)]
      <4>1. todo'[a] = LearnedLines(t, spelling) /\ t \in Nat \ {0}
        BY <1>1, <1>2, <2>1, <2>2, <3>1
      <4> QED
        BY <2>1, <2>2, <3>1, <4>1 DEF BegunLearning
    <3>2. CASE todo' = [todo EXCEPT ![a] = <<>>]
      BY <1>1, <1>2, <2>1, <3>2 DEF BegunNothing
    <3> QED
      BY <2>1, <3>1, <3>2
  <2>4. promoting' \in [Actor -> Promoting]
    BY <1>0, <1>2, <1>3, <2>1
  <2> QED
    BY <1>1, <1>2, <2>1, <2>3, <2>4 DEF Begins, Begun
<1>11. ASSUME NEW a \in Actor, Abort(a) PROVE Begins(a)
  <2>1. /\ UNCHANGED <<log, ended, written, crossed, tears, asked, taught, spoilt>>
        /\ todo' = [todo EXCEPT ![a] = <<>>]
        /\ promoting' = [promoting EXCEPT ![a] = NoPromotion]
    BY <1>11 DEF Abort, recorded
  <2>2. promoting' \in [Actor -> Promoting]
    BY <1>0, <1>3, <2>1
  <2> QED
    BY <1>1, <1>2, <2>1, <2>2 DEF Begins, Begun, BegunNothing
<1> QED
  BY <1>2, <1>4, <1>5, <1>6, <1>7, <1>8, <1>9, <1>10, <1>11 DEF Next

\* One line, or two.
LEMMA LearnedLinesOf ==
  ASSUME NEW t, NEW spelling
  PROVE  \/ LearnedLines(t, spelling) =
              <<Spelled(Line("learned", NoQuestion, t, FALSE), spelling)>>
         \/ LearnedLines(t, spelling) =
              <<Spelled(Line("learned", NoQuestion, t, FALSE), spelling),
                Line("qlearned", QuestionOf(t), t, FALSE)>>
<1>1. \A x, y : <<x>> \o <<>> = <<x>> /\ <<x>> \o <<y>> = <<x, y>>
  <2> TAKE x, y
  <2> DEFINE S == {x, y}
  <2>1. <<x>> \in Seq(S) /\ <<y>> \in Seq(S) /\ <<x, y>> \in Seq(S)
    OBVIOUS
  <2>2. <<x>> \o <<>> = <<x>>
    BY <2>1, ConcatEmptySeq
  <2>3. /\ <<x>> \o <<y>> \in Seq(S) /\ Len(<<x>> \o <<y>>) = 2
        /\ (<<x>> \o <<y>>)[1] = x /\ (<<x>> \o <<y>>)[2] = y
    BY <2>1, ConcatProperties
  <2>4. <<x>> \o <<y>> = <<x, y>>
    <3>1. Len(<<x, y>>) = 2 /\ \A i \in 1 .. 2 : (<<x>> \o <<y>>)[i] = <<x, y>>[i]
      BY <2>3
    <3> HIDE DEF S
    <3> QED
      BY <2>1, <2>3, <3>1, SeqEqual
  <2> QED
    BY <2>2, <2>4
<1> QED
  BY <1>1 DEF LearnedLines

\* What an operation may put before its actor is stored lines, and no more than two.
LEMMA BegunLines ==
  ASSUME TypeOK, NEW a \in Actor, Begun(a)
  PROVE  todo'[a] \in Seq(StoredLine) /\ taught' \in Nat
<1>1. taught \in Nat /\ NoQuestion \in Nat \cup {NoQuestion}
  BY DEF TypeOK
<1>2. \A x \in StoredLine, y \in StoredLine :
        <<x>> \in Seq(StoredLine) /\ <<x, y>> \in Seq(StoredLine)
  OBVIOUS
<1>3. ASSUME BegunText(a) PROVE todo'[a] \in Seq(StoredLine) /\ taught' \in Nat
  <2>1. PICK q \in Nat, spelling \in Spelling :
          /\ todo'[a] = <<Spelled(Line("created", q, 0, FALSE), spelling)>>
          /\ UNCHANGED <<taught, spoilt>>
    BY <1>3 DEF BegunText
  <2>2. Line("created", q, 0, FALSE) \in StoredLine
    BY LineType
  <2> QED
    BY <1>1, <1>2, <2>1, <2>2, SpelledOf
<1>4. ASSUME BegunTeaching(a) PROVE todo'[a] \in Seq(StoredLine) /\ taught' \in Nat
  <2>1. PICK q \in Nat \cup {NoQuestion}, spelling \in Spelling :
          /\ taught' = taught + 1 /\ spoilt' = Spoils(taught', spelling)
          /\ \/ todo'[a] = <<Spelled(Line("submitted", q, taught', FALSE), spelling)>>
             \/ todo'[a] = AnswerLines(q, taught', spelling)
    BY <1>4 DEF BegunTeaching
  <2>2. taught' \in Nat
    BY <1>1, <2>1
  <2>3. /\ Line("submitted", q, taught', FALSE) \in StoredLine
        /\ Line("answered", q, taught', FALSE) \in StoredLine
    BY <2>2, LineType
  <2> QED
    BY <1>2, <2>1, <2>2, <2>3, SpelledOf DEF AnswerLines
<1>5. ASSUME BegunReview(a) PROVE todo'[a] \in Seq(StoredLine) /\ taught' \in Nat
  <2>1. PICK t \in Nat \ {0}, flag \in BOOLEAN, spelling \in Spelling :
          /\ todo'[a] = <<Spelled(Line("reviewed", NoQuestion, t, flag), spelling)>>
          /\ UNCHANGED <<taught, spoilt>>
    BY <1>5 DEF BegunReview
  <2>2. Line("reviewed", NoQuestion, t, flag) \in StoredLine
    BY LineType
  <2> QED
    BY <1>1, <1>2, <2>1, <2>2, SpelledOf
<1>6. ASSUME BegunLearning(a) PROVE todo'[a] \in Seq(StoredLine) /\ taught' \in Nat
  <2>1. PICK t \in Nat \ {0}, spelling \in Spelling :
          MayLearn(t) /\ UNCHANGED <<taught, spoilt>> /\ todo'[a] = LearnedLines(t, spelling)
    BY <1>6 DEF BegunLearning
  <2>2. QuestionOf(t) \in Nat \cup {NoQuestion}
    BY <2>1, QuestionOfLine DEF MayLearn, TypeOK
  <2>3. /\ Line("learned", NoQuestion, t, FALSE) \in StoredLine
        /\ Line("qlearned", QuestionOf(t), t, FALSE) \in StoredLine
    BY <2>2, LineType
  <2>4. Spelled(Line("learned", NoQuestion, t, FALSE), spelling) \in StoredLine
    BY <2>3, SpelledOf
  <2>5. \/ todo'[a] = <<Spelled(Line("learned", NoQuestion, t, FALSE), spelling)>>
        \/ todo'[a] = <<Spelled(Line("learned", NoQuestion, t, FALSE), spelling),
                        Line("qlearned", QuestionOf(t), t, FALSE)>>
    BY <2>1, LearnedLinesOf
  <2> QED
    BY <1>1, <1>2, <2>1, <2>3, <2>4, <2>5
<1>7. ASSUME BegunNothing(a) PROVE todo'[a] \in Seq(StoredLine) /\ taught' \in Nat
  BY <1>1, <1>7 DEF BegunNothing
<1> QED
  BY <1>3, <1>4, <1>5, <1>6, <1>7 DEF Begun

\* What holds of line i that a is about to append when it has begun.
BegunLine(a, i) ==
  LET x == todo'[a][i]
  IN /\ x.teaching <= taught'
     /\ x.event = "submitted" => i = 1 /\ x.teaching = taught + 1 /\ taught' = taught + 1
     /\ x.event \in {"reviewed", "learned"} => i = 1 /\ a \in Curator
     /\ x.event \in OnTeaching => i = 1
     /\ x.event = "reviewed" => Exists(x.teaching) /\ ~Learned(x.teaching)
     /\ x.event = "learned" => MayLearn(x.teaching)
     /\ x.event \in AnswerEvents =>
          \/ Backed(x)
          \/ x.teaching \in spoilt'
          \/ i = 2 /\ Backs(todo'[a][1], x)

\* A teaching that exists is numbered.
LEMMA ExistsNumbered ==
  ASSUME TypeOK, NumberedInv, NEW t, Exists(t)
  PROVE  t \in Nat /\ t <= taught
<1>1. PICK j \in DOMAIN log : log[j].teaching = t
  BY QuestionOfLine DEF TypeOK
<1>2. log[j] \in StoredLine
  BY DEF TypeOK
<1> QED
  BY <1>1, <1>2 DEF NumberedInv, StoredLine

LEMMA BegunLineHolds ==
  ASSUME TypeOK, NumberedInv, NEW a \in Actor, Begun(a)
  PROVE  /\ taught <= taught' /\ spoilt \subseteq spoilt'
         /\ \A i \in DOMAIN todo'[a] : BegunLine(a, i)
<1>1. taught \in Nat /\ taught' \in Nat
  BY BegunLines DEF TypeOK
<1>2. \A x, y : /\ DOMAIN <<x>> = {1} /\ <<x>>[1] = x
                /\ DOMAIN <<x, y>> = {1, 2} /\ <<x, y>>[1] = x /\ <<x, y>>[2] = y
  OBVIOUS
<1>3. ASSUME NEW i \in DOMAIN todo'[a], todo'[a][i].event \in Unread, todo'[a][i].teaching = 0
      PROVE  BegunLine(a, i)
  BY <1>1, <1>3 DEF BegunLine, OnTeaching, AnswerEvents, Unread
<1>4. ASSUME BegunText(a) PROVE \A i \in DOMAIN todo'[a] : BegunLine(a, i)
  <2>1. PICK q \in Nat, spelling \in Spelling :
          todo'[a] = <<Spelled(Line("created", q, 0, FALSE), spelling)>>
    BY <1>4 DEF BegunText
  <2> DEFINE l == Line("created", q, 0, FALSE)
             x == Spelled(l, spelling)
  <2>5. Line("created", q, 0, FALSE) \in StoredLine
    BY LineType
  <2>6. l.event = "created" /\ l.teaching = 0
    BY DEF Line
  <2>2. l \in StoredLine /\ l.event = "created" /\ l.teaching = 0
    BY <2>5, <2>6
  <2>3. x = l \/ (x.event \in Unread /\ x.teaching = 0)
    BY <2>2, SpelledOf
  <2>7. todo'[a] = <<x>>
    BY <2>1
  <2> HIDE DEF l, x
  <2>4. \A i \in DOMAIN todo'[a] : todo'[a][i] = x
    BY <1>2, <2>7
  <2> QED
    BY <1>1, <1>3, <2>2, <2>3, <2>4 DEF BegunLine, OnTeaching, AnswerEvents
<1>5. ASSUME BegunTeaching(a) PROVE \A i \in DOMAIN todo'[a] : BegunLine(a, i)
  <2>1. PICK q \in Nat \cup {NoQuestion}, spelling \in Spelling :
          /\ taught' = taught + 1 /\ spoilt' = Spoils(taught', spelling)
          /\ \/ todo'[a] = <<Spelled(Line("submitted", q, taught', FALSE), spelling)>>
             \/ todo'[a] = AnswerLines(q, taught', spelling)
    BY <1>5 DEF BegunTeaching
  <2> DEFINE l == Line("submitted", q, taught', FALSE)
             y == Line("answered", q, taught', FALSE)
             x == Spelled(l, spelling)
  <2>2. /\ l \in StoredLine /\ l.event = "submitted" /\ l.teaching = taught' /\ l.question = q
        /\ y.event = "answered" /\ y.teaching = taught' /\ y.question = q
    <3>1. Line("submitted", q, taught', FALSE) \in StoredLine
      BY <1>1, LineType
    <3>2. /\ l.event = "submitted" /\ l.teaching = taught' /\ l.question = q
          /\ y.event = "answered" /\ y.teaching = taught' /\ y.question = q
      BY DEF Line
    <3> QED
      BY <3>1, <3>2
  <2>3. \/ x = l
        \/ x.event \in Unread /\ x.teaching = 0 /\ taught' \in spoilt'
    BY <2>1, <2>2, SpelledOf DEF Spoils
  <2>4. todo'[a] = <<x>> \/ todo'[a] = <<x, y>>
    BY <2>1 DEF AnswerLines
  <2> HIDE DEF l, y, x
  <2>5. ASSUME 1 \in DOMAIN todo'[a], todo'[a][1] = x PROVE BegunLine(a, 1)
    BY <1>1, <1>3, <2>1, <2>2, <2>3, <2>5 DEF BegunLine, OnTeaching, AnswerEvents
  <2>6. ASSUME todo'[a][1] = x, todo'[a][2] = y PROVE BegunLine(a, 2)
    <3>1. Backs(x, y) \/ y.teaching \in spoilt'
      BY <2>2, <2>3 DEF Backs
    <3> QED
      BY <1>1, <2>2, <2>6, <3>1 DEF BegunLine, OnTeaching, AnswerEvents
  <2> QED
    BY <1>2, <2>4, <2>5, <2>6
<1>6. ASSUME BegunReview(a) PROVE \A i \in DOMAIN todo'[a] : BegunLine(a, i)
  <2>1. PICK t \in Nat \ {0}, flag \in BOOLEAN, spelling \in Spelling :
          /\ a \in Curator /\ Exists(t) /\ ~Learned(t) /\ UNCHANGED <<taught, spoilt>>
          /\ todo'[a] = <<Spelled(Line("reviewed", NoQuestion, t, flag), spelling)>>
    BY <1>6 DEF BegunReview
  <2> DEFINE l == Line("reviewed", NoQuestion, t, flag)
             x == Spelled(l, spelling)
  <2>6. Line("reviewed", NoQuestion, t, flag) \in StoredLine
    BY LineType
  <2>7. l.event = "reviewed" /\ l.teaching = t
    BY DEF Line
  <2>2. l \in StoredLine /\ l.event = "reviewed" /\ l.teaching = t
    BY <2>6, <2>7
  <2>3. x = l \/ (x.event \in Unread /\ x.teaching = 0)
    BY <2>2, SpelledOf
  <2>4. \A i \in DOMAIN todo'[a] : i = 1 /\ todo'[a][i] = x
    BY <2>1
  <2>5. t <= taught'
    BY <2>1, ExistsNumbered
  <2> HIDE DEF l, x
  <2> QED
    BY <1>1, <1>3, <2>1, <2>2, <2>3, <2>4, <2>5 DEF BegunLine, OnTeaching, AnswerEvents
<1>7. ASSUME BegunLearning(a) PROVE \A i \in DOMAIN todo'[a] : BegunLine(a, i)
  <2>1. PICK t \in Nat \ {0}, spelling \in Spelling :
          /\ a \in Curator /\ MayLearn(t) /\ UNCHANGED <<taught, spoilt>>
          /\ todo'[a] = LearnedLines(t, spelling)
    BY <1>7 DEF BegunLearning
  <2> DEFINE l == Line("learned", NoQuestion, t, FALSE)
             q == Line("qlearned", QuestionOf(t), t, FALSE)
             x == Spelled(l, spelling)
  <2>2. PICK j \in DOMAIN log : /\ log[j].event = "submitted" /\ log[j].teaching = t
                                /\ QuestionOf(t) = log[j].question
                                /\ QuestionOf(t) \in Nat \cup {NoQuestion}
    BY <2>1, QuestionOfLine DEF MayLearn, TypeOK
  <2>3. /\ l \in StoredLine /\ l.event = "learned" /\ l.teaching = t
        /\ q.event = "qlearned" /\ q.teaching = t /\ q.question = QuestionOf(t)
    <3>1. Line("learned", NoQuestion, t, FALSE) \in StoredLine
      BY LineType
    <3>2. /\ l.event = "learned" /\ l.teaching = t
          /\ q.event = "qlearned" /\ q.teaching = t /\ q.question = QuestionOf(t)
      BY DEF Line
    <3> QED
      BY <3>1, <3>2
  <2>4. Backed(q)
    BY <2>2, <2>3 DEF Backed, Backs
  <2>5. t <= taught'
    BY <2>1, ExistsNumbered DEF MayLearn
  <2>6. todo'[a] = <<x>> \/ todo'[a] = <<x, q>>
    BY <2>1, LearnedLinesOf
  <2>7. x = l \/ (x.event \in Unread /\ x.teaching = 0)
    BY <2>3, SpelledOf
  <2> HIDE DEF l, q, x
  <2>8. ASSUME 1 \in DOMAIN todo'[a], todo'[a][1] = x PROVE BegunLine(a, 1)
    BY <1>1, <1>3, <2>1, <2>3, <2>5, <2>7, <2>8 DEF BegunLine, OnTeaching, AnswerEvents
  <2>9. ASSUME todo'[a][2] = q PROVE BegunLine(a, 2)
    BY <1>1, <2>3, <2>4, <2>5, <2>9 DEF BegunLine, OnTeaching, AnswerEvents
  <2> QED
    BY <1>2, <2>6, <2>8, <2>9
<1>8. ASSUME BegunNothing(a) PROVE \A i \in DOMAIN todo'[a] : BegunLine(a, i)
  BY <1>8 DEF BegunNothing
<1>9. \A i \in DOMAIN todo'[a] : BegunLine(a, i)
  BY <1>4, <1>5, <1>6, <1>7, <1>8 DEF Begun
<1>10. taught <= taught' /\ spoilt \subseteq spoilt'
  <2>1. \/ taught' = taught /\ spoilt' = spoilt
        \/ \E spelling \in Spelling : taught' = taught + 1 /\ spoilt' = Spoils(taught', spelling)
    BY DEF Begun, BegunText, BegunTeaching, BegunReview, BegunLearning, BegunNothing
  <2> QED
    BY <1>1, <2>1 DEF Spoils
<1> QED
  BY <1>9, <1>10

\* The line x of a's operation, or what is left of it, is appended.
Appends(a, x) ==
  /\ x \in StoredLine
  /\ 1 \in DOMAIN todo[a] /\ (x.event \in Unread \/ x = todo[a][1])
  /\ log' = Appended(x) /\ crossed' = Crossed(a, x)
  /\ \A b \in Actor : \A i \in DOMAIN todo'[b] :
       LET k == IF b = a THEN i + 1 ELSE i
       IN k \in DOMAIN todo[b] /\ todo'[b][i] = todo[b][k]
  /\ UNCHANGED <<asked, taught, spoilt>>
  /\ \/ tears' = tears /\ ended' = TRUE
        /\ x = todo[a][1] /\ written' = written \cup {x}
     \/ tears' = tears + 1 /\ ended' = FALSE /\ UNCHANGED written

LEMMA AppendsOf ==
  ASSUME TypeOK, NEW a \in Actor, Write(a) \/ TornWrite(a)
  PROVE  \E x : Appends(a, x)
<1>1. todo \in [Actor -> Seq(StoredLine)] /\ todo[a] \in Seq(StoredLine) /\ todo[a] # <<>>
  BY DEF TypeOK, Write, TornWrite
<1>2. /\ 1 \in DOMAIN todo[a] /\ Head(todo[a]) = todo[a][1] /\ todo[a][1] \in StoredLine
      /\ \A i \in DOMAIN Tail(todo[a]) : /\ i + 1 \in DOMAIN todo[a]
                                         /\ Tail(todo[a])[i] = todo[a][i + 1]
  BY <1>1
<1>3. CASE Write(a)
  <2>1. /\ todo' = [todo EXCEPT ![a] = Tail(@)] /\ UNCHANGED <<asked, taught, spoilt, tears>>
        /\ log' = Appended(todo[a][1]) /\ ended' = TRUE /\ written' = written \cup {todo[a][1]}
        /\ crossed' = Crossed(a, todo[a][1])
    BY <1>2, <1>3 DEF Write
  <2>2. ASSUME NEW b \in Actor, NEW i \in DOMAIN todo'[b]
        PROVE  LET k == IF b = a THEN i + 1 ELSE i
               IN k \in DOMAIN todo[b] /\ todo'[b][i] = todo[b][k]
    BY <1>1, <1>2, <2>1, <2>2
  <2>3. Appends(a, todo[a][1])
    BY <1>2, <2>1, <2>2 DEF Appends
  <2> QED
    BY <2>3
<1>4. CASE TornWrite(a)
  <2>1. PICK x \in Torn(todo[a][1]) : log' = Appended(x) /\ crossed' = Crossed(a, x)
    BY <1>2, <1>4 DEF TornWrite
  <2>2. /\ todo' = [todo EXCEPT ![a] = <<>>] /\ UNCHANGED <<asked, taught, spoilt, written>>
        /\ ended' = FALSE /\ tears' = tears + 1
    BY <1>4 DEF TornWrite
  <2>3. ASSUME NEW b \in Actor, NEW i \in DOMAIN todo'[b]
        PROVE  LET k == IF b = a THEN i + 1 ELSE i
               IN k \in DOMAIN todo[b] /\ todo'[b][i] = todo[b][k]
    BY <1>1, <1>2, <2>2, <2>3
  <2>4. x \in {todo[a][1], Garbage, Dangling}
    BY <2>1 DEF Torn
  <2>5. x \in StoredLine /\ (x.event \in Unread \/ x = todo[a][1])
    BY <1>2, <2>4, UnreadLines
  <2>6. Appends(a, x)
    BY <1>2, <2>1, <2>2, <2>3, <2>5 DEF Appends
  <2> QED
    BY <2>6
<1> QED
  BY <1>3, <1>4

\* What crossed stays crossed.
LEMMA CrossedGrows ==
  ASSUME NEW a \in Actor, NEW x PROVE crossed \subseteq Crossed(a, x)
BY DEF Crossed

\* A review and a learning of one teaching, of which one is appended while the other is pending.
LEMMA CrossesWhen ==
  ASSUME TypeOK, CuratorInv, NEW a \in Actor, NEW b \in Actor, b # a, NEW x,
         NEW i \in DOMAIN todo[b], todo[b][i].teaching = x.teaching,
         \/ x.event = "reviewed" /\ todo[b][i].event = "learned"
         \/ x.event = "learned" /\ todo[b][i].event = "reviewed"
  PROVE  x.teaching \in Crossed(a, x)
<1>1. b \in Curator /\ i = 1
  BY DEF CuratorInv
<1>2. todo[b] \in Seq(StoredLine)
  BY DEF TypeOK
<1>3. todo[b] # <<>> /\ Head(todo[b]) = todo[b][1]
  BY <1>1, <1>2
<1>4. <<x.event, Head(todo[b]).event>> \in Crossings
  BY <1>1, <1>3 DEF Crossings
<1>5. Crosses(a, x)
  BY <1>1, <1>3, <1>4 DEF Crosses
<1> QED
  BY <1>5 DEF Crossed

\* The types hold after every step.
LEMMA StepType == TypeOK /\ [Next]_vars => TypeOK'
<1> SUFFICES ASSUME TypeOK, [Next]_vars PROVE TypeOK'
  OBVIOUS
<1>1. CASE UNCHANGED vars
  BY <1>1 DEF TypeOK, vars
<1>2. ASSUME NEW a \in Actor, Begins(a) PROVE TypeOK'
  <2>1. todo'[a] \in Seq(StoredLine) /\ taught' \in Nat
    BY <1>2, BegunLines DEF Begins
  <2>2. todo' \in [Actor -> Seq(StoredLine)]
    <3>1. PICK s \in Seq(StoredLine) : todo' = [todo EXCEPT ![a] = s]
      BY <1>2, <2>1 DEF Begins
    <3> QED
      BY <3>1 DEF TypeOK
  <2> QED
    BY <1>2, <2>1, <2>2 DEF Begins, TypeOK
<1>3. ASSUME NEW a \in Actor, Write(a) \/ TornWrite(a)
      PROVE  TypeOK'
  <2> DEFINE Promoting == [teaching : Nat, spelling : Spelling]
  <2>1. PICK x : Appends(a, x)
    BY <1>3, AppendsOf
  <2>2. log' \in Seq(StoredLine) /\ log' # <<>>
    BY <2>1, AppendedOf DEF Appends
  <2>3. todo' \in [Actor -> Seq(StoredLine)] /\ promoting' \in [Actor -> Promoting]
    <3>1. /\ todo[a] \in Seq(StoredLine) /\ todo[a] # <<>>
          /\ todo \in [Actor -> Seq(StoredLine)] /\ promoting \in [Actor -> Promoting]
      BY <1>3 DEF TypeOK, Write, TornWrite
    <3>2. Tail(todo[a]) \in Seq(StoredLine) /\ <<>> \in Seq(StoredLine)
      BY <3>1
    <3>3. \/ todo' = [todo EXCEPT ![a] = Tail(todo[a])] /\ UNCHANGED promoting
          \/ /\ todo' = [todo EXCEPT ![a] = <<>>]
             /\ promoting' = [promoting EXCEPT ![a] = NoPromotion]
      BY <1>3 DEF Write, TornWrite
    <3>4. \A s \in Seq(StoredLine) : [todo EXCEPT ![a] = s] \in [Actor -> Seq(StoredLine)]
      BY <3>1
    <3>5. [promoting EXCEPT ![a] = NoPromotion] \in [Actor -> Promoting]
      <4>1. NoPromotion \in Promoting
        BY DEF NoPromotion, Spelling
      <4> QED
        BY <3>1, <4>1
    <3> QED
      BY <3>1, <3>2, <3>3, <3>4, <3>5
  <2>4. /\ ended' \in BOOLEAN /\ asked' \in Nat /\ taught' \in Nat /\ tears' \in Nat
        /\ tears' = 0 => ended'
    <3>1. asked' = asked /\ taught' = taught /\ tears \in Nat
      BY <2>1 DEF Appends, TypeOK
    <3>2. CASE tears' = tears /\ ended' = TRUE
      BY <3>1, <3>2 DEF TypeOK
    <3>3. CASE tears' = tears + 1 /\ ended' = FALSE
      <4>1. tears + 1 \in Nat /\ tears + 1 # 0
        BY <3>1
      <4>2. asked' \in Nat /\ taught' \in Nat
        BY <3>1 DEF TypeOK
      <4> QED
        BY <3>3, <4>1, <4>2
    <3> QED
      BY <2>1, <3>2, <3>3 DEF Appends
  <2> QED
    BY <2>2, <2>3, <2>4 DEF TypeOK
<1> QED
  BY <1>1, <1>2, <1>3, StepCases

\* A line of the log after an append: an old one, unreadable, or the one appended.
LEMMA LinesAppended ==
  ASSUME TypeOK, NEW a \in Actor, NEW x, Appends(a, x)
  PROVE  /\ \A j \in DOMAIN log' :
              \/ j \in DOMAIN log /\ log'[j] = log[j]
              \/ log'[j].event \in Unread /\ log'[j].teaching = 0
              \/ /\ ended /\ j = Len(log) + 1
                 /\ 1 \in DOMAIN todo[a] /\ log'[j] = todo[a][1]
         /\ ended => log' = Append(log, x)
<1>1. /\ x \in StoredLine /\ log' = Appended(x)
      /\ 1 \in DOMAIN todo[a] /\ (x.event \in Unread \/ x = todo[a][1])
  BY DEF Appends
<1>2. x.event \in Unread => x.teaching = 0
  BY <1>1 DEF StoredLine
<1> QED
  BY <1>1, <1>2, AppendedOf

\* A line before an actor after an append was there before.
LEMMA PendingAppended ==
  ASSUME TypeOK', NEW a \in Actor, NEW x, Appends(a, x), NEW b \in Actor, NEW i \in DOMAIN todo'[b]
  PROVE  /\ i \in Nat \ {0}
         /\ b = a => i + 1 \in DOMAIN todo[b] /\ todo'[b][i] = todo[b][i + 1]
         /\ b # a => i \in DOMAIN todo[b] /\ todo'[b][i] = todo[b][i]
<1>1. i \in Nat \ {0}
  <2>1. todo'[b] \in Seq(StoredLine)
    BY DEF TypeOK
  <2> QED
    BY <2>1
<1>2. LET k == IF b = a THEN i + 1 ELSE i IN k \in DOMAIN todo[b] /\ todo'[b][i] = todo[b][k]
  BY DEF Appends
<1> QED
  BY <1>1, <1>2

\* Teachings are numbered, wherever their lines are.
LEMMA StoredTeaching ==
  ASSUME TypeOK
  PROVE  /\ \A j \in DOMAIN log : log[j].teaching \in Nat
         /\ \A b \in Actor : \A j \in DOMAIN todo[b] : todo[b][j].teaching \in Nat
<1>1. \A x \in StoredLine : x.teaching \in Nat
  BY DEF StoredLine
<1>2. \A j \in DOMAIN log : log[j] \in StoredLine
  BY DEF TypeOK
<1>3. ASSUME NEW b \in Actor, NEW j \in DOMAIN todo[b] PROVE todo[b][j] \in StoredLine
  <2>1. todo[b] \in Seq(StoredLine)
    BY DEF TypeOK
  <2> QED
    BY <2>1, <1>3
<1> QED
  BY <1>1, <1>2, <1>3

\* What holds of the log and of what is pending, whatever crossed.
KnownInv == TypeOK /\ NumberedInv /\ SubmittedInv /\ CuratorInv

LEMMA InitKnown == Init => KnownInv
BY InitType DEF Init, KnownInv, NumberedInv, SubmittedInv, CuratorInv

LEMMA BeginsKnown ==
  ASSUME KnownInv, TypeOK', NEW a \in Actor, Begins(a)
  PROVE  KnownInv'
<1>1. /\ TypeOK /\ NumberedInv /\ SubmittedInv /\ CuratorInv
      /\ log' = log /\ taught \in Nat /\ taught' \in Nat
  BY DEF KnownInv, Begins, TypeOK
<1>2. taught <= taught' /\ \A i \in DOMAIN todo'[a] : BegunLine(a, i)
  BY <1>1, BegunLineHolds DEF Begins
<1>3. \A b \in Actor : b # a => todo'[b] = todo[b]
  BY <1>1 DEF Begins, TypeOK
<1>4. /\ \A j \in DOMAIN log : log[j].teaching \in Nat
      /\ \A b \in Actor : \A j \in DOMAIN todo[b] : todo[b][j].teaching \in Nat
  BY <1>1, StoredTeaching
<1>5. NumberedInv'
  BY <1>1, <1>2, <1>3, <1>4 DEF NumberedInv, BegunLine
<1>6. CuratorInv'
  BY <1>1, <1>2, <1>3 DEF CuratorInv, BegunLine
<1>7. ASSUME NEW b \in Actor, NEW i \in DOMAIN todo'[b], todo'[b][i].event = "submitted"
      PROVE  /\ \A j \in DOMAIN log :
                  log[j].event \in OnTeaching => log[j].teaching # todo'[b][i].teaching
             /\ \A c \in Actor : \A j \in DOMAIN todo'[c] :
                  /\ todo'[c][j].event \in OnTeaching
                  /\ todo'[c][j].teaching = todo'[b][i].teaching
                  => c = b /\ j = i
  <2>1. CASE b = a
    <3>1. i = 1 /\ todo'[b][i].teaching = taught + 1
      BY <1>2, <1>7, <2>1 DEF BegunLine
    <3>2. \A j \in DOMAIN log : log[j].teaching # todo'[b][i].teaching
      BY <1>1, <1>4, <3>1 DEF NumberedInv
    <3>3. ASSUME NEW c \in Actor, NEW j \in DOMAIN todo'[c], todo'[c][j].event \in OnTeaching,
                 todo'[c][j].teaching = todo'[b][i].teaching
          PROVE  c = b /\ j = i
      <4>1. CASE c = a
        BY <1>2, <2>1, <3>1, <3>3, <4>1 DEF BegunLine
      <4>2. CASE c # a
        BY <1>1, <1>3, <1>4, <3>1, <3>3, <4>2 DEF NumberedInv
      <4> QED
        BY <4>1, <4>2
    <3> QED
      BY <3>2, <3>3
  <2>2. CASE b # a
    <3>1. todo'[b] = todo[b] /\ i \in DOMAIN todo[b] /\ todo[b][i].event = "submitted"
      BY <1>3, <1>7, <2>2
    <3>2. ASSUME NEW c \in Actor, NEW j \in DOMAIN todo'[c], todo'[c][j].event \in OnTeaching,
                 todo'[c][j].teaching = todo'[b][i].teaching
          PROVE  c = b /\ j = i
      <4>1. CASE c # a
        BY <1>1, <1>3, <3>1, <3>2, <4>1 DEF SubmittedInv
      <4>2. CASE c = a
        <5>1. BegunLine(a, j)
          BY <1>2, <3>2, <4>2
        <5>2. ~Exists(todo'[a][j].teaching)
          <6>1. \A k \in DOMAIN log :
                  log[k].event = "submitted" => log[k].teaching # todo[b][i].teaching
            BY <1>1, <3>1 DEF SubmittedInv, OnTeaching
          <6> QED
            BY <3>1, <3>2, <4>2, <6>1 DEF Exists, Submitted, On
        <5>3. todo'[a][j].event \in {"submitted", "reviewed", "learned"}
          BY <3>2, <4>2 DEF OnTeaching
        <5>4. todo'[a][j].event = "submitted"
          BY <5>1, <5>2, <5>3 DEF BegunLine, MayLearn
        <5>5. todo'[a][j].teaching = taught + 1
          BY <5>1, <5>4 DEF BegunLine
        <5>6. todo[b][i].teaching <= taught /\ todo[b][i].teaching = taught + 1
          BY <1>1, <3>1, <3>2, <4>2, <5>5 DEF NumberedInv
        <5> QED
          BY <1>1, <1>4, <3>1, <5>6
      <4> QED
        BY <4>1, <4>2
    <3> QED
      BY <1>1, <3>1, <3>2 DEF SubmittedInv
  <2> QED
    BY <2>1, <2>2
<1>8. SubmittedInv'
  BY <1>1, <1>7 DEF SubmittedInv
<1> QED
  BY <1>5, <1>6, <1>8 DEF KnownInv

LEMMA AppendsKnown ==
  ASSUME KnownInv, TypeOK', NEW a \in Actor, NEW x, Appends(a, x)
  PROVE  KnownInv'
<1>1. /\ TypeOK /\ NumberedInv /\ SubmittedInv /\ CuratorInv
      /\ taught' = taught /\ taught \in Nat
  BY DEF KnownInv, Appends, TypeOK
<1>2. \A j \in DOMAIN log' :
        \/ j \in DOMAIN log /\ log'[j] = log[j]
        \/ log'[j].event \in Unread /\ log'[j].teaching = 0
        \/ j = Len(log) + 1 /\ 1 \in DOMAIN todo[a] /\ log'[j] = todo[a][1]
  BY <1>1, LinesAppended
<1>3. \A b \in Actor : \A i \in DOMAIN todo'[b] :
        /\ i \in Nat \ {0}
        /\ b = a => i + 1 \in DOMAIN todo[b] /\ todo'[b][i] = todo[b][i + 1]
        /\ b # a => i \in DOMAIN todo[b] /\ todo'[b][i] = todo[b][i]
  BY <1>1, PendingAppended
<1>4. NumberedInv'
  <2>1. \A j \in DOMAIN log' : log'[j].teaching <= taught
    BY <1>1, <1>2 DEF NumberedInv
  <2>2. \A b \in Actor : \A i \in DOMAIN todo'[b] : todo'[b][i].teaching <= taught
    BY <1>1, <1>3 DEF NumberedInv
  <2> QED
    BY <1>1, <2>1, <2>2 DEF NumberedInv
<1>5. CuratorInv'
  <2> SUFFICES ASSUME NEW b \in Actor, NEW i \in DOMAIN todo'[b],
                      todo'[b][i].event \in {"reviewed", "learned"}
               PROVE  b \in Curator /\ i = 1
    BY DEF CuratorInv
  <2>1. CASE b = a
    <3>1. i + 1 = 1 /\ i \in Nat \ {0}
      BY <1>1, <1>3, <2>1 DEF CuratorInv
    <3> QED
      BY <3>1
  <2>2. CASE b # a
    BY <1>1, <1>3, <2>2 DEF CuratorInv
  <2> QED
    BY <2>1, <2>2
<1>6. ASSUME NEW i \in DOMAIN log', NEW j \in DOMAIN log', log'[i].event = "submitted",
             log'[j].event = "submitted", log'[i].teaching = log'[j].teaching
      PROVE  i = j
  <2>1. /\ \/ i \in DOMAIN log /\ log'[i] = log[i]
           \/ i = Len(log) + 1 /\ 1 \in DOMAIN todo[a] /\ log'[i] = todo[a][1]
        /\ \/ j \in DOMAIN log /\ log'[j] = log[j]
           \/ j = Len(log) + 1 /\ 1 \in DOMAIN todo[a] /\ log'[j] = todo[a][1]
    BY <1>2, <1>6 DEF Unread
  <2> QED
    BY <1>1, <1>6, <2>1 DEF SubmittedInv, OnTeaching
<1>7. ASSUME NEW b \in Actor, NEW i \in DOMAIN todo'[b], todo'[b][i].event = "submitted"
      PROVE  /\ \A j \in DOMAIN log' :
                  log'[j].event \in OnTeaching => log'[j].teaching # todo'[b][i].teaching
             /\ \A c \in Actor : \A j \in DOMAIN todo'[c] :
                  /\ todo'[c][j].event \in OnTeaching
                  /\ todo'[c][j].teaching = todo'[b][i].teaching
                  => c = b /\ j = i
  <2> DEFINE k == IF b = a THEN i + 1 ELSE i
  <2>1. /\ k \in DOMAIN todo[b] /\ todo'[b][i] = todo[b][k] /\ i \in Nat \ {0}
        /\ b = a => k # 1
    BY <1>3
  <2>2. /\ \A j \in DOMAIN log :
             log[j].event \in OnTeaching => log[j].teaching # todo[b][k].teaching
        /\ \A c \in Actor : \A j \in DOMAIN todo[c] :
             /\ todo[c][j].event \in OnTeaching
             /\ todo[c][j].teaching = todo[b][k].teaching
             => c = b /\ j = k
    BY <1>1, <1>7, <2>1 DEF SubmittedInv
  <2>3. ASSUME NEW j \in DOMAIN log', log'[j].event \in OnTeaching
        PROVE  log'[j].teaching # todo'[b][i].teaching
    <3>1. \/ j \in DOMAIN log /\ log'[j] = log[j]
          \/ 1 \in DOMAIN todo[a] /\ log'[j] = todo[a][1]
      BY <1>2, <2>3 DEF OnTeaching, Unread
    <3> HIDE DEF k
    <3> QED
      BY <2>1, <2>2, <2>3, <3>1
  <2>4. ASSUME NEW c \in Actor, NEW j \in DOMAIN todo'[c], todo'[c][j].event \in OnTeaching,
               todo'[c][j].teaching = todo'[b][i].teaching
        PROVE  c = b /\ j = i
    <3>1. CASE c = a
      <4>1. j + 1 \in DOMAIN todo[c] /\ todo'[c][j] = todo[c][j + 1] /\ j \in Nat
        BY <1>3, <3>1
      <4>2. c = b /\ j + 1 = k
        BY <2>1, <2>2, <2>4, <4>1
      <4> QED
        BY <2>1, <3>1, <4>1, <4>2
    <3>2. CASE c # a
      <4>1. j \in DOMAIN todo[c] /\ todo'[c][j] = todo[c][j]
        BY <1>3, <3>2
      <4>2. c = b /\ j = k
        BY <2>1, <2>2, <2>4, <4>1
      <4> QED
        BY <3>2, <4>2
    <3> QED
      BY <3>1, <3>2
  <2> QED
    BY <2>3, <2>4
<1>8. SubmittedInv'
  BY <1>6, <1>7 DEF SubmittedInv
<1> QED
  BY <1>4, <1>5, <1>8 DEF KnownInv

LEMMA StepKnown == KnownInv /\ [Next]_vars => KnownInv'
<1> SUFFICES ASSUME KnownInv, [Next]_vars PROVE KnownInv'
  OBVIOUS
<1>1. TypeOK /\ TypeOK'
  BY StepType DEF KnownInv
<1>2. CASE UNCHANGED vars
  BY <1>1, <1>2 DEF KnownInv, vars, NumberedInv, SubmittedInv, CuratorInv
<1>3. CASE Next
  BY <1>1, <1>3, StepCases, AppendsOf, BeginsKnown, AppendsKnown
<1> QED
  BY <1>2, <1>3

\* The projection looks at nothing but the log.
LEMMA SameLog ==
  ASSUME log' = log, NEW t
  PROVE  /\ Learned(t)' = Learned(t)
         /\ crossed' = crossed => Cleared(t)' = Cleared(t)
         /\ \A x : Backed(x)' = Backed(x)
BY DEF Learned, Exists, Submitted, On, Latest, Cleared, Checked, Conflict, Reviews, Backed

\* Who exists and is not learned has no line that says it is, but one that crossed a review.
LEMMA NotLearned ==
  ASSUME TypeOK, ReviewedInv, NEW t, Exists(t), ~Learned(t), NEW j \in DOMAIN log,
         log[j].event = "learned", log[j].teaching = t
  PROVE  t \in crossed
<1>1. j \in On(t) /\ On(t) \in SUBSET DOMAIN log /\ log \in Seq(StoredLine)
  BY DEF On, TypeOK
<1>2. PICK m \in On(t) : j <= m /\ Latest(On(t)) = log[m]
  BY <1>1, LatestOf
<1>3. log[m].event # "learned"
  BY <1>2 DEF Learned
<1>4. log[m].event \in {"submitted", "reviewed"} /\ log[m].teaching = t
  BY <1>2, <1>3 DEF On
<1>5. m \in DOMAIN log /\ j # m /\ j \in Nat /\ m \in Nat
  BY <1>1, <1>2, <1>3
<1>6. j < m
  BY <1>2, <1>5
<1> QED
  BY <1>4, <1>5, <1>6 DEF ReviewedInv

LEMMA InitReviewed == Init => ReviewedInv
BY DEF Init, ReviewedInv

LEMMA StepReviewed ==
  ASSUME KnownInv, ReviewedInv, TypeOK', [Next]_vars
  PROVE  ReviewedInv'
<1>0. TypeOK /\ NumberedInv /\ SubmittedInv /\ CuratorInv
  BY DEF KnownInv
<1>1. CASE UNCHANGED vars
  BY <1>1 DEF ReviewedInv, vars, recorded
<1>2. ASSUME NEW a \in Actor, Begins(a) PROVE ReviewedInv'
  <2>1. log' = log /\ crossed' = crossed /\ \A b \in Actor : b # a => todo'[b] = todo[b]
    BY <1>0, <1>2 DEF Begins, TypeOK
  <2>2. \A i \in DOMAIN todo'[a] : BegunLine(a, i)
    BY <1>0, <1>2, BegunLineHolds DEF Begins
  <2>3. ASSUME NEW i \in DOMAIN todo'[a], NEW j \in DOMAIN log,
               todo'[a][i].event = "reviewed", log[j].event = "learned",
               log[j].teaching = todo'[a][i].teaching
        PROVE  log[j].teaching \in crossed
    BY <1>0, <2>2, <2>3, NotLearned DEF BegunLine
  <2> QED
    BY <2>1, <2>3 DEF ReviewedInv
<1>3. ASSUME NEW a \in Actor, NEW x, Appends(a, x) PROVE ReviewedInv'
  <2>1. \A j \in DOMAIN log' :
          \/ j \in DOMAIN log /\ log'[j] = log[j]
          \/ log'[j].event \in Unread
          \/ j = Len(log) + 1 /\ 1 \in DOMAIN todo[a] /\ log'[j] = todo[a][1]
    BY <1>0, <1>3, LinesAppended
  <2>0. \A j \in DOMAIN log' :
          log'[j].event \in Unread =>
            log'[j].event # "learned" /\ log'[j].event # "submitted" /\ log'[j].event # "reviewed"
    BY DEF Unread
  <2>2. \A b \in Actor : \A i \in DOMAIN todo'[b] :
          /\ i \in Nat \ {0}
          /\ b = a => i + 1 \in DOMAIN todo[b] /\ todo'[b][i] = todo[b][i + 1]
          /\ b # a => i \in DOMAIN todo[b] /\ todo'[b][i] = todo[b][i]
    BY <1>3, PendingAppended
  <2>3. Len(log) \in Nat /\ \A i \in DOMAIN log : i \in Nat /\ i <= Len(log)
    BY <1>0 DEF TypeOK
  <2>6. crossed \subseteq crossed'
    BY <1>3, CrossedGrows DEF Appends
  <2>7. \A j \in DOMAIN log' :
          j = Len(log) + 1 /\ log'[j].event \notin Unread => x = log'[j] \/ j \in DOMAIN log
    <3>1. \A j \in DOMAIN log' :
            j \notin DOMAIN log /\ log'[j].event \notin Unread => log'[j] = todo[a][1] /\ ended
      BY <1>0, <1>3, LinesAppended
    <3>2. ended => log' = Append(log, x)
      BY <1>0, <1>3, LinesAppended
    <3>3. log \in Seq(StoredLine) /\ x \in StoredLine
      BY <1>0, <1>3 DEF TypeOK, Appends
    <3> QED
      BY <3>1, <3>2, <3>3
  <2>4. ASSUME NEW i \in DOMAIN log', NEW j \in DOMAIN log', i < j,
               log'[i].event = "learned", log'[i].teaching = log'[j].teaching,
               log'[j].event \in {"submitted", "reviewed"}
        PROVE  log'[j].event = "reviewed" /\ log'[j].teaching \in crossed'
    <3>1. /\ \/ i \in DOMAIN log /\ log'[i] = log[i]
             \/ i = Len(log) + 1
          /\ \/ j \in DOMAIN log /\ log'[j] = log[j]
             \/ j = Len(log) + 1 /\ 1 \in DOMAIN todo[a] /\ log'[j] = todo[a][1]
      BY <2>0, <2>1, <2>4
    <3>2. i \in DOMAIN log /\ log'[i] = log[i]
      BY <2>3, <2>4, <3>1
    <3>3. CASE j \in DOMAIN log /\ log'[j] = log[j]
      BY <2>4, <2>6, <3>2, <3>3 DEF ReviewedInv
    <3>4. CASE 1 \in DOMAIN todo[a] /\ log'[j] = todo[a][1]
      <4>1. CASE todo[a][1].event = "submitted"
        BY <1>0, <2>4, <3>2, <3>4, <4>1 DEF SubmittedInv, OnTeaching
      <4>2. CASE todo[a][1].event = "reviewed"
        BY <2>4, <2>6, <3>2, <3>4, <4>2 DEF ReviewedInv
      <4> QED
        BY <2>4, <3>4, <4>1, <4>2
    <3> QED
      BY <3>1, <3>3, <3>4
  <2>5. ASSUME NEW b \in Actor, NEW i \in DOMAIN todo'[b], NEW j \in DOMAIN log',
               todo'[b][i].event = "reviewed", log'[j].event = "learned",
               log'[j].teaching = todo'[b][i].teaching
        PROVE  log'[j].teaching \in crossed'
    <3> DEFINE k == IF b = a THEN i + 1 ELSE i
    <3>1. /\ k \in DOMAIN todo[b] /\ todo'[b][i] = todo[b][k] /\ i \in Nat \ {0}
          /\ b = a => k # 1
      BY <2>2
    <3>2. \/ j \in DOMAIN log /\ log'[j] = log[j]
          \/ log'[j] = x /\ 1 \in DOMAIN todo[a] /\ log'[j] = todo[a][1]
      BY <2>0, <2>1, <2>5, <2>7
    <3> HIDE DEF k
    <3>3. CASE j \in DOMAIN log /\ log'[j] = log[j]
      BY <2>5, <2>6, <3>1, <3>3 DEF ReviewedInv
    <3>4. CASE log'[j] = x
      <4>1. k = 1
        BY <1>0, <2>5, <3>1 DEF CuratorInv
      <4>2. b # a
        BY <3>1, <4>1
      <4>3. x.teaching \in Crossed(a, x)
        BY <1>0, <2>5, <3>1, <3>4, <4>2, CrossesWhen
      <4> QED
        BY <1>3, <3>4, <4>3 DEF Appends
    <3> QED
      BY <3>2, <3>3, <3>4
  <2> QED
    BY <2>4, <2>5 DEF ReviewedInv
<1> QED
  BY <1>0, <1>1, <1>2, <1>3, StepCases, AppendsOf

\* What an appended line leaves of a set of lines.
LEMMA LatestAppended ==
  ASSUME log \in Seq(StoredLine), NEW x \in StoredLine, log' = Append(log, x)
  PROVE  /\ DOMAIN log' = DOMAIN log \cup {Len(log) + 1}
         /\ \A j \in DOMAIN log : log'[j] = log[j] /\ j <= Len(log)
         /\ log'[Len(log) + 1] = x /\ Len(log) + 1 \notin DOMAIN log
         /\ log' \in Seq(StoredLine)
OBVIOUS

LEMMA LearnedStays ==
  ASSUME KnownInv, ReviewedInv, [Next]_vars, ended, NEW t, Learned(t), t \notin crossed
  PROVE  Learned(t)'
<1>0. TypeOK /\ NumberedInv /\ SubmittedInv /\ CuratorInv
  BY DEF KnownInv
<1>1. CASE UNCHANGED vars
  BY <1>1, SameLog DEF vars
<1>2. ASSUME NEW a \in Actor, Begins(a) PROVE Learned(t)'
  BY <1>2, SameLog DEF Begins
<1>3. ASSUME NEW a \in Actor, NEW x, Appends(a, x) PROVE Learned(t)'
  <2>1. log \in Seq(StoredLine) /\ x \in StoredLine /\ log' = Append(log, x)
    BY <1>0, <1>3, LinesAppended DEF TypeOK, Appends
  <2>2. /\ DOMAIN log' = DOMAIN log \cup {Len(log) + 1}
        /\ \A j \in DOMAIN log : log'[j] = log[j] /\ j <= Len(log)
        /\ log'[Len(log) + 1] = x /\ Len(log) + 1 \notin DOMAIN log
        /\ log' \in Seq(StoredLine)
    BY <2>1, LatestAppended
  <2>3. Exists(t) /\ Latest(On(t)).event = "learned"
    BY DEF Learned
  <2>4. /\ On(t) \in SUBSET DOMAIN log /\ Submitted(t) \in SUBSET DOMAIN log
        /\ Submitted(t) # {} /\ On(t) # {}
    BY <2>3 DEF On, Submitted, Exists
  <2>5. PICK m \in On(t) : m = Max(On(t)) /\ log[m].event = "learned" /\ log[m].teaching = t
    BY <2>1, <2>3, <2>4, LatestOf DEF On
  <2>6. Submitted(t)' # {}
    BY <2>2, <2>4 DEF Submitted, On
  <2>7. CASE x.teaching = t /\ x.event \in OnTeaching
    <3>1. x.event \notin Unread
      BY <2>7 DEF OnTeaching, Unread
    <3>2. 1 \in DOMAIN todo[a] /\ x = todo[a][1]
      BY <1>3, <3>1 DEF Appends
    <3>3. x.event # "submitted"
      BY <1>0, <2>4, <2>5, <2>7, <3>2 DEF SubmittedInv, OnTeaching
    <3>4. x.event # "reviewed"
      BY <2>4, <2>5, <2>7, <3>2 DEF ReviewedInv
    <3>5. x.event = "learned"
      BY <2>7, <3>3, <3>4 DEF OnTeaching
    <3>6. On(t)' = On(t) \cup {Len(log) + 1}
      BY <2>2, <2>7 DEF On, OnTeaching
    <3>7. Max(On(t)') = Len(log) + 1
      <4>1. Len(log) + 1 \in On(t)' /\ On(t)' \subseteq Nat
        BY <2>1, <2>4, <3>6
      <4>2. \A j \in On(t)' : j <= Len(log) + 1
        BY <2>1, <2>2, <2>4, <3>6
      <4> QED
        BY <4>1, <4>2, MaxIs
    <3> QED
      BY <2>2, <2>6, <3>5, <3>7 DEF Learned, Exists, Latest
  <2>8. CASE ~(x.teaching = t /\ x.event \in OnTeaching)
    <3>1. On(t)' = On(t)
      BY <2>2, <2>8 DEF On, OnTeaching
    <3> QED
      BY <2>2, <2>4, <2>5, <2>6, <3>1 DEF Learned, Exists, Latest
  <2> QED
    BY <2>7, <2>8
<1> QED
  BY <1>0, <1>1, <1>2, <1>3, StepCases, AppendsOf

\* What is cleared stays cleared, unless another line is submitted, or a review of it crosses.
LEMMA ClearedStays ==
  ASSUME log \in Seq(StoredLine), NEW x \in StoredLine, log' = Append(log, x), NEW t, Cleared(t),
         crossed \subseteq crossed', x.event = "submitted" => x.teaching # t,
         x.event = "reviewed" /\ x.teaching = t => t \in crossed'
  PROVE  Cleared(t)'
<1>1. /\ DOMAIN log' = DOMAIN log \cup {Len(log) + 1}
      /\ \A j \in DOMAIN log : log'[j] = log[j] /\ j <= Len(log)
      /\ log'[Len(log) + 1] = x /\ Len(log) + 1 \notin DOMAIN log
  BY LatestAppended
<1>2. Submitted(t)' = Submitted(t)
  BY <1>1 DEF Submitted, On
<1>3. Reviews(t) \in SUBSET DOMAIN log /\ Reviews(t) # {}
  BY DEF Reviews, On, Cleared, Checked
<1>4. Max(Reviews(t)) \in DOMAIN log
  BY <1>3, LatestOf
<1>5. log'[Max(Reviews(t))] = log[Max(Reviews(t))]
  BY <1>1, <1>4
<1>6. Checked(t)'
  <2>1. Reviews(t) \subseteq Reviews(t)'
    BY <1>1 DEF Reviews, On
  <2> QED
    BY <1>2, <1>3, <2>1 DEF Cleared, Checked, Exists
<1>7. CASE x.event = "reviewed" /\ x.teaching = t
  BY <1>6, <1>7 DEF Cleared
<1>8. CASE ~(x.event = "reviewed" /\ x.teaching = t)
  <2>1. Reviews(t)' = Reviews(t)
    BY <1>1, <1>8 DEF Reviews, On
  <2>2. Conflict(t)' => Conflict(t)
    BY <1>5, <2>1 DEF Conflict, Latest, Cleared
  <2> QED
    BY <1>6, <2>2 DEF Cleared
<1> QED
  BY <1>7, <1>8

\* An append without a tear adds the actor's next line; a beginning adds to what is pending.
LEMMA PendingSteps ==
  ASSUME KnownInv, TypeOK', [Next]_vars, tears' = 0
  PROVE  \/ log' = log /\ crossed' = crossed /\ tears = 0 /\ \E a \in Actor :
              /\ Begins(a)
              /\ \A b \in Actor : b # a => todo'[b] = todo[b]
              /\ spoilt \subseteq spoilt'
              /\ \A i \in DOMAIN todo'[a] : BegunLine(a, i)
         \/ tears = 0 /\ \E a \in Actor : \E x \in StoredLine :
              /\ Appends(a, x) /\ spoilt' = spoilt
              /\ 1 \in DOMAIN todo[a] /\ x = todo[a][1]
              /\ log' = Append(log, x) /\ ToSet(log') = ToSet(log) \cup {x}
         \/ UNCHANGED vars
<1>1. TypeOK /\ NumberedInv /\ tears \in Nat
  BY DEF KnownInv, TypeOK
<1>2. ASSUME NEW a \in Actor, Begins(a)
      PROVE  /\ log' = log /\ crossed' = crossed /\ tears = 0
             /\ \A b \in Actor : b # a => todo'[b] = todo[b]
             /\ spoilt \subseteq spoilt'
             /\ \A i \in DOMAIN todo'[a] : BegunLine(a, i)
  <2>1. /\ log' = log /\ crossed' = crossed /\ tears = 0
        /\ \A b \in Actor : b # a => todo'[b] = todo[b]
    BY <1>1, <1>2 DEF Begins, TypeOK
  <2>2. spoilt \subseteq spoilt' /\ \A i \in DOMAIN todo'[a] : BegunLine(a, i)
    BY <1>1, <1>2, BegunLineHolds DEF Begins
  <2> QED
    BY <2>1, <2>2
<1>3. ASSUME NEW a \in Actor, NEW x, Appends(a, x)
      PROVE  /\ tears = 0 /\ x \in StoredLine /\ spoilt' = spoilt
             /\ 1 \in DOMAIN todo[a] /\ x = todo[a][1]
             /\ log' = Append(log, x) /\ ToSet(log') = ToSet(log) \cup {x}
  <2>1. tears' # tears + 1
    BY <1>1
  <2>2. /\ tears = 0 /\ x \in StoredLine /\ spoilt' = spoilt
        /\ 1 \in DOMAIN todo[a] /\ x = todo[a][1]
    BY <1>3, <2>1 DEF Appends
  <2>3. log \in Seq(StoredLine) /\ log' = Append(log, x)
    BY <1>1, <1>3, <2>2, LinesAppended DEF TypeOK
  <2>4. ToSet(log') = ToSet(log) \cup {x}
    BY <2>3 DEF ToSet
  <2> QED
    BY <2>2, <2>3, <2>4
<1>4. CASE Next
  <2>1. PICK a \in Actor : Begins(a) \/ \E x : Appends(a, x)
    BY <1>1, <1>4, StepCases, AppendsOf
  <2>2. CASE Begins(a)
    BY <1>2, <2>2
  <2>3. CASE \E x : Appends(a, x)
    <3>1. PICK x : Appends(a, x)
      BY <2>3
    <3> QED
      BY <1>3, <3>1
  <2> QED
    BY <2>1, <2>2, <2>3
<1> QED
  BY <1>4

LEMMA StepCleared ==
  ASSUME KnownInv, ReviewedInv, ClearedInv, TypeOK', [Next]_vars
  PROVE  ClearedInv'
<1> SUFFICES ASSUME tears' = 0, NEW y \in ToSet(log') \cup Pending', y.event = "learned"
             PROVE  Cleared(y.teaching)'
  BY DEF ClearedInv
<1>0. TypeOK /\ NumberedInv /\ SubmittedInv /\ CuratorInv
  BY DEF KnownInv
<1>1. CASE UNCHANGED vars
  <2>1. log' = log /\ crossed' = crossed /\ tears = 0 /\ y \in ToSet(log) \cup Pending
    BY <1>1 DEF vars, recorded, Pending
  <2>2. Cleared(y.teaching)
    BY <2>1 DEF ClearedInv
  <2> QED
    BY <2>1, <2>2, SameLog
<1>2. ASSUME NEW a \in Actor, log' = log, crossed' = crossed, tears = 0,
             \A b \in Actor : b # a => todo'[b] = todo[b],
             \A i \in DOMAIN todo'[a] : BegunLine(a, i)
      PROVE  Cleared(y.teaching)'
  <2>1. y \in ToSet(log) \cup Pending \/ y \in ToSet(todo'[a])
    BY <1>2 DEF Pending
  <2>2. CASE y \in ToSet(log) \cup Pending
    BY <1>2, <2>2, SameLog DEF ClearedInv
  <2>3. CASE y \in ToSet(todo'[a])
    <3>1. MayLearn(y.teaching)
      BY <1>2, <2>3 DEF ToSet, BegunLine
    <3>2. Cleared(y.teaching)
      BY <3>1 DEF MayLearn, Cleared
    <3> QED
      BY <1>2, <3>2, SameLog
  <2> QED
    BY <2>1, <2>2, <2>3
<1>3. ASSUME NEW a \in Actor, NEW x \in StoredLine, tears = 0, Appends(a, x),
             1 \in DOMAIN todo[a], x = todo[a][1],
             log' = Append(log, x), ToSet(log') = ToSet(log) \cup {x}
      PROVE  Cleared(y.teaching)'
  <2>1. x \in Pending
    BY <1>3 DEF Pending, ToSet
  <2>2. Pending' \subseteq Pending
    <3>1. ASSUME NEW b \in Actor, NEW i \in DOMAIN todo'[b] PROVE todo'[b][i] \in ToSet(todo[b])
      BY <1>3, PendingAppended DEF ToSet
    <3> QED
      BY <3>1 DEF Pending, ToSet
  <2>3. y \in ToSet(log) \cup Pending
    BY <1>3, <2>1, <2>2
  <2>4. Cleared(y.teaching)
    BY <1>3, <2>3 DEF ClearedInv
  <2>6. crossed \subseteq crossed'
    BY <1>3, CrossedGrows DEF Appends
  <2>5. /\ x.event = "submitted" => x.teaching # y.teaching
        /\ x.event = "reviewed" /\ x.teaching = y.teaching => y.teaching \in crossed'
    <3>1. CASE y \in ToSet(log)
      <4>1. PICK j \in DOMAIN log : y = log[j]
        BY <3>1 DEF ToSet
      <4>2. x.event = "submitted" => x.teaching # y.teaching
        BY <1>0, <1>3, <4>1 DEF SubmittedInv, OnTeaching
      <4>3. x.event = "reviewed" /\ x.teaching = y.teaching => y.teaching \in crossed
        BY <1>3, <4>1 DEF ReviewedInv
      <4> QED
        BY <2>6, <4>2, <4>3
    <3>2. CASE y \in Pending
      <4>0. PICK b \in Actor : y \in ToSet(todo[b])
        BY <3>2 DEF Pending
      <4>1. PICK k \in DOMAIN todo[b] : y = todo[b][k]
        BY <4>0 DEF ToSet
      <4>2. x.event = "submitted" => x.teaching # y.teaching
        BY <1>0, <1>3, <4>1 DEF SubmittedInv, OnTeaching
      <4>3. ASSUME x.event = "reviewed", x.teaching = y.teaching
            PROVE  y.teaching \in crossed'
        <5>1. k = 1
          BY <1>0, <4>1 DEF CuratorInv
        <5>2. b # a
          BY <1>3, <4>1, <4>3, <5>1
        <5>3. x.teaching \in Crossed(a, x)
          BY <1>0, <4>1, <4>3, <5>2, CrossesWhen
        <5> QED
          BY <1>3, <4>3, <5>3 DEF Appends
      <4> QED
        BY <4>2, <4>3
    <3> QED
      BY <2>3, <3>1, <3>2
  <2> QED
    BY <1>0, <1>3, <2>4, <2>5, <2>6, ClearedStays DEF TypeOK
<1> QED
  BY <1>1, <1>2, <1>3, PendingSteps

LEMMA StepBacked ==
  ASSUME KnownInv, BackedInv, TypeOK', [Next]_vars
  PROVE  BackedInv'
<1>1. CASE UNCHANGED vars
  <2>1. \A y : Backed(y)' = Backed(y)
    BY <1>1, SameLog DEF vars
  <2> QED
    BY <1>1, <2>1 DEF BackedInv, vars, recorded, Backs
<1> SUFFICES ASSUME tears' = 0, ~UNCHANGED vars PROVE BackedInv'
  BY <1>1 DEF BackedInv
<1> DEFINE Answers(a, y) == 2 \in DOMAIN todo[a] /\ y = todo[a][2] /\ Backs(todo[a][1], y)
<1>2. /\ \A y \in ToSet(log) :
           tears = 0 /\ y.event \in AnswerEvents => Backed(y) \/ y.teaching \in spoilt
      /\ \A a \in Actor : \A y \in ToSet(todo[a]) :
           tears = 0 /\ y.event \in AnswerEvents =>
             Backed(y) \/ y.teaching \in spoilt \/ Answers(a, y)
  BY DEF BackedInv
<1>3. ASSUME NEW a \in Actor, log' = log, tears = 0, spoilt \subseteq spoilt',
             \A b \in Actor : b # a => todo'[b] = todo[b],
             \A i \in DOMAIN todo'[a] : BegunLine(a, i)
      PROVE  BackedInv'
  <2>1. \A y : Backed(y)' = Backed(y)
    BY <1>3, SameLog
  <2>2. \A y \in ToSet(log') : y.event \in AnswerEvents => Backed(y)' \/ y.teaching \in spoilt'
    BY <1>2, <1>3, <2>1
  <2>3. ASSUME NEW b \in Actor, NEW y \in ToSet(todo'[b]), y.event \in AnswerEvents
        PROVE  \/ Backed(y)' \/ y.teaching \in spoilt'
               \/ 2 \in DOMAIN todo'[b] /\ y = todo'[b][2] /\ Backs(todo'[b][1], y)
    <3>1. CASE b # a
      BY <1>2, <1>3, <2>1, <2>3, <3>1
    <3>2. CASE b = a
      <4>1. PICK i \in DOMAIN todo'[a] : y = todo'[a][i]
        BY <2>3, <3>2 DEF ToSet
      <4>2. Backed(y) \/ y.teaching \in spoilt' \/ (i = 2 /\ Backs(todo'[a][1], y))
        BY <1>3, <2>3, <4>1 DEF BegunLine
      <4> QED
        BY <2>1, <3>2, <4>1, <4>2
    <3> QED
      BY <3>1, <3>2
  <2> QED
    BY <2>2, <2>3 DEF BackedInv, Backs
<1>4. ASSUME NEW a \in Actor, NEW x \in StoredLine, tears = 0, Appends(a, x), spoilt' = spoilt,
             1 \in DOMAIN todo[a], x = todo[a][1],
             log' = Append(log, x), ToSet(log') = ToSet(log) \cup {x}
      PROVE  BackedInv'
  <2>1. log \in Seq(StoredLine)
    BY DEF KnownInv, TypeOK
  <2>2. \A y : Backed(y) \/ Backs(x, y) => Backed(y)'
    <3>1. /\ DOMAIN log' = DOMAIN log \cup {Len(log) + 1}
          /\ \A j \in DOMAIN log : log'[j] = log[j]
          /\ log'[Len(log) + 1] = x
      BY <1>4, <2>1, LatestAppended
    <3> QED
      BY <3>1 DEF Backed, Backs
  <2>3. x.event \in AnswerEvents => Backed(x)' \/ x.teaching \in spoilt
    <3>1. x \in ToSet(todo[a])
      BY <1>4 DEF ToSet
    <3>2. x.event \in AnswerEvents => ~Backs(todo[a][1], x)
      BY <1>4 DEF Backs, AnswerEvents
    <3> QED
      BY <1>2, <1>4, <2>2, <3>1, <3>2
  <2>4. \A y \in ToSet(log') : y.event \in AnswerEvents => Backed(y)' \/ y.teaching \in spoilt'
    BY <1>2, <1>4, <2>2, <2>3
  <2>5. ASSUME NEW b \in Actor, NEW y \in ToSet(todo'[b]), y.event \in AnswerEvents
        PROVE  \/ Backed(y)' \/ y.teaching \in spoilt'
               \/ 2 \in DOMAIN todo'[b] /\ y = todo'[b][2] /\ Backs(todo'[b][1], y)
    <3>1. PICK i \in DOMAIN todo'[b] : y = todo'[b][i]
      BY <2>5 DEF ToSet
    <3>2. /\ i \in Nat \ {0}
          /\ b = a => i + 1 \in DOMAIN todo[b] /\ todo'[b][i] = todo[b][i + 1]
          /\ b # a => i \in DOMAIN todo[b] /\ todo'[b][i] = todo[b][i]
      BY <1>4, PendingAppended
    <3>3. y \in ToSet(todo[b])
      BY <3>1, <3>2 DEF ToSet
    <3>4. Backed(y) \/ y.teaching \in spoilt \/ Answers(b, y)
      BY <1>2, <1>4, <2>5, <3>3
    <3>5. CASE Answers(b, y) /\ b = a
      BY <1>4, <2>2, <3>5
    <3>6. CASE Answers(b, y) /\ b # a
      <4>1. y = todo[b][2] /\ Backs(todo[b][1], y) /\ y = todo[b][i]
        BY <3>1, <3>2, <3>6
      <4>2. i # 1
        BY <2>5, <4>1 DEF Backs, AnswerEvents
      <4>3. todo'[b] \in Seq(StoredLine)
        BY DEF TypeOK
      <4>4. 1 \in DOMAIN todo'[b] /\ 2 \in DOMAIN todo'[b]
        BY <3>1, <3>2, <4>2, <4>3
      <4>5. todo'[b][1] = todo[b][1] /\ todo'[b][2] = todo[b][2]
        BY <1>4, <3>6, <4>4, PendingAppended
      <4> QED
        BY <4>1, <4>4, <4>5
    <3> QED
      BY <1>4, <2>2, <3>4, <3>5, <3>6
  <2> QED
    BY <2>4, <2>5 DEF BackedInv, Backs
<1> QED
  BY <1>3, <1>4, PendingSteps

LEMMA StepTorn == TypeOK /\ TornInv /\ [Next]_vars => TornInv'
<1> SUFFICES ASSUME TypeOK, TornInv, [Next]_vars PROVE TornInv'
  OBVIOUS
<1>1. CASE UNCHANGED log /\ UNCHANGED <<ended, written, tears>>
  BY <1>1 DEF TornInv, Sure
<1>2. ASSUME NEW a \in Actor, NEW x, Appends(a, x) PROVE TornInv'
  <2> DEFINE lost == written \ ToSet(Sure)
             gone == written' \ ToSet(Sure')
  <2>1. /\ IsFiniteSet(written) /\ tears \in Nat /\ ended \in BOOLEAN
        /\ Cardinality(lost) + (IF ended THEN 0 ELSE 1) <= tears
    BY DEF TornInv, TypeOK
  <2>2. IsFiniteSet(lost) /\ Cardinality(lost) \in Nat
    BY <2>1, FS_Difference, FS_CardinalityType
  <2>3. x \in StoredLine /\ log \in Seq(StoredLine) /\ Sure \in Seq(StoredLine)
    BY <1>2, FrontOf DEF Appends, TypeOK, Sure
  <2>4. PICK y : log' = Append(Sure, y) /\ y \in StoredLine /\ (ended => y = x)
    <3>1. Glued(x) \in StoredLine
      BY <2>3, UnreadLines DEF Glued
    <3> QED
      BY <1>2, <2>3, <3>1 DEF Appends, Appended, Sure
  <2>5. ToSet(Append(Sure, y)) = ToSet(Sure) \cup {y}
    BY <2>3, <2>4 DEF ToSet
  <2>6. CASE tears' = tears /\ ended' = TRUE /\ written' = written \cup {x}
    <3>1. gone = (written \cup {x}) \ (ToSet(Sure) \cup {y})
      BY <2>4, <2>5, <2>6 DEF Sure
    <3>2. IsFiniteSet(written')
      BY <2>1, <2>6, FS_AddElement
    <3>3. Cardinality(gone) <= tears
      <4>1. CASE ended
        <5>1. gone \subseteq lost
          BY <2>4, <3>1, <4>1
        <5>2. Cardinality(gone) \in Nat /\ Cardinality(gone) <= Cardinality(lost)
          BY <2>2, <5>1, FS_Subset, FS_CardinalityType
        <5> QED
          BY <2>1, <2>2, <4>1, <5>2
      <4>2. CASE ~ended
        <5>1. gone \subseteq lost \cup {x}
          BY <3>1
        <5>2. IsFiniteSet(lost \cup {x}) /\ Cardinality(lost \cup {x}) <= Cardinality(lost) + 1
          BY <2>2, FS_AddElement
        <5>3. /\ Cardinality(lost \cup {x}) \in Nat /\ Cardinality(gone) \in Nat
              /\ Cardinality(gone) <= Cardinality(lost \cup {x})
          BY <5>1, <5>2, FS_Subset, FS_CardinalityType
        <5> QED
          BY <2>1, <2>2, <4>2, <5>2, <5>3
      <4> QED
        BY <4>1, <4>2
    <3>4. Cardinality(gone) \in Nat
      BY <3>2, FS_Difference, FS_CardinalityType
    <3>5. Cardinality(gone) + 0 <= tears
      BY <3>3, <3>4
    <3> QED
      BY <2>6, <3>2, <3>5 DEF TornInv
  <2>7. CASE tears' = tears + 1 /\ ended' = FALSE /\ UNCHANGED written
    <3>1. Sure' = Sure
      <4>1. log' \in Seq(StoredLine) /\ log' # <<>> /\ Len(log') - 1 = Len(Sure)
            /\ \A j \in 1 .. Len(Sure) : log'[j] = Sure[j]
        BY <2>3, <2>4
      <4>2. /\ Front(log') \in Seq(StoredLine) /\ Len(Front(log')) = Len(Sure)
            /\ \A j \in 1 .. Len(Sure) : Front(log')[j] = Sure[j]
        BY <4>1, FrontOf
      <4>3. Front(log') = Sure
        BY <2>3, <4>2, SeqEqual
      <4> QED
        BY <2>7, <4>3 DEF Sure
    <3>2. gone = lost
      BY <2>7, <3>1
    <3>3. Cardinality(lost) + 1 <= tears + 1
      BY <2>1, <2>2
    <3> QED
      BY <2>1, <2>7, <3>2, <3>3 DEF TornInv
  <2> QED
    BY <1>2, <2>6, <2>7 DEF Appends
<1>3. \/ UNCHANGED log /\ UNCHANGED <<ended, written, tears>>
      \/ \E a \in Actor : \E x : Appends(a, x)
  <2>1. CASE UNCHANGED vars
    BY <2>1 DEF vars, recorded
  <2>2. CASE Next
    BY <2>2, StepCases, AppendsOf DEF Begins
  <2> QED
    BY <2>1, <2>2
<1> QED
  BY <1>1, <1>2, <1>3

-----------------------------------------------------------------------------
\* What the file of the log, the operations in progress and the counters may hold.
THEOREM TypeCorrect == Spec => []TypeOK
<1>1. Init => KnownInv
  BY InitKnown
<1>2. KnownInv => TypeOK
  BY DEF KnownInv
<1> QED
  BY <1>1, <1>2, StepKnown, PTL DEF Spec

\* Each teaching is submitted once, and before anything else is written about it.
THEOREM SubmittedOnce == Spec => []SubmittedInv
<1>1. KnownInv => SubmittedInv
  BY DEF KnownInv
<1> QED
  BY <1>1, InitKnown, StepKnown, PTL DEF Spec

\* Append mode and a newline with every line: of what was acknowledged, a torn write takes no
\* more than the one line that is glued to it, however many actors there are.
THEOREM TearsCostOneLineCorrect == Spec => []TearsCostOneLine
<1>1. Init => TypeOK /\ TornInv
  <2>1. Init => TornInv
    <3> SUFFICES ASSUME Init PROVE TornInv
      OBVIOUS
    <3>1. written = {} /\ ended = TRUE /\ tears = 0
      BY DEF Init
    <3>2. written \ ToSet(Sure) = {} /\ IsFiniteSet({}) /\ Cardinality({}) = 0
      BY <3>1, FS_EmptySet
    <3> QED
      BY <3>1, <3>2 DEF TornInv
  <2> QED
    BY <2>1, InitType
<1>2. TypeOK /\ TornInv /\ [Next]_vars => (TypeOK /\ TornInv)'
  BY StepType, StepTorn
<1>3. TypeOK /\ TornInv => TearsCostOneLine
  <2> SUFFICES ASSUME TypeOK, TornInv PROVE TearsCostOneLine
    OBVIOUS
  <2>1. written \ ToSet(log) \subseteq written \ ToSet(Sure)
    <3>1. CASE ended
      BY <3>1 DEF Sure
    <3>2. CASE ~ended
      <4>1. log \in Seq(StoredLine) /\ log # <<>>
        BY <3>2 DEF TypeOK
      <4>2. /\ Front(log) \in Seq(StoredLine) /\ Len(Front(log)) = Len(log) - 1
            /\ \A j \in 1 .. Len(log) - 1 : Front(log)[j] = log[j]
        BY <4>1, FrontOf
      <4>3. ToSet(Front(log)) \subseteq ToSet(log)
        BY <4>1, <4>2 DEF ToSet
      <4> QED
        BY <3>2, <4>3 DEF Sure
    <3> QED
      BY <3>1, <3>2
  <2>2. IsFiniteSet(written \ ToSet(Sure))
    BY FS_Difference DEF TornInv
  <2>3. /\ Cardinality(written \ ToSet(log)) \in Nat
        /\ Cardinality(written \ ToSet(Sure)) \in Nat
        /\ Cardinality(written \ ToSet(log)) <= Cardinality(written \ ToSet(Sure))
    BY <2>1, <2>2, FS_Subset, FS_CardinalityType
  <2>4. /\ tears \in Nat /\ ended \in BOOLEAN
        /\ Cardinality(written \ ToSet(Sure)) + (IF ended THEN 0 ELSE 1) <= tears
    BY DEF TypeOK, TornInv
  <2> QED
    BY <2>3, <2>4 DEF TearsCostOneLine
<1> QED
  BY <1>1, <1>2, <1>3, PTL DEF Spec

\* submit() appends the answer before the question is marked answered; whatever dies in
\* between, and whoever writes in between, a question that shows as answered names it.
THEOREM AnsweredByItsTeachingCorrect == Spec => []AnsweredByItsTeaching
<1>1. Init => KnownInv /\ BackedInv
  BY InitKnown DEF Init, BackedInv, ToSet
<1>2. KnownInv /\ BackedInv /\ [Next]_vars => (KnownInv /\ BackedInv)'
  <2>1. KnownInv' => TypeOK'
    BY DEF KnownInv
  <2> QED
    BY <2>1, StepKnown, StepBacked
<1>3. KnownInv /\ BackedInv => AnsweredByItsTeaching
  <2> SUFFICES ASSUME KnownInv, BackedInv, tears = 0, NEW q \in 1..asked,
                      QuestionState(q) \in {"answered", "learned"},
                      AnswerOf(q) \notin spoilt
               PROVE  Exists(AnswerOf(q)) /\ QuestionOf(AnswerOf(q)) = q
    BY DEF AnsweredByItsTeaching
  <2>1. TypeOK /\ SubmittedInv /\ log \in Seq(StoredLine)
    BY DEF KnownInv, TypeOK
  <2>2. /\ \E i \in About(q) : log[i].event = "created"
        /\ Latest(About(q)).event # "created"
    BY DEF QuestionState
  <2>3. About(q) \in SUBSET DOMAIN log
    BY DEF About
  <2>4. PICK m \in About(q) : Latest(About(q)) = log[m]
    BY <2>1, <2>2, <2>3, LatestOf
  <2>5. /\ m \in DOMAIN log /\ log[m].question = q
        /\ log[m].event \in AnswerEvents /\ AnswerOf(q) = log[m].teaching
    BY <2>2, <2>3, <2>4 DEF About, AnswerOf, AnswerEvents
  <2>6. log[m] \in ToSet(log)
    BY <2>5 DEF ToSet
  <2>7. Backed(log[m])
    BY <2>5, <2>6 DEF BackedInv
  <2>8. PICK j \in DOMAIN log : /\ log[j].event = "submitted" /\ log[j].question = q
                                /\ log[j].teaching = AnswerOf(q)
    BY <2>5, <2>7 DEF Backed, Backs
  <2>9. Exists(AnswerOf(q))
    BY <2>8 DEF Exists, Submitted, On
  <2>10. PICK k \in DOMAIN log : /\ log[k].event = "submitted" /\ log[k].teaching = AnswerOf(q)
                                 /\ QuestionOf(AnswerOf(q)) = log[k].question
    BY <2>1, <2>9, QuestionOfLine
  <2>11. j = k
    BY <2>1, <2>8, <2>10 DEF SubmittedInv
  <2> QED
    BY <2>8, <2>9, <2>10, <2>11
<1> QED
  BY <1>1, <1>2, <1>3, PTL DEF Spec

\* What the review history of a teaching is for: nothing is learned but what was reviewed, and
\* a conflict is behind it only when the review crossed the learning.  This holds for any number
\* of curators, although mark_learned() looks long before it appends.
THEOREM LearnedWasClearedCorrect == Spec => []LearnedWasCleared
<1> DEFINE All == KnownInv /\ ReviewedInv /\ ClearedInv
<1>1. Init => All
  <2>1. Init => ClearedInv
    BY DEF Init, ClearedInv, Pending, ToSet
  <2> QED
    BY <2>1, InitKnown, InitReviewed
<1>2. All /\ [Next]_vars => All'
  <2>1. KnownInv' => TypeOK'
    BY DEF KnownInv
  <2> QED
    BY <2>1, StepKnown, StepReviewed, StepCleared
<1>3. All => LearnedWasCleared
  <2> SUFFICES ASSUME KnownInv, ClearedInv, tears = 0, NEW t \in 1..taught, Learned(t)
               PROVE  Cleared(t)
    BY DEF LearnedWasCleared, Cleared
  <2>1. log \in Seq(StoredLine)
    BY DEF KnownInv, TypeOK
  <2>2. On(t) \in SUBSET DOMAIN log /\ On(t) # {} /\ Latest(On(t)).event = "learned"
    BY DEF On, Learned, Exists, Submitted
  <2>3. PICK m \in On(t) : log[m].event = "learned" /\ log[m].teaching = t
    BY <2>1, <2>2, LatestOf DEF On
  <2>4. log[m] \in ToSet(log)
    BY <2>2, <2>3 DEF ToSet
  <2> QED
    BY <2>3, <2>4 DEF ClearedInv
<1> HIDE DEF All
<1> QED
  BY <1>1, <1>2, <1>3, PTL DEF Spec

\* review() refuses what is learned, and so it stays: a review that is appended behind it looked
\* at the log before, and the two crossed.
THEOREM LearnedIsFinalCorrect == Spec => LearnedIsFinal
<1> DEFINE All == KnownInv /\ ReviewedInv
<1>1. Init => All
  BY InitKnown, InitReviewed
<1>2. All /\ [Next]_vars => All'
  <2>1. KnownInv' => TypeOK'
    BY DEF KnownInv
  <2> QED
    BY <2>1, StepKnown, StepReviewed
<1>3. /\ All /\ [Next]_vars
      => [\A t \in 1..taught : ended /\ Learned(t) /\ t \notin crossed => Learned(t)']_vars
  <2> SUFFICES ASSUME KnownInv, ReviewedInv, [Next]_vars, NEW t \in 1..taught, ended, Learned(t),
                      t \notin crossed
               PROVE  Learned(t)'
    OBVIOUS
  <2> QED
    BY LearnedStays
<1> HIDE DEF All
<1> QED
  BY <1>1, <1>2, <1>3, PTL DEF Spec, LearnedIsFinal

-----------------------------------------------------------------------------
(***************************************************************************)
(* What is reused was earned (LearnedReuse), for any revisions and any     *)
(* number of episodes and tokens.  The history only grows, so what a       *)
(* position of it holds is settled; the rest follows the episodes on their *)
(* way through rebind_history() and the statistics to their use.           *)
(***************************************************************************)
Episode ==
  [outcome : {a[1] : a \in Attempt}, effect : {Recognized(a[2]) : a \in Attempt},
   revision : Revision \cup {NoRevision}, ours : BOOLEAN]

Kinds == {"macro", "path"}

\* The statistics speak of positions of the history.
ReuseTypeOK ==
  /\ history \in Seq(Episode)
  /\ tokens \in Nat /\ live \in Nat
  /\ bound \in [episodes : SUBSET DOMAIN history, token : Nat]
  /\ stats \in [Kinds -> [episodes : SUBSET DOMAIN history, token : Nat, trusted : BOOLEAN]]
  /\ reused \subseteq [episodes : SUBSET DOMAIN history, token : Nat, at : Nat]

\* What statistics may be trusted for.
Earned(episodes) ==
  /\ \A i \in episodes : history[i].ours /\ history[i].effect = "NONE"
  /\ \E i, j \in episodes :
       /\ history[i].revision # history[j].revision
       /\ NoRevision \notin {history[i].revision, history[j].revision}

BoundInv  == \A i \in bound.episodes : history[i].ours
StatsInv  == \A kind \in Kinds : stats[kind].trusted => Earned(stats[kind].episodes)
ReusedInv == \A r \in reused : r.token = r.at /\ Earned(r.episodes)

ReuseIInv == ReuseTypeOK /\ BoundInv /\ StatsInv /\ ReusedInv

-----------------------------------------------------------------------------
\* A set of more than one element has two different ones.
LEMMA TwoDifferent ==
  ASSUME NEW S, IsFiniteSet(S), Cardinality(S) >= 2
  PROVE  \E x, y \in S : x # y
<1>1. S # {}
  BY FS_EmptySet
<1>2. PICK x \in S : TRUE
  BY <1>1
<1>3. IsFiniteSet(S \ {x}) /\ Cardinality(S \ {x}) = Cardinality(S) - 1
  BY <1>2, FS_RemoveElement
<1>4. Cardinality(S) \in Nat
  BY FS_CardinalityType
<1>5. Cardinality(S \ {x}) # 0
  BY <1>3, <1>4
<1>6. S \ {x} # {}
  BY <1>5, FS_EmptySet
<1> QED
  BY <1>2, <1>6

\* Episodes of two revisions, none of them empty, with no effect: they are earned.
LEMMA TwoRevisions ==
  ASSUME history \in Seq(Episode), NEW S \in SUBSET DOMAIN history,
         \A i \in S : history[i].ours, AllNone(S),
         NoRevision \notin Revisions(S), Cardinality(Revisions(S)) >= 2
  PROVE  Earned(S)
<1>1. IsFiniteSet(DOMAIN history)
  BY FS_Interval
<1>2. IsFiniteSet(S)
  BY <1>1, FS_Subset
<1>3. IsFiniteSet(Revisions(S))
  <2> DEFINE revisionOf == [i \in S |-> history[i].revision]
  <2>1. Revisions(S) = {revisionOf[i] : i \in S}
    BY DEF Revisions
  <2>2. revisionOf \in Surjection(S, Revisions(S))
    BY <2>1 DEF Surjection, Revisions
  <2> QED
    BY <1>2, <2>2, FS_Surjection
<1>4. PICK x, y \in Revisions(S) : x # y
  BY <1>3, TwoDifferent
<1> QED
  BY <1>4 DEF Earned, AllNone, Revisions

\* What was earned stays so when the log grows.
LEMMA EarnedStays ==
  ASSUME history \in Seq(Episode), NEW e \in Episode, history' = Append(history, e)
  PROVE  /\ DOMAIN history \subseteq DOMAIN history'
         /\ \A i \in DOMAIN history : history'[i] = history[i]
         /\ \A S \in SUBSET DOMAIN history : Earned(S) => Earned(S)'
<1>1. DOMAIN history \subseteq DOMAIN history'
  OBVIOUS
<1>2. \A i \in DOMAIN history : history'[i] = history[i]
  OBVIOUS
<1>3. ASSUME NEW S \in SUBSET DOMAIN history, Earned(S) PROVE Earned(S)'
  BY <1>2, <1>3 DEF Earned
<1> QED
  BY <1>1, <1>2, <1>3

LEMMA EarnedUnchanged ==
  ASSUME history' = history, NEW S PROVE Earned(S)' = Earned(S)
BY DEF Earned

-----------------------------------------------------------------------------
LEMMA ReuseInitInv == ReuseInit => ReuseIInv
<1> SUFFICES ASSUME ReuseInit PROVE ReuseIInv
  OBVIOUS
<1>1. ReuseTypeOK
  BY DEF ReuseInit, ReuseTypeOK, Nothing, NoStats, NoToken, Kinds
<1>2. BoundInv /\ StatsInv /\ ReusedInv
  BY DEF ReuseInit, BoundInv, StatsInv, ReusedInv, Nothing, NoStats, Kinds
<1> QED
  BY <1>1, <1>2 DEF ReuseIInv

LEMMA RecordKeeps == ReuseIInv /\ Record => ReuseIInv'
<1> SUFFICES ASSUME ReuseIInv, Record PROVE ReuseIInv'
  OBVIOUS
<1>1. PICK a \in Attempt, r \in Revision \cup {NoRevision}, ours \in BOOLEAN :
        history' = Append(history, BuildEpisode(a, r, ours))
  BY DEF Record
<1>2. BuildEpisode(a, r, ours) \in Episode
  BY DEF BuildEpisode, Episode
<1>3. history \in Seq(Episode)
  BY DEF ReuseIInv, ReuseTypeOK
<1>4. /\ DOMAIN history \subseteq DOMAIN history'
      /\ \A i \in DOMAIN history : history'[i] = history[i]
      /\ \A S \in SUBSET DOMAIN history : Earned(S) => Earned(S)'
  BY <1>1, <1>2, <1>3, EarnedStays
<1>5. UNCHANGED <<tokens, live, bound, stats, reused>>
  BY DEF Record
<1>6. ReuseTypeOK'
  <2>1. history' \in Seq(Episode)
    BY <1>1, <1>2, <1>3
  <2>2. bound' \in [episodes : SUBSET DOMAIN history', token : Nat]
    BY <1>4, <1>5 DEF ReuseIInv, ReuseTypeOK
  <2>3. stats' \in [Kinds -> [episodes : SUBSET DOMAIN history', token : Nat, trusted : BOOLEAN]]
    BY <1>4, <1>5 DEF ReuseIInv, ReuseTypeOK
  <2>4. reused' \subseteq [episodes : SUBSET DOMAIN history', token : Nat, at : Nat]
    BY <1>4, <1>5 DEF ReuseIInv, ReuseTypeOK
  <2> QED
    BY <2>1, <2>2, <2>3, <2>4, <1>5 DEF ReuseIInv, ReuseTypeOK
<1>7. BoundInv'
  BY <1>4, <1>5 DEF ReuseIInv, ReuseTypeOK, BoundInv
<1>8. StatsInv'
  <2>1. \A kind \in Kinds : stats[kind].episodes \in SUBSET DOMAIN history
    BY DEF ReuseIInv, ReuseTypeOK
  <2> QED
    BY <2>1, <1>4, <1>5 DEF ReuseIInv, StatsInv
<1>9. ReusedInv'
  <2>1. \A r2 \in reused : r2.episodes \in SUBSET DOMAIN history
    BY DEF ReuseIInv, ReuseTypeOK
  <2> QED
    BY <2>1, <1>4, <1>5 DEF ReuseIInv, ReusedInv
<1> QED
  BY <1>6, <1>7, <1>8, <1>9 DEF ReuseIInv

LEMMA RebindKeeps == ASSUME NEW t \in 1 .. tokens PROVE ReuseIInv /\ Rebind(t) => ReuseIInv'
<1> SUFFICES ASSUME ReuseIInv, Rebind(t) PROVE ReuseIInv'
  OBVIOUS
<1>1. history' = history /\ UNCHANGED <<tokens, live, stats, reused>>
  BY DEF Rebind
<1>2. /\ bound'.episodes = {i \in DOMAIN history : Active(t) /\ PassedThrough(history[i])}
      /\ bound' \in [episodes : SUBSET DOMAIN history, token : Nat]
  BY DEF Rebind, ReuseIInv, ReuseTypeOK
<1>3. ReuseTypeOK'
  BY <1>1, <1>2 DEF ReuseIInv, ReuseTypeOK
<1>4. BoundInv'
  BY <1>1, <1>2 DEF BoundInv, PassedThrough
<1>5. StatsInv' /\ ReusedInv'
  BY <1>1, EarnedUnchanged DEF ReuseIInv, StatsInv, ReusedInv
<1> QED
  BY <1>3, <1>4, <1>5 DEF ReuseIInv

LEMMA LearnKeeps == ReuseIInv /\ Learn => ReuseIInv'
<1> SUFFICES ASSUME ReuseIInv, Learn PROVE ReuseIInv'
  OBVIOUS
<1>1. history' = history /\ UNCHANGED <<tokens, live, reused>>
  BY DEF Learn
<1> DEFINE S == bound.episodes
           macro == MacroTrusted(S, bound.token)
           path == PathTrusted(S, bound.token)
<1>2. S \in SUBSET DOMAIN history /\ bound.token \in Nat
  BY DEF ReuseIInv, ReuseTypeOK
<1>3. stats' = [macro |-> Stats(macro), path |-> Stats(path)]
  BY DEF Learn
<1>4. macro \in BOOLEAN /\ path \in BOOLEAN
  BY DEF MacroTrusted, PathTrusted, Active, AllNone
<1>5. macro \/ path => Earned(S)
  <2> SUFFICES ASSUME macro \/ path PROVE Earned(S)
    OBVIOUS
  <2>1. \A i \in S : history[i].ours
    BY DEF ReuseIInv, BoundInv
  <2>2. /\ AllNone(S) /\ NoRevision \notin Revisions(S)
        /\ Cardinality(Revisions(S)) >= 2
    BY DEF MacroTrusted, PathTrusted, MinEpisodes
  <2> QED
    BY <2>1, <2>2, <1>2, TwoRevisions DEF ReuseIInv, ReuseTypeOK
<1>6. ReuseTypeOK'
  <2>1. stats' \in [Kinds -> [episodes : SUBSET DOMAIN history, token : Nat, trusted : BOOLEAN]]
    BY <1>2, <1>3, <1>4 DEF Stats, Kinds, NoToken
  <2>2. bound' \in [episodes : SUBSET DOMAIN history, token : Nat]
    BY DEF Learn, Nothing, NoToken
  <2> QED
    BY <2>1, <2>2, <1>1 DEF ReuseIInv, ReuseTypeOK
<1>7. BoundInv'
  BY DEF Learn, Nothing, BoundInv
<1>8. StatsInv'
  <2>1. /\ stats'["macro"].trusted => macro
        /\ stats'["path"].trusted => path
        /\ stats'["macro"].episodes = S /\ stats'["path"].episodes = S
    BY <1>3 DEF Stats
  <2> QED
    BY <2>1, <1>5, <1>1, EarnedUnchanged DEF StatsInv, Kinds
<1>9. ReusedInv'
  BY <1>1, EarnedUnchanged DEF ReuseIInv, ReusedInv
<1> QED
  BY <1>6, <1>7, <1>8, <1>9 DEF ReuseIInv

LEMMA ReuseKeeps == ASSUME NEW kind \in Kinds PROVE ReuseIInv /\ Reuse(kind) => ReuseIInv'
<1> SUFFICES ASSUME ReuseIInv, Reuse(kind) PROVE ReuseIInv'
  OBVIOUS
<1>1. UNCHANGED <<history, tokens, live, bound, stats>>
  BY DEF Reuse
<1> DEFINE r == [episodes |-> stats[kind].episodes, token |-> stats[kind].token, at |-> live]
<1>2. reused' = {r}
  BY DEF Reuse
<1>3. /\ stats[kind].episodes \in SUBSET DOMAIN history /\ stats[kind].token \in Nat
      /\ live \in Nat
  BY DEF ReuseIInv, ReuseTypeOK
<1>4. stats[kind].trusted /\ stats[kind].token = live
  BY DEF Reuse, Reusable, Active
<1>5. Earned(stats[kind].episodes)
  BY <1>4 DEF ReuseIInv, StatsInv
<1>6. ReuseTypeOK'
  BY <1>1, <1>2, <1>3 DEF ReuseIInv, ReuseTypeOK
<1>7. BoundInv' /\ StatsInv'
  BY <1>1, EarnedUnchanged DEF ReuseIInv, BoundInv, StatsInv
<1>8. ReusedInv'
  BY <1>1, <1>2, <1>4, <1>5, EarnedUnchanged DEF ReusedInv
<1> QED
  BY <1>6, <1>7, <1>8 DEF ReuseIInv

LEMMA ReuseStepKeeps == ReuseIInv /\ [ReuseNext]_reuseVars => ReuseIInv'
<1> SUFFICES ASSUME ReuseIInv, [ReuseNext]_reuseVars PROVE ReuseIInv'
  OBVIOUS
<1>1. CASE Activate \/ Retire
  <2>1. UNCHANGED <<history, bound, stats, reused>> /\ tokens' \in Nat /\ live' \in Nat
    BY <1>1 DEF Activate, Retire, ReuseIInv, ReuseTypeOK, NoToken
  <2> QED
    BY <2>1, EarnedUnchanged DEF ReuseIInv, ReuseTypeOK, BoundInv, StatsInv, ReusedInv
<1>2. CASE Record
  BY <1>2, RecordKeeps
<1>3. CASE Learn
  BY <1>3, LearnKeeps
<1>4. ASSUME NEW t \in 1 .. tokens, Rebind(t) PROVE ReuseIInv'
  BY <1>4, RebindKeeps
<1>5. ASSUME NEW kind \in DOMAIN stats, Reuse(kind) PROVE ReuseIInv'
  <2>1. kind \in Kinds
    BY DEF ReuseIInv, ReuseTypeOK
  <2> QED
    BY <2>1, <1>5, ReuseKeeps
<1>6. CASE UNCHANGED reuseVars
  <2>1. UNCHANGED <<history, tokens, live, bound, stats, reused>>
    BY <1>6 DEF reuseVars
  <2> QED
    BY <2>1, EarnedUnchanged DEF ReuseIInv, ReuseTypeOK, BoundInv, StatsInv, ReusedInv
<1> QED
  BY <1>1, <1>2, <1>3, <1>4, <1>5, <1>6 DEF ReuseNext

-----------------------------------------------------------------------------
\* What macro_reusable() and path_reusable() let through was learned under the token that
\* is active then, from the skill's own episodes of two revisions, without effects.
THEOREM ReuseEarnedCorrect == ReuseSpec => []ReuseEarned
<1>1. ReuseIInv => ReuseEarned
  BY DEF ReuseIInv, ReusedInv, Earned, ReuseEarned
<1> QED
  BY <1>1, ReuseInitInv, ReuseStepKeeps, PTL DEF ReuseSpec

\* Log and tokens keep their types, and what is bound, learned or reused are positions of the
\* log.
THEOREM ReuseTypeCorrect == ReuseSpec => []ReuseTypeOK
<1>1. ReuseIInv => ReuseTypeOK
  BY DEF ReuseIInv
<1> QED
  BY <1>1, ReuseInitInv, ReuseStepKeeps, PTL DEF ReuseSpec

-----------------------------------------------------------------------------
(***************************************************************************)
(* The advice (Advice), for contexts, teachings and evidence of any size.  *)
(***************************************************************************)
ValidatorContext ==
  [effect : {"NONE", "UNKNOWN"}, anchorSeen : BOOLEAN, conf : Nat, risky : BOOLEAN,
   mismatch : BOOLEAN]

Budget == [maxLatency : Nat, maxObserve : Nat, minRecovery : Nat]

AdviceContext ==
  [conf : Nat, sensitive : BOOLEAN, invalidated : BOOLEAN, class : Classes,
   decision : {None, "sufficient", "insufficient", "author"},
   context : {None} \cup ValidatorContext, floor : Nat, pending : Nat,
   revisionBound : BOOLEAN, maxBatch : Nat, latencies : {None} \cup Seq(Nat), budgetMs : Nat,
   streak : Nat, loop : BOOLEAN, validatorFailed : BOOLEAN, budget : {None} \cup Budget,
   observeRate : Nat, recoveryRate : Nat, reuse : BOOLEAN]

\* None, or a number in a tuple of its own
Optional(S) == {None} \cup {<<x>> : x \in S}

Influence ==
  [cap : Optional(Nat), forceObserve : BOOLEAN, maxBatch : Optional(Nat),
   disableReuse : BOOLEAN]

\* A set of numbers that is not empty has a smallest member.
LEMMA MinOfNumbers ==
  ASSUME NEW S, S \subseteq Nat, S # {}
  PROVE  Min(S) \in S /\ \A x \in S : Min(S) <= x
<1> DEFINE R == OpToRel(<, Nat)
<1>1. PICK m \in S : \A x \in S : ~(<<x, m>> \in R)
  <2> HIDE DEF R
  <2>1. IsWellFoundedOn(R, Nat)
    BY NatLessThanWellFounded DEF R
  <2> QED
    BY <2>1, WFMin
<1>2. \A x \in S : ~(x < m)
  BY <1>1 DEF OpToRel
<1>3. \A x \in S : m <= x
  BY <1>2
<1> QED
  BY <1>3 DEF Min

\* A sequence of numbers that is not empty has a largest sample.
LEMMA LargestSample ==
  ASSUME NEW s \in Seq(Nat), s # <<>>
  PROVE  \E v \in ToSet(s) : \A i \in DOMAIN s : s[i] <= v
<1> DEFINE UpTo(n) == \E v \in ToSet(s) : \A i \in 1 .. n : i \in DOMAIN s => s[i] <= v
           Bad == {n \in Nat : ~UpTo(n)}
<1>1. DOMAIN s = 1 .. Len(s) /\ Len(s) \in Nat /\ Len(s) # 0
  OBVIOUS
<1>2. SUFFICES Bad = {}
  <2>1. UpTo(Len(s))
    BY <1>1, <1>2
  <2> QED
    BY <1>1, <2>1
<1>3. SUFFICES ASSUME Bad # {} PROVE FALSE
  OBVIOUS
<1> DEFINE m == Min(Bad)
<1>4. m \in Bad /\ \A n \in Bad : m <= n
  <2> HIDE DEF Bad
  <2>1. Bad \subseteq Nat
    BY DEF Bad
  <2> QED
    BY <1>3, <2>1, MinOfNumbers
<1> HIDE DEF m
<1>5. m \in Nat /\ ~UpTo(m)
  BY <1>4
<1>6. m # 0
  <2> SUFFICES ASSUME m = 0 PROVE FALSE
    OBVIOUS
  <2>1. s[1] \in ToSet(s)
    BY <1>1 DEF ToSet
  <2>2. UpTo(0)
    BY <2>1
  <2> QED
    BY <1>5, <2>2
<1>7. m - 1 \in Nat /\ ~(m <= m - 1)
  BY <1>5, <1>6
<1>8. PICK v \in ToSet(s) : \A i \in 1 .. (m - 1) : i \in DOMAIN s => s[i] <= v
  BY <1>4, <1>7
<1>9. v \in Nat
  BY DEF ToSet
<1>10. CASE m \in DOMAIN s
  <2>1. s[m] \in ToSet(s) /\ s[m] \in Nat
    BY <1>10 DEF ToSet
  <2> DEFINE w == IF s[m] <= v THEN v ELSE s[m]
  <2>2. w \in ToSet(s) /\ w \in Nat /\ v <= w /\ s[m] <= w
    BY <1>9, <2>1
  <2>3. \A i \in 1 .. m : i \in DOMAIN s => s[i] <= w
    <3> SUFFICES ASSUME NEW i \in 1 .. m, i \in DOMAIN s PROVE s[i] <= w
      OBVIOUS
    <3>1. s[i] \in Nat
      OBVIOUS
    <3>2. CASE i = m
      BY <2>2, <3>2
    <3>3. CASE i \in 1 .. (m - 1)
      <4>1. s[i] <= v
        BY <1>8, <3>3
      <4> QED
        BY <1>9, <2>2, <3>1, <4>1
    <3> QED
      BY <1>5, <3>2, <3>3
  <2>4. UpTo(m)
    <3> HIDE DEF w
    <3> QED
      BY <2>2, <2>3
  <2> QED
    BY <1>5, <2>4
<1>11. CASE m \notin DOMAIN s
  <2>1. \A i \in 1 .. m : i \in DOMAIN s => i \in 1 .. (m - 1)
    BY <1>5, <1>11
  <2> QED
    BY <1>5, <1>8, <2>1
<1> QED
  BY <1>10, <1>11

\* A tenth of the samples at most is above the 90th percentile.
LEMMA AboveP90 ==
  ASSUME NEW s \in Seq(Nat), s # <<>>
  PROVE  /\ P90(s) \in Nat
         /\ 10 * Cardinality({i \in DOMAIN s : s[i] > P90(s)}) <= Len(s)
<1> DEFINE before == Smaller(Len(s) - 1, (Len(s) * 9) \div 10)
           UpTo(v) == {i \in DOMAIN s : s[i] <= v}
           Reached == {v \in ToSet(s) : Cardinality(UpTo(v)) > before}
           Above == {i \in DOMAIN s : s[i] > P90(s)}
<1>1. DOMAIN s = 1 .. Len(s) /\ Len(s) \in Nat \ {0} /\ ToSet(s) \subseteq Nat
  BY DEF ToSet
<1>2. IsFiniteSet(DOMAIN s) /\ Cardinality(DOMAIN s) = Len(s)
  BY <1>1, FS_Interval
<1>3. before \in Nat /\ before < Len(s) /\ 10 * (before + 1) >= 9 * Len(s)
  <2>1. \A n \in Nat \ {0} : LET k == (n * 9) \div 10 IN k \in Nat /\ 10 * (k + 1) >= 9 * n /\ k < n
    OBVIOUS
  <2> QED
    BY <1>1, <2>1 DEF Smaller
<1>4. P90(s) \in Reached
  <2>1. PICK v \in ToSet(s) : \A i \in DOMAIN s : s[i] <= v
    BY LargestSample
  <2>2. UpTo(v) = DOMAIN s
    BY <2>1
  <2>3. v \in Reached
    BY <1>2, <1>3, <2>1, <2>2
  <2>4. Reached \subseteq Nat
    BY <1>1
  <2>5. Min(Reached) \in Reached
    <3> HIDE DEF Reached
    <3> QED
      BY <2>3, <2>4, MinOfNumbers
  <2> QED
    BY <2>5 DEF P90
<1> HIDE DEF before
<1>5. P90(s) \in Nat /\ Cardinality(UpTo(P90(s))) > before
  BY <1>1, <1>4
<1>6. /\ IsFiniteSet(Above) /\ IsFiniteSet(UpTo(P90(s)))
      /\ Above \cap UpTo(P90(s)) = {} /\ Above \cup UpTo(P90(s)) = DOMAIN s
  <2>1. \A i \in DOMAIN s : s[i] \in Nat
    OBVIOUS
  <2>2. Above \subseteq DOMAIN s /\ UpTo(P90(s)) \subseteq DOMAIN s
    OBVIOUS
  <2>3. IsFiniteSet(Above) /\ IsFiniteSet(UpTo(P90(s)))
    BY <1>2, <2>2, FS_Subset
  <2>4. \A i \in DOMAIN s : s[i] > P90(s) <=> ~(s[i] <= P90(s))
    BY <1>5, <2>1
  <2>5. Above \cap UpTo(P90(s)) = {} /\ Above \cup UpTo(P90(s)) = DOMAIN s
    BY <2>4
  <2> QED
    BY <2>3, <2>5
<1> HIDE DEF Above, UpTo
<1>7. Cardinality(Above) + Cardinality(UpTo(P90(s))) = Len(s)
  <2>1. Cardinality(Above \cup UpTo(P90(s))) =
          Cardinality(Above) + Cardinality(UpTo(P90(s))) - Cardinality(Above \cap UpTo(P90(s)))
    BY <1>6, FS_Union
  <2>2. Cardinality(Above \cap UpTo(P90(s))) = 0
    BY <1>6, FS_EmptySet
  <2>3. Cardinality(Above) \in Nat /\ Cardinality(UpTo(P90(s))) \in Nat
    BY <1>6, FS_CardinalityType
  <2> QED
    BY <1>2, <1>6, <2>1, <2>2, <2>3
<1>8. 10 * Cardinality(Above) <= Len(s)
  <2>1. Cardinality(Above) \in Nat /\ Cardinality(UpTo(P90(s))) \in Nat
    BY <1>6, FS_CardinalityType
  <2> QED
    BY <1>1, <1>3, <1>5, <1>7, <2>1
<1> QED
  BY <1>5, <1>8 DEF Above

\* The fast path is for what is of low risk and was measured fast, nine times out of ten.
LEMMA FastMeasured ==
  ASSUME NEW ctx \in AdviceContext
  PROVE  FastOnlyWhenMeasured(ctx)
<1> SUFFICES ASSUME Recommend(ctx).route = "fast-path"
             PROVE  /\ ctx.class = "low" /\ Len(ctx.latencies) >= 2
                    /\ 10 * Cardinality({i \in DOMAIN ctx.latencies :
                                           2 * ctx.latencies[i] > ctx.budgetMs})
                         <= Len(ctx.latencies)
  BY DEF FastOnlyWhenMeasured
<1> DEFINE s == ctx.latencies
           b == ctx.budgetMs
<1>1. s # None /\ Route(ctx) = "fast-path"
  BY NoneAssumption DEF Recommend
<1>2. s \in Seq(Nat) /\ b \in Nat /\ ctx.class \in Classes
  BY <1>1 DEF AdviceContext
<1>3. ctx.class = "low" /\ ~(Len(s) < 2) /\ P90(s) <= b \div 2
  BY <1>1, <1>2 DEF Route, Classes
<1>4. s # <<>> /\ Len(s) \in Nat
  BY <1>2, <1>3
<1>5. P90(s) \in Nat /\ 10 * Cardinality({i \in DOMAIN s : s[i] > P90(s)}) <= Len(s)
  BY <1>2, <1>4, AboveP90
<1>6. {i \in DOMAIN s : 2 * s[i] > b} \subseteq {i \in DOMAIN s : s[i] > P90(s)}
  <2> SUFFICES ASSUME NEW i \in DOMAIN s, 2 * s[i] > b PROVE s[i] > P90(s)
    OBVIOUS
  <2>1. s[i] \in Nat
    BY <1>2
  <2>2. \A p, x, n \in Nat : p <= n \div 2 /\ 2 * x > n => x > p
    OBVIOUS
  <2> QED
    BY <1>2, <1>3, <1>5, <2>1, <2>2
<1>7. IsFiniteSet(DOMAIN s)
  BY <1>2, FS_Interval
<1> DEFINE Slow == {i \in DOMAIN s : 2 * s[i] > b}
           Above == {i \in DOMAIN s : s[i] > P90(s)}
<1>8. IsFiniteSet(Above)
  BY <1>7, FS_Subset
<1>9. /\ Cardinality(Slow) <= Cardinality(Above)
      /\ Cardinality(Slow) \in Nat /\ Cardinality(Above) \in Nat
  <2> HIDE DEF Slow, Above
  <2>1. Slow \subseteq Above
    BY <1>6 DEF Slow, Above
  <2> QED
    BY <1>8, <2>1, FS_Subset, FS_CardinalityType
<1> HIDE DEF Slow, Above
<1>10. 10 * Cardinality(Slow) <= Len(s)
  BY <1>4, <1>5, <1>9 DEF Above
<1> QED
  BY <1>2, <1>3, <1>4, <1>10 DEF Slow

\* A batch has a size, whatever was asked.
LEMMA BatchIsNumber ==
  ASSUME NEW ctx \in AdviceContext
  PROVE  BatchSize(ctx) \in Nat
<1>1. ctx.pending \in Nat /\ ctx.maxBatch \in Nat
  BY DEF AdviceContext
<1>2. ctx.maxBatch \div 2 \in Nat
  BY <1>1
<1> QED
  BY <1>1, <1>2 DEF BatchSize, Smaller, Larger

\* What is let through has a low risk, and a causal proof or a revision to be bound to.
LEMMA AuthorizedFloor ==
  ASSUME NEW ctx \in AdviceContext
  PROVE  LiveOnlyAboveFloor(ctx)
<1>1. DecisionOn(ctx) = "sufficient" /\ ctx.context # None =>
        ctx.context.effect = "NONE" /\ ctx.context.anchorSeen
  <2>1. Authoritative(ctx.context) = "sufficient" => Sufficient(ctx.context)
    BY DEF Authoritative
  <2> QED
    BY <2>1, NoneAssumption DEF DecisionOn, Sufficient
<1>2. Observation(ctx) = "cheap-validate" =>
        /\ DecisionOn(ctx) = "sufficient" /\ ctx.class = "low" /\ ~ctx.sensitive
        /\ ctx.conf >= ctx.floor
  BY DEF Observation
<1>3. BatchSize(ctx) \in Nat
  BY BatchIsNumber
<1>4. BatchSize(ctx) > 1 =>
        ctx.revisionBound /\ ctx.class = "low" /\ ~ctx.sensitive /\ ctx.conf >= 5
  <2>1. ctx.conf \in Nat
    BY DEF AdviceContext
  <2> QED
    BY <2>1 DEF BatchSize
<1>5. Authorized(Recommend(ctx), ctx.class) => Floor(ctx)
  <2>1. Authorized(Recommend(ctx), ctx.class) =>
          Observation(ctx) = "cheap-validate" \/ BatchSize(ctx) > 1
    BY DEF Authorized, Recommend
  <2> QED
    BY <1>1, <1>2, <1>4, <2>1 DEF Floor
<1>6. AuthorizedLive(Recommend(ctx), ctx.class) =>
        Observation(ctx) = "cheap-validate" /\ ~(BatchSize(ctx) > 1)
  BY DEF AuthorizedLive, Recommend
<1> QED
  BY <1>2, <1>3, <1>5, <1>6 DEF LiveOnlyAboveFloor

\* A learned teaching only narrows: the confidence and the batch limit fall, the context is
\* as sensitive as it was or more.
LEMMA TaughtNarrows ==
  ASSUME NEW ctx \in AdviceContext, NEW t \in Influence
  PROVE  /\ Taught(ctx, t) \in AdviceContext
         /\ Taught(ctx, t).conf <= ctx.conf /\ Taught(ctx, t).maxBatch <= ctx.maxBatch
         /\ ctx.sensitive => Taught(ctx, t).sensitive
         /\ Taught(ctx, t).reuse => ctx.reuse
         /\ \A f \in {"invalidated", "class", "decision", "context", "floor", "pending",
                      "revisionBound"} : Taught(ctx, t)[f] = ctx[f]
<1>1. /\ ctx.conf \in Nat /\ ctx.maxBatch \in Nat /\ ctx.sensitive \in BOOLEAN
      /\ ctx.reuse \in BOOLEAN
  BY DEF AdviceContext
<1>2. /\ t.forceObserve \in BOOLEAN /\ t.disableReuse \in BOOLEAN
      /\ t.cap # None => t.cap[1] \in Nat
      /\ t.maxBatch # None => t.maxBatch[1] \in Nat
  <2>1. t.cap \in Optional(Nat) /\ t.maxBatch \in Optional(Nat)
    BY DEF Influence
  <2>2. \A o \in Optional(Nat) : o # None => o[1] \in Nat
    BY DEF Optional
  <2> QED
    BY <2>1, <2>2 DEF Influence
<1> DEFINE conf == IF t.cap = None THEN ctx.conf ELSE Smaller(ctx.conf, t.cap[1])
           sensitive == ctx.sensitive \/ t.forceObserve
           maxBatch == IF t.maxBatch = None THEN ctx.maxBatch
                       ELSE Smaller(ctx.maxBatch, t.maxBatch[1])
           reuse == ctx.reuse /\ ~t.disableReuse
<1>3. conf \in Nat /\ conf <= ctx.conf /\ maxBatch \in Nat /\ maxBatch <= ctx.maxBatch
  BY <1>1, <1>2 DEF Smaller
<1>4. sensitive \in BOOLEAN /\ reuse \in BOOLEAN
  OBVIOUS
<1>5. Taught(ctx, t) = [ctx EXCEPT !.conf = conf, !.sensitive = sensitive,
                                   !.maxBatch = maxBatch, !.reuse = reuse]
  BY DEF Taught
<1>6. (ctx.sensitive => sensitive) /\ (reuse => ctx.reuse)
  OBVIOUS
<1> HIDE DEF conf, sensitive, maxBatch, reuse
<1>7. Taught(ctx, t) \in AdviceContext
  BY <1>3, <1>4, <1>5 DEF AdviceContext
<1>8. /\ Taught(ctx, t).conf = conf /\ Taught(ctx, t).maxBatch = maxBatch
      /\ Taught(ctx, t).sensitive = sensitive /\ Taught(ctx, t).reuse = reuse
      /\ \A f \in {"invalidated", "class", "decision", "context", "floor", "pending",
                   "revisionBound"} : Taught(ctx, t)[f] = ctx[f]
  BY <1>5 DEF AdviceContext
<1> QED
  BY <1>3, <1>6, <1>7, <1>8

\* A learned teaching is a smaller number or a stricter flag, and every gate is monotone in
\* them.
LEMMA TaughtTightens ==
  ASSUME NEW ctx \in AdviceContext, NEW t \in Influence
  PROVE  TeachingOnlyTightens(ctx, t)
<1> SUFFICES ASSUME ctx.conf \in Trusted, ctx.maxBatch \in 1 .. MaxBatchHard
             PROVE  /\ Authorized(Recommend(Taught(ctx, t)), ctx.class) =>
                         Authorized(Recommend(ctx), ctx.class)
                    /\ BatchSize(Taught(ctx, t)) <= BatchSize(ctx)
                    /\ Taught(ctx, t).reuse => ctx.reuse
  BY DEF TeachingOnlyTightens, WellFormed
<1> DEFINE new == Taught(ctx, t)
<1>1. /\ new \in AdviceContext
      /\ new.conf <= ctx.conf /\ new.maxBatch <= ctx.maxBatch
      /\ ctx.sensitive => new.sensitive
      /\ new.reuse => ctx.reuse
      /\ new.invalidated = ctx.invalidated /\ new.class = ctx.class
      /\ new.decision = ctx.decision /\ new.context = ctx.context
      /\ new.floor = ctx.floor /\ new.pending = ctx.pending
      /\ new.revisionBound = ctx.revisionBound
  BY TaughtNarrows
<1> HIDE DEF new
<1>2. /\ ctx.pending \in Nat /\ ctx.floor \in Nat /\ ctx.conf \in Nat /\ ctx.maxBatch \in Nat
      /\ new.conf \in Nat /\ new.maxBatch \in Nat
      /\ ctx.sensitive \in BOOLEAN /\ new.sensitive \in BOOLEAN
  BY <1>1 DEF AdviceContext
<1>3. new.conf \in Trusted
  BY <1>1, <1>2 DEF Trusted
<1>4. Observation(new) = "cheap-validate" => Observation(ctx) = "cheap-validate"
  <2>1. DecisionOn(new) = DecisionOn(ctx)
    BY <1>1 DEF DecisionOn
  <2> QED
    BY <1>1, <1>2, <2>1 DEF Observation
<1>5. BatchSize(new) <= BatchSize(ctx) /\ BatchSize(new) \in Nat /\ BatchSize(ctx) \in Nat
  <2>1. BatchSize(new) \in Nat /\ BatchSize(ctx) \in Nat
    BY <1>1, BatchIsNumber
  <2>2. \A p, m, n \in Nat : m <= n /\ n >= 1 =>
          /\ Smaller(p, m) <= Smaller(p, n)
          /\ Smaller(p, Larger(1, m \div 2)) <= Smaller(p, Larger(1, n \div 2))
          /\ Smaller(p, Larger(1, m \div 2)) <= Smaller(p, n)
          /\ p # 0 => 1 <= Smaller(p, n) /\ 1 <= Smaller(p, Larger(1, n \div 2))
    BY DEF Smaller, Larger
  <2>3. CASE ctx.pending = 0 \/ new.maxBatch \notin 1 .. MaxBatchHard
    <3>1. BatchSize(new) = 0
      BY <1>1, <2>3 DEF BatchSize
    <3> QED
      BY <2>1, <3>1
  <2>4. CASE ctx.pending # 0 /\ new.maxBatch \in 1 .. MaxBatchHard
    <3>1. ctx.maxBatch \in 1 .. MaxBatchHard /\ ctx.conf \in Trusted
      OBVIOUS
    <3>2. BatchSize(ctx) >= 1
      <4>1. ctx.maxBatch >= 1
        BY <1>2, <3>1 DEF MaxBatchHard
      <4>2. /\ 1 <= Smaller(ctx.pending, ctx.maxBatch)
            /\ 1 <= Smaller(ctx.pending, Larger(1, ctx.maxBatch \div 2))
        BY <1>2, <2>2, <2>4, <4>1
      <4> QED
        BY <2>4, <3>1, <4>2 DEF BatchSize
    <3>3. CASE BatchSize(new) = 1
      BY <2>1, <3>2, <3>3
    <3>4. CASE BatchSize(new) # 1
      <4>1. /\ ctx.revisionBound /\ ctx.class = "low" /\ ~new.sensitive /\ ~ctx.sensitive
            /\ new.conf >= 5 /\ ctx.conf >= 5
        BY <1>1, <1>2, <1>3, <2>4, <3>4 DEF BatchSize
      <4>2. BatchSize(new) = IF new.conf >= 8 THEN Smaller(ctx.pending, new.maxBatch)
                             ELSE Smaller(ctx.pending, Larger(1, new.maxBatch \div 2))
        BY <1>1, <1>3, <2>4, <4>1 DEF BatchSize
      <4>3. BatchSize(ctx) = IF ctx.conf >= 8 THEN Smaller(ctx.pending, ctx.maxBatch)
                             ELSE Smaller(ctx.pending, Larger(1, ctx.maxBatch \div 2))
        BY <2>4, <3>1, <4>1 DEF BatchSize
      <4>4. ctx.maxBatch >= 1
        BY <1>2, <3>1 DEF MaxBatchHard
      <4>5. new.conf >= 8 => ctx.conf >= 8
        BY <1>1, <1>2
      <4>6. /\ Smaller(ctx.pending, new.maxBatch) <= Smaller(ctx.pending, ctx.maxBatch)
            /\ Smaller(ctx.pending, Larger(1, new.maxBatch \div 2))
                 <= Smaller(ctx.pending, Larger(1, ctx.maxBatch \div 2))
            /\ Smaller(ctx.pending, Larger(1, new.maxBatch \div 2))
                 <= Smaller(ctx.pending, ctx.maxBatch)
        BY <1>1, <1>2, <2>2, <4>4
      <4>7. CASE new.conf >= 8
        BY <2>1, <4>2, <4>3, <4>5, <4>6, <4>7
      <4>8. CASE ~(new.conf >= 8) /\ ctx.conf >= 8
        BY <2>1, <4>2, <4>3, <4>6, <4>8
      <4>9. CASE ~(new.conf >= 8) /\ ~(ctx.conf >= 8)
        BY <2>1, <4>2, <4>3, <4>6, <4>9
      <4> QED
        BY <1>2, <4>7, <4>8, <4>9
    <3> QED
      BY <3>3, <3>4
  <2> QED
    BY <2>1, <2>3, <2>4
<1>6. Authorized(Recommend(new), ctx.class) => Authorized(Recommend(ctx), ctx.class)
  <2>1. Authorized(Recommend(new), ctx.class) =>
          ctx.class = "low" /\ (Observation(new) = "cheap-validate" \/ BatchSize(new) > 1)
    BY DEF Authorized, Recommend
  <2>2. BatchSize(new) > 1 => BatchSize(ctx) > 1
    BY <1>5
  <2>3. ctx.class = "low" /\ (Observation(ctx) = "cheap-validate" \/ BatchSize(ctx) > 1) =>
          Authorized(Recommend(ctx), ctx.class)
    BY DEF Authorized, Recommend
  <2> QED
    BY <1>4, <2>1, <2>2, <2>3
<1> QED
  BY <1>1, <1>5, <1>6 DEF new

\* What evaluate_promotion_readiness() is given; a p90 or a recovery rate may be missing.
Evidence ==
  [operation : Operations, humanGate : BOOLEAN, successes : Nat, shadow : Nat,
   stable : BOOLEAN, partial : Nat, unknown : Nat,
   replays : Nat, conflicts : Nat, validatorProven : BOOLEAN, fallbackProven : BOOLEAN,
   class : Classes, p90 : Optional(Nat), recovery : Optional(Nat)]

\* A policy with limits that are numbers; a latency or a recovery rate may have none.
HasLimits(policy) ==
  /\ policy.minSuccesses \in Nat /\ policy.minShadow \in Nat
  /\ policy.maxPartial \in Nat /\ policy.maxUnknown \in Nat
  /\ policy.maxReplays \in Nat /\ policy.maxConflicts \in Nat
  /\ policy.maxP90 \in Optional(Nat) /\ policy.minRecovery \in Optional(Nat)

\* Evidence that is no worse in anything is promoted wherever the worse one is.
LEMMA PromotionMonotone ==
  ASSUME NEW policy, HasLimits(policy), NEW e \in Evidence, NEW f \in Evidence, NEW env
  PROVE  ReadinessMonotone(policy, e, f, env)
<1> SUFFICES ASSUME NoBetter(e, f), Ready(policy, e) PROVE Ready(policy, f)
  BY DEF ReadinessMonotone, Preflight
<1>1. \A o \in Optional(Nat) : o # None => o[1] \in Nat
  BY DEF Optional
<1>2. /\ policy.maxP90 # None => policy.maxP90[1] \in Nat
      /\ policy.minRecovery # None => policy.minRecovery[1] \in Nat
      /\ e.p90 # None => e.p90[1] \in Nat
      /\ f.p90 # None => f.p90[1] \in Nat
      /\ e.recovery # None => e.recovery[1] \in Nat
      /\ f.recovery # None => f.recovery[1] \in Nat
  BY <1>1 DEF HasLimits, Evidence
<1>3. f.successes >= policy.minSuccesses /\ f.shadow >= policy.minShadow /\ f.stable
  BY DEF NoBetter, Ready, HasLimits, Evidence
<1>4. /\ f.partial <= policy.maxPartial /\ f.unknown <= policy.maxUnknown
      /\ f.replays <= policy.maxReplays /\ f.conflicts <= policy.maxConflicts
  BY DEF NoBetter, Ready, HasLimits, Evidence
<1>5. /\ policy.needValidator => f.validatorProven
      /\ policy.needFallback => f.fallbackProven
      /\ f.operation = policy.operation /\ f.class = policy.class
      /\ f.humanGate => policy.allowHumanGate
  BY DEF NoBetter, Ready
<1>6. policy.maxP90 = None \/ (f.p90 # None /\ f.p90[1] <= policy.maxP90[1])
  BY <1>2 DEF NoBetter, Ready
<1>7. policy.minRecovery = None
        \/ (f.recovery # None /\ f.recovery[1] >= policy.minRecovery[1])
  BY <1>2 DEF NoBetter, Ready
<1> QED
  BY <1>3, <1>4, <1>5, <1>6, <1>7 DEF Ready

\* The questions of MCDecisions are among them.
LEMMA ValidatorContextsAre ==
  ASSUME NEW x \in ValidatorContexts
  PROVE  x \in {None} \cup ValidatorContext
<1>1. CASE x = None
  BY <1>1
<1>2. CASE x = Context
  BY <1>2 DEF Context, ValidatorContext
<1>3. CASE x = [Context EXCEPT !.effect = "UNKNOWN"]
  BY <1>3 DEF Context, ValidatorContext
<1>4. CASE x = [Context EXCEPT !.anchorSeen = FALSE]
  BY <1>4 DEF Context, ValidatorContext
<1>5. CASE x = [Context EXCEPT !.conf = 4]
  BY <1>5 DEF Context, ValidatorContext
<1>6. CASE x = [Context EXCEPT !.conf = 11]
  BY <1>6 DEF Context, ValidatorContext
<1> QED
  BY <1>1, <1>2, <1>3, <1>4, <1>5, <1>6 DEF ValidatorContexts

\* What MCDecisions asks is such a context, such an evidence, such a teaching.
LEMMA RequestFields ==
  DOMAIN Request =
    {"conf", "sensitive", "invalidated", "class", "decision", "context", "floor", "pending",
     "revisionBound", "maxBatch", "latencies", "budgetMs", "streak", "loop", "validatorFailed",
     "budget", "observeRate", "recoveryRate", "reuse"}
  BY DEF Request

LEMMA ConfidentAre ==
  ASSUME NEW q \in Confident
  PROVE  q \in AdviceContext
<1>1. PICK p \in Confidences : q = But(p)
  BY DEF Confident
<1>2. DOMAIN p = {"conf", "sensitive", "invalidated", "class", "decision", "context", "floor",
                  "revisionBound", "maxBatch"}
  BY DEF Confidences
<1>3. /\ p.conf \in Nat /\ p.sensitive \in BOOLEAN /\ p.invalidated \in BOOLEAN
      /\ p.class \in Classes /\ p.decision \in {None, "sufficient", "insufficient", "author"}
      /\ p.context \in {None} \cup ValidatorContext /\ p.floor \in Nat
      /\ p.revisionBound \in BOOLEAN /\ p.maxBatch \in Nat
  BY ValidatorContextsAre DEF Confidences
<1>4. q = [conf |-> p.conf, sensitive |-> p.sensitive, invalidated |-> p.invalidated,
           class |-> p.class, decision |-> p.decision, context |-> p.context,
           floor |-> p.floor, pending |-> 3, revisionBound |-> p.revisionBound,
           maxBatch |-> p.maxBatch, latencies |-> None, budgetMs |-> 6, streak |-> 0,
           loop |-> FALSE, validatorFailed |-> FALSE, budget |-> None, observeRate |-> 2,
           recoveryRate |-> 9, reuse |-> TRUE]
  BY <1>1, <1>2, RequestFields DEF But, Request
<1>5. None \in {None} \cup Seq(Nat) /\ None \in {None} \cup Budget
  OBVIOUS
<1> QED
  BY <1>3, <1>4, <1>5, SMTT(60) DEF AdviceContext

LEMMA MeasuredAre ==
  ASSUME NEW q \in Measured
  PROVE  q \in AdviceContext
<1>1. PICK p \in Measurements : q = But(p)
  BY DEF Measured
<1>2. DOMAIN p = {"class", "latencies", "budgetMs", "budget", "streak", "loop", "observeRate"}
  BY DEF Measurements
<1>3. Latencies \subseteq {None} \cup Seq(Nat)
  BY DEF Latencies
<1>4. [maxLatency |-> 5, maxObserve |-> 3, minRecovery |-> 8] \in Budget
  BY DEF Budget
<1>5. /\ p.class \in Classes /\ p.latencies \in {None} \cup Seq(Nat) /\ p.budgetMs \in Nat
      /\ p.budget \in {None} \cup Budget /\ p.streak \in Nat /\ p.loop \in BOOLEAN
      /\ p.observeRate \in Nat
  BY <1>3, <1>4 DEF Measurements
<1>6. q = [conf |-> 8, sensitive |-> FALSE, invalidated |-> FALSE, class |-> p.class,
           decision |-> None, context |-> Context, floor |-> 5, pending |-> 3,
           revisionBound |-> TRUE, maxBatch |-> 8, latencies |-> p.latencies,
           budgetMs |-> p.budgetMs, streak |-> p.streak, loop |-> p.loop,
           validatorFailed |-> FALSE, budget |-> p.budget, observeRate |-> p.observeRate,
           recoveryRate |-> 9, reuse |-> TRUE]
  BY <1>1, <1>2, RequestFields DEF But, Request
<1>7. Context \in {None} \cup ValidatorContext
  BY DEF Context, ValidatorContext
<1>8. "low" \in Classes
  BY DEF Classes
<1> QED
  BY <1>5, <1>6, <1>7, SMTT(60) DEF AdviceContext

LEMMA EvidencesAre ==
  /\ Evidences \subseteq Evidence /\ HasLimits(Policy) /\ Influences \subseteq Influence
<1>1. /\ {None, <<4>>, <<6>>} \subseteq Optional(Nat) /\ {<<9>>} \subseteq Optional(Nat)
      /\ {None, <<4>>, <<9>>} \subseteq Optional(Nat)
      /\ {None, <<1>>, <<12>>} \subseteq Optional(Nat)
  BY DEF Optional
<1>2. ASSUME NEW e \in Evidences PROVE e \in Evidence
  <2>1. e = [operation |-> e.operation, humanGate |-> e.humanGate,
             successes |-> e.successes, shadow |-> e.shadow, stable |-> e.stable,
             partial |-> e.partial, unknown |-> e.unknown, replays |-> e.replays,
             conflicts |-> e.conflicts, validatorProven |-> e.validatorProven,
             fallbackProven |-> e.fallbackProven, class |-> e.class, p90 |-> e.p90,
             recovery |-> e.recovery]
    BY DEF Evidences
  <2>2. /\ e.successes \in Nat /\ e.shadow \in Nat /\ e.partial \in Nat
        /\ e.unknown \in Nat /\ e.replays \in Nat /\ e.conflicts \in Nat
        /\ e.class \in Classes /\ e.operation \in Operations
    BY DEF Evidences, Classes
  <2>4. /\ e.stable \in {TRUE} /\ e.fallbackProven \in {TRUE}
        /\ e.validatorProven \in BOOLEAN /\ e.humanGate \in BOOLEAN
    BY DEF Evidences
  <2>5. \A b \in {TRUE} : b \in BOOLEAN
    BY Zenon
  <2>3. e.p90 \in Optional(Nat) /\ e.recovery \in Optional(Nat)
    BY <1>1 DEF Evidences
  <2> QED
    BY <2>1, <2>2, <2>3, <2>4, <2>5 DEF Evidence
<1>3. HasLimits(Policy)
  <2>1. <<5>> \in Optional(Nat) /\ None \in Optional(Nat)
    BY DEF Optional
  <2> QED
    BY <2>1 DEF Policy, HasLimits
<1>4. ASSUME NEW t \in Influences PROVE t \in Influence
  BY <1>1 DEF Influences, Influence
<1> QED
  BY <1>2, <1>3, <1>4

LEMMA QuestionsAreContexts ==
  /\ Confident \cup Measured \subseteq AdviceContext
  /\ Influences \subseteq Influence
  /\ Evidences \subseteq Evidence /\ HasLimits(Policy)
  BY ConfidentAre, MeasuredAre, EvidencesAre

\* The gate for every context, and a teaching in front of it, whatever the numbers: what is
\* let through is above the floor, the fast path was measured fast, a learned teaching only
\* takes away, and better evidence never does.
THEOREM AdviceSound ==
  /\ \A ctx \in AdviceContext :
       /\ LiveOnlyAboveFloor(ctx) /\ FastOnlyWhenMeasured(ctx)
       /\ \A t \in Influence : TeachingOnlyTightens(ctx, t)
  /\ \A policy : \A e, f \in Evidence : \A env :
       HasLimits(policy) => ReadinessMonotone(policy, e, f, env)
<1>1. \A ctx \in AdviceContext :
        /\ LiveOnlyAboveFloor(ctx) /\ FastOnlyWhenMeasured(ctx)
        /\ \A t \in Influence : TeachingOnlyTightens(ctx, t)
  BY AuthorizedFloor, FastMeasured, TaughtTightens
<1>2. \A policy : \A e, f \in Evidence : \A env :
        HasLimits(policy) => ReadinessMonotone(policy, e, f, env)
  BY PromotionMonotone
<1> QED
  BY <1>1, <1>2

\* The question asked does not change.
LEMMA QuestionStays == MCSpec => []Asked
<1>1. MCInit => Asked
  BY DEF MCInit
<1>2. Asked /\ [MCNext]_<<reuseVars, query>> => Asked'
  <2> SUFFICES ASSUME Asked, query' = query PROVE Asked'
    BY DEF MCNext
  <2> QED
    BY DEF Asked
<1> QED
  BY <1>1, <1>2, PTL DEF MCSpec

\* The same for what MCDecisions asks: no chain of signal, teaching and gate opens an
\* optimization that the floor of risk and causal proof of its context forbids.
THEOREM LiveKeepsFloorCorrect == MCSpec => []LiveKeepsFloor
<1>1. Asked => LiveKeepsFloor
  <2>1. ASSUME Asked, Asks("advice") PROVE query.ctx \in AdviceContext
    BY <2>1, QuestionsAreContexts DEF Asked, Posed, Asks
  <2>2. ASSUME Asked, Asks("promote") PROVE query.e \in Evidence /\ query.f \in Evidence
    BY <2>2, QuestionsAreContexts DEF Asked, Posed, Asks
  <2>3. ASSUME Asked PROVE LiveKeepsFloor
    <3>1. Asks("advice") =>
            /\ LiveOnlyAboveFloor(query.ctx) /\ FastOnlyWhenMeasured(query.ctx)
            /\ \A t \in Influences : TeachingOnlyTightens(query.ctx, t)
      BY <2>1, <2>3, AdviceSound, QuestionsAreContexts
    <3>2. Asks("promote") => ReadinessMonotone(Policy, query.e, query.f, Ready1)
      BY <2>2, <2>3, PromotionMonotone, QuestionsAreContexts
    <3> QED
      BY <3>1, <3>2 DEF LiveKeepsFloor
  <2> QED
    BY <2>3
<1> QED
  BY <1>1, QuestionStays, PTL

\* Counting up to N.
LEMMA CountUp ==
  ASSUME NEW N \in Nat, NEW S, 0 \in S, \A n \in 0 .. N - 1 : n \in S => n + 1 \in S
  PROVE  \A n \in 0 .. N : n \in S
<1> DEFINE Bad == {n \in 0 .. N : n \notin S}
<1>1. SUFFICES ASSUME Bad # {} PROVE FALSE
  OBVIOUS
<1> DEFINE m == Min(Bad)
<1>2. m \in Bad /\ \A n \in Bad : m <= n
  <2> HIDE DEF Bad
  <2>1. Bad \subseteq Nat
    BY DEF Bad
  <2> QED
    BY <1>1, <2>1, MinOfNumbers
<1> HIDE DEF m
<1>3. m \in 0 .. N /\ m \notin S /\ m # 0
  BY <1>2
<1>4. m - 1 \in 0 .. N - 1 /\ m - 1 + 1 = m
  BY <1>3
<1>5. m - 1 \in S
  <2>1. m - 1 \in 0 .. N /\ ~(m <= m - 1)
    BY <1>3
  <2> QED
    BY <1>2, <2>1
<1> QED
  BY <1>3, <1>4, <1>5

\* f applies F[1], F[2], ... in turn, from base.
Applies(f, V, base, F, N) ==
  /\ f \in [0 .. N -> V]
  /\ f[0] = base
  /\ \A n \in 1 .. N : f[n] = F[n][f[n - 1]]

\* What is folded over has a history.
LEMMA Folded ==
  ASSUME NEW V, NEW base, base \in V, NEW N \in Nat, NEW F, F \in [1 .. N -> [V -> V]]
  PROVE  \E f : Applies(f, V, base, F, N)
<1> DEFINE Runs(m, f) == f[0] = base /\ \A n \in 1 .. m : f[n] = F[n][f[n - 1]]
           S == {m \in 0 .. N : \E f \in [0 .. m -> V] : Runs(m, f)}
<1>1. 0 \in S
  <2> DEFINE f == [n \in 0 .. 0 |-> base]
  <2>1. f \in [0 .. 0 -> V] /\ Runs(0, f)
    OBVIOUS
  <2> HIDE DEF f, Runs
  <2> QED
    BY <2>1
<1>2. ASSUME NEW m \in 0 .. N - 1, m \in S PROVE m + 1 \in S
  <2>1. PICK f \in [0 .. m -> V] : Runs(m, f)
    BY <1>2
  <2> DEFINE v == F[m + 1][f[m]]
             g == [n \in 0 .. m + 1 |-> IF n <= m THEN f[n] ELSE v]
  <2>2. m + 1 \in 1 .. N /\ m + 1 \in 0 .. N /\ f[m] \in V
    OBVIOUS
  <2>3. v \in V
    <3>1. F[m + 1] \in [V -> V]
      BY <2>2
    <3> QED
      BY <2>2, <3>1
  <2> HIDE DEF v
  <2>4. g \in [0 .. m + 1 -> V]
    BY <2>3
  <2>5. g[0] = base
    BY <2>1
  <2>6. ASSUME NEW n \in 1 .. m + 1 PROVE g[n] = F[n][g[n - 1]]
    <3>1. CASE n <= m
      <4>1. n \in 1 .. m /\ n \in 0 .. m + 1 /\ n - 1 \in 0 .. m + 1 /\ n - 1 <= m
        BY <3>1
      <4>2. g[n] = f[n] /\ g[n - 1] = f[n - 1]
        BY <3>1, <4>1
      <4> QED
        BY <2>1, <4>1, <4>2
    <3>2. CASE n = m + 1
      <4>1. n \in 0 .. m + 1 /\ n - 1 = m /\ m \in 0 .. m + 1 /\ ~(n <= m) /\ m <= m
        BY <3>2
      <4>2. g[n] = v /\ g[n - 1] = f[m]
        BY <4>1
      <4> HIDE DEF g
      <4> QED
        BY <3>2, <4>2 DEF v
    <3> QED
      BY <3>1, <3>2
  <2> HIDE DEF g
  <2>7. Runs(m + 1, g)
    BY <2>5, <2>6
  <2> HIDE DEF Runs
  <2> QED
    BY <2>2, <2>4, <2>7
<1>3. \A n \in 0 .. N : n \in S
  <2> HIDE DEF S
  <2> QED
    BY <1>1, <1>2, CountUp
<1>4. N \in S
  BY <1>3
<1> QED
  BY <1>4 DEF Applies

\* f applies F again and again, from base.
Repeats(f, V, base, F, N) ==
  /\ f \in [0 .. N -> V]
  /\ f[0] = base
  /\ \A n \in 1 .. N : f[n] = F[f[n - 1]]

\* A function applied N times, as a function of the number of times.
LEMMA Repeated ==
  ASSUME NEW V, NEW base, base \in V, NEW F, F \in [V -> V], NEW N \in Nat
  PROVE  \E f : Repeats(f, V, base, F, N)
<1> DEFINE G == [n \in 1 .. N |-> F]
<1>1. G \in [1 .. N -> [V -> V]] /\ \A n \in 1 .. N : G[n] = F
  OBVIOUS
<1> HIDE DEF G
<1>2. PICK f : Applies(f, V, base, G, N)
  BY <1>1, Folded
<1> QED
  BY <1>1, <1>2 DEF Applies, Repeats

-----------------------------------------------------------------------------
(***************************************************************************)
(* The selections (Selection), for any number of events, items, edges and  *)
(* actions.  What they sort, they sort by a strict total order; a member   *)
(* of a sorted set is where as many are before it as its place says.       *)
(***************************************************************************)
StrictTotal(S, before) ==
  /\ \A x \in S : <<x, x>> \notin before
  /\ \A x, y, z \in S : <<x, y>> \in before /\ <<y, z>> \in before => <<x, z>> \in before
  /\ \A x, y \in S : x # y => <<x, y>> \in before \/ <<y, x>> \in before

\* Those of S before x
Below(S, before, x) == {y \in S : <<y, x>> \in before}

\* In a strict total order, x is before y exactly when fewer are before x than before y.
LEMMA BelowOf ==
  ASSUME NEW S, IsFiniteSet(S), NEW before, StrictTotal(S, before)
  PROVE  /\ \A x \in S : /\ IsFiniteSet(Below(S, before, x))
                         /\ Cardinality(Below(S, before, x)) \in 0 .. (Cardinality(S) - 1)
         /\ \A x, y \in S : <<x, y>> \in before <=>
              Cardinality(Below(S, before, x)) < Cardinality(Below(S, before, y))
<1>1. ASSUME NEW x \in S
      PROVE  /\ IsFiniteSet(Below(S, before, x))
             /\ Cardinality(Below(S, before, x)) \in 0 .. (Cardinality(S) - 1)
  <2>1. Below(S, before, x) \in SUBSET (S \ {x})
    BY DEF Below, StrictTotal
  <2>2. IsFiniteSet(S \ {x}) /\ Cardinality(S \ {x}) = Cardinality(S) - 1
    BY FS_RemoveElement
  <2>3. /\ IsFiniteSet(Below(S, before, x))
        /\ Cardinality(Below(S, before, x)) <= Cardinality(S) - 1
    BY <2>1, <2>2, FS_Subset
  <2>4. Cardinality(Below(S, before, x)) \in Nat /\ Cardinality(S) \in Nat
    BY <2>3, FS_CardinalityType
  <2> QED
    BY <2>3, <2>4
<1>2. ASSUME NEW x \in S, NEW y \in S, <<x, y>> \in before
      PROVE  Cardinality(Below(S, before, x)) < Cardinality(Below(S, before, y))
  <2>1. Below(S, before, x) \cup {x} \in SUBSET Below(S, before, y) /\ x \notin Below(S, before, x)
    BY <1>2 DEF Below, StrictTotal
  <2>2. IsFiniteSet(Below(S, before, x)) /\ IsFiniteSet(Below(S, before, y))
    BY <1>1
  <2>3. Cardinality(Below(S, before, x) \cup {x}) = Cardinality(Below(S, before, x)) + 1
    BY <2>1, <2>2, FS_AddElement
  <2>4. Cardinality(Below(S, before, x) \cup {x}) <= Cardinality(Below(S, before, y))
    BY <2>1, <2>2, FS_Subset
  <2>5. Cardinality(Below(S, before, x)) \in Nat /\ Cardinality(Below(S, before, y)) \in Nat
    BY <2>2, FS_CardinalityType
  <2> QED
    BY <2>3, <2>4, <2>5
<1>3. ASSUME NEW x \in S, NEW y \in S,
             Cardinality(Below(S, before, x)) < Cardinality(Below(S, before, y))
      PROVE  <<x, y>> \in before
  <2>1. Cardinality(Below(S, before, x)) \in Nat /\ Cardinality(Below(S, before, y)) \in Nat
    BY <1>1, FS_CardinalityType
  <2>2. x # y
    BY <1>3, <2>1
  <2>3. CASE <<y, x>> \in before
    BY <1>2, <1>3, <2>1, <2>3
  <2> QED
    BY <2>2, <2>3 DEF StrictTotal
<1> QED
  BY <1>1, <1>2, <1>3

\* A sorted set holds each member once, in order.
LEMMA SortedOf ==
  ASSUME NEW S, IsFiniteSet(S), NEW before, StrictTotal(S, before)
  PROVE  LET s == Sorted(S, before)
         IN /\ s \in Seq(S) /\ Len(s) = Cardinality(S) /\ DOMAIN s = 1 .. Cardinality(S)
            /\ \A x \in S : \E p \in DOMAIN s : s[p] = x
            /\ \A p \in DOMAIN s : Cardinality(Below(S, before, s[p])) = p - 1
            /\ \A p, q \in DOMAIN s : p < q <=> <<s[p], s[q]>> \in before
            /\ \A p, q \in DOMAIN s : s[p] = s[q] => p = q
<1> DEFINE n == Cardinality(S)
           s == Sorted(S, before)
           rank == [x \in S |-> Cardinality(Below(S, before, x)) + 1]
<1>1. n \in Nat /\ IsFiniteSet(1 .. n) /\ Cardinality(1 .. n) = n
  BY FS_CardinalityType, FS_Interval
<1>2. rank \in [S -> 1 .. n]
  BY <1>1, BelowOf
<1>3. \A x, y \in S : rank[x] = rank[y] => x = y
  <2> SUFFICES ASSUME NEW x \in S, NEW y \in S, rank[x] = rank[y], x # y PROVE FALSE
    OBVIOUS
  <2>1. <<x, y>> \in before \/ <<y, x>> \in before
    BY DEF StrictTotal
  <2>2. /\ Cardinality(Below(S, before, x)) \in Int /\ Cardinality(Below(S, before, y)) \in Int
        /\ \/ Cardinality(Below(S, before, x)) < Cardinality(Below(S, before, y))
           \/ Cardinality(Below(S, before, y)) < Cardinality(Below(S, before, x))
    BY <1>1, <2>1, BelowOf
  <2>3. Cardinality(Below(S, before, x)) + 1 = Cardinality(Below(S, before, y)) + 1
    OBVIOUS
  <2> QED
    BY <2>2, <2>3
<1>4. rank \in Surjection(S, 1 .. n)
  <2> HIDE DEF rank
  <2>1. rank \in Injection(S, 1 .. n)
    BY <1>2, <1>3, Fun_IsInj
  <2> QED
    BY <1>1, <2>1, FS_Injection
<1>5. \A p \in 1 .. n : \E x \in S : rank[x] = p
  <2> HIDE DEF rank
  <2> QED
    BY <1>4, Fun_SurjectionProperties
<1>6. DOMAIN s = 1 .. n /\ Len(s) = n
  BY <1>1 DEF Sorted
<1>7. ASSUME NEW p \in 1 .. n
      PROVE  s[p] \in S /\ Cardinality(Below(S, before, s[p])) = p - 1
  <2>1. PICK x \in S : Cardinality(Below(S, before, x)) + 1 = p
    BY <1>5
  <2>2. Cardinality(Below(S, before, x)) = p - 1
    BY <1>1, <2>1, BelowOf
  <2>3. s[p] = CHOOSE y \in S : Cardinality(Below(S, before, y)) = p - 1
    BY DEF Sorted, Below
  <2> HIDE DEF s
  <2> QED
    BY <2>2, <2>3
<1>8. s \in Seq(S)
  <2>1. s = [p \in 1 .. n |-> s[p]]
    <3> DEFINE Nth(p) == CHOOSE x \in S : Cardinality({y \in S : <<y, x>> \in before}) = p - 1
    <3>1. s = [p \in 1 .. n |-> Nth(p)]
      BY DEF Sorted
    <3> HIDE DEF Nth, s
    <3> QED
      BY <3>1
  <2> HIDE DEF s
  <2>2. s \in [1 .. n -> S]
    BY <1>7, <2>1
  <2> QED
    BY <1>1, <2>2
<1> HIDE DEF s
<1>9. \A p, q \in 1 .. n : p < q <=> <<s[p], s[q]>> \in before
  <2> SUFFICES ASSUME NEW p \in 1 .. n, NEW q \in 1 .. n PROVE p < q <=> <<s[p], s[q]>> \in before
    OBVIOUS
  <2>1. p < q <=> p - 1 < q - 1
    BY <1>1
  <2> QED
    BY <1>7, <2>1, BelowOf
<1>10. \A p, q \in 1 .. n : s[p] = s[q] => p = q
  <2> SUFFICES ASSUME NEW p \in 1 .. n, NEW q \in 1 .. n, s[p] = s[q] PROVE p = q
    OBVIOUS
  <2>1. p - 1 = q - 1
    BY <1>7
  <2> QED
    BY <1>1, <2>1
<1>11. \A x \in S : \E p \in 1 .. n : s[p] = x
  <2> SUFFICES ASSUME NEW x \in S PROVE s[rank[x]] = x /\ rank[x] \in 1 .. n
    BY <1>2
  <2>1. rank[x] \in 1 .. n
    BY <1>2
  <2>2. s[rank[x]] \in S /\ Cardinality(Below(S, before, s[rank[x]])) = rank[x] - 1
    BY <1>7, <2>1
  <2>3. rank[s[rank[x]]] = rank[x]
    BY <1>1, <2>1, <2>2
  <2> QED
    BY <1>3, <2>1, <2>2, <2>3
<1> QED
  BY <1>6, <1>7, <1>8, <1>9, <1>10, <1>11 DEF s

\* s lists S in the order of before.
Lists(s, S, before) ==
  /\ DOMAIN s = 1 .. Cardinality(S) /\ s = [p \in DOMAIN s |-> s[p]]
  /\ \A p \in DOMAIN s : s[p] \in S
  /\ \A x \in S : \E p \in DOMAIN s : s[p] = x
  /\ \A p, q \in DOMAIN s : p < q => <<s[p], s[q]>> \in before

\* There is one such list.
LEMMA SortedUnique ==
  ASSUME NEW S, IsFiniteSet(S), NEW before, StrictTotal(S, before),
         NEW s, Lists(s, S, before)
  PROVE  s = Sorted(S, before)
<1> USE DEF Lists
<1> DEFINE n == Cardinality(S)
           t == Sorted(S, before)
<1>1. n \in Nat
  BY FS_CardinalityType
<1>2. /\ DOMAIN t = 1 .. n /\ t \in Seq(S) /\ \A p \in 1 .. n : t[p] \in S
      /\ \A p \in 1 .. n : Cardinality(Below(S, before, t[p])) = p - 1
      /\ \A x \in S : \E p \in 1 .. n : t[p] = x
  <2>1. /\ t \in Seq(S) /\ Len(t) = n /\ DOMAIN t = 1 .. n
        /\ \A x \in S : \E p \in DOMAIN t : t[p] = x
        /\ \A p \in DOMAIN t : Cardinality(Below(S, before, t[p])) = p - 1
    BY SortedOf
  <2> HIDE DEF t
  <2>2. \A p \in 1 .. n : t[p] \in S
    BY <1>1, <2>1, ElementOfSeq
  <2> QED
    BY <1>1, <2>1, <2>2
<1>3. ASSUME NEW p \in 1 .. n PROVE Cardinality(Below(S, before, s[p])) = p - 1
  <2>1. \A q \in 1 .. n : <<s[q], s[p]>> \in before <=> q < p
    <3> SUFFICES ASSUME NEW q \in 1 .. n, <<s[q], s[p]>> \in before, ~(q < p) PROVE FALSE
      OBVIOUS
    <3>1. q = p \/ p < q
      BY <1>1
    <3>2. <<s[p], s[p]>> \in before
      BY <3>1 DEF StrictTotal
    <3> QED
      BY <3>2 DEF StrictTotal
  <2> DEFINE f == [q \in 1 .. (p - 1) |-> s[q]]
             B == Below(S, before, s[p])
  <2>2. \A q \in 1 .. (p - 1) : q \in 1 .. n /\ q < p
    BY <1>1
  <2>3. f \in [1 .. (p - 1) -> B]
    BY <2>1, <2>2 DEF Below
  <2>4. \A x \in B : \E q \in 1 .. (p - 1) : f[q] = x
    <3> SUFFICES ASSUME NEW x \in S, <<x, s[p]>> \in before
                 PROVE  \E q \in 1 .. (p - 1) : s[q] = x
      BY DEF Below
    <3>1. PICK q \in 1 .. n : s[q] = x
      OBVIOUS
    <3>2. q < p
      BY <2>1, <3>1
    <3> QED
      BY <1>1, <3>1, <3>2
  <2>5. \A q, r \in 1 .. (p - 1) : f[q] = f[r] => q = r
    <3> SUFFICES ASSUME NEW q \in 1 .. (p - 1), NEW r \in 1 .. (p - 1), s[q] = s[r], q # r
                 PROVE  FALSE
      OBVIOUS
    <3>1. q < r \/ r < q
      BY <1>1
    <3>2. <<s[q], s[r]>> \in before \/ <<s[r], s[q]>> \in before
      BY <2>2, <3>1
    <3> QED
      BY <2>2, <3>2 DEF StrictTotal
  <2> HIDE DEF f, B
  <2>6. ExistsBijection(1 .. (p - 1), B)
    <3>1. f \in Bijection(1 .. (p - 1), B)
      BY <2>3, <2>4, <2>5, Fun_IsBij
    <3> QED
      BY <3>1 DEF ExistsBijection
  <2>7. IsFiniteSet(1 .. (p - 1)) /\ Cardinality(1 .. (p - 1)) = p - 1
    <3>1. p - 1 \in Nat
      BY <1>1
    <3> DEFINE m == p - 1
    <3> HIDE DEF m
    <3>2. m \in Nat
      BY <3>1 DEF m
    <3>3. 1 \in Int /\ m \in Int
      BY <3>2
    <3>4. /\ IsFiniteSet(1 .. m)
          /\ Cardinality(1 .. m) = IF 1 > m THEN 0 ELSE m - 1 + 1
      BY <3>3, FS_Interval
    <3>5. IsFiniteSet(1 .. m) /\ Cardinality(1 .. m) = m
      BY <3>2, <3>4
    <3> QED
      BY <3>5 DEF m
  <2>8. Cardinality(B) = p - 1
    BY <2>6, <2>7, FS_Bijection
  <2> QED
    BY <2>8 DEF B
<1>4. \A p \in 1 .. n : s[p] = t[p]
  <2> SUFFICES ASSUME NEW p \in 1 .. n, s[p] # t[p] PROVE FALSE
    OBVIOUS
  <2>1. s[p] \in S /\ t[p] \in S
    BY <1>2
  <2>2. <<s[p], t[p]>> \in before \/ <<t[p], s[p]>> \in before
    BY <2>1 DEF StrictTotal
  <2>3. /\ Cardinality(Below(S, before, s[p])) = p - 1
        /\ Cardinality(Below(S, before, t[p])) = p - 1
    BY <1>2, <1>3
  <2>4. \/ Cardinality(Below(S, before, s[p])) < Cardinality(Below(S, before, t[p]))
        \/ Cardinality(Below(S, before, t[p])) < Cardinality(Below(S, before, s[p]))
    BY <2>1, <2>2, BelowOf
  <2> QED
    BY <1>1, <2>3, <2>4
<1> HIDE DEF t
<1>5. t = [p \in 1 .. n |-> t[p]]
  BY <1>2
<1> QED
  BY <1>4, <1>5 DEF t

\* The positions of a sequence, or numbers, in ascending order.
LEMMA AscendingOf ==
  ASSUME NEW S, S \subseteq Nat, IsFiniteSet(S)
  PROVE  LET s == Ascending(S)
         IN /\ s \in Seq(S) /\ Len(s) = Cardinality(S) /\ DOMAIN s = 1 .. Cardinality(S)
            /\ \A x \in S : \E p \in DOMAIN s : s[p] = x
            /\ \A p, q \in DOMAIN s : p < q <=> s[p] < s[q]
            /\ \A p, q \in DOMAIN s : s[p] = s[q] => p = q
<1> DEFINE before == {p \in S \X S : p[1] < p[2]}
<1>1. \A x, y \in S : <<x, y>> \in before <=> x < y
  OBVIOUS
<1> HIDE DEF before
<1>2. StrictTotal(S, before)
  BY <1>1 DEF StrictTotal
<1>3. Ascending(S) = Sorted(S, before)
  BY DEF Ascending, before
<1> DEFINE s == Sorted(S, before)
<1>4. /\ s \in Seq(S) /\ Len(s) = Cardinality(S) /\ DOMAIN s = 1 .. Cardinality(S)
      /\ \A x \in S : \E p \in DOMAIN s : s[p] = x
      /\ \A p, q \in DOMAIN s : p < q <=> <<s[p], s[q]>> \in before
      /\ \A p, q \in DOMAIN s : s[p] = s[q] => p = q
  BY <1>2, SortedOf
<1> HIDE DEF s
<1>5. ASSUME NEW p \in DOMAIN s, NEW q \in DOMAIN s PROVE p < q <=> s[p] < s[q]
  <2>1. s[p] \in S /\ s[q] \in S
    BY <1>4
  <2> QED
    BY <1>1, <1>4, <2>1
<1> QED
  BY <1>3, <1>4, <1>5 DEF s

(***************************************************************************)
(* arbitrate(), for any events that have numbers and ids of their own.     *)
(***************************************************************************)
Arrived(events) ==
  /\ \A i \in DOMAIN events : events[i].id \in Nat /\ events[i].priority \in Nat
  /\ \A i, j \in DOMAIN events : events[i].id = events[j].id => i = j

Candidates(events) == {events[i] : i \in DOMAIN events \ Rejected(events)}
RejectedEvents(events) == {events[i] : i \in Rejected(events)}
IdsIn(E) == {e.id : e \in E}
Foremost(E) == {p \in E \X E : Before(p[1], p[2])}

\* The order in which the candidates are handled does not depend on their positions.
LEMMA RankedIs ==
  ASSUME NEW X, NEW events \in Seq(X), Arrived(events)
  PROVE  LET E == Candidates(events)
         IN /\ IsFiniteSet(E) /\ StrictTotal(E, Foremost(E))
            /\ Cardinality(E) = Cardinality(DOMAIN events \ Rejected(events))
            /\ Ranked(events) = Sorted(E, Foremost(E))
<1> DEFINE kept == DOMAIN events \ Rejected(events)
           E == Candidates(events)
           before == Foremost(E)
           earlier == {p \in kept \X kept :
                         \/ Before(events[p[1]], events[p[2]])
                         \/ ~Before(events[p[2]], events[p[1]]) /\ p[1] < p[2]}
           ps == Sorted(kept, earlier)
           r == At(events, ps)
<1>1. DOMAIN events = 1 .. Len(events) /\ Len(events) \in Nat
  OBVIOUS
<1>2. IsFiniteSet(DOMAIN events) /\ IsFiniteSet(kept) /\ kept \subseteq DOMAIN events
  <2>1. IsFiniteSet(DOMAIN events)
    BY <1>1, FS_Interval
  <2> QED
    BY <2>1, FS_Difference
<1>3. \A i, j \in kept : /\ events[i].id \in Nat /\ events[i].priority \in Nat /\ i \in Nat
                         /\ events[i].id = events[j].id => i = j
                         /\ events[i] = events[j] => i = j
  BY <1>1, <1>2 DEF Arrived
<1>4. E = {events[i] : i \in kept}
  BY DEF Candidates
<1>5. \A i, j \in kept : <<i, j>> \in earlier <=> Before(events[i], events[j])
  <2> SUFFICES ASSUME NEW i \in kept, NEW j \in kept
               PROVE  <<i, j>> \in earlier <=> Before(events[i], events[j])
    OBVIOUS
  <2>1. <<i, j>> \in earlier <=> \/ Before(events[i], events[j])
                                 \/ ~Before(events[j], events[i]) /\ i < j
    OBVIOUS
  <2> HIDE DEF earlier
  <2>2. i < j => i # j
    BY <1>3
  <2> HIDE DEF kept
  <2>3. i # j /\ ~Before(events[j], events[i]) => Before(events[i], events[j])
    BY <1>3 DEF Before
  <2> QED
    BY <2>1, <2>2, <2>3
<1>6. \A x, y \in E : <<x, y>> \in before <=> Before(x, y)
  BY DEF Foremost
<1> HIDE DEF earlier, before, kept, E
<1>7. StrictTotal(kept, earlier)
  <2>1. \A i \in kept : <<i, i>> \notin earlier
    BY <1>3, <1>5 DEF Before
  <2>2. \A i, j, k \in kept : <<i, j>> \in earlier /\ <<j, k>> \in earlier => <<i, k>> \in earlier
    <3> SUFFICES ASSUME NEW i \in kept, NEW j \in kept, NEW k \in kept,
                        Before(events[i], events[j]), Before(events[j], events[k])
                 PROVE  Before(events[i], events[k])
      BY <1>5
    <3> QED
      BY <1>3 DEF Before
  <2>3. \A i, j \in kept : i # j => <<i, j>> \in earlier \/ <<j, i>> \in earlier
    BY <1>3, <1>5 DEF Before
  <2> QED
    BY <2>1, <2>2, <2>3 DEF StrictTotal
<1>8. \A i, j \in kept : <<events[i], events[j]>> \in before <=> <<i, j>> \in earlier
  BY <1>4, <1>5, <1>6
<1>9. StrictTotal(E, before)
  <2>1. \A x \in E : \E i \in kept : x = events[i]
    BY <1>4
  <2> QED
    BY <1>7, <1>8, <2>1 DEF StrictTotal
<1>10. IsFiniteSet(E) /\ Cardinality(E) = Cardinality(kept)
  <2> DEFINE f == [i \in kept |-> events[i]]
  <2>1. f \in [kept -> E] /\ (\A i, j \in kept : f[i] = f[j] => i = j)
    BY <1>3, <1>4
  <2>2. \A x \in E : \E i \in kept : f[i] = x
    BY <1>4
  <2> HIDE DEF f
  <2>3. f \in Bijection(kept, E)
    BY <2>1, <2>2, Fun_IsBij
  <2> QED
    BY <1>2, <2>3, FS_Bijection DEF ExistsBijection
<1>11. /\ ps \in Seq(kept) /\ DOMAIN ps = 1 .. Cardinality(kept)
       /\ Len(ps) = Cardinality(kept)
       /\ \A i \in kept : \E p \in DOMAIN ps : ps[p] = i
       /\ \A p, q \in DOMAIN ps : p < q <=> <<ps[p], ps[q]>> \in earlier
  BY <1>2, <1>7, SortedOf
<1> HIDE DEF ps
<1>12. /\ DOMAIN r = 1 .. Cardinality(E) /\ r = [p \in DOMAIN r |-> r[p]]
       /\ \A p \in DOMAIN r : ps[p] \in kept /\ r[p] = events[ps[p]]
  BY <1>10, <1>11 DEF At
<1>13. \A p \in DOMAIN r : r[p] \in E
  BY <1>4, <1>12
<1>14. \A x \in E : \E p \in DOMAIN r : r[p] = x
  <2> SUFFICES ASSUME NEW i \in kept PROVE \E p \in DOMAIN r : r[p] = events[i]
    BY <1>4
  <2>1. PICK p \in DOMAIN ps : ps[p] = i
    BY <1>11
  <2> QED
    BY <1>10, <1>11, <1>12, <2>1
<1>15. ASSUME NEW p \in DOMAIN r, NEW q \in DOMAIN r, p < q
       PROVE  <<r[p], r[q]>> \in before
  <2>1. p \in DOMAIN ps /\ q \in DOMAIN ps
    BY <1>10, <1>11, <1>12
  <2>2. <<ps[p], ps[q]>> \in earlier
    BY <1>11, <1>15, <2>1
  <2>3. /\ ps[p] \in kept /\ ps[q] \in kept
        /\ r[p] = events[ps[p]] /\ r[q] = events[ps[q]]
    BY <1>12
  <2> QED
    BY <1>8, <2>2, <2>3
<1>16. Ranked(events) = r
  BY DEF Ranked, ps, earlier, kept
<1> HIDE DEF r
<1>17. r = Sorted(E, before)
  <2>1. Lists(r, E, before)
    BY <1>12, <1>13, <1>14, <1>15 DEF Lists
  <2> QED
    BY <1>9, <1>10, <2>1, SortedUnique
<1> QED
  BY <1>9, <1>10, <1>16, <1>17 DEF before, E, kept

\* The rejected are listed as they came, and no one else.
LEMMA RejectedIs ==
  ASSUME NEW X, NEW events \in Seq(X)
  PROVE  LET s == At(events, Ascending(Rejected(events)))
         IN /\ s \in Seq(X) /\ Len(s) = Cardinality(Rejected(events))
            /\ ToSet(s) = RejectedEvents(events)
            /\ IsFiniteSet(Rejected(events)) /\ Rejected(events) \subseteq DOMAIN events
<1> DEFINE R == Rejected(events)
           ps == Ascending(R)
           s == At(events, ps)
<1>1. DOMAIN events = 1 .. Len(events) /\ Len(events) \in Nat /\ R \in SUBSET DOMAIN events
  BY DEF Rejected
<1>2. IsFiniteSet(R) /\ R \subseteq Nat
  <2>1. IsFiniteSet(DOMAIN events)
    BY <1>1, FS_Interval
  <2> QED
    BY <1>1, <2>1, FS_Subset
<1> HIDE DEF R
<1>3. /\ ps \in Seq(R) /\ Len(ps) = Cardinality(R) /\ DOMAIN ps = 1 .. Cardinality(R)
      /\ \A i \in R : \E p \in DOMAIN ps : ps[p] = i
  BY <1>2, AscendingOf
<1>4. Cardinality(R) \in Nat
  BY <1>2, FS_CardinalityType
<1> HIDE DEF ps
<1>5. \A p \in DOMAIN ps : ps[p] \in R /\ events[ps[p]] \in X
  <2>1. \A p \in DOMAIN ps : ps[p] \in R
    BY <1>3, <1>4, ElementOfSeq
  <2> QED
    BY <1>1, <2>1
<1>6. s = [p \in 1 .. Cardinality(R) |-> events[ps[p]]]
  BY <1>3 DEF At
<1> HIDE DEF s
<1>7. s \in Seq(X) /\ Len(s) = Cardinality(R)
  <2>1. \A p \in 1 .. Cardinality(R) : events[ps[p]] \in X
    BY <1>3, <1>5
  <2> DEFINE n == Cardinality(R)
             e == [p \in 1 .. n |-> events[ps[p]]]
  <2>2. n \in Nat /\ e \in [1 .. n -> X]
    BY <1>4, <2>1
  <2>3. s = e
    BY <1>6
  <2> HIDE DEF n, e
  <2>4. s \in Seq(X) /\ Len(s) = n
    BY <2>2, <2>3
  <2> QED
    BY <2>4 DEF n
<1>8. ToSet(s) = {events[i] : i \in R}
  <2>1. \A p \in 1 .. Cardinality(R) : s[p] = events[ps[p]] /\ ps[p] \in R
    BY <1>3, <1>5, <1>6
  <2>2. DOMAIN s = 1 .. Cardinality(R)
    BY <1>6
  <2>3. \A i \in R : \E p \in 1 .. Cardinality(R) : s[p] = events[i]
    BY <1>3, <2>1
  <2>4. ToSet(s) = {s[p] : p \in 1 .. Cardinality(R)}
    BY <2>2 DEF ToSet
  <2> QED
    BY <2>1, <2>3, <2>4
<1> QED
  BY <1>1, <1>2, <1>7, <1>8 DEF s, ps, R, RejectedEvents

\* The events in another order.
LEMMA Reordered ==
  ASSUME NEW X, NEW events \in Seq(X), Arrived(events),
         NEW q \in [DOMAIN events -> DOMAIN events],
         \A i, j \in DOMAIN events : q[i] = q[j] => i = j
  PROVE  LET other == [i \in DOMAIN events |-> events[q[i]]]
         IN /\ other \in Seq(X) /\ Arrived(other)
            /\ Candidates(other) = Candidates(events)
            /\ RejectedEvents(other) = RejectedEvents(events)
<1> DEFINE other == [i \in DOMAIN events |-> events[q[i]]]
<1>1. DOMAIN events = 1 .. Len(events) /\ Len(events) \in Nat
  OBVIOUS
<1>2. \A j \in DOMAIN events : \E i \in DOMAIN events : q[i] = j
  <2>1. IsFiniteSet(DOMAIN events)
    BY <1>1, FS_Interval
  <2>2. q \in Injection(DOMAIN events, DOMAIN events)
    BY Fun_IsInj
  <2>3. q \in Surjection(DOMAIN events, DOMAIN events)
    BY <2>1, <2>2, FS_Injection
  <2> QED
    BY <2>3, Fun_SurjectionProperties
<1>3. other \in Seq(X) /\ DOMAIN other = DOMAIN events
  BY <1>1
<1>4. \A i \in DOMAIN events : other[i] = events[q[i]] /\ q[i] \in DOMAIN events
  OBVIOUS
<1> HIDE DEF other
<1>5. Arrived(other)
  BY <1>3, <1>4 DEF Arrived
<1>6. \A i \in DOMAIN events : i \in Rejected(other) <=> q[i] \in Rejected(events)
  BY <1>3, <1>4 DEF Rejected
<1>7. Rejected(other) \subseteq DOMAIN events /\ Rejected(events) \subseteq DOMAIN events
  BY <1>3 DEF Rejected
<1>8. Candidates(other) = Candidates(events)
  <2>1. ASSUME NEW i \in DOMAIN events, i \notin Rejected(other)
        PROVE  other[i] \in Candidates(events)
    BY <1>4, <1>6, <2>1 DEF Candidates
  <2>2. ASSUME NEW j \in DOMAIN events, j \notin Rejected(events)
        PROVE  events[j] \in Candidates(other)
    <3>1. PICK i \in DOMAIN events : q[i] = j
      BY <1>2
    <3>2. i \notin Rejected(other) /\ other[i] = events[j]
      BY <1>4, <1>6, <2>2, <3>1
    <3> QED
      BY <1>3, <3>2 DEF Candidates
  <2> QED
    BY <1>3, <2>1, <2>2 DEF Candidates
<1>9. RejectedEvents(other) = RejectedEvents(events)
  <2>1. ASSUME NEW i \in Rejected(other)
        PROVE  \E j \in Rejected(events) : other[i] = events[j]
    BY <1>4, <1>6, <1>7
  <2>2. ASSUME NEW j \in Rejected(events)
        PROVE  \E i \in Rejected(other) : other[i] = events[j]
    <3>1. PICK i \in DOMAIN events : q[i] = j
      BY <1>2, <1>7
    <3> QED
      BY <1>4, <1>6, <1>7, <3>1
  <2> QED
    BY <2>1, <2>2 DEF RejectedEvents
<1> QED
  BY <1>3, <1>5, <1>8, <1>9 DEF other

\* The ids of a list, as a list and as a set.
LEMMA IdsOfSeq ==
  ASSUME NEW X, NEW s \in Seq(X)
  PROVE  /\ IdsOf(s) \in Seq(IdsIn(X)) /\ Len(IdsOf(s)) = Len(s)
         /\ ToSet(IdsOf(s)) = IdsIn(ToSet(s))
         /\ \A i \in 1 .. Len(s) : IdsOf(s)[i] = s[i].id
<1>1. DOMAIN s = 1 .. Len(s) /\ Len(s) \in Nat /\ \A i \in 1 .. Len(s) : s[i] \in X
  OBVIOUS
<1>2. IdsOf(s) = [i \in 1 .. Len(s) |-> s[i].id]
  BY <1>1 DEF IdsOf
<1>3. \A i \in 1 .. Len(s) : s[i].id \in IdsIn(X)
  BY <1>1 DEF IdsIn
<1>4. IdsOf(s) \in Seq(IdsIn(X)) /\ Len(IdsOf(s)) = Len(s)
  BY <1>1, <1>2, <1>3
<1>5. ToSet(IdsOf(s)) = IdsIn(ToSet(s))
  <2>1. ToSet(IdsOf(s)) = {s[i].id : i \in 1 .. Len(s)}
    BY <1>2 DEF ToSet
  <2>2. ToSet(s) = {s[i] : i \in 1 .. Len(s)}
    BY <1>1 DEF ToSet
  <2> QED
    BY <2>1, <2>2 DEF IdsIn
<1> QED
  BY <1>2, <1>4, <1>5

\* What is selected and deferred, behind one another, are the candidates in order.
LEMMA VerdictOf ==
  ASSUME NEW X, NEW events \in Seq(X), Arrived(events), NEW safe \in BOOLEAN, NEW held
  PROVE  LET verdict == Arbitrate(events, safe, held)
             Y == IdsIn(X)
         IN /\ verdict.selected \in Seq(Y) /\ verdict.deferred \in Seq(Y)
            /\ verdict.rejected \in Seq(Y)
            /\ verdict.selected # <<>> => safe
            /\ verdict.selected \o verdict.deferred = IdsOf(Ranked(events))
            /\ Len(verdict.rejected) = Cardinality(Rejected(events))
            /\ ToSet(verdict.rejected) = IdsIn(RejectedEvents(events))
            /\ Ranked(events) \in Seq(X)
<1> DEFINE verdict == Arbitrate(events, safe, held)
           Y == IdsIn(X)
           E == Candidates(events)
           r == Ranked(events)
           top == IF safe /\ r # <<>> THEN <<Head(r)>> ELSE <<>>
           rest == IF top = <<>> THEN r ELSE Tail(r)
<1>1. r \in Seq(X)
  <2>1. IsFiniteSet(E) /\ StrictTotal(E, Foremost(E)) /\ r = Sorted(E, Foremost(E))
    BY RankedIs
  <2>2. Sorted(E, Foremost(E)) \in Seq(E)
    BY <2>1, SortedOf
  <2>3. E \subseteq X
    BY DEF Candidates
  <2> HIDE DEF r, E
  <2> QED
    BY <2>1, <2>2, <2>3, SeqMonotonic
<1>2. /\ verdict.selected = IdsOf(top) /\ verdict.deferred = IdsOf(rest)
      /\ verdict.rejected = IdsOf(At(events, Ascending(Rejected(events))))
  BY DEF Arbitrate
<1> HIDE DEF verdict, r
<1>3. top \in Seq(X) /\ rest \in Seq(X)
  BY <1>1
<1>4. top \o rest = r
  <2>1. CASE safe /\ r # <<>>
    <3>1. top = <<Head(r)>> /\ top # <<>> /\ rest = Tail(r)
      BY <2>1
    <3>2. r = <<Head(r)>> \o Tail(r)
      BY <1>1, <2>1
    <3> HIDE DEF top, rest
    <3> QED
      BY <3>1, <3>2
  <2>2. CASE ~(safe /\ r # <<>>)
    <3>1. top = <<>> /\ rest = r
      BY <2>2
    <3> HIDE DEF top, rest
    <3> QED
      BY <1>1, <3>1, ConcatEmptySeq
  <2> QED
    BY <2>1, <2>2
<1>5. top # <<>> => safe
  OBVIOUS
<1> HIDE DEF top, rest
<1>6. /\ IdsOf(top) \in Seq(Y) /\ Len(IdsOf(top)) = Len(top)
      /\ \A i \in 1 .. Len(top) : IdsOf(top)[i] = top[i].id
  BY <1>3, IdsOfSeq
<1>7. /\ IdsOf(rest) \in Seq(Y) /\ Len(IdsOf(rest)) = Len(rest)
      /\ \A i \in 1 .. Len(rest) : IdsOf(rest)[i] = rest[i].id
  BY <1>3, IdsOfSeq
<1>8. /\ IdsOf(r) \in Seq(Y) /\ Len(IdsOf(r)) = Len(r)
      /\ \A i \in 1 .. Len(r) : IdsOf(r)[i] = r[i].id
  BY <1>1, IdsOfSeq
<1>9. IdsOf(top) \o IdsOf(rest) = IdsOf(r)
  <2> HIDE DEF Y
  <2>1. /\ Len(r) = Len(top) + Len(rest) /\ Len(top) \in Nat /\ Len(rest) \in Nat
        /\ \A i \in 1 .. Len(r) : r[i] = IF i <= Len(top) THEN top[i] ELSE rest[i - Len(top)]
    BY <1>3, <1>4, ConcatProperties
  <2> DEFINE both == IdsOf(top) \o IdsOf(rest)
  <2>2. /\ both \in Seq(Y) /\ Len(both) = Len(top) + Len(rest)
        /\ \A i \in 1 .. Len(top) + Len(rest) :
             both[i] = IF i <= Len(top) THEN IdsOf(top)[i] ELSE IdsOf(rest)[i - Len(top)]
    <3> DEFINE a == IdsOf(top)
               b == IdsOf(rest)
    <3>1. a \in Seq(Y) /\ b \in Seq(Y) /\ Len(a) = Len(top) /\ Len(b) = Len(rest)
      BY <1>6, <1>7
    <3> HIDE DEF a, b
    <3>2. /\ a \o b \in Seq(Y) /\ Len(a \o b) = Len(a) + Len(b)
          /\ \A i \in 1 .. Len(a) + Len(b) :
               (a \o b)[i] = IF i <= Len(a) THEN a[i] ELSE b[i - Len(a)]
      BY <3>1, ConcatProperties
    <3>3. /\ a \o b \in Seq(Y) /\ Len(a \o b) = Len(top) + Len(rest)
          /\ \A i \in 1 .. Len(top) + Len(rest) :
               (a \o b)[i] = IF i <= Len(top) THEN a[i] ELSE b[i - Len(top)]
      BY <3>1, <3>2
    <3> QED
      BY <3>3 DEF a, b
  <2> HIDE DEF both
  <2>3. ASSUME NEW i \in 1 .. Len(r) PROVE both[i] = IdsOf(r)[i]
    <3>1. CASE i <= Len(top)
      <4>1. i \in 1 .. Len(top)
        BY <2>1, <3>1
      <4> QED
        BY <1>6, <1>8, <2>1, <2>2, <3>1, <4>1
    <3>2. CASE ~(i <= Len(top))
      <4>1. i - Len(top) \in 1 .. Len(rest)
        BY <2>1, <3>2
      <4> QED
        BY <1>7, <1>8, <2>1, <2>2, <3>2, <4>1
    <3> QED
      BY <3>1, <3>2
  <2>4. both = IdsOf(r)
    BY <1>8, <2>1, <2>2, <2>3, SeqEqual
  <2> QED
    BY <2>4 DEF both
<1>10. verdict.selected # <<>> => safe
  <2>1. top = <<>> => IdsOf(top) = <<>>
    BY <1>3, <1>6
  <2> QED
    BY <1>2, <1>5, <2>1
<1>11. LET s == At(events, Ascending(Rejected(events)))
       IN /\ s \in Seq(X) /\ Len(s) = Cardinality(Rejected(events))
          /\ ToSet(s) = RejectedEvents(events)
  BY RejectedIs
<1> DEFINE s == At(events, Ascending(Rejected(events)))
<1>12. s \in Seq(X) /\ Len(s) = Cardinality(Rejected(events)) /\ ToSet(s) = RejectedEvents(events)
  BY <1>11
<1> HIDE DEF s
<1>13. /\ IdsOf(s) \in Seq(Y) /\ Len(IdsOf(s)) = Len(s)
       /\ ToSet(IdsOf(s)) = IdsIn(ToSet(s))
  BY <1>12, IdsOfSeq
<1>14. ToSet(IdsOf(s)) = IdsIn(RejectedEvents(events))
  BY <1>12, <1>13
<1>15. verdict.rejected = IdsOf(s)
  BY <1>2 DEF s
<1> QED
  BY <1>1, <1>2, <1>6, <1>7, <1>9, <1>10, <1>12, <1>13, <1>14, <1>15 DEF verdict, r

\* What two lists hold together.
LEMMA ToSetOfConcat ==
  ASSUME NEW X, NEW s \in Seq(X), NEW t \in Seq(X)
  PROVE  ToSet(s \o t) = ToSet(s) \cup ToSet(t)
<1>1. /\ s \o t \in Seq(X) /\ Len(s \o t) = Len(s) + Len(t)
      /\ \A i \in 1 .. Len(s) + Len(t) : (s \o t)[i] = IF i <= Len(s) THEN s[i] ELSE t[i - Len(s)]
  BY ConcatProperties
<1> DEFINE u == s \o t
<1>2. /\ ToSet(u) = {u[i] : i \in 1 .. Len(s) + Len(t)}
      /\ ToSet(s) = {s[i] : i \in 1 .. Len(s)} /\ ToSet(t) = {t[i] : i \in 1 .. Len(t)}
      /\ Len(s) \in Nat /\ Len(t) \in Nat
  <2> HIDE DEF u
  <2>1. DOMAIN u = 1 .. Len(s) + Len(t) /\ DOMAIN s = 1 .. Len(s) /\ DOMAIN t = 1 .. Len(t)
        /\ Len(s) \in Nat /\ Len(t) \in Nat
    BY <1>1 DEF u
  <2> QED
    BY <2>1 DEF ToSet
<1>3. \A i \in 1 .. Len(s) : i \in 1 .. Len(s) + Len(t) /\ u[i] = s[i]
  BY <1>1, <1>2
<1>4. \A i \in 1 .. Len(t) : Len(s) + i \in 1 .. Len(s) + Len(t) /\ u[Len(s) + i] = t[i]
  BY <1>1, <1>2
<1>5. \A i \in 1 .. Len(s) + Len(t) : u[i] \in ToSet(s) \/ u[i] \in ToSet(t)
  <2> SUFFICES ASSUME NEW i \in 1 .. Len(s) + Len(t) PROVE u[i] \in ToSet(s) \/ u[i] \in ToSet(t)
    OBVIOUS
  <2>1. CASE i <= Len(s)
    BY <1>1, <1>2, <2>1
  <2>2. CASE ~(i <= Len(s))
    <3>1. i - Len(s) \in 1 .. Len(t)
      BY <1>2, <2>2
    <3> QED
      BY <1>1, <1>2, <2>2, <3>1
  <2> QED
    BY <2>1, <2>2
<1> HIDE DEF u
<1>6. ToSet(s) \subseteq ToSet(u)
  BY <1>2, <1>3
<1>7. ToSet(t) \subseteq ToSet(u)
  BY <1>2, <1>4
<1>8. ToSet(u) \subseteq ToSet(s) \cup ToSet(t)
  BY <1>2, <1>5
<1> QED
  BY <1>6, <1>7, <1>8 DEF u

\* Every event gets one verdict, whatever the order in which they came.
LEMMA ArbitrationIs ==
  ASSUME NEW X, NEW events \in Seq(X), Arrived(events), NEW safe \in BOOLEAN, NEW held
  PROVE  ArbitrationSound(events, safe, held)
<1> DEFINE verdict == Arbitrate(events, safe, held)
           Permuted == {p \in [DOMAIN events -> DOMAIN events] :
                          \A i, j \in DOMAIN events : p[i] = p[j] => i = j}
           Y == IdsIn(X)
           r == Ranked(events)
           E == Candidates(events)
           R == Rejected(events)
<1>1. ASSUME NEW p \in Permuted
      PROVE  LET v == Arbitrate([i \in DOMAIN events |-> events[p[i]]], safe, held)
             IN /\ v.selected = verdict.selected /\ v.deferred = verdict.deferred
                /\ ToSet(v.rejected) = ToSet(verdict.rejected)
                /\ v.stalePlan = verdict.stalePlan
  <2> DEFINE other == [i \in DOMAIN events |-> events[p[i]]]
  <2>1. /\ other \in Seq(X) /\ Arrived(other) /\ Candidates(other) = E
        /\ RejectedEvents(other) = RejectedEvents(events)
    <3>1. p \in [DOMAIN events -> DOMAIN events] /\ \A i, j \in DOMAIN events : p[i] = p[j] => i = j
      OBVIOUS
    <3> QED
      BY <3>1, Reordered
  <2> HIDE DEF other
  <2>2. Ranked(other) = Sorted(Candidates(other), Foremost(Candidates(other)))
    BY <2>1, RankedIs
  <2>3. Ranked(other) = r
    BY <2>1, <2>2, RankedIs
  <2>4. /\ Arbitrate(other, safe, held).selected = verdict.selected
        /\ Arbitrate(other, safe, held).deferred = verdict.deferred
        /\ Arbitrate(other, safe, held).stalePlan = verdict.stalePlan
    BY <2>3 DEF Arbitrate
  <2>5. /\ ToSet(Arbitrate(other, safe, held).rejected) = IdsIn(RejectedEvents(other))
        /\ ToSet(verdict.rejected) = IdsIn(RejectedEvents(events))
    BY <2>1, VerdictOf
  <2>6. IdsIn(RejectedEvents(other)) = IdsIn(RejectedEvents(events))
    BY <2>1
  <2> QED
    BY <2>4, <2>5, <2>6 DEF other
<1>2. /\ verdict.selected \in Seq(Y) /\ verdict.deferred \in Seq(Y)
      /\ verdict.rejected \in Seq(Y)
      /\ verdict.selected # <<>> => safe
      /\ verdict.selected \o verdict.deferred = IdsOf(r)
      /\ Len(verdict.rejected) = Cardinality(R)
      /\ ToSet(verdict.rejected) = IdsIn(RejectedEvents(events))
      /\ r \in Seq(X)
  BY VerdictOf
<1>3. /\ IsFiniteSet(E) /\ StrictTotal(E, Foremost(E)) /\ r = Sorted(E, Foremost(E))
      /\ Cardinality(E) = Cardinality(DOMAIN events \ R)
  BY RankedIs
<1>4. DOMAIN events = 1 .. Len(events) /\ Len(events) \in Nat /\ R \in SUBSET DOMAIN events
  BY DEF Rejected
<1> HIDE DEF verdict, R
<1>5. Len(r) = Len(events) - Cardinality(R) /\ Cardinality(R) \in Nat
  <2>1. IsFiniteSet(DOMAIN events) /\ Cardinality(DOMAIN events) = Len(events)
    BY <1>4, FS_Interval
  <2>2. IsFiniteSet(R) /\ Cardinality(R) \in Nat
    BY <1>4, <2>1, FS_Subset, FS_CardinalityType
  <2>3. Cardinality(DOMAIN events \ R)
          = Cardinality(DOMAIN events) - Cardinality(DOMAIN events \cap R)
    BY <2>1, FS_Difference
  <2>4. DOMAIN events \cap R = R
    BY <1>4
  <2>5. Len(Sorted(E, Foremost(E))) = Cardinality(E)
    BY <1>3, SortedOf
  <2> QED
    BY <1>3, <2>1, <2>2, <2>3, <2>4, <2>5
<1>6. ToSet(r) = E
  <2> DEFINE s == Sorted(E, Foremost(E))
  <2>1. /\ s \in Seq(E) /\ DOMAIN s = 1 .. Cardinality(E) /\ Len(s) = Cardinality(E)
        /\ \A x \in E : \E p \in DOMAIN s : s[p] = x
    BY <1>3, SortedOf
  <2> HIDE DEF s
  <2>2. \A p \in DOMAIN s : s[p] \in E
    BY <2>1, ElementOfSeq
  <2>3. ToSet(s) = E
    BY <2>1, <2>2 DEF ToSet
  <2> QED
    BY <1>3, <2>3 DEF s
<1> HIDE DEF r
<1>7. /\ IdsOf(r) \in Seq(Y) /\ Len(IdsOf(r)) = Len(r)
      /\ ToSet(IdsOf(r)) = IdsIn(ToSet(r))
  BY <1>2, IdsOfSeq
<1>8. ToSet(IdsOf(events)) = {events[i].id : i \in DOMAIN events}
  BY DEF ToSet, IdsOf
<1> DEFINE handled == verdict.selected \o verdict.deferred
           all == handled \o verdict.rejected
<1>9. Len(all) = Len(events) /\ ToSet(all) = ToSet(IdsOf(events))
  <2>1. handled = IdsOf(r) /\ handled \in Seq(Y)
    BY <1>2, <1>7
  <2> HIDE DEF handled, Y
  <2>2. Len(all) = Len(handled) + Len(verdict.rejected)
    BY <1>2, <2>1, ConcatProperties
  <2>3. ToSet(all) = ToSet(handled) \cup ToSet(verdict.rejected)
    BY <1>2, <2>1, ToSetOfConcat
  <2>4. ToSet(handled) = IdsIn(E)
    BY <1>6, <1>7, <2>1
  <2>5. IdsIn(E) \cup IdsIn(RejectedEvents(events)) = {events[i].id : i \in DOMAIN events}
    <3>1. IdsIn(E) = {events[i].id : i \in DOMAIN events \ R}
      BY DEF IdsIn, Candidates, R
    <3>2. IdsIn(RejectedEvents(events)) = {events[i].id : i \in R}
      BY DEF IdsIn, RejectedEvents, R
    <3> QED
      BY <1>4, <3>1, <3>2
  <2>6. Len(all) = Len(events)
    BY <1>2, <1>4, <1>5, <1>7, <2>1, <2>2
  <2> QED
    BY <1>2, <1>8, <2>3, <2>4, <2>5, <2>6
<1>10. \A i \in DOMAIN events :
          RejectedOutright(events[i]) <=> events[i].id \in ToSet(verdict.rejected)
  <2> SUFFICES ASSUME NEW i \in DOMAIN events
               PROVE  RejectedOutright(events[i]) <=> events[i].id \in ToSet(verdict.rejected)
    OBVIOUS
  <2>1. i \in R <=> RejectedOutright(events[i])
    BY DEF R, Rejected
  <2>2. \A j \in R : events[i].id = events[j].id => i = j
    BY <1>4 DEF Arrived
  <2>3. events[i].id \in IdsIn(RejectedEvents(events)) <=> \E j \in R : events[i].id = events[j].id
    BY DEF IdsIn, RejectedEvents, R
  <2> QED
    BY <1>2, <2>1, <2>2, <2>3
<1> QED
  BY <1>1, <1>2, <1>9, <1>10 DEF ArbitrationSound, verdict

\* arbitrate() on every list of events that each have an id of their own: each gets one
\* verdict, the same in whatever order they come, and none preempts off a safe boundary.
THEOREM ArbitrationIsSound ==
  \A X : \A events \in Seq(X) : Arrived(events) =>
    \A safe \in BOOLEAN : \A held : ArbitrationSound(events, safe, held)
  BY ArbitrationIs

\* The events MCDecisions asks about each have an id of their own.
LEMMA EventsAre ==
  /\ \A n : \A e \in Event(n) : e.id = n /\ e.priority \in Nat
  /\ \A n : \A e \in Plain(n) : e.id = n /\ e.priority \in Nat
<1>1. ASSUME NEW n, NEW e \in Event(n) PROVE e.id = n /\ e.priority \in Nat
  <2>1. e.id \in {n}
    BY Zenon DEF Event
  <2>2. e.priority \in {50, 95}
    BY Zenon DEF Event
  <2> QED
    BY <2>1, <2>2
<1>2. ASSUME NEW n, NEW e \in Plain(n) PROVE e.id = n /\ e.priority \in Nat
  <2>1. e.id \in {n}
    BY Zenon DEF Plain
  <2>2. e.priority \in {50, 70, 95}
    BY Zenon DEF Plain
  <2> QED
    BY <2>1, <2>2
<1> QED
  BY <1>1, <1>2

LEMMA QuestionsArrive ==
  ASSUME NEW events,
         \/ events \in Event(1) \X Plain(2) \X Plain(3)
         \/ events \in Event(2) \X Plain(1)
         \/ events = <<>>
  PROVE  \E X : events \in Seq(X) /\ Arrived(events)
<1>1. CASE events \in Event(1) \X Plain(2) \X Plain(3)
  <2>1. PICK e \in Event(1), f \in Plain(2), g \in Plain(3) : events = <<e, f, g>>
    BY <1>1
  <2>2. e.id = 1 /\ f.id = 2 /\ g.id = 3 /\ e.priority \in Nat /\ f.priority \in Nat
        /\ g.priority \in Nat
    BY EventsAre
  <2>3. events \in Seq({e, f, g}) /\ DOMAIN events = 1 .. 3
        /\ events[1] = e /\ events[2] = f /\ events[3] = g
    BY <2>1
  <2>4. Arrived(events)
    BY <2>2, <2>3 DEF Arrived
  <2> QED
    BY <2>3, <2>4
<1>2. CASE events \in Event(2) \X Plain(1)
  <2>1. PICK e \in Event(2), f \in Plain(1) : events = <<e, f>>
    BY <1>2
  <2>2. e.id = 2 /\ f.id = 1 /\ e.priority \in Nat /\ f.priority \in Nat
    BY EventsAre
  <2>3. events \in Seq({e, f}) /\ DOMAIN events = 1 .. 2 /\ events[1] = e /\ events[2] = f
    BY <2>1
  <2>4. Arrived(events)
    BY <2>2, <2>3 DEF Arrived
  <2> QED
    BY <2>3, <2>4
<1>3. CASE events = <<>>
  <2>1. events \in Seq({}) /\ DOMAIN events = {}
    BY <1>3
  <2> QED
    BY <2>1 DEF Arrived
<1> QED
  BY <1>1, <1>2, <1>3

\* arbitrate() on every question of MCDecisions: no event is lost or answered twice, and the
\* verdict does not hang on the order in which the events came.
THEOREM ArbitrationsSoundCorrect == MCSpec => []ArbitrationsSound
<1>1. ASSUME Asked, Asks("arbitrate")
      PROVE  /\ \/ query.events \in Event(1) \X Plain(2) \X Plain(3)
                \/ query.events \in Event(2) \X Plain(1)
                \/ query.events = <<>>
             /\ query.boundary \in BOOLEAN
  BY <1>1 DEF Asked, Posed, Asks
<1>2. ASSUME Asked, Asks("arbitrate")
      PROVE  ArbitrationSound(query.events, query.boundary, query.held)
  BY <1>1, <1>2, QuestionsArrive, ArbitrationIsSound
<1>3. Asked => ArbitrationsSound
  BY <1>2 DEF ArbitrationsSound
<1> QED
  BY <1>3, QuestionStays, PTL

-----------------------------------------------------------------------------
\* The store as its model type has it: ids with an order, scores that are counts.
Stocked(items) ==
  /\ IsFiniteSet(DOMAIN items) /\ DOMAIN items \subseteq Nat
  /\ \A k \in DOMAIN items : items[k].overlap \in Nat /\ items[k].reliability \in Nat

\* The first n of a list.
LEMMA FirstOfSeq ==
  ASSUME NEW X, NEW s \in Seq(X), NEW n \in Nat
  PROVE  /\ FirstOf(s, n) \in Seq(X)
         /\ Len(FirstOf(s, n)) = IF n < Len(s) THEN n ELSE Len(s)
         /\ \A i \in 1 .. Len(FirstOf(s, n)) : FirstOf(s, n)[i] = s[i]
<1> DEFINE m == IF n < Len(s) THEN n ELSE Len(s)
<1>1. Len(s) \in Nat /\ m \in Nat /\ m <= Len(s)
  BY LenProperties
<1>2. \A i \in 1 .. m : s[i] \in X
  BY <1>1, ElementOfSeq
<1> HIDE DEF m
<1>3. /\ SubSeq(s, 1, m) \in Seq(X)
      /\ Len(SubSeq(s, 1, m)) = IF 1 <= m THEN m - 1 + 1 ELSE 0
      /\ \A i \in 1 .. m - 1 + 1 : SubSeq(s, 1, m)[i] = s[1 + i - 1]
  <2>1. m \in Int /\ 1 \in Int
    BY <1>1
  <2> QED
    BY <1>2, <2>1, SubSeqProperties
<1> DEFINE f == SubSeq(s, 1, m)
<1>4. f \in Seq(X) /\ Len(f) = m /\ \A i \in 1 .. m : f[i] = s[i]
  <2> HIDE DEF f
  <2>1. f \in Seq(X) /\ Len(f) = IF 1 <= m THEN m - 1 + 1 ELSE 0
    BY <1>3 DEF f
  <2>2. \A i \in 1 .. m - 1 + 1 : f[i] = s[1 + i - 1]
    BY <1>3 DEF f
  <2>3. Len(f) = m
    BY <1>1, <2>1
  <2>4. ASSUME NEW i \in 1 .. m PROVE f[i] = s[i]
    <3>1. i \in 1 .. m - 1 + 1 /\ 1 + i - 1 = i
      BY <1>1
    <3> QED
      BY <2>2, <3>1
  <2> QED
    BY <2>1, <2>3, <2>4
<1>5. FirstOf(s, n) = f
  BY DEF FirstOf, m
<1> QED
  BY <1>4, <1>5 DEF m

\* A list, and no more than k of another behind it, cut at k.
LEMMA CutBehind ==
  ASSUME NEW X, NEW e \in Seq(X), NEW s \in Seq(X), NEW k \in Nat
  PROVE  LET h == FirstOf(e \o FirstOf(s, k), k)
             n == Len(e) + Len(s)
         IN /\ h \in Seq(X) /\ Len(h) = IF n < k THEN n ELSE k
            /\ \A i \in 1 .. Len(h) : h[i] = IF i <= Len(e) THEN e[i] ELSE s[i - Len(e)]
<1> DEFINE f == FirstOf(s, k)
           b == e \o f
           h == FirstOf(b, k)
<1>1. Len(e) \in Nat /\ Len(s) \in Nat
  BY LenProperties
<1>2. /\ f \in Seq(X) /\ Len(f) = IF k < Len(s) THEN k ELSE Len(s)
      /\ \A i \in 1 .. Len(f) : f[i] = s[i]
  BY FirstOfSeq
<1> HIDE DEF f
<1>3. /\ b \in Seq(X) /\ Len(b) = Len(e) + Len(f)
      /\ \A i \in 1 .. Len(e) + Len(f) : b[i] = IF i <= Len(e) THEN e[i] ELSE f[i - Len(e)]
  BY <1>2, ConcatProperties
<1> HIDE DEF b
<1>4. /\ h \in Seq(X) /\ Len(h) = IF k < Len(b) THEN k ELSE Len(b)
      /\ \A i \in 1 .. Len(h) : h[i] = b[i]
  BY <1>3, FirstOfSeq
<1> HIDE DEF h
<1>5. Len(h) = IF Len(e) + Len(s) < k THEN Len(e) + Len(s) ELSE k
  <2>1. /\ Len(f) = IF k < Len(s) THEN k ELSE Len(s)
        /\ Len(b) = Len(e) + Len(f)
        /\ Len(h) = IF k < Len(b) THEN k ELSE Len(b)
    BY <1>2, <1>3, <1>4
  <2>2. CASE k < Len(s)
    <3>1. Len(f) = k /\ Len(b) = Len(e) + k
      BY <2>1, <2>2
    <3> QED
      BY <1>1, <2>1, <2>2, <3>1
  <2>3. CASE ~(k < Len(s))
    <3>1. Len(f) = Len(s) /\ Len(b) = Len(e) + Len(s)
      BY <2>1, <2>3
    <3> QED
      BY <1>1, <2>1, <3>1
  <2> QED
    BY <2>2, <2>3
<1>6. ASSUME NEW i \in 1 .. Len(h) PROVE h[i] = IF i <= Len(e) THEN e[i] ELSE s[i - Len(e)]
  <2>1. i \in 1 .. Len(e) + Len(f) /\ h[i] = b[i]
    BY <1>1, <1>2, <1>3, <1>4
  <2>2. ~(i <= Len(e)) => i - Len(e) \in 1 .. Len(f)
    BY <1>1, <1>2, <2>1
  <2> QED
    BY <1>2, <1>3, <2>1, <2>2
<1> QED
  BY <1>4, <1>5, <1>6 DEF h, b, f

\* What comes behind a short list does not displace it.
LEMMA PrefixKept ==
  ASSUME NEW X, NEW h \in Seq(X), NEW t \in Seq(X), NEW k \in Nat, Len(h) <= k
  PROVE  IsPrefix(h, FirstOf(h \o t, k))
<1> DEFINE r == FirstOf(h \o t, k)
<1>1. Len(h) \in Nat /\ Len(t) \in Nat
  BY LenProperties
<1>2. /\ h \o t \in Seq(X) /\ Len(h \o t) = Len(h) + Len(t)
      /\ \A i \in 1 .. Len(h) + Len(t) : (h \o t)[i] = IF i <= Len(h) THEN h[i] ELSE t[i - Len(h)]
  BY ConcatProperties
<1> DEFINE b == h \o t
<1>3. /\ b \in Seq(X) /\ Len(b) = Len(h) + Len(t)
      /\ \A i \in 1 .. Len(h) + Len(t) : b[i] = IF i <= Len(h) THEN h[i] ELSE t[i - Len(h)]
  BY <1>2
<1> HIDE DEF b
<1>4. r \in Seq(X) /\ Len(r) = (IF k < Len(b) THEN k ELSE Len(b))
      /\ \A i \in 1 .. Len(r) : r[i] = b[i]
  <2>1. r = FirstOf(b, k)
    BY DEF b
  <2> HIDE DEF r
  <2> QED
    BY <1>3, <2>1, FirstOfSeq
<1> HIDE DEF r
<1>5. Len(h) <= Len(r) /\ Len(r) \in Nat
  BY <1>1, <1>3, <1>4
<1>6. \A i \in 1 .. Len(h) : r[i] = h[i]
  <2> SUFFICES ASSUME NEW i \in 1 .. Len(h) PROVE r[i] = h[i]
    OBVIOUS
  <2>1. i \in 1 .. Len(r) /\ i \in 1 .. Len(h) + Len(t) /\ i <= Len(h)
    BY <1>1, <1>5
  <2> QED
    BY <1>3, <1>4, <2>1
<1>7. FirstOf(h, Len(h)) \in Seq(X) /\ FirstOf(r, Len(h)) \in Seq(X)
      /\ Len(FirstOf(h, Len(h))) = Len(h) /\ Len(FirstOf(r, Len(h))) = Len(h)
      /\ \A i \in 1 .. Len(h) : FirstOf(h, Len(h))[i] = h[i] /\ FirstOf(r, Len(h))[i] = r[i]
  BY <1>1, <1>4, <1>5, FirstOfSeq
<1> DEFINE hh == FirstOf(h, Len(h))
           rr == FirstOf(r, Len(h))
<1>8. hh = rr
  <2>1. hh \in Seq(X) /\ rr \in Seq(X) /\ Len(hh) = Len(rr)
        /\ \A i \in 1 .. Len(hh) : hh[i] = rr[i]
    BY <1>6, <1>7
  <2> HIDE DEF hh, rr
  <2> QED
    BY <2>1, SeqEqual
<1>9. hh = SubSeq(h, 1, Len(h)) /\ rr = SubSeq(r, 1, Len(h))
  BY <1>1, <1>5 DEF FirstOf
<1>10. SubSeq(h, 1, Len(h)) = SubSeq(r, 1, Len(h))
  BY <1>8, <1>9
<1> QED
  BY <1>5, <1>10 DEF IsPrefix, r

\* Those found by their words, and how they are ordered.
Scored(items, q) ==
  {k \in DOMAIN items : k # q /\ Shown(items, "action", k) /\ items[k].overlap > 0}
ByStrength(items, S) == {p \in S \X S : Stronger(items, p[1], p[2])}

\* Strength, with the smaller id where it is equal, leaves no two items undecided.
LEMMA StrengthOrders ==
  ASSUME NEW items, Stocked(items), NEW S, S \subseteq DOMAIN items
  PROVE  StrictTotal(S, ByStrength(items, S)) /\ IsFiniteSet(S)
<1> DEFINE before == ByStrength(items, S)
<1>1. \A k \in S : Score(items[k]) \in Nat /\ k \in Nat
  <2> SUFFICES ASSUME NEW k \in S PROVE Score(items[k]) \in Nat /\ k \in Nat
    OBVIOUS
  <2>1. items[k].overlap \in Nat /\ items[k].reliability \in Nat /\ k \in Nat
    BY DEF Stocked
  <2> QED
    BY <2>1 DEF Score
<1>2. \A k, l \in S : <<k, l>> \in before <=>
        \/ Score(items[k]) > Score(items[l])
        \/ Score(items[k]) = Score(items[l]) /\ k < l
  BY DEF ByStrength, Stronger
<1> HIDE DEF before
<1>3. \A x \in S : <<x, x>> \notin before
  BY <1>1, <1>2
<1>4. ASSUME NEW x \in S, NEW y \in S, NEW z \in S, <<x, y>> \in before, <<y, z>> \in before
      PROVE  <<x, z>> \in before
  <2> DEFINE a == Score(items[x])
             b == Score(items[y])
             c == Score(items[z])
  <2>1. a \in Nat /\ b \in Nat /\ c \in Nat /\ x \in Nat /\ y \in Nat /\ z \in Nat
    BY <1>1
  <2>2. (a > b \/ (a = b /\ x < y)) /\ (b > c \/ (b = c /\ y < z))
    BY <1>2, <1>4
  <2>3. (a > c \/ (a = c /\ x < z)) => <<x, z>> \in before
    BY <1>2
  <2> HIDE DEF a, b, c
  <2> QED
    BY <2>1, <2>2, <2>3
<1>5. ASSUME NEW x \in S, NEW y \in S, x # y
      PROVE  <<x, y>> \in before \/ <<y, x>> \in before
  <2> DEFINE a == Score(items[x])
             b == Score(items[y])
  <2>1. a \in Nat /\ b \in Nat /\ x \in Nat /\ y \in Nat
    BY <1>1
  <2>2. /\ (a > b \/ (a = b /\ x < y)) => <<x, y>> \in before
        /\ (b > a \/ (b = a /\ y < x)) => <<y, x>> \in before
    BY <1>2
  <2> HIDE DEF a, b
  <2> QED
    BY <1>5, <2>1, <2>2
<1>6. IsFiniteSet(S)
  BY FS_Subset DEF Stocked
<1> QED
  BY <1>3, <1>4, <1>5, <1>6 DEF StrictTotal, before

\* What retrieve() answers: the exact hit, then those found by their words.
LEMMA RetrieveIs ==
  ASSUME NEW items, Stocked(items), NEW q, NEW topK \in Nat
  PROVE  LET h == Retrieve(items, q, "action", topK)
             S == Scored(items, q)
             s == Sorted(S, ByStrength(items, S))
             e == IF Visible(items, q) THEN 1 ELSE 0
             n == e + Cardinality(S)
         IN /\ h \in Seq(DOMAIN items) /\ Len(h) = IF n < topK THEN n ELSE topK
            /\ \A i \in 1 .. Len(h) : h[i] = IF i <= e THEN q ELSE s[i - e]
<1> DEFINE h == Retrieve(items, q, "action", topK)
           S == Scored(items, q)
           s == Sorted(S, ByStrength(items, S))
           e == IF Visible(items, q) THEN 1 ELSE 0
           x == IF Visible(items, q) THEN <<q>> ELSE <<>>
<1>1. \A k : Shown(items, "action", k) <=> Visible(items, k)
  BY DEF Shown, Visible
<1>2. S \subseteq DOMAIN items
  BY DEF Scored
<1>3. StrictTotal(S, ByStrength(items, S)) /\ IsFiniteSet(S)
  <2> HIDE DEF S
  <2> QED
    BY <1>2, StrengthOrders
<1>4. s \in Seq(S) /\ Len(s) = Cardinality(S)
  <2> HIDE DEF S
  <2> QED
    BY <1>3, SortedOf
<1>5. h = FirstOf(x \o FirstOf(s, topK), topK)
  BY <1>1 DEF Retrieve, Scored, ByStrength
<1> HIDE DEF S
<1>6. s \in Seq(DOMAIN items)
  <2> HIDE DEF s
  <2> QED
    BY <1>2, <1>4
<1>7. x \in Seq(DOMAIN items) /\ Len(x) = e /\ \A i \in 1 .. e : x[i] = q
  <2>1. CASE Visible(items, q)
    <3>1. q \in DOMAIN items /\ x = <<q>> /\ e = 1
      BY <2>1 DEF Visible
    <3> HIDE DEF x, e
    <3> QED
      BY <3>1
  <2>2. CASE ~Visible(items, q)
    <3>1. x = <<>> /\ e = 0
      BY <2>2
    <3> HIDE DEF x, e
    <3> QED
      BY <3>1
  <2> QED
    BY <2>1, <2>2
<1> HIDE DEF s, x
<1>8. LET g == FirstOf(x \o FirstOf(s, topK), topK)
          n == Len(x) + Len(s)
      IN /\ g \in Seq(DOMAIN items) /\ Len(g) = IF n < topK THEN n ELSE topK
         /\ \A i \in 1 .. Len(g) : g[i] = IF i <= Len(x) THEN x[i] ELSE s[i - Len(x)]
  BY <1>6, <1>7, CutBehind
<1> HIDE DEF h
<1>9. /\ h \in Seq(DOMAIN items)
      /\ Len(h) = IF e + Cardinality(S) < topK THEN e + Cardinality(S) ELSE topK
      /\ \A i \in 1 .. Len(h) : h[i] = IF i <= e THEN x[i] ELSE s[i - e]
  BY <1>4, <1>5, <1>7, <1>8
<1>10. \A i \in 1 .. Len(h) : i <= e => x[i] = q
  <2>1. ASSUME NEW i \in 1 .. Len(h), i <= e PROVE x[i] = q
    <3>1. i \in 1 .. e
      BY <2>1, <1>9, LenProperties
    <3> QED
      BY <3>1, <1>7
  <2> QED
    BY <2>1
<1> QED
  BY <1>9, <1>10 DEF h, s, S

\* What retrieve() promises for every store: only knowledge that may be acted on, none of it
\* twice, the exact hit first, nothing stronger left out.
LEMMA HitsAreSound ==
  ASSUME NEW items, Stocked(items), NEW q, NEW topK \in Nat
  PROVE  LET hits == Retrieve(items, q, "action", topK)
         IN /\ hits \in Seq(DOMAIN items) /\ Len(hits) <= topK
            /\ \A k \in ToSet(hits) : Visible(items, k)
            /\ NoRepeat(hits)
            /\ Visible(items, q) /\ topK > 0 => Head(hits) = q
            /\ \A k \in ToSet(hits) \ {q}, l \in DOMAIN items \ ({q} \cup ToSet(hits)) :
                 Visible(items, l) /\ items[l].overlap > 0 => Stronger(items, k, l)
<1> DEFINE h == Retrieve(items, q, "action", topK)
           S == Scored(items, q)
           before == ByStrength(items, S)
           s == Sorted(S, before)
           e == IF Visible(items, q) THEN 1 ELSE 0
           n == Cardinality(S)
<1>1. /\ h \in Seq(DOMAIN items) /\ Len(h) = IF e + n < topK THEN e + n ELSE topK
      /\ \A i \in 1 .. Len(h) : h[i] = IF i <= e THEN q ELSE s[i - e]
  BY RetrieveIs
<1>2. \A k : k \in S <=> k \in DOMAIN items /\ k # q /\ Visible(items, k) /\ items[k].overlap > 0
  BY DEF Scored, Shown, Visible
<1> HIDE DEF S
<1>3. StrictTotal(S, before) /\ IsFiniteSet(S) /\ n \in Nat
  <2>1. S \subseteq DOMAIN items
    BY <1>2
  <2> QED
    BY <2>1, StrengthOrders, FS_CardinalityType
<1> HIDE DEF before
<1>4. /\ s \in Seq(S) /\ Len(s) = n
      /\ \A x \in S : \E p \in 1 .. n : s[p] = x
      /\ \A p, r \in 1 .. n : p < r <=> <<s[p], s[r]>> \in before
      /\ \A p, r \in 1 .. n : s[p] = s[r] => p = r
  <2>1. DOMAIN s = 1 .. n
    BY <1>3, SortedOf
  <2> HIDE DEF n
  <2> QED
    BY <1>3, <2>1, SortedOf DEF n
<1> HIDE DEF s, h, n
<1>5. e \in {0, 1} /\ (e = 1 <=> Visible(items, q))
  OBVIOUS
<1> HIDE DEF e
<1>6. Len(h) \in Nat /\ Len(h) <= topK /\ Len(h) <= e + n /\ DOMAIN h = 1 .. Len(h)
  <2>1. DOMAIN h = 1 .. Len(h) /\ Len(h) \in Nat
    BY <1>1, LenProperties
  <2> QED
    BY <1>1, <1>3, <1>5, <2>1
<1>7. ASSUME NEW i \in 1 .. Len(h)
      PROVE  \/ i = 1 /\ e = 1 /\ h[i] = q
             \/ i > e /\ i - e \in 1 .. n /\ h[i] = s[i - e] /\ h[i] \in S
  <2>1. CASE i <= e
    BY <1>1, <1>5, <1>6, <2>1
  <2>2. CASE ~(i <= e)
    <3>1. i > e /\ i - e \in 1 .. n
      BY <1>3, <1>5, <1>6, <2>2
    <3>2. h[i] = s[i - e]
      BY <1>1, <2>2
    <3>3. s[i - e] \in S
      BY <1>4, <3>1, ElementOfSeq
    <3> QED
      BY <3>1, <3>2, <3>3
  <2> QED
    BY <2>1, <2>2
<1>8. \A k \in ToSet(h) : \E i \in 1 .. Len(h) : h[i] = k
  BY <1>6 DEF ToSet
<1>9. \A k \in ToSet(h) : Visible(items, k)
  BY <1>2, <1>5, <1>7, <1>8
<1>10. NoRepeat(h)
  <2> SUFFICES ASSUME NEW i \in 1 .. Len(h), NEW j \in 1 .. Len(h), h[i] = h[j] PROVE i = j
    BY <1>6 DEF NoRepeat
  <2>1. q \notin S
    BY <1>2
  <2>2. CASE i > e /\ i - e \in 1 .. n /\ h[i] = s[i - e] /\ h[i] \in S
    <3>1. j > e /\ j - e \in 1 .. n /\ h[j] = s[j - e]
      BY <1>7, <2>1, <2>2
    <3>2. i - e = j - e
      BY <1>4, <2>2, <3>1
    <3> QED
      BY <1>5, <1>6, <3>2
  <2>3. CASE i = 1 /\ e = 1 /\ h[i] = q
    BY <1>7, <2>1, <2>3
  <2> QED
    BY <1>7, <2>2, <2>3
<1>11. ASSUME Visible(items, q), topK > 0 PROVE Head(h) = q
  <2>1. e = 1 /\ Len(h) >= 1
    BY <1>1, <1>3, <1>5, <1>11
  <2>2. 1 \in 1 .. Len(h)
    BY <1>6, <2>1
  <2>3. h[1] = q
    BY <1>7, <2>1, <2>2
  <2> QED
    BY <1>1, <2>1, <2>3
<1>12. ASSUME NEW k \in ToSet(h) \ {q}, NEW l \in DOMAIN items \ ({q} \cup ToSet(h)),
              Visible(items, l), items[l].overlap > 0
       PROVE  Stronger(items, k, l)
  <2>1. PICK i \in 1 .. Len(h) : h[i] = k
    BY <1>8
  <2>2. i > e /\ i - e \in 1 .. n /\ k = s[i - e] /\ k \in S
    BY <1>7, <2>1
  <2>3. l \in S
    BY <1>2, <1>12
  <2>4. PICK p \in 1 .. n : s[p] = l
    BY <1>4, <2>3
  <2>5. ASSUME p <= i - e PROVE FALSE
    <3> DEFINE m == p + e
    <3>1. m \in 1 .. Len(h) /\ ~(m <= e) /\ m - e = p
      BY <1>3, <1>5, <1>6, <2>2, <2>5
    <3> HIDE DEF m
    <3>2. h[m] = IF m <= e THEN q ELSE s[m - e]
      BY <1>1, <3>1
    <3>3. h[m] = l
      BY <2>4, <3>1, <3>2
    <3> QED
      BY <1>6, <3>1, <3>3 DEF ToSet
  <2>6. i - e < p
    BY <1>3, <1>5, <1>6, <2>2, <2>5
  <2>7. <<k, l>> \in before
    BY <1>4, <2>2, <2>4, <2>6
  <2> QED
    BY <2>7 DEF before, ByStrength
<1> QED
  BY <1>1, <1>6, <1>9, <1>10, <1>11, <1>12 DEF h

\* At() reads its list at the positions it is given.
LEMMA AtPositions ==
  ASSUME NEW X, NEW s, NEW R, NEW ps \in Seq(R), \A r \in R : s[r] \in X
  PROVE  /\ At(s, ps) \in Seq(X) /\ Len(At(s, ps)) = Len(ps)
         /\ \A i \in 1 .. Len(ps) : At(s, ps)[i] = s[ps[i]] /\ ps[i] \in R
<1>1. DOMAIN ps = 1 .. Len(ps) /\ Len(ps) \in Nat /\ \A i \in 1 .. Len(ps) : ps[i] \in R
  BY ElementOfSeq, LenProperties
<1> DEFINE a == At(s, ps)
           n == Len(ps)
<1>2. a = [i \in 1 .. n |-> s[ps[i]]]
  BY <1>1 DEF At
<1> HIDE DEF n, a
<1>3. n \in Nat /\ \A i \in 1 .. n : s[ps[i]] \in X /\ ps[i] \in R
  BY <1>1 DEF n
<1>4. a \in Seq(X) /\ Len(a) = n /\ \A i \in 1 .. n : a[i] = s[ps[i]]
  BY <1>2, <1>3
<1> QED
  BY <1>3, <1>4 DEF a, n

\* What is retrieved, and what the semantic seam adds to it.
LEMMA RetrievalIs ==
  ASSUME NEW items, Stocked(items), NEW q, NEW X, NEW candidates \in Seq(X), NEW topK \in Nat
  PROVE  RetrievalSound(items, q, candidates, topK)
<1> DEFINE h == Retrieve(items, q, "action", topK)
           more == {i \in DOMAIN candidates : MayAppend(items, h, candidates[i])}
           Y == {k \in DOMAIN items : Visible(items, k)}
           behind == At(candidates, Ascending(more))
           r == Rerank(items, q, candidates, topK)
<1>1. /\ h \in Seq(DOMAIN items) /\ Len(h) <= topK
      /\ \A k \in ToSet(h) : Visible(items, k)
      /\ NoRepeat(h)
      /\ Visible(items, q) /\ topK > 0 => Head(h) = q
      /\ \A k \in ToSet(h) \ {q}, l \in DOMAIN items \ ({q} \cup ToSet(h)) :
           Visible(items, l) /\ items[l].overlap > 0 => Stronger(items, k, l)
  BY HitsAreSound
<1>2. r = FirstOf(h \o behind, topK)
  BY DEF Rerank
<1> HIDE DEF h
<1>3. DOMAIN h = 1 .. Len(h) /\ Len(h) \in Nat
  BY <1>1, LenProperties
<1>4. h \in Seq(Y)
  <2> HIDE DEF Y
  <2>1. \A i \in 1 .. Len(h) : h[i] \in Y
    <3>1. \A i \in 1 .. Len(h) : h[i] \in DOMAIN items /\ h[i] \in ToSet(h)
      BY <1>1, <1>3, ElementOfSeq DEF ToSet
    <3> QED
      BY <1>1, <3>1 DEF Y
  <2> QED
    BY <1>1, <1>3, <2>1
<1>5. more \subseteq Nat /\ IsFiniteSet(more) /\ \A i \in more : candidates[i] \in Y
  <2>1. DOMAIN candidates = 1 .. Len(candidates) /\ Len(candidates) \in Nat
    BY LenProperties
  <2>2. IsFiniteSet(DOMAIN candidates)
    BY <2>1, FS_Interval
  <2>3. more \subseteq DOMAIN candidates
    OBVIOUS
  <2>4. \A i \in more : candidates[i] \in Y
    BY DEF MayAppend, Visible
  <2> HIDE DEF more, Y
  <2>5. IsFiniteSet(more)
    BY <2>2, <2>3, FS_Subset
  <2> QED
    BY <2>1, <2>3, <2>4, <2>5
<1> HIDE DEF more, Y
<1>6. behind \in Seq(Y)
  <2> DEFINE ps == Ascending(more)
  <2>1. ps \in Seq(more)
    BY <1>5, AscendingOf
  <2> HIDE DEF ps
  <2>2. At(candidates, ps) \in Seq(Y)
    BY <1>5, <2>1, AtPositions
  <2> QED
    BY <2>2 DEF ps
<1> HIDE DEF behind, r
<1>7. h \o behind \in Seq(Y)
  BY <1>4, <1>6, ConcatProperties
<1>8. r \in Seq(Y) /\ Len(r) <= topK
  <2> DEFINE b == h \o behind
  <2>1. b \in Seq(Y) /\ Len(b) \in Nat /\ r = FirstOf(b, topK)
    BY <1>2, <1>7, LenProperties
  <2> HIDE DEF b
  <2>2. r \in Seq(Y) /\ Len(r) = IF topK < Len(b) THEN topK ELSE Len(b)
    BY <2>1, FirstOfSeq
  <2> QED
    BY <2>1, <2>2
<1>9. \A k \in ToSet(h) \cup ToSet(r) : Visible(items, k)
  <2>1. \A i \in DOMAIN r : r[i] \in Y
    BY <1>8, ElementOfSeq, LenProperties
  <2> QED
    BY <1>1, <2>1 DEF ToSet, Y
<1>10. IsPrefix(h, r)
  BY <1>1, <1>2, <1>4, <1>6, PrefixKept
<1> QED
  BY <1>1, <1>8, <1>9, <1>10 DEF RetrievalSound, h, r

\* retrieve() and rerank() over every store, whatever the semantic seam proposes: nothing
\* unverified is given to act on, and nothing stronger is left out for something weaker.
THEOREM RetrievalIsSound ==
  \A items : Stocked(items) =>
    \A q : \A X : \A candidates \in Seq(X) : \A topK \in Nat :
      RetrievalSound(items, q, candidates, topK)
  BY RetrievalIs

\* near[n] is what lies within distance n of start.
Near(near, items, edges, start, depth, mode) ==
  /\ near[0] = {start}
  /\ \A n \in 1 .. depth :
       near[n] = near[n - 1] \cup
                   {k \in DOMAIN items :
                      Shown(items, mode, k) /\ \E l \in near[n - 1] : <<l, k>> \in edges}

\* The reference of an expansion, ring by ring.
LEMMA WithinIs ==
  ASSUME NEW items, NEW edges, NEW start, NEW depth \in Nat, NEW mode
  PROVE  \E near : /\ Near(near, items, edges, start, depth, mode)
                   /\ Within(items, edges, start, depth, mode) = near[depth] \ {start}
<1> DEFINE near[n \in 0 .. depth] ==
             IF n = 0 THEN {start}
             ELSE near[n - 1] \cup
                    {k \in DOMAIN items :
                       Shown(items, mode, k) /\ \E l \in near[n - 1] : <<l, k>> \in edges}
           V == SUBSET (DOMAIN items \cup {start})
           After(v) == v \cup {k \in DOMAIN items :
                                 Shown(items, mode, k) /\ \E l \in v : <<l, k>> \in edges}
           F == [v \in V |-> After(v)]
           Is(f) == f = [n \in 0 .. depth |-> IF n = 0 THEN {start} ELSE After(f[n - 1])]
<1>1. F \in [V -> V] /\ {start} \in V
  OBVIOUS
<1>2. Within(items, edges, start, depth, mode) = near[depth] \ {start}
  BY DEF Within
<1>3. near = CHOOSE f : Is(f)
  OBVIOUS
<1> HIDE DEF near
<1>4. \E f : Is(f)
  <2> HIDE DEF After
  <2>1. \A v \in V : F[v] = After(v)
    OBVIOUS
  <2> HIDE DEF F, V
  <2>2. PICK f : Repeats(f, V, {start}, F, depth)
    BY <1>1, Repeated
  <2>3. \A n \in 1 .. depth : f[n] = After(f[n - 1])
    <3>1. \A n \in 1 .. depth : f[n - 1] \in V
      BY <2>2 DEF Repeats
    <3> QED
      BY <2>1, <2>2, <3>1 DEF Repeats
  <2>4. \A n \in 0 .. depth : f[n] = IF n = 0 THEN {start} ELSE After(f[n - 1])
    BY <2>2, <2>3 DEF Repeats
  <2>5. Is(f)
    BY <2>2, <2>4 DEF Repeats
  <2> HIDE DEF Is
  <2> QED
    BY <2>5
<1>5. Is(near)
  <2> HIDE DEF Is
  <2> QED
    BY <1>3, <1>4
<1>6. near[0] = {start} /\ \A n \in 1 .. depth : near[n] = After(near[n - 1])
  <2> HIDE DEF After
  <2> QED
    BY <1>5
<1>7. Near(near, items, edges, start, depth, mode)
  BY <1>6 DEF Near
<1> QED
  BY <1>2, <1>7

\* What a walk through the links holds.
WalkState(items, start) ==
  [queue : Seq(({start} \cup DOMAIN items) \X Nat), order : Seq(DOMAIN items)]

\* What one node of the queue adds: neighbours that were not seen, in order, each once, and
\* all of them unless the budget is spent.
Adds(items, edges, start, depth, budget, mode, b, found) ==
  LET n == Head(b.queue)[1]
      d == Head(b.queue)[2]
  IN /\ found \in Seq(DOMAIN items)
     /\ \A i \in 1 .. Len(found) : found[i] \in Fresh(items, edges, start, mode, b.order, n)
     /\ \A i, j \in 1 .. Len(found) : found[i] = found[j] => i = j
     /\ Len(b.order) + Len(found) <= budget
     /\ d >= depth => found = <<>>
     /\ d < depth /\ Len(b.order) + Len(found) < budget =>
          \A k \in Fresh(items, edges, start, mode, b.order, n) :
            \E i \in 1 .. Len(found) : found[i] = k

\* The walk goes on from b.
GoesOn(items, start, depth, budget, b) ==
  /\ IsFiniteSet(DOMAIN items) /\ DOMAIN items \subseteq Nat /\ depth \in Nat /\ budget \in Nat
  /\ b \in WalkState(items, start) /\ b.queue # <<>> /\ Len(b.order) < budget

\* b with the head of its queue replaced by what was found behind it.
AfterNode(b, found) ==
  [queue |-> Tail(b.queue) \o [i \in DOMAIN found |-> <<found[i], Head(b.queue)[2] + 1>>],
   order |-> b.order \o found]

\* One node of the queue adds some of the fresh ones, all of them while the budget lasts.
LEMMA WalkAdds ==
  ASSUME NEW items, NEW edges, NEW start, NEW depth, NEW budget, NEW mode, NEW b,
         GoesOn(items, start, depth, budget, b)
  PROVE  \E found :
           /\ Adds(items, edges, start, depth, budget, mode, b, found)
           /\ Walk(items, edges, start, depth, budget, mode, b) = AfterNode(b, found)
<1> DEFINE n == Head(b.queue)[1]
           d == Head(b.queue)[2]
           fresh == Fresh(items, edges, start, mode, b.order, n)
           all == Ascending(fresh)
           left == budget - Len(b.order)
           found == IF d >= depth THEN <<>> ELSE FirstOf(all, left)
<1> USE DEF GoesOn
<1>1. b.queue \in Seq(({start} \cup DOMAIN items) \X Nat) /\ b.order \in Seq(DOMAIN items)
  BY DEF WalkState
<1>2. Len(b.order) \in Nat /\ left \in Nat
  <2>1. Len(b.order) \in Nat
    BY <1>1, LenProperties
  <2> QED
    BY <2>1
<1>3. d \in Nat
  <2>1. Head(b.queue) \in ({start} \cup DOMAIN items) \X Nat
    <3> DEFINE q == b.queue
               T == ({start} \cup DOMAIN items) \X Nat
    <3>1. q \in Seq(T) /\ q # <<>>
      BY <1>1
    <3> HIDE DEF q, T
    <3>2. Head(q) \in T
      BY <3>1, HeadTailProperties
    <3> QED
      BY <3>2 DEF q, T
  <2> QED
    BY <2>1
<1>4. Walk(items, edges, start, depth, budget, mode, b) = AfterNode(b, found)
  BY DEF Walk, AfterNode
<1>5. fresh \subseteq DOMAIN items /\ fresh \subseteq Nat /\ IsFiniteSet(fresh)
  <2>1. fresh \subseteq DOMAIN items
    BY DEF Fresh
  <2> HIDE DEF fresh
  <2> QED
    BY <2>1, FS_Subset
<1> HIDE DEF fresh
<1>6. /\ all \in Seq(fresh) /\ DOMAIN all = 1 .. Len(all)
      /\ \A x \in fresh : \E p \in DOMAIN all : all[p] = x
      /\ \A p, q \in DOMAIN all : all[p] = all[q] => p = q
  <2>1. all \in Seq(fresh)
    BY <1>5, AscendingOf
  <2>2. DOMAIN all = 1 .. Len(all)
    BY <2>1, LenProperties
  <2> QED
    BY <1>5, <2>1, <2>2, AscendingOf
<1> HIDE DEF all
<1>7. Len(all) \in Nat
  BY <1>6, LenProperties
<1>8. Adds(items, edges, start, depth, budget, mode, b, found)
  <2>1. CASE d >= depth
    <3>1. found = <<>>
      BY <2>1
    <3> HIDE DEF found
    <3>2. Len(found) = 0 /\ found \in Seq(DOMAIN items)
      BY <3>1
    <3> QED
      BY <1>2, <1>3, <2>1, <3>1, <3>2 DEF Adds
  <2>2. CASE ~(d >= depth)
    <3>1. found = FirstOf(all, left)
      BY <2>2
    <3> HIDE DEF found
    <3>2. /\ found \in Seq(fresh) /\ Len(found) = IF left < Len(all) THEN left ELSE Len(all)
          /\ \A i \in 1 .. Len(found) : found[i] = all[i]
      <4> HIDE DEF left
      <4> QED
        BY <1>2, <1>6, <3>1, FirstOfSeq
    <3>3. /\ Len(found) \in Nat /\ Len(found) <= Len(all) /\ Len(found) <= left
          /\ Len(found) < left => Len(found) = Len(all)
      <4> HIDE DEF left
      <4>1. left < Len(all) => Len(found) = left
        BY <3>2
      <4>2. ~(left < Len(all)) => Len(found) = Len(all)
        BY <3>2
      <4> QED
        BY <1>2, <1>7, <4>1, <4>2
    <3>4. found \in Seq(DOMAIN items)
      BY <1>5, <3>2
    <3>5. \A i \in 1 .. Len(found) : found[i] \in fresh
      BY <3>2, ElementOfSeq
    <3>6. \A i, j \in 1 .. Len(found) : found[i] = found[j] => i = j
      <4> SUFFICES ASSUME NEW i \in 1 .. Len(found), NEW j \in 1 .. Len(found), found[i] = found[j]
                   PROVE  i = j
        OBVIOUS
      <4>1. i \in DOMAIN all /\ j \in DOMAIN all
        BY <1>6, <1>7, <3>3
      <4> QED
        BY <1>6, <3>2, <4>1
    <3>7. Len(b.order) + Len(found) <= budget
      BY <1>2, <3>3
    <3>8. ASSUME Len(b.order) + Len(found) < budget, NEW k \in fresh
          PROVE  \E i \in 1 .. Len(found) : found[i] = k
      <4>1. Len(found) = Len(all)
        BY <1>2, <3>3, <3>8
      <4> QED
        BY <1>6, <3>2, <4>1
    <3> QED
      BY <1>3, <2>2, <3>4, <3>5, <3>6, <3>7, <3>8 DEF Adds, fresh
  <2> QED
    BY <2>1, <2>2
<1> HIDE DEF found
<1> QED
  BY <1>4, <1>8

\* Step by step: what is in the queue and in the order after one more node.
Grows(b, found, w) ==
  LET m == Len(b.queue) - 1
      o == Len(b.order)
  IN /\ Len(w.queue) = m + Len(found)
     /\ \A i \in 1 .. m : w.queue[i] = b.queue[i + 1]
     /\ \A i \in 1 .. Len(found) : w.queue[m + i] = <<found[i], b.queue[1][2] + 1>>
     /\ Len(w.order) = o + Len(found)
     /\ \A i \in 1 .. o : w.order[i] = b.order[i]
     /\ \A i \in 1 .. Len(found) : w.order[o + i] = found[i]

\* The same, position by position.
LEMMA WalkIndexed ==
  ASSUME NEW items, NEW edges, NEW start, NEW depth, NEW budget, NEW mode, NEW b,
         GoesOn(items, start, depth, budget, b)
  PROVE  \E found :
           LET w == Walk(items, edges, start, depth, budget, mode, b)
           IN /\ Adds(items, edges, start, depth, budget, mode, b, found)
              /\ Grows(b, found, w)
              /\ w \in WalkState(items, start)
<1> DEFINE D == DOMAIN items
           T == ({start} \cup D) \X Nat
           q == b.queue
           r == b.order
           w == Walk(items, edges, start, depth, budget, mode, b)
           d == q[1][2]
<1>1. PICK found :
        /\ Adds(items, edges, start, depth, budget, mode, b, found)
        /\ Walk(items, edges, start, depth, budget, mode, b) = AfterNode(b, found)
  BY WalkAdds
<1> USE DEF GoesOn
<1>2. q \in Seq(T) /\ r \in Seq(D) /\ q # <<>>
  BY DEF WalkState
<1>3. found \in Seq(D)
  BY <1>1 DEF Adds
<1> DEFINE t == Tail(q)
           new == [i \in DOMAIN found |-> <<found[i], Head(q)[2] + 1>>]
<1>4. w.queue = t \o new /\ w.order = r \o found /\ w = [queue |-> t \o new, order |-> r \o found]
  BY <1>1 DEF AfterNode
<1> HIDE DEF w, q, r
<1>5. Len(q) \in Nat /\ Len(q) >= 1 /\ Len(r) \in Nat /\ Len(found) \in Nat
      /\ DOMAIN found = 1 .. Len(found)
  BY <1>2, <1>3
<1> HIDE DEF T
<1>6. t \in Seq(T) /\ Len(t) = Len(q) - 1 /\ Head(q) \in T /\ Head(q) = q[1]
      /\ \A i \in 1 .. Len(t) : t[i] = q[i + 1]
  BY <1>2, HeadTailProperties
<1> HIDE DEF t
<1>7. d \in Nat
  BY <1>6 DEF T
<1>8. /\ new \in Seq(T) /\ Len(new) = Len(found)
      /\ \A i \in 1 .. Len(found) : new[i] = <<found[i], d + 1>>
  <2> DEFINE n == Len(found)
  <2>1. new = [i \in 1 .. n |-> <<found[i], d + 1>>]
    BY <1>5, <1>6
  <2> HIDE DEF new
  <2>2. \A i \in 1 .. n : <<found[i], d + 1>> \in T
    <3> SUFFICES ASSUME NEW i \in 1 .. n PROVE <<found[i], d + 1>> \in T
      OBVIOUS
    <3>1. found[i] \in D
      BY <1>3, ElementOfSeq
    <3> HIDE DEF D, d
    <3> QED
      BY <1>7, <3>1 DEF T
  <2>3. n \in Nat
    BY <1>5
  <2> HIDE DEF n, d
  <2>4. new \in Seq(T) /\ Len(new) = n /\ \A i \in 1 .. n : new[i] = <<found[i], d + 1>>
    BY <2>1, <2>2, <2>3
  <2> QED
    BY <2>4 DEF n
<1> HIDE DEF new, d
<1>9. /\ t \o new \in Seq(T) /\ Len(t \o new) = Len(t) + Len(new)
      /\ \A i \in 1 .. Len(t) + Len(new) :
           (t \o new)[i] = IF i <= Len(t) THEN t[i] ELSE new[i - Len(t)]
  <2>1. t \in Seq(T) /\ new \in Seq(T)
    BY <1>6, <1>8
  <2> QED
    BY <2>1, ConcatProperties
<1>10. /\ r \o found \in Seq(D) /\ Len(r \o found) = Len(r) + Len(found)
       /\ \A i \in 1 .. Len(r) + Len(found) :
            (r \o found)[i] = IF i <= Len(r) THEN r[i] ELSE found[i - Len(r)]
  <2> HIDE DEF D
  <2> QED
    BY <1>2, <1>3, ConcatProperties
<1> DEFINE wq == w.queue
           wo == w.order
<1>11. /\ wq \in Seq(T) /\ Len(wq) = Len(t) + Len(new)
       /\ \A i \in 1 .. Len(t) + Len(new) : wq[i] = IF i <= Len(t) THEN t[i] ELSE new[i - Len(t)]
  BY <1>4, <1>9
<1>12. /\ wo \in Seq(D) /\ Len(wo) = Len(r) + Len(found)
       /\ \A i \in 1 .. Len(r) + Len(found) :
            wo[i] = IF i <= Len(r) THEN r[i] ELSE found[i - Len(r)]
  BY <1>4, <1>10
<1>13. w \in WalkState(items, start)
  <2>1. w = [queue |-> wq, order |-> wo]
    BY <1>4
  <2> HIDE DEF wq, wo
  <2> QED
    BY <1>11, <1>12, <2>1 DEF WalkState, T
<1> HIDE DEF wq, wo
<1> DEFINE m == Len(q) - 1
<1>14. m \in Nat /\ Len(t) = m /\ Len(wq) = m + Len(found)
  BY <1>5, <1>6, <1>8, <1>11
<1> HIDE DEF m
<1>15. \A i \in 1 .. m : wq[i] = q[i + 1]
  <2> SUFFICES ASSUME NEW i \in 1 .. m PROVE wq[i] = q[i + 1]
    OBVIOUS
  <2>1. i \in 1 .. Len(t) + Len(new) /\ i <= Len(t) /\ i \in 1 .. Len(t)
    BY <1>5, <1>8, <1>14
  <2> QED
    BY <1>6, <1>11, <2>1
<1>16. \A i \in 1 .. Len(found) : wq[m + i] = <<found[i], d + 1>>
  <2> SUFFICES ASSUME NEW i \in 1 .. Len(found) PROVE wq[m + i] = <<found[i], d + 1>>
    OBVIOUS
  <2> DEFINE j == m + i
  <2>1. j \in 1 .. Len(t) + Len(new) /\ ~(j <= Len(t)) /\ j - Len(t) = i
    BY <1>5, <1>8, <1>14
  <2> HIDE DEF j
  <2>2. wq[j] = new[j - Len(t)]
    BY <1>11, <2>1
  <2>3. wq[j] = <<found[i], d + 1>>
    BY <1>8, <2>1, <2>2
  <2> QED
    BY <2>3 DEF j
<1>17. \A i \in 1 .. Len(r) : wo[i] = r[i]
  <2> SUFFICES ASSUME NEW i \in 1 .. Len(r) PROVE wo[i] = r[i]
    OBVIOUS
  <2>1. i \in 1 .. Len(r) + Len(found) /\ i <= Len(r)
    BY <1>5
  <2> QED
    BY <1>12, <2>1
<1>18. \A i \in 1 .. Len(found) : wo[Len(r) + i] = found[i]
  <2> SUFFICES ASSUME NEW i \in 1 .. Len(found) PROVE wo[Len(r) + i] = found[i]
    OBVIOUS
  <2> DEFINE j == Len(r) + i
  <2>1. j \in 1 .. Len(r) + Len(found) /\ ~(j <= Len(r)) /\ j - Len(r) = i
    BY <1>5
  <2> HIDE DEF j
  <2>2. wo[j] = found[j - Len(r)]
    BY <1>12, <2>1
  <2> QED
    BY <2>1, <2>2 DEF j
<1>19. Grows(b, found, w)
  BY <1>12, <1>14, <1>15, <1>16, <1>17, <1>18 DEF Grows, wq, wo, m, d, q, r
<1> QED
  BY <1>1, <1>13, <1>19 DEF w

\* What the walk knows of.
Seen(start, b) == {start} \cup ToSet(b.order)

Waits(b, l) == \E i \in 1 .. Len(b.queue) : b.queue[i][1] = l

\* All that links of l lead to is seen, no further than one step behind l.
Followed(items, edges, mode, seen, label, l) ==
  \A k \in DOMAIN items :
    Shown(items, mode, k) /\ <<l, k>> \in edges => k \in seen /\ label[k] <= label[l] + 1

\* The inductive invariant of the walk.  label[k] is the distance at which k was found; the
\* queue is in the order of the labels and spans at most two of them, which is why what was
\* found is never found again nearer.
Order(items, start, budget, mode, b) ==
  /\ NoRepeat(b.order) /\ Len(b.order) <= budget
  /\ \A k \in ToSet(b.order) : k # start /\ Shown(items, mode, k)

Labels(near, start, depth, b, label) ==
  /\ label \in [Seen(start, b) -> 0 .. depth] /\ label[start] = 0
  /\ \A k \in Seen(start, b) : k \in near[label[k]]

Levels(start, b, label) ==
  /\ \A i \in 1 .. Len(b.queue) :
       b.queue[i][1] \in Seen(start, b) /\ b.queue[i][2] = label[b.queue[i][1]]
  /\ \A i, j \in 1 .. Len(b.queue) : i <= j => b.queue[i][2] <= b.queue[j][2]
  /\ b.queue # <<>> => \A k \in Seen(start, b) : label[k] <= b.queue[1][2] + 1

Complete(items, edges, start, depth, budget, mode, b, label) ==
  Len(b.order) < budget =>
    \A l \in Seen(start, b) :
      \/ Waits(b, l) \/ label[l] >= depth
      \/ Followed(items, edges, mode, Seen(start, b), label, l)

Explored(near, items, edges, start, depth, budget, mode, b, label) ==
  /\ Order(items, start, budget, mode, b)
  /\ Labels(near, start, depth, b, label)
  /\ Levels(start, b, label)
  /\ Complete(items, edges, start, depth, budget, mode, b, label)

\* One node of the queue keeps the labels, the levels and what is complete.
LEMMA ExploredStep ==
  ASSUME NEW items, NEW edges, NEW start, NEW depth, NEW budget, NEW mode, NEW b,
         GoesOn(items, start, depth, budget, b),
         NEW near, Near(near, items, edges, start, depth, mode),
         NEW label, Explored(near, items, edges, start, depth, budget, mode, b, label)
  PROVE  LET w == Walk(items, edges, start, depth, budget, mode, b)
         IN /\ w \in WalkState(items, start)
            /\ Len(w.queue) - Len(w.order) = Len(b.queue) - Len(b.order) - 1
            /\ \E l : Explored(near, items, edges, start, depth, budget, mode, w, l)
<1> DEFINE w == Walk(items, edges, start, depth, budget, mode, b)
           m == Len(b.queue) - 1
           o == Len(b.order)
           n == b.queue[1][1]
           d == b.queue[1][2]
           seen == Seen(start, b)
           fresh == Fresh(items, edges, start, mode, b.order, n)
<1>1. PICK found :
        /\ Adds(items, edges, start, depth, budget, mode, b, found)
        /\ Grows(b, found, Walk(items, edges, start, depth, budget, mode, b))
        /\ Walk(items, edges, start, depth, budget, mode, b) \in WalkState(items, start)
  BY WalkIndexed
<1> DEFINE c == Len(found)
           new == {found[i] : i \in 1 .. c}
           known == [k \in seen \cup new |-> IF k \in seen THEN label[k] ELSE d + 1]
<1>2. /\ b.queue \in Seq(({start} \cup DOMAIN items) \X Nat) /\ b.queue # <<>>
      /\ b.order \in Seq(DOMAIN items) /\ depth \in Nat /\ budget \in Nat /\ o < budget
      /\ found \in Seq(DOMAIN items)
  BY <1>1 DEF GoesOn, WalkState, Adds
<1>3. m \in Nat /\ o \in Nat /\ c \in Nat /\ Len(b.queue) = m + 1 /\ 1 \in 1 .. Len(b.queue)
      /\ DOMAIN b.order = 1 .. o /\ Head(b.queue) = b.queue[1]
  <2>1. Len(b.queue) \in Nat /\ Len(b.queue) # 0 /\ Head(b.queue) = b.queue[1]
    BY <1>2
  <2>2. Len(b.order) \in Nat /\ DOMAIN b.order = 1 .. Len(b.order) /\ Len(found) \in Nat
    BY <1>2, LenProperties
  <2> QED
    BY <2>1, <2>2
<1>4. /\ \A i \in 1 .. c : found[i] \in fresh
      /\ \A i, j \in 1 .. c : found[i] = found[j] => i = j
      /\ o + c <= budget
      /\ d >= depth => found = <<>>
      /\ d < depth /\ o + c < budget => \A k \in fresh : \E i \in 1 .. c : found[i] = k
  BY <1>1, <1>3 DEF Adds
<1>5. n \in seen /\ d = label[n] /\ d \in 0 .. depth /\ n \in near[d]
  <2>1. n \in seen /\ d = label[n]
    BY <1>3 DEF Explored, Levels
  <2> QED
    BY <2>1 DEF Explored, Labels
<1>6. \A k : k \in fresh <=>
        k \in DOMAIN items /\ k \notin seen /\ <<n, k>> \in edges /\ Shown(items, mode, k)
  BY DEF Fresh, Seen
<1>7. DOMAIN w.order = 1 .. (o + c) /\ Len(w.queue) = m + c /\ Len(w.order) = o + c
  <2>1. DOMAIN w.order = 1 .. Len(w.order)
    BY <1>1, LenProperties DEF WalkState
  <2> QED
    BY <1>1, <2>1 DEF Grows
<1> DEFINE wq == w.queue
           wo == w.order
<1>8. /\ \A i \in 1 .. m : wq[i] = b.queue[i + 1]
      /\ \A i \in 1 .. c : wq[m + i] = <<found[i], d + 1>>
      /\ \A i \in 1 .. o : wo[i] = b.order[i]
      /\ \A i \in 1 .. c : wo[o + i] = found[i]
      /\ DOMAIN wo = 1 .. (o + c) /\ Len(wq) = m + c /\ Len(wo) = o + c
  BY <1>1, <1>7 DEF Grows
<1>9. /\ \A k \in ToSet(b.order) : \E i \in 1 .. o : b.order[i] = k
      /\ \A i \in 1 .. o : b.order[i] \in ToSet(b.order)
  BY <1>3 DEF ToSet
<1> HIDE DEF w, m, o, c, fresh, seen, n, d, wq, wo
<1>10. ASSUME NEW i \in 1 .. (o + c)
       PROVE  \/ i \in 1 .. o /\ wo[i] = b.order[i]
              \/ i - o \in 1 .. c /\ wo[i] = found[i - o] /\ wo[i] \in fresh
  <2>1. CASE i <= o
    BY <1>3, <1>8, <2>1
  <2>2. CASE ~(i <= o)
    <3> DEFINE j == i - o
    <3>1. j \in 1 .. c /\ o + j = i
      BY <1>3, <2>2
    <3> HIDE DEF j
    <3>2. wo[i] = found[j] /\ found[j] \in fresh
      BY <1>4, <1>8, <3>1
    <3> QED
      BY <3>1, <3>2 DEF j
  <2> QED
    BY <2>1, <2>2
<1>11. ToSet(wo) = ToSet(b.order) \cup new
  <2>1. ASSUME NEW k \in ToSet(wo) PROVE k \in ToSet(b.order) \cup new
    <3>1. PICK i \in 1 .. (o + c) : wo[i] = k
      BY <1>8 DEF ToSet
    <3> QED
      BY <1>9, <1>10, <3>1
  <2>2. ASSUME NEW k \in ToSet(b.order) PROVE k \in ToSet(wo)
    <3>1. PICK i \in 1 .. o : b.order[i] = k
      BY <1>9
    <3>2. i \in 1 .. (o + c) /\ wo[i] = k
      BY <1>3, <1>8, <3>1
    <3> QED
      BY <1>8, <3>2 DEF ToSet
  <2>3. ASSUME NEW k \in new PROVE k \in ToSet(wo)
    <3>1. PICK i \in 1 .. c : found[i] = k
      OBVIOUS
    <3>2. o + i \in 1 .. (o + c) /\ wo[o + i] = k
      BY <1>3, <1>8, <3>1
    <3> QED
      BY <1>8, <3>2 DEF ToSet
  <2> QED
    BY <2>1, <2>2, <2>3
<1>12. Seen(start, w) = seen \cup new /\ \A k \in new : k \in fresh
  BY <1>4, <1>11 DEF Seen, seen, wo
<1>13. ASSUME NEW k \in new PROVE k \notin seen /\ k \in DOMAIN items /\ d < depth
  <2>1. k \notin seen /\ k \in DOMAIN items
    BY <1>6, <1>12, <1>13
  <2>2. found # <<>>
    BY <1>2, <1>13 DEF c
  <2> QED
    BY <1>2, <1>4, <1>5, <2>1, <2>2
<1> DEFINE lab == known
<1>14. /\ lab = [k \in seen \cup new |-> IF k \in seen THEN label[k] ELSE d + 1]
       /\ \A k \in seen : lab[k] = label[k]
       /\ \A k \in new : lab[k] = d + 1
  BY <1>13
<1> HIDE DEF lab, known, new
<1>15. Order(items, start, budget, mode, w)
  <2>1. ASSUME NEW i \in 1 .. (o + c), NEW j \in 1 .. (o + c), wo[i] = wo[j] PROVE i = j
    <3>1. \A x, y \in 1 .. o : b.order[x] = b.order[y] => x = y
      BY <1>3 DEF Explored, Order, NoRepeat
    <3>2. \A x \in 1 .. o : b.order[x] \in seen
      BY <1>9 DEF seen, Seen
    <3>3. CASE i \in 1 .. o /\ wo[i] = b.order[i]
      <4>1. ~(wo[j] \in fresh)
        BY <1>6, <2>1, <3>2, <3>3
      <4> QED
        BY <1>10, <2>1, <3>1, <3>3, <4>1
    <3>4. CASE i - o \in 1 .. c /\ wo[i] = found[i - o] /\ wo[i] \in fresh
      <4>1. ~(j \in 1 .. o /\ wo[j] = b.order[j])
        BY <1>6, <2>1, <3>2, <3>4
      <4>2. j - o \in 1 .. c /\ wo[j] = found[j - o]
        BY <1>10, <4>1
      <4>3. i - o = j - o
        BY <1>4, <2>1, <3>4, <4>2
      <4> QED
        BY <1>3, <4>3
    <3> QED
      BY <1>10, <3>3, <3>4
  <2>2. NoRepeat(wo) /\ Len(wo) <= budget
    BY <1>4, <1>8, <2>1 DEF NoRepeat
  <2>3. \A k \in ToSet(wo) : k # start /\ Shown(items, mode, k)
    <3>1. \A k \in ToSet(b.order) : k # start /\ Shown(items, mode, k)
      BY DEF Explored, Order
    <3>2. \A k \in new : k # start /\ Shown(items, mode, k)
      BY <1>6, <1>12 DEF seen, Seen
    <3> QED
      BY <1>11, <3>1, <3>2
  <2> QED
    BY <2>2, <2>3 DEF Order, wo
<1>16. Labels(near, start, depth, w, lab)
  <2>1. label \in [seen -> 0 .. depth] /\ label[start] = 0 /\ \A k \in seen : k \in near[label[k]]
    BY DEF Explored, Labels, seen
  <2>2. ASSUME NEW k \in new PROVE d + 1 \in 1 .. depth /\ k \in near[d + 1]
    <3> DEFINE e == d + 1
    <3>1. e \in 1 .. depth /\ e - 1 = d
      BY <1>2, <1>5, <1>13, <2>2
    <3> HIDE DEF e
    <3>2. near[e] = near[e - 1] \cup {x \in DOMAIN items :
                      Shown(items, mode, x) /\ \E l \in near[e - 1] : <<l, x>> \in edges}
      BY <3>1 DEF Near
    <3>3. k \in DOMAIN items /\ Shown(items, mode, k) /\ <<n, k>> \in edges
      BY <1>6, <1>12, <2>2
    <3>4. k \in near[e]
      BY <1>5, <3>1, <3>2, <3>3
    <3> QED
      BY <3>1, <3>4 DEF e
  <2>3. ASSUME NEW k \in seen \cup new
        PROVE  lab[k] \in 0 .. depth /\ k \in near[lab[k]]
    <3>1. CASE k \in seen
      BY <1>14, <2>1, <3>1
    <3>2. CASE k \in new
      BY <1>2, <1>14, <2>2, <3>2
    <3> QED
      BY <3>1, <3>2
  <2>4. lab \in [seen \cup new -> 0 .. depth]
    <3>1. lab = [k \in seen \cup new |-> lab[k]]
      BY <1>14
    <3> QED
      BY <2>3, <3>1
  <2>5. start \in seen
    BY DEF seen, Seen
  <2> QED
    BY <1>12, <1>14, <2>1, <2>3, <2>4, <2>5 DEF Labels
<1>17. \A k \in seen : label[k] \in Nat /\ label[k] <= d + 1
  <2>1. label \in [seen -> 0 .. depth]
    BY DEF Explored, Labels, seen
  <2>2. \A k \in seen : label[k] <= d + 1
    BY <1>2 DEF Explored, Levels, seen, d
  <2> QED
    BY <1>2, <2>1, <2>2
<1>18. ASSUME NEW i \in 1 .. (m + c)
       PROVE  \/ /\ i \in 1 .. m /\ wq[i] = b.queue[i + 1] /\ wq[i][1] \in seen
                 /\ wq[i][2] = label[wq[i][1]] /\ wq[i][2] \in Nat
                 /\ d <= wq[i][2] /\ wq[i][2] <= d + 1
              \/ /\ i > m /\ i - m \in 1 .. c /\ wq[i][1] = found[i - m] /\ wq[i][2] = d + 1
                 /\ wq[i][1] \in new
  <2>1. CASE i <= m
    <3>1. i \in 1 .. m /\ i + 1 \in 1 .. Len(b.queue) /\ 1 <= i + 1
      BY <1>3, <2>1
    <3>2. wq[i] = b.queue[i + 1]
      BY <1>8, <3>1
    <3>3. b.queue[i + 1][1] \in seen /\ b.queue[i + 1][2] = label[b.queue[i + 1][1]]
      BY <3>1 DEF Explored, Levels, seen
    <3>4. d <= b.queue[i + 1][2]
      BY <1>3, <3>1 DEF Explored, Levels, d
    <3> QED
      BY <1>17, <3>1, <3>2, <3>3, <3>4
  <2>2. CASE ~(i <= m)
    <3> DEFINE j == i - m
    <3>1. j \in 1 .. c /\ m + j = i /\ i > m
      BY <1>3, <2>2
    <3> HIDE DEF j
    <3>2. wq[i] = <<found[j], d + 1>>
      BY <1>8, <3>1
    <3>3. found[j] \in new
      BY <3>1 DEF new
    <3> QED
      BY <3>1, <3>2, <3>3 DEF j
  <2> QED
    BY <2>1, <2>2
<1>19. Levels(start, w, lab)
  <2>1. ASSUME NEW i \in 1 .. (m + c)
        PROVE  wq[i][1] \in seen \cup new /\ wq[i][2] = lab[wq[i][1]]
    BY <1>14, <1>18
  <2>2. ASSUME NEW i \in 1 .. (m + c), NEW j \in 1 .. (m + c), i <= j
        PROVE  wq[i][2] <= wq[j][2]
    <3>1. CASE i \in 1 .. m /\ j \in 1 .. m
      <4>1. i + 1 \in 1 .. Len(b.queue) /\ j + 1 \in 1 .. Len(b.queue) /\ i + 1 <= j + 1
        BY <1>3, <2>2, <3>1
      <4>2. b.queue[i + 1][2] <= b.queue[j + 1][2]
        BY <4>1 DEF Explored, Levels
      <4> QED
        BY <1>8, <3>1, <4>2
    <3>2. CASE j > m
      <4>1. wq[j][2] = d + 1
        BY <1>3, <1>18, <3>2
      <4> QED
        BY <1>5, <1>18, <4>1
    <3>3. CASE ~(i \in 1 .. m) /\ ~(j > m)
      BY <1>3, <2>2, <3>3
    <3> QED
      BY <1>3, <3>1, <3>2, <3>3
  <2>3. ASSUME wq # <<>>, NEW k \in seen \cup new PROVE lab[k] <= wq[1][2] + 1
    <3>1. 1 \in 1 .. (m + c)
      <4>1. wq \in Seq(({start} \cup DOMAIN items) \X Nat)
        BY <1>1 DEF WalkState, wq, w
      <4>2. Len(wq) \in Nat /\ Len(wq) # 0
        BY <2>3, <4>1
      <4> QED
        BY <1>8, <4>2
    <3>2. wq[1][2] \in Nat /\ d <= wq[1][2]
      BY <1>5, <1>18, <3>1
    <3>3. lab[k] <= d + 1 /\ lab[k] \in Nat
      BY <1>5, <1>14, <1>17
    <3> QED
      BY <1>5, <3>2, <3>3
  <2> QED
    BY <1>8, <1>12, <2>1, <2>2, <2>3 DEF Levels, wq
<1>20. Complete(items, edges, start, depth, budget, mode, w, lab)
  <2> SUFFICES ASSUME o + c < budget, NEW l \in seen \cup new
               PROVE  \/ Waits(w, l) \/ lab[l] >= depth
                      \/ Followed(items, edges, mode, seen \cup new, lab, l)
    BY <1>8, <1>12 DEF Complete, wo
  <2>1. CASE l \in new
    <3>1. PICK i \in 1 .. c : found[i] = l
      BY <2>1 DEF new
    <3> DEFINE j == m + i
    <3>2. j \in 1 .. (m + c)
      BY <1>3
    <3>3. wq[j][1] = l
      BY <1>8, <3>1
    <3> HIDE DEF j
    <3>4. Waits(w, l)
      BY <1>8, <3>2, <3>3 DEF Waits, wq
    <3> QED
      BY <3>4
  <2>2. CASE l \in seen
    <3>1. \/ Waits(b, l) \/ label[l] >= depth \/ Followed(items, edges, mode, seen, label, l)
      BY <1>2, <2>2 DEF Explored, Complete, seen, o
    <3>2. CASE label[l] >= depth
      BY <1>14, <2>2, <3>2
    <3>3. CASE Followed(items, edges, mode, seen, label, l)
      <4>1. Followed(items, edges, mode, seen \cup new, lab, l)
        BY <1>14, <2>2, <3>3 DEF Followed
      <4> QED
        BY <4>1
    <3>4. CASE Waits(b, l)
      <4>1. PICK i \in 1 .. Len(b.queue) : b.queue[i][1] = l
        BY <3>4 DEF Waits
      <4>2. CASE i = 1
        <5>1. l = n /\ label[l] = d
          BY <1>5, <4>1, <4>2 DEF n
        <5>2. CASE d >= depth
          BY <1>14, <2>2, <5>1, <5>2
        <5>3. CASE d < depth
          <6>1. ASSUME NEW k \in DOMAIN items, Shown(items, mode, k), <<l, k>> \in edges
                PROVE  k \in seen \cup new /\ lab[k] <= lab[l] + 1
            <7>1. CASE k \in seen
              BY <1>14, <1>17, <2>2, <5>1, <7>1
            <7>2. CASE k \notin seen
              <8>1. k \in fresh
                BY <1>6, <5>1, <6>1, <7>2
              <8>2. k \in new
                BY <1>4, <5>3, <8>1 DEF new
              <8> QED
                BY <1>5, <1>14, <2>2, <5>1, <8>2
            <7> QED
              BY <7>1, <7>2
          <6>2. Followed(items, edges, mode, seen \cup new, lab, l)
            BY <6>1 DEF Followed
          <6> QED
            BY <6>2
        <5> QED
          BY <1>2, <1>5, <5>2, <5>3
      <4>3. CASE i # 1
        <5> DEFINE j == i - 1
        <5>1. j \in 1 .. m /\ j + 1 = i /\ j \in 1 .. (m + c)
          BY <1>3, <4>3
        <5> HIDE DEF j
        <5>2. wq[j][1] = l
          BY <1>8, <4>1, <5>1
        <5>3. Waits(w, l)
          BY <1>8, <5>1, <5>2 DEF Waits, wq
        <5> QED
          BY <5>3
      <4> QED
        BY <4>2, <4>3
    <3> QED
      BY <3>1, <3>2, <3>3, <3>4
  <2> QED
    BY <2>1, <2>2
<1>21. Explored(near, items, edges, start, depth, budget, mode, w, lab)
  BY <1>15, <1>16, <1>19, <1>20 DEF Explored
<1>22. Len(w.queue) - Len(w.order) = Len(b.queue) - Len(b.order) - 1
  <2>1. Len(w.queue) = m + c /\ Len(w.order) = o + c
    BY <1>8 DEF wq, wo
  <2>2. Len(b.queue) = m + 1 /\ Len(b.order) = o
    BY <1>3 DEF o
  <2> QED
    BY <1>3, <2>1, <2>2
<1> QED
  BY <1>1, <1>21, <1>22 DEF w

\* A list without repetition is as long as what it lists.
LEMMA LengthOfDistinct ==
  ASSUME NEW X, NEW s \in Seq(X), NoRepeat(s)
  PROVE  IsFiniteSet(ToSet(s)) /\ Cardinality(ToSet(s)) = Len(s)
<1> DEFINE n == Len(s)
           T == ToSet(s)
<1>1. n \in Nat /\ DOMAIN s = 1 .. n /\ IsFiniteSet(1 .. n) /\ Cardinality(1 .. n) = n
  <2>1. n \in Nat /\ DOMAIN s = 1 .. n
    BY LenProperties
  <2> HIDE DEF n
  <2> QED
    BY <2>1, FS_Interval
<1>2. T = {s[i] : i \in 1 .. n} /\ \A i, j \in 1 .. n : s[i] = s[j] => i = j
  BY <1>1 DEF ToSet, NoRepeat
<1>3. s = [i \in 1 .. n |-> s[i]]
  BY <1>1
<1> HIDE DEF T, n
<1>4. s \in [1 .. n -> T] /\ \A t \in T : \E i \in 1 .. n : s[i] = t
  BY <1>2, <1>3
<1>5. s \in Surjection(1 .. n, T) /\ s \in Injection(1 .. n, T)
  BY <1>2, <1>4 DEF Surjection, Injection, IsInjective
<1>6. IsFiniteSet(T) /\ Cardinality(T) = Cardinality(1 .. n)
  BY <1>1, <1>5, FS_Surjection
<1> QED
  BY <1>1, <1>6 DEF T, n

\* near only grows, over knowledge that is there.
LEMMA NearGrows ==
  ASSUME NEW near, NEW items, NEW edges, NEW start, NEW depth \in Nat, NEW mode,
         Near(near, items, edges, start, depth, mode)
  PROVE  /\ \A n \in 0 .. depth : near[n] \subseteq near[depth]
         /\ near[depth] \subseteq {start} \cup DOMAIN items
<1> DEFINE S == {n \in 0 .. depth : /\ \A j \in 0 .. n : near[j] \subseteq near[n]
                                    /\ near[n] \subseteq {start} \cup DOMAIN items}
<1>1. 0 \in S
  BY DEF Near
<1>2. ASSUME NEW n \in 0 .. depth - 1, n \in S PROVE n + 1 \in S
  <2> DEFINE m == n + 1
  <2>1. m \in 1 .. depth /\ m - 1 = n /\ m \in 0 .. depth
    OBVIOUS
  <2> HIDE DEF m
  <2>2. near[m] = near[m - 1] \cup
                    {k \in DOMAIN items :
                       Shown(items, mode, k) /\ \E l \in near[m - 1] : <<l, k>> \in edges}
    BY <2>1 DEF Near
  <2>3. near[n] \subseteq near[m] /\ near[m] \subseteq {start} \cup DOMAIN items
    BY <1>2, <2>1, <2>2
  <2>4. ASSUME NEW j \in 0 .. m PROVE near[j] \subseteq near[m]
    <3>1. j \in 0 .. n \/ j = m
      BY <2>1
    <3> QED
      BY <1>2, <2>3, <3>1
  <2>5. m \in S
    BY <2>1, <2>3, <2>4
  <2> QED
    BY <2>5 DEF m
<1>3. \A n \in 0 .. depth : n \in S
  <2> HIDE DEF S
  <2> QED
    BY <1>1, <1>2, CountUp
<1>4. depth \in S
  BY <1>3
<1> QED
  BY <1>4

\* When the queue is empty before the budget is spent, everything within depth was found.
LEMMA NothingMissed ==
  ASSUME NEW near, NEW items, NEW edges, NEW start, NEW depth \in Nat, NEW budget \in Nat,
         NEW mode, Near(near, items, edges, start, depth, mode),
         NEW b, NEW label, Explored(near, items, edges, start, depth, budget, mode, b, label),
         b.queue = <<>>, Len(b.order) < budget
  PROVE  near[depth] \subseteq Seen(start, b)
<1> DEFINE seen == Seen(start, b)
           S == {n \in 0 .. depth : \A k \in near[n] : k \in seen /\ label[k] <= n}
<1>1. label \in [seen -> 0 .. depth] /\ label[start] = 0 /\ start \in seen
  BY DEF Explored, Labels, Seen
<1>2. \A l \in seen : label[l] >= depth \/ Followed(items, edges, mode, seen, label, l)
  <2>1. \A l : ~Waits(b, l)
    BY DEF Waits
  <2> QED
    BY <2>1 DEF Explored, Complete
<1> HIDE DEF seen
<1>3. 0 \in S
  BY <1>1 DEF Near
<1>4. ASSUME NEW n \in 0 .. depth - 1, n \in S PROVE n + 1 \in S
  <2> DEFINE m == n + 1
  <2>1. m \in 1 .. depth /\ m - 1 = n /\ m \in 0 .. depth /\ n < depth /\ n < m
    OBVIOUS
  <2> HIDE DEF m
  <2>2. near[m] = near[m - 1] \cup
                    {k \in DOMAIN items :
                       Shown(items, mode, k) /\ \E l \in near[m - 1] : <<l, k>> \in edges}
    BY <2>1 DEF Near
  <2>3. ASSUME NEW k \in near[m] PROVE k \in seen /\ label[k] <= m
    <3>1. CASE k \in near[n]
      <4>1. k \in seen /\ label[k] <= n /\ label[k] \in 0 .. depth
        BY <1>1, <1>4, <3>1
      <4> QED
        BY <2>1, <4>1
    <3>2. CASE k \notin near[n]
      <4>1. PICK l \in near[n] : k \in DOMAIN items /\ Shown(items, mode, k) /\ <<l, k>> \in edges
        BY <2>1, <2>2, <3>2
      <4>2. l \in seen /\ label[l] <= n /\ label[l] \in 0 .. depth
        BY <1>1, <1>4
      <4>3. ~(label[l] >= depth)
        BY <2>1, <4>2
      <4>4. k \in seen /\ label[k] <= label[l] + 1
        BY <1>2, <4>1, <4>2, <4>3 DEF Followed
      <4>5. label[k] \in 0 .. depth
        BY <1>1, <4>4
      <4> QED
        BY <2>1, <4>2, <4>4, <4>5
    <3> QED
      BY <3>1, <3>2
  <2>4. m \in S
    BY <2>1, <2>3
  <2> QED
    BY <2>4 DEF m
<1>5. \A n \in 0 .. depth : n \in S
  <2> HIDE DEF S
  <2> QED
    BY <1>3, <1>4, CountUp
<1>6. depth \in S
  BY <1>5
<1> QED
  BY <1>6 DEF seen

\* The walk goes through such states until the queue or the budget is spent.
Ended(budget, b) == b.queue = <<>> \/ Len(b.order) >= budget

EndsAt(near, items, edges, start, depth, budget, mode, b, label) ==
  /\ b \in WalkState(items, start) /\ Ended(budget, b)
  /\ Explored(near, items, edges, start, depth, budget, mode, b, label)
  /\ Expand(items, edges, start, depth, budget, mode) =
       IF ~Shown(items, mode, start) /\ mode # "audit" THEN <<>> ELSE b.order

\* The walk ends, by the length of what it still can find, as an explored one.
LEMMA ExpandIs ==
  ASSUME NEW items, IsFiniteSet(DOMAIN items), DOMAIN items \subseteq Nat, NEW edges, NEW start,
         NEW depth \in Nat, NEW budget \in Nat, NEW mode,
         NEW near, Near(near, items, edges, start, depth, mode)
  PROVE  \E b, label : EndsAt(near, items, edges, start, depth, budget, mode, b, label)
<1> DEFINE D == DOMAIN items
           steps == Cardinality(D) + 1
           base == [queue |-> <<<<start, 0>>>>, order |-> <<>>]
           V == WalkState(items, start)
           After(v) == IF v.queue = <<>> \/ Len(v.order) >= budget THEN v
                       ELSE Walk(items, edges, start, depth, budget, mode, v)
           F == [v \in V |-> After(v)]
           walk[n \in 0 .. steps] ==
             IF n = 0 THEN [queue |-> <<<<start, 0>>>>, order |-> <<>>]
             ELSE IF walk[n - 1].queue = <<>> \/ Len(walk[n - 1].order) >= budget THEN walk[n - 1]
             ELSE Walk(items, edges, start, depth, budget, mode, walk[n - 1])
           Is(f) == f = [n \in 0 .. steps |-> IF n = 0 THEN base ELSE After(f[n - 1])]
<1>1. steps \in Nat /\ Cardinality(D) \in Nat
  BY FS_CardinalityType
<1>2. Expand(items, edges, start, depth, budget, mode) =
        IF ~Shown(items, mode, start) /\ mode # "audit" THEN <<>> ELSE walk[steps].order
  BY DEF Expand
<1>3. walk = CHOOSE f : Is(f)
  OBVIOUS
<1> HIDE DEF walk, steps
<1>4. ASSUME NEW v \in V, ~Ended(budget, v) PROVE GoesOn(items, start, depth, budget, v)
  <2>1. Len(v.order) \in Nat
    BY DEF WalkState
  <2> QED
    BY <1>4, <2>1 DEF GoesOn, Ended
<1>5. \A v \in V : After(v) = IF Ended(budget, v) THEN v
                              ELSE Walk(items, edges, start, depth, budget, mode, v)
  BY DEF Ended
<1>6. base \in V
  <2>1. <<<<start, 0>>>> \in Seq(({start} \cup D) \X Nat) /\ <<>> \in Seq(D)
    OBVIOUS
  <2> DEFINE q == <<<<start, 0>>>>
  <2>2. q \in Seq(({start} \cup D) \X Nat)
    BY <2>1
  <2> HIDE DEF q
  <2>3. [queue |-> q, order |-> <<>>] \in V
    BY <2>1, <2>2 DEF WalkState
  <2> QED
    BY <2>3 DEF q
<1> HIDE DEF V, After
<1>7. \A v \in V : After(v) \in V
  <2> SUFFICES ASSUME NEW v \in V, ~Ended(budget, v) PROVE After(v) \in V
    BY <1>5
  <2>1. \E found : /\ Adds(items, edges, start, depth, budget, mode, v, found)
                   /\ Grows(v, found, Walk(items, edges, start, depth, budget, mode, v))
                   /\ Walk(items, edges, start, depth, budget, mode, v) \in V
    BY <1>4, WalkIndexed DEF V
  <2> QED
    BY <1>5, <2>1
<1>8. F \in [V -> V] /\ \A v \in V : F[v] = After(v)
  BY <1>7
<1> HIDE DEF F, base
<1>9. PICK f : Repeats(f, V, base, F, steps)
  BY <1>1, <1>6, <1>8, Repeated
<1>10. \E g : Is(g)
  <2>1. \A n \in 1 .. steps : f[n - 1] \in V
    BY <1>1, <1>9 DEF Repeats
  <2>2. \A n \in 0 .. steps : f[n] = IF n = 0 THEN base ELSE After(f[n - 1])
    BY <1>1, <1>8, <1>9, <2>1 DEF Repeats
  <2>3. Is(f)
    BY <1>9, <2>2 DEF Repeats
  <2> HIDE DEF Is
  <2> QED
    BY <2>3
<1>11. Is(walk)
  <2> HIDE DEF Is
  <2> QED
    BY <1>3, <1>10
<1>12. walk[0] = base /\ \A n \in 1 .. steps : walk[n] = After(walk[n - 1])
  BY <1>1, <1>11
<1> DEFINE Good(b) == \E label : Explored(near, items, edges, start, depth, budget, mode, b, label)
           Counts(n, b) == Ended(budget, b) \/ n + Len(b.queue) = 1 + Len(b.order)
           S == {n \in 0 .. steps : walk[n] \in V /\ Good(walk[n]) /\ Counts(n, walk[n])}
<1>13. Good(base) /\ Counts(0, base)
  <2> DEFINE label == [k \in {start} |-> 0]
             q == <<<<start, 0>>>>
             o == <<>>
  <2>1. /\ base.queue = q /\ base.order = o
        /\ Len(q) = 1 /\ q[1] = <<start, 0>> /\ Len(o) = 0 /\ DOMAIN o = {}
    BY DEF base
  <2>2. ToSet(base.order) = {} /\ Seen(start, base) = {start}
    BY <2>1 DEF ToSet, Seen
  <2> HIDE DEF q, o
  <2>3. Order(items, start, budget, mode, base)
    BY <2>1, <2>2 DEF Order, NoRepeat
  <2>4. label \in [{start} -> 0 .. depth] /\ label[start] = 0
    OBVIOUS
  <2> HIDE DEF label
  <2>5. Labels(near, start, depth, base, label)
    BY <2>2, <2>4 DEF Labels, Near
  <2>6. Levels(start, base, label)
    BY <2>1, <2>2, <2>4 DEF Levels
  <2>7. Waits(base, start)
    BY <2>1 DEF Waits
  <2>8. Complete(items, edges, start, depth, budget, mode, base, label)
    BY <2>2, <2>7 DEF Complete
  <2>9. Explored(near, items, edges, start, depth, budget, mode, base, label)
    BY <2>3, <2>5, <2>6, <2>8 DEF Explored
  <2>10. Counts(0, base)
    BY <2>1
  <2> QED
    BY <2>9, <2>10
<1> HIDE DEF Good
<1>14. 0 \in S
  BY <1>1, <1>6, <1>12, <1>13
<1>15. ASSUME NEW n \in 0 .. steps - 1, n \in S PROVE n + 1 \in S
  <2> DEFINE m == n + 1
             v == walk[n]
             w == Walk(items, edges, start, depth, budget, mode, v)
  <2>1. m \in 1 .. steps /\ m \in 0 .. steps /\ m - 1 = n
    BY <1>1
  <2>2. v \in V /\ Good(v) /\ Counts(n, v)
    BY <1>15
  <2> HIDE DEF m
  <2>3. walk[m] = After(v)
    BY <1>12, <2>1
  <2> HIDE DEF v
  <2>4. CASE Ended(budget, v)
    BY <1>5, <2>1, <2>2, <2>3, <2>4 DEF m
  <2>5. CASE ~Ended(budget, v)
    <3>1. walk[m] = w
      BY <1>5, <2>2, <2>3, <2>5
    <3>2. GoesOn(items, start, depth, budget, v)
      BY <1>4, <2>2, <2>5
    <3>3. PICK label : Explored(near, items, edges, start, depth, budget, mode, v, label)
      BY <2>2 DEF Good
    <3>4. /\ w \in WalkState(items, start)
          /\ Len(w.queue) - Len(w.order) = Len(v.queue) - Len(v.order) - 1
          /\ \E l : Explored(near, items, edges, start, depth, budget, mode, w, l)
      BY <3>2, <3>3, ExploredStep
    <3> HIDE DEF w
    <3>5. w \in V /\ Good(w)
      BY <3>4 DEF V, Good
    <3>6. Len(w.queue) \in Nat /\ Len(w.order) \in Nat /\ Len(v.queue) \in Nat
          /\ Len(v.order) \in Nat
      BY <2>2, <3>4 DEF V, WalkState
    <3>7. n + Len(v.queue) = 1 + Len(v.order)
      BY <2>2, <2>5
    <3>8. m + Len(w.queue) = 1 + Len(w.order)
      <4> DEFINE x == Len(w.queue)
                 y == Len(w.order)
                 p == Len(v.queue)
                 r == Len(v.order)
      <4>1. x \in Nat /\ y \in Nat /\ p \in Nat /\ r \in Nat
        BY <3>6
      <4>2. x - y = p - r - 1
        BY <3>4
      <4>3. n + p = 1 + r
        BY <3>7
      <4>4. n \in Nat /\ m = n + 1
        BY <1>1 DEF m
      <4> HIDE DEF x, y, p, r
      <4>5. m + x = 1 + y
        BY <4>1, <4>2, <4>3, <4>4
      <4> QED
        BY <4>5 DEF x, y
    <3> QED
      BY <2>1, <3>1, <3>5, <3>8 DEF m
  <2> QED
    BY <2>4, <2>5
<1>16. \A n \in 0 .. steps : n \in S
  <2> HIDE DEF S
  <2> QED
    BY <1>1, <1>14, <1>15, CountUp
<1> DEFINE b == walk[steps]
<1>17. b \in V /\ Good(b) /\ Counts(steps, b)
  BY <1>1, <1>16
<1> HIDE DEF b
<1>18. PICK label : Explored(near, items, edges, start, depth, budget, mode, b, label)
  BY <1>17 DEF Good
<1>19. Ended(budget, b)
  <2> SUFFICES ASSUME steps + Len(b.queue) = 1 + Len(b.order) PROVE b.queue = <<>>
    BY <1>17 DEF Ended
  <2> DEFINE r == b.order
             q == b.queue
  <2>1. r \in Seq(D) /\ q \in Seq(({start} \cup D) \X Nat) /\ NoRepeat(r)
    BY <1>17, <1>18 DEF V, WalkState, Explored, Order
  <2> HIDE DEF r, q
  <2>2. ToSet(r) \subseteq D
    <3>1. \A i \in DOMAIN r : r[i] \in D
      BY <2>1, ElementOfSeq, LenProperties
    <3> QED
      BY <3>1 DEF ToSet
  <2> HIDE DEF D
  <2>3. Len(r) <= Cardinality(D)
    <3>1. Cardinality(ToSet(r)) = Len(r)
      BY <2>1, LengthOfDistinct
    <3>2. Cardinality(ToSet(r)) <= Cardinality(D)
      BY <2>2, FS_Subset DEF D
    <3> QED
      BY <3>1, <3>2
  <2>4. Len(r) \in Nat /\ Len(q) \in Nat
    BY <2>1, LenProperties
  <2>5. Cardinality(D) + 1 + Len(q) = 1 + Len(r)
    BY DEF steps, q, r
  <2>6. Len(q) = 0
    BY <1>1, <2>3, <2>4, <2>5
  <2>7. q = <<>>
    BY <2>1, <2>6
  <2> QED
    BY <2>7 DEF q
<1>20. b \in WalkState(items, start)
  BY <1>17 DEF V
<1>21. Expand(items, edges, start, depth, budget, mode) =
         IF ~Shown(items, mode, start) /\ mode # "audit" THEN <<>> ELSE b.order
  BY <1>2 DEF b
<1> QED
  BY <1>18, <1>19, <1>20, <1>21 DEF EndsAt

\* What expand() promises over every store and every set of links: nothing twice, nothing that
\* does not lie within depth over knowledge that may be shown, and all of that up to budget.
LEMMA ExpansionIs ==
  ASSUME NEW items, IsFiniteSet(DOMAIN items), DOMAIN items \subseteq Nat, NEW edges, NEW start,
         NEW depth \in Nat, NEW budget \in Nat, NEW mode
  PROVE  ExpansionSound(items, edges, start, depth, budget, mode)
<1> DEFINE within == IF mode = "audit" \/ Visible(items, start)
                     THEN Within(items, edges, start, depth, mode) ELSE {}
           order == Expand(items, edges, start, depth, budget, mode)
           n == IF Cardinality(within) < budget THEN Cardinality(within) ELSE budget
<1>1. PICK near : /\ Near(near, items, edges, start, depth, mode)
                  /\ Within(items, edges, start, depth, mode) = near[depth] \ {start}
  BY WithinIs
<1>2. PICK b, label : EndsAt(near, items, edges, start, depth, budget, mode, b, label)
  BY <1>1, ExpandIs
<1>3. order = IF ~Shown(items, mode, start) /\ mode # "audit" THEN <<>> ELSE b.order
  BY <1>2 DEF EndsAt
<1> HIDE DEF order
<1> USE DEF EndsAt
<1>4. CASE mode = "audit" \/ Visible(items, start)
  <2>1. order = b.order /\ within = near[depth] \ {start}
    BY <1>1, <1>4, <1>3 DEF Shown, Visible
  <2> HIDE DEF within
  <2>2. order \in Seq(DOMAIN items) /\ NoRepeat(order) /\ Len(order) <= budget
    BY <1>2, <2>1 DEF WalkState, Explored, Order
  <2>3. IsFiniteSet(ToSet(order)) /\ Cardinality(ToSet(order)) = Len(order) /\ Len(order) \in Nat
    BY <2>2, LengthOfDistinct, LenProperties
  <2>4. IsFiniteSet(within) /\ Cardinality(within) \in Nat
    <3>1. within \subseteq DOMAIN items
      BY <1>1, <2>1, NearGrows
    <3>2. IsFiniteSet(within)
      BY <3>1, FS_Subset
    <3> QED
      BY <3>2, FS_CardinalityType
  <2>5. ToSet(order) \subseteq within
    <3> SUFFICES ASSUME NEW k \in ToSet(order) PROVE k \in within
      OBVIOUS
    <3>1. k \in Seen(start, b) /\ k # start
      BY <1>2, <2>1 DEF Seen, Explored, Order
    <3>2. label[k] \in 0 .. depth /\ k \in near[label[k]]
      BY <1>2, <3>1 DEF Explored, Labels
    <3>3. k \in near[depth]
      BY <1>1, <3>2, NearGrows
    <3> QED
      BY <2>1, <3>1, <3>3
  <2>6. Cardinality(ToSet(order)) <= Cardinality(within)
    BY <2>4, <2>5, FS_Subset
  <2>7. CASE Len(order) < budget
    <3>1. b.queue = <<>>
      BY <1>2, <2>1, <2>3, <2>7 DEF Ended
    <3>2. near[depth] \subseteq Seen(start, b)
      BY <1>1, <1>2, <2>1, <2>7, <3>1, NothingMissed
    <3>3. within = ToSet(order)
      BY <2>1, <2>5, <3>2 DEF Seen
    <3>4. Cardinality(within) = Len(order)
      BY <2>3, <3>3
    <3> HIDE DEF n
    <3>5. Len(order) = n
      BY <2>7, <3>4 DEF n
    <3> QED
      BY <2>1, <2>2, <2>5, <3>5 DEF ExpansionSound, order, within, n
  <2>8. CASE Len(order) = budget
    <3>1. ~(Cardinality(within) < budget)
      BY <2>3, <2>4, <2>6, <2>8
    <3> HIDE DEF n
    <3>2. Len(order) = n
      BY <2>8, <3>1 DEF n
    <3> QED
      BY <2>2, <2>5, <3>2 DEF ExpansionSound, order, within, n
  <2> QED
    BY <2>2, <2>3, <2>7, <2>8
<1>5. CASE ~(mode = "audit" \/ Visible(items, start))
  <2>1. order = <<>> /\ within = {}
    BY <1>5, <1>3 DEF Shown, Visible
  <2>2. Cardinality(within) = 0 /\ Len(order) = 0 /\ ToSet(order) = {} /\ NoRepeat(order)
    <3>1. DOMAIN order = {} /\ Len(order) = 0
      BY <2>1
    <3>2. Cardinality(within) = 0
      BY <2>1, FS_EmptySet
    <3> QED
      BY <3>1, <3>2 DEF ToSet, NoRepeat
  <2> HIDE DEF within
  <2>3. Len(order) = n
    BY <2>2
  <2> HIDE DEF n
  <2> QED
    BY <2>2, <2>3 DEF ExpansionSound, order, within, n
<1> QED
  BY <1>4, <1>5

\* expand() over every store and every set of links: it finds what is within depth by ways
\* that may be shown, each once and nothing else, as much of it as the budget holds.
THEOREM ExpansionIsSound ==
  \A items : IsFiniteSet(DOMAIN items) /\ DOMAIN items \subseteq Nat =>
    \A edges, start, mode : \A depth, budget \in Nat :
      ExpansionSound(items, edges, start, depth, budget, mode)
  BY ExpansionIs

\* What MCDecisions asks about is such a store.
LEMMA ItemsAreStocked ==
  /\ \A items \in Items : Stocked(items)
  /\ \A items \in States : IsFiniteSet(DOMAIN items) /\ DOMAIN items \subseteq Nat
<1>1. IsFiniteSet(1 .. 3) /\ IsFiniteSet(1 .. 2)
  <2>1. ASSUME NEW n \in Int PROVE IsFiniteSet(1 .. n)
    BY FS_Interval
  <2>2. 3 \in Int /\ 2 \in Int
    OBVIOUS
  <2> QED
    BY <2>1, <2>2, Zenon
<1>2. ASSUME NEW items \in Items PROVE Stocked(items)
  <2>1. CASE items \in [1 .. 3 -> [state : {"promoted", "candidate", "superseded"},
                                   overlap : {0, 1, 2}, reliability : {50}]]
    BY <1>1, <2>1 DEF Stocked
  <2>2. CASE items \in [1 .. 2 -> [state : {"verified", "disproved"}, overlap : {1},
                                   reliability : {0, 50, 100}]]
    BY <1>1, <2>2 DEF Stocked
  <2> QED
    BY <2>1, <2>2 DEF Items
<1>3. ASSUME NEW items \in States PROVE IsFiniteSet(DOMAIN items) /\ DOMAIN items \subseteq Nat
  <2>1. DOMAIN items = 1 .. 3
    BY DEF States
  <2> QED
    BY <1>1, <2>1
<1> QED
  BY <1>2, <1>3

\* The same for what MCDecisions asks: what is superseded, disproved or never verified gives
\* no authority to act, on whatever way it is reached.
THEOREM RetrievalsSoundCorrect == MCSpec => []RetrievalsSound
<1>1. ASSUME Asked, Asks("retrieve")
      PROVE  RetrievalSound(query.items, query.query, query.candidates, query.topK)
  <2>1. /\ query.items \in Items /\ query.topK \in {0, 1, 2, 5}
        /\ query.candidates \in {<<>>, <<3, 1>>, <<9, 2, 2, 1>>}
    BY <1>1 DEF Asked, Posed, Asks
  <2>2. query.topK \in Nat
    BY <2>1
  <2>3. query.candidates \in Seq(Nat)
    <3>1. <<>> \in Seq(Nat) /\ <<3, 1>> \in Seq(Nat) /\ <<9, 2, 2, 1>> \in Seq(Nat)
      OBVIOUS
    <3> QED
      BY <2>1, <3>1
  <2>4. Stocked(query.items)
    BY <2>1, ItemsAreStocked
  <2> QED
    BY <2>2, <2>3, <2>4, RetrievalIsSound
<1>2. ASSUME Asked, Asks("expand")
      PROVE  ExpansionSound(query.items, query.edges, query.start, query.depth, query.budget,
                            query.mode)
  <2>1. query.items \in States /\ query.depth \in {1, 2} /\ query.budget \in {1, 5}
    BY <1>2 DEF Asked, Posed, Asks
  <2>2. query.depth \in Nat /\ query.budget \in Nat
    BY <2>1
  <2> QED
    BY <2>1, <2>2, ItemsAreStocked, ExpansionIsSound
<1>3. Asked => RetrievalsSound
  BY <1>1, <1>2 DEF RetrievalsSound
<1> QED
  BY <1>3, QuestionStays, PTL

-----------------------------------------------------------------------------
\* Actions as they are given: numbered, in a list.
Numbered(nodes) ==
  /\ Len(nodes) \in Nat /\ DOMAIN nodes = 1 .. Len(nodes)
  /\ \A i \in DOMAIN nodes : nodes[i].idx \in Nat

\* Numbered, each with a number of its own and dependencies among them.
Graph(nodes) ==
  /\ Len(nodes) \in Nat
  /\ IsFiniteSet(Ids(nodes)) /\ Ids(nodes) \subseteq Nat /\ Cardinality(Ids(nodes)) = Len(nodes)
  /\ \A x \in Ids(nodes) : NodeOf(nodes, x).deps \subseteq Ids(nodes)

\* What passes the checks before the order is made is a graph.
LEMMA NodesAre ==
  ASSUME NEW nodes, Numbered(nodes), WellBound(nodes)
  PROVE  Graph(nodes)
<1> DEFINE n == Len(nodes)
           I == Ids(nodes)
           f == [i \in 1 .. n |-> nodes[i].idx]
<1>1. n \in Nat /\ DOMAIN nodes = 1 .. n /\ I = {nodes[i].idx : i \in 1 .. n} /\ I \subseteq Nat
  BY DEF Numbered, Ids
<1>2. Cardinality(I) = n /\ \A i \in 1 .. n : nodes[i].deps \subseteq I
  BY <1>1 DEF WellBound
<1> HIDE DEF n, I
<1>3. f \in Surjection(1 .. n, I)
  BY <1>1 DEF Surjection
<1>4. IsFiniteSet(I)
  <2>1. IsFiniteSet(1 .. n)
    BY <1>1, FS_Interval
  <2> HIDE DEF f
  <2> QED
    BY <1>3, <2>1, FS_Surjection
<1>5. ASSUME NEW x \in I PROVE NodeOf(nodes, x).deps \subseteq I
  <2>1. \E i \in DOMAIN nodes : nodes[i].idx = x
    BY <1>1
  <2> DEFINE i == CHOOSE i \in DOMAIN nodes : nodes[i].idx = x
  <2>2. i \in 1 .. n
    BY <1>1, <2>1
  <2>3. NodeOf(nodes, x) = nodes[i]
    BY DEF NodeOf
  <2> HIDE DEF i
  <2> QED
    BY <1>2, <2>2, <2>3
<1> QED
  BY <1>1, <1>2, <1>4, <1>5 DEF Graph, I, n

\* A list of actions in which each comes behind all it depends on.
Topological(nodes, o) ==
  /\ o \in Seq(Ids(nodes)) /\ NoRepeat(o)
  /\ \A i \in 1 .. Len(o) : \A d \in NodeOf(nodes, o[i]).deps :
       \E j \in 1 .. Len(o) : j < i /\ o[j] = d

\* The smallest of those that are open may come next.
LEMMA OpenJoins ==
  ASSUME NEW nodes, Graph(nodes), NEW o, Topological(nodes, o), Open(nodes, o) # {}
  PROVE  LET p == Append(o, MinOf(Open(nodes, o)))
         IN Topological(nodes, p) /\ Len(p) = Len(o) + 1
<1> DEFINE x == MinOf(Open(nodes, o))
           p == Append(o, x)
           I == Ids(nodes)
<1>1. x \in Open(nodes, o)
  <2> DEFINE S == Open(nodes, o)
  <2>1. S \subseteq Nat /\ S # {}
    BY DEF Open, Graph
  <2> HIDE DEF S
  <2>2. \E m \in S : \A y \in S : m <= y
    BY <2>1, MinOfNumbers
  <2>3. MinOf(S) \in S
    BY <2>2 DEF MinOf
  <2> QED
    BY <2>3 DEF S
<1>2. x \in I /\ x \notin ToSet(o) /\ NodeOf(nodes, x).deps \subseteq ToSet(o)
  BY <1>1 DEF Open
<1> HIDE DEF x, I
<1>3. o \in Seq(I) /\ Len(o) \in Nat /\ DOMAIN o = 1 .. Len(o)
  BY LenProperties DEF Topological, I
<1>4. /\ p \in Seq(I) /\ Len(p) = Len(o) + 1
      /\ \A i \in 1 .. Len(o) : p[i] = o[i]
      /\ p[Len(o) + 1] = x
  BY <1>2, <1>3, AppendProperties
<1> HIDE DEF p
<1>5. DOMAIN p = 1 .. Len(o) + 1
  BY <1>3, <1>4, LenProperties
<1>6. ASSUME NEW i \in 1 .. Len(o) + 1
      PROVE  i \in 1 .. Len(o) \/ (i = Len(o) + 1 /\ p[i] = x)
  BY <1>3, <1>4
<1>7. \A i \in 1 .. Len(o) : o[i] # x
  BY <1>2, <1>3 DEF ToSet
<1>8. NoRepeat(p)
  <2> SUFFICES ASSUME NEW i \in 1 .. Len(o) + 1, NEW j \in 1 .. Len(o) + 1, p[i] = p[j]
               PROVE  i = j
    BY <1>5 DEF NoRepeat
  <2>1. \A a, b \in 1 .. Len(o) : o[a] = o[b] => a = b
    BY <1>3 DEF Topological, NoRepeat
  <2> QED
    BY <1>4, <1>6, <1>7, <2>1
<1>9. ASSUME NEW i \in 1 .. Len(o) + 1, NEW d \in NodeOf(nodes, p[i]).deps
      PROVE  \E j \in 1 .. Len(o) + 1 : j < i /\ p[j] = d
  <2>1. CASE i \in 1 .. Len(o)
    <3>1. PICK j \in 1 .. Len(o) : j < i /\ o[j] = d
      BY <1>4, <1>9, <2>1 DEF Topological
    <3>2. j \in 1 .. Len(o) + 1 /\ p[j] = d
      BY <1>3, <1>4, <3>1
    <3> QED
      BY <3>1, <3>2
  <2>2. CASE i = Len(o) + 1 /\ p[i] = x
    <3>1. d \in ToSet(o)
      BY <1>2, <1>9, <2>2
    <3>2. PICK j \in 1 .. Len(o) : o[j] = d
      BY <1>3, <3>1 DEF ToSet
    <3>3. j \in 1 .. Len(o) + 1 /\ p[j] = d /\ j < i
      BY <1>3, <1>4, <2>2, <3>2
    <3> QED
      BY <3>3
  <2> QED
    BY <1>6, <2>1, <2>2
<1> QED
  BY <1>4, <1>8, <1>9 DEF Topological, p, x, I

\* The order is topological, and stops short only when nothing is open.
LEMMA KahnIs ==
  ASSUME NEW nodes, Graph(nodes)
  PROVE  LET o == KahnOrder(nodes)
         IN Topological(nodes, o) /\ (Len(o) = Len(nodes) \/ Open(nodes, o) = {})
<1> DEFINE N == Len(nodes)
           V == {o \in Seq(Ids(nodes)) : Topological(nodes, o)}
           After(o) == IF Open(nodes, o) = {} THEN o ELSE Append(o, MinOf(Open(nodes, o)))
           F == [o \in V |-> After(o)]
           order[n \in 0 .. Len(nodes)] ==
             IF n = 0 THEN <<>>
             ELSE IF Open(nodes, order[n - 1]) = {} THEN order[n - 1]
             ELSE Append(order[n - 1], MinOf(Open(nodes, order[n - 1])))
           Is(f) == f = [n \in 0 .. N |-> IF n = 0 THEN <<>> ELSE After(f[n - 1])]
<1>1. N \in Nat
  BY DEF Graph
<1>2. KahnOrder(nodes) = order[N]
  BY DEF KahnOrder
<1>3. order = CHOOSE f : Is(f)
  OBVIOUS
<1> HIDE DEF order, N
<1>4. <<>> \in V
  <2> DEFINE o == <<>>
  <2>1. Len(o) = 0 /\ DOMAIN o = {} /\ o \in Seq(Ids(nodes))
    OBVIOUS
  <2> HIDE DEF o
  <2>2. Topological(nodes, o)
    BY <2>1 DEF Topological, NoRepeat
  <2> QED
    BY <2>1, <2>2 DEF o
<1>5. \A o \in V : After(o) \in V /\ (Open(nodes, o) # {} => Len(After(o)) = Len(o) + 1)
  <2> SUFFICES ASSUME NEW o \in V, Open(nodes, o) # {}
               PROVE  After(o) \in V /\ Len(After(o)) = Len(o) + 1
    OBVIOUS
  <2>1. After(o) = Append(o, MinOf(Open(nodes, o)))
    OBVIOUS
  <2> HIDE DEF After
  <2>2. Topological(nodes, After(o)) /\ Len(After(o)) = Len(o) + 1
    BY <2>1, OpenJoins
  <2> QED
    BY <2>2 DEF Topological
<1>6. \A o \in V : Open(nodes, o) = {} => After(o) = o
  OBVIOUS
<1> HIDE DEF After
<1>7. F \in [V -> V] /\ \A o \in V : F[o] = After(o)
  <2> HIDE DEF V
  <2> QED
    BY <1>5
<1>8. \A o \in V : Topological(nodes, o) /\ Len(o) \in Nat
  BY LenProperties
<1> HIDE DEF F, V
<1>9. PICK f : Repeats(f, V, <<>>, F, N)
  BY <1>1, <1>4, <1>7, Repeated
<1>10. \E g : Is(g)
  <2>1. \A n \in 1 .. N : f[n - 1] \in V
    BY <1>1, <1>9 DEF Repeats
  <2>2. \A n \in 0 .. N : f[n] = IF n = 0 THEN <<>> ELSE After(f[n - 1])
    BY <1>1, <1>7, <1>9, <2>1 DEF Repeats
  <2>3. Is(f)
    BY <1>9, <2>2 DEF Repeats
  <2> HIDE DEF Is
  <2> QED
    BY <2>3
<1>11. Is(order)
  <2> HIDE DEF Is
  <2> QED
    BY <1>3, <1>10
<1>12. order[0] = <<>> /\ \A n \in 1 .. N : order[n] = After(order[n - 1])
  BY <1>1, <1>11
<1> DEFINE S == {n \in 0 .. N : order[n] \in V /\ (Len(order[n]) = n \/ Open(nodes, order[n]) = {})}
<1>13. 0 \in S
  BY <1>1, <1>4, <1>12
<1>14. ASSUME NEW n \in 0 .. N - 1, n \in S PROVE n + 1 \in S
  <2> DEFINE m == n + 1
             o == order[n]
  <2>1. m \in 1 .. N /\ m \in 0 .. N /\ m - 1 = n
    BY <1>1
  <2>2. o \in V /\ (Len(o) = n \/ Open(nodes, o) = {})
    BY <1>14
  <2> HIDE DEF m
  <2>3. order[m] = After(o)
    BY <1>12, <2>1
  <2> HIDE DEF o
  <2>4. CASE Open(nodes, o) = {}
    BY <1>6, <2>1, <2>2, <2>3, <2>4 DEF m
  <2>5. CASE Open(nodes, o) # {}
    <3>1. After(o) \in V /\ Len(After(o)) = n + 1
      BY <1>5, <2>2, <2>5
    <3> QED
      BY <2>1, <2>3, <3>1 DEF m
  <2> QED
    BY <2>4, <2>5
<1>15. \A n \in 0 .. N : n \in S
  <2> HIDE DEF S
  <2> QED
    BY <1>1, <1>13, <1>14, CountUp
<1>16. N \in S
  BY <1>1, <1>15
<1> QED
  BY <1>2, <1>8, <1>16 DEF N

\* The order holds every action just when no set of actions is closed in a cycle.
LEMMA CyclesAreFound ==
  ASSUME NEW nodes, Graph(nodes)
  PROVE  /\ Len(KahnOrder(nodes)) = Len(nodes) <=> Acyclic(nodes)
         /\ Len(KahnOrder(nodes)) = Len(nodes) => ToSet(KahnOrder(nodes)) = Ids(nodes)
<1> DEFINE o == KahnOrder(nodes)
           I == Ids(nodes)
<1>1. Topological(nodes, o) /\ (Len(o) = Len(nodes) \/ Open(nodes, o) = {})
  BY KahnIs
<1> HIDE DEF o
<1>2. o \in Seq(I) /\ NoRepeat(o) /\ Len(o) \in Nat /\ DOMAIN o = 1 .. Len(o)
  BY <1>1, LenProperties DEF Topological
<1>3. IsFiniteSet(ToSet(o)) /\ Cardinality(ToSet(o)) = Len(o)
  BY <1>2, LengthOfDistinct
<1>4. ToSet(o) \subseteq I
  <2>1. \A i \in DOMAIN o : o[i] \in I
    BY <1>2, ElementOfSeq
  <2> QED
    BY <2>1 DEF ToSet
<1>5. IsFiniteSet(I) /\ Cardinality(I) = Len(nodes)
  BY DEF Graph
<1>6. Len(o) = Len(nodes) => ToSet(o) = I
  BY <1>3, <1>4, <1>5, FS_Subset
<1>7. ASSUME Len(o) = Len(nodes) PROVE Acyclic(nodes)
  <2> SUFFICES ASSUME NEW S \in SUBSET I, S # {}
               PROVE  \E x \in S : NodeOf(nodes, x).deps \cap S = {}
    BY DEF Acyclic
  <2> DEFINE P == {i \in 1 .. Len(o) : o[i] \in S}
             m == Min(P)
  <2>1. P # {} /\ P \subseteq Nat
    <3>1. PICK x \in S : x \in ToSet(o)
      BY <1>6, <1>7
    <3> QED
      BY <1>2, <3>1 DEF ToSet
  <2>2. m \in P /\ \A i \in P : m <= i
    <3> HIDE DEF P
    <3> QED
      BY <2>1, MinOfNumbers
  <2> HIDE DEF m
  <2>3. m \in 1 .. Len(o) /\ o[m] \in S
    BY <2>2
  <2>4. ASSUME NEW d \in NodeOf(nodes, o[m]).deps, d \in S PROVE FALSE
    <3>1. PICK j \in 1 .. Len(o) : j < m /\ o[j] = d
      BY <1>1, <2>3 DEF Topological
    <3>2. j \in P
      BY <2>4, <3>1
    <3> QED
      BY <1>2, <2>2, <2>3, <3>1, <3>2
  <2> QED
    BY <2>3, <2>4
<1>8. ASSUME Acyclic(nodes), Len(o) # Len(nodes) PROVE FALSE
  <2> DEFINE S == I \ ToSet(o)
  <2>1. S # {}
    <3> SUFFICES ASSUME S = {} PROVE FALSE
      OBVIOUS
    <3>1. ToSet(o) = I
      BY <1>4
    <3> QED
      BY <1>3, <1>5, <1>8, <3>1
  <2>2. PICK x \in S : NodeOf(nodes, x).deps \cap S = {}
    <3>1. S \in SUBSET Ids(nodes)
      OBVIOUS
    <3> HIDE DEF S
    <3> QED
      BY <1>8, <2>1, <3>1 DEF Acyclic
  <2>3. NodeOf(nodes, x).deps \subseteq I
    BY DEF Graph
  <2>4. x \in Open(nodes, o)
    BY <2>2, <2>3 DEF Open
  <2> QED
    BY <1>1, <1>8, <2>4
<1> QED
  BY <1>6, <1>7, <1>8 DEF o

\* A wave as it is filled: nothing twice, nothing that depends on what is not done, not wider
\* than it may be, and nothing beside a state-sensitive action.
Packed(nodes, width, done, w) ==
  /\ w \in Seq(Ids(nodes)) /\ NoRepeat(w) /\ Len(w) <= width
  /\ \A x \in ToSet(w) : NodeOf(nodes, x).deps \subseteq done
  /\ Len(w) > 1 => \A x \in ToSet(w) : ~NodeOf(nodes, x).sensitive

\* What is appended joins the set.
LEMMA ToSetOfAppend ==
  ASSUME NEW X, NEW s \in Seq(X), NEW x \in X
  PROVE  ToSet(Append(s, x)) = ToSet(s) \cup {x}
<1> DEFINE t == Append(s, x)
<1>1. /\ t \in Seq(X) /\ Len(t) = Len(s) + 1 /\ t[Len(s) + 1] = x
      /\ \A i \in 1 .. Len(s) : t[i] = s[i]
  BY AppendProperties
<1>2. Len(s) \in Nat /\ DOMAIN s = 1 .. Len(s)
  BY LenProperties
<1> HIDE DEF t
<1>3. DOMAIN t = 1 .. Len(s) + 1
  BY <1>1, <1>2, LenProperties
<1>4. \A i \in 1 .. Len(s) + 1 : i \in 1 .. Len(s) \/ i = Len(s) + 1
  BY <1>2
<1>5. \A i \in 1 .. Len(s) : i \in 1 .. Len(s) + 1
  BY <1>2
<1>6. Len(s) + 1 \in 1 .. Len(s) + 1
  BY <1>2
<1>7. ToSet(t) = {t[i] : i \in 1 .. Len(s) + 1} /\ ToSet(s) = {s[i] : i \in 1 .. Len(s)}
  BY <1>2, <1>3 DEF ToSet
<1> QED
  BY <1>1, <1>4, <1>5, <1>6, <1>7 DEF t

\* What is new may be appended.
LEMMA NoRepeatAppend ==
  ASSUME NEW X, NEW s \in Seq(X), NEW x \in X, NoRepeat(s), x \notin ToSet(s)
  PROVE  NoRepeat(Append(s, x))
<1> DEFINE t == Append(s, x)
<1>1. /\ t \in Seq(X) /\ Len(t) = Len(s) + 1 /\ t[Len(s) + 1] = x
      /\ \A i \in 1 .. Len(s) : t[i] = s[i]
  BY AppendProperties
<1>2. Len(s) \in Nat /\ DOMAIN s = 1 .. Len(s)
  BY LenProperties
<1> HIDE DEF t
<1>3. DOMAIN t = 1 .. Len(s) + 1
  BY <1>1, <1>2, LenProperties
<1>4. \A i \in 1 .. Len(s) + 1 : i \in 1 .. Len(s) \/ i = Len(s) + 1
  BY <1>2
<1>5. \A i \in 1 .. Len(s) : s[i] # x
  BY <1>2 DEF ToSet
<1>6. \A i, j \in 1 .. Len(s) : s[i] = s[j] => i = j
  BY <1>2 DEF NoRepeat
<1>7. ASSUME NEW i \in 1 .. Len(s) + 1, NEW j \in 1 .. Len(s) + 1, t[i] = t[j] PROVE i = j
  BY <1>1, <1>4, <1>5, <1>6, <1>7
<1> QED
  BY <1>3, <1>7 DEF NoRepeat, t

\* Whoever joins a wave leaves it one that may run.
LEMMA JoinsKeepsPacked ==
  ASSUME NEW nodes, NEW width \in Nat, NEW done, NEW w, Packed(nodes, width, done, w),
         NEW x \in Ids(nodes), x \notin ToSet(w), Joins(nodes, w, done, width, x)
  PROVE  Packed(nodes, width, done, Append(w, x))
<1> DEFINE t == Append(w, x)
<1>1. w \in Seq(Ids(nodes)) /\ NoRepeat(w) /\ Len(w) \in Nat /\ DOMAIN w = 1 .. Len(w)
  BY LenProperties DEF Packed
<1>2. /\ NodeOf(nodes, x).deps \subseteq done
      /\ NodeOf(nodes, x).sensitive => w = <<>>
      /\ \A y \in ToSet(w) : ~NodeOf(nodes, y).sensitive
      /\ Len(w) < width
  BY DEF Joins
<1>3. t \in Seq(Ids(nodes)) /\ Len(t) = Len(w) + 1
  BY <1>1, AppendProperties
<1>4. ToSet(t) = ToSet(w) \cup {x}
  BY <1>1, ToSetOfAppend
<1>5. NoRepeat(t)
  BY <1>1, NoRepeatAppend
<1> HIDE DEF t
<1>6. Len(t) <= width
  BY <1>1, <1>2, <1>3
<1>7. \A y \in ToSet(t) : NodeOf(nodes, y).deps \subseteq done
  BY <1>2, <1>4 DEF Packed
<1>8. ASSUME Len(t) > 1, NEW y \in ToSet(t) PROVE ~NodeOf(nodes, y).sensitive
  <2>1. w # <<>>
    <3> SUFFICES ASSUME w = <<>> PROVE FALSE
      OBVIOUS
    <3>1. Len(w) = 0
      OBVIOUS
    <3> QED
      BY <1>3, <1>8, <3>1
  <2>2. CASE y = x
    BY <1>2, <2>1, <2>2
  <2>3. CASE y \in ToSet(w)
    BY <1>2, <2>3
  <2> QED
    BY <1>4, <2>2, <2>3
<1> QED
  BY <1>3, <1>5, <1>6, <1>7, <1>8 DEF Packed, t

\* One pass fills a wave, and the first of what remains is in it.
LEMMA WaveIs ==
  ASSUME NEW nodes, NEW width \in Nat, width >= 1, NEW done,
         NEW rest \in Seq(Ids(nodes)), NoRepeat(rest), rest # <<>>,
         NodeOf(nodes, rest[1]).deps \subseteq done
  PROVE  LET w == Wave(nodes, rest, done, width)
         IN Packed(nodes, width, done, w) /\ ToSet(w) \subseteq ToSet(rest) /\ w # <<>>
<1> DEFINE N == Len(rest)
           I == Ids(nodes)
           V == Seq(I)
           After(n, v) == IF Joins(nodes, v, done, width, rest[n]) THEN Append(v, rest[n]) ELSE v
           F == [n \in 1 .. N |-> [v \in V |-> After(n, v)]]
           wave[n \in 0 .. Len(rest)] ==
             IF n = 0 THEN <<>>
             ELSE IF Joins(nodes, wave[n - 1], done, width, rest[n])
             THEN Append(wave[n - 1], rest[n])
             ELSE wave[n - 1]
           Is(f) == f = [n \in 0 .. N |-> IF n = 0 THEN <<>> ELSE After(n, f[n - 1])]
<1>1. N \in Nat /\ N >= 1 /\ DOMAIN rest = 1 .. N /\ \A n \in 1 .. N : rest[n] \in I
  <2>1. N \in Nat /\ DOMAIN rest = 1 .. N /\ N # 0
    OBVIOUS
  <2>2. \A n \in 1 .. N : rest[n] \in I
    BY ElementOfSeq
  <2> QED
    BY <2>1, <2>2
<1>2. Wave(nodes, rest, done, width) = wave[N]
  BY DEF Wave
<1>3. wave = CHOOSE f : Is(f)
  OBVIOUS
<1> HIDE DEF wave, N
<1>4. <<>> \in V
  OBVIOUS
<1>5. \A n \in 1 .. N : \A v \in V : After(n, v) \in V
  <2> SUFFICES ASSUME NEW n \in 1 .. N, NEW v \in V PROVE After(n, v) \in V
    OBVIOUS
  <2>1. Append(v, rest[n]) \in V
    BY <1>1, AppendProperties
  <2> QED
    BY <2>1
<1>6. \A n \in 1 .. N : \A v \in V :
        After(n, v) = IF Joins(nodes, v, done, width, rest[n]) THEN Append(v, rest[n]) ELSE v
  OBVIOUS
<1> HIDE DEF After, V
<1>7. F \in [1 .. N -> [V -> V]] /\ \A n \in 1 .. N : \A v \in V : F[n][v] = After(n, v)
  BY <1>5
<1> HIDE DEF F
<1>8. PICK f : Applies(f, V, <<>>, F, N)
  BY <1>1, <1>4, <1>7, Folded
<1>9. \E g : Is(g)
  <2>1. \A n \in 1 .. N : f[n - 1] \in V
    BY <1>1, <1>8 DEF Applies
  <2>2. \A n \in 0 .. N : f[n] = IF n = 0 THEN <<>> ELSE After(n, f[n - 1])
    BY <1>1, <1>7, <1>8, <2>1 DEF Applies
  <2>3. Is(f)
    BY <1>8, <2>2 DEF Applies
  <2> HIDE DEF Is
  <2> QED
    BY <2>3
<1>10. Is(wave)
  <2> HIDE DEF Is
  <2> QED
    BY <1>3, <1>9
<1>11. wave[0] = <<>> /\ \A n \in 1 .. N : wave[n] = After(n, wave[n - 1])
  BY <1>1, <1>10
<1> DEFINE Taken(n) == {rest[i] : i \in 1 .. n}
           S == {n \in 0 .. N : /\ Packed(nodes, width, done, wave[n])
                                /\ ToSet(wave[n]) \subseteq Taken(n)
                                /\ n >= 1 => wave[n] # <<>>}
<1>12. ToSet(<<>>) = {}
  BY DEF ToSet
<1>13. 0 \in S
  <2> DEFINE o == <<>>
  <2>1. Len(o) = 0 /\ DOMAIN o = {} /\ o \in Seq(I) /\ ToSet(o) = {}
    BY <1>12
  <2> HIDE DEF o
  <2>2. Packed(nodes, width, done, o)
    BY <2>1 DEF Packed, NoRepeat
  <2> QED
    BY <1>1, <1>11, <2>1, <2>2 DEF o
<1>14. ASSUME NEW n \in 0 .. N - 1, n \in S PROVE n + 1 \in S
  <2> DEFINE m == n + 1
             v == wave[n]
             x == rest[m]
  <2>1. /\ m \in 1 .. N /\ m \in 0 .. N /\ m - 1 = n /\ n \in Nat /\ m >= 1
        /\ \A i \in 1 .. m : (i \in 1 .. n \/ i = m)
        /\ \A i \in 1 .. n : i \in 1 .. m /\ i # m /\ i \in 1 .. N
    BY <1>1
  <2>2. /\ Packed(nodes, width, done, v) /\ ToSet(v) \subseteq Taken(n)
        /\ n >= 1 => v # <<>>
    BY <1>14
  <2> HIDE DEF m
  <2>3. wave[m] = IF Joins(nodes, v, done, width, x) THEN Append(v, x) ELSE v
    <3>1. wave[m] = After(m, v)
      BY <1>11, <2>1
    <3>2. v \in V
      BY <2>2 DEF Packed, V
    <3> QED
      BY <1>6, <2>1, <3>1, <3>2
  <2>4. x \in I
    BY <1>1, <2>1
  <2>5. x \notin ToSet(v)
    <3>1. x \notin Taken(n)
      BY <1>1, <2>1 DEF NoRepeat
    <3> QED
      BY <2>2, <3>1
  <2>6. Taken(n) \subseteq Taken(m) /\ x \in Taken(m)
    BY <2>1
  <2> HIDE DEF v
  <2>7. CASE Joins(nodes, v, done, width, x)
    <3> DEFINE t == Append(v, x)
    <3>1. Packed(nodes, width, done, t)
      BY <2>2, <2>4, <2>5, <2>7, JoinsKeepsPacked
    <3>2. v \in Seq(I)
      BY <2>2 DEF Packed
    <3>3. ToSet(t) = ToSet(v) \cup {x}
      BY <2>4, <3>2, ToSetOfAppend
    <3>4. t # <<>>
      BY <1>12, <3>3
    <3> HIDE DEF t, Taken, x
    <3>5. wave[m] = t
      BY <2>3, <2>7 DEF t
    <3>6. ToSet(t) \subseteq Taken(m)
      BY <2>2, <2>6, <3>3
    <3>7. m \in S
      BY <2>1, <3>1, <3>4, <3>5, <3>6
    <3> QED
      BY <3>7 DEF m
  <2>8. CASE ~Joins(nodes, v, done, width, x)
    <3>1. v # <<>>
      <4> SUFFICES ASSUME v = <<>> PROVE FALSE
        OBVIOUS
      <4>1. n = 0 /\ m = 1
        BY <2>1, <2>2 DEF m
      <4>2. ToSet(v) = {} /\ Len(v) = 0
        BY <1>12
      <4>3. NodeOf(nodes, x).deps \subseteq done
        BY <4>1
      <4> QED
        BY <2>8, <4>2, <4>3 DEF Joins
    <3>2. wave[m] = v
      BY <2>3, <2>8
    <3> HIDE DEF Taken, x
    <3>3. m \in S
      BY <2>1, <2>2, <2>6, <3>1, <3>2
    <3> QED
      BY <3>3 DEF m
  <2> QED
    BY <2>7, <2>8
<1>15. \A n \in 0 .. N : n \in S
  <2> HIDE DEF S
  <2> QED
    BY <1>1, <1>13, <1>14, CountUp
<1>16. N \in S
  <2>1. N \in 0 .. N
    BY <1>1
  <2> HIDE DEF S
  <2> QED
    BY <1>15, <2>1
<1>17. Taken(N) = ToSet(rest)
  BY <1>1 DEF ToSet
<1> QED
  BY <1>1, <1>2, <1>16, <1>17

\* What remains keeps its order, and its first waits for nothing.
LEMMA RemainingIs ==
  ASSUME NEW nodes, NEW o, Topological(nodes, o), NEW done
  PROVE  LET r == Remaining(o, done)
         IN /\ r \in Seq(Ids(nodes)) /\ NoRepeat(r)
            /\ ToSet(r) = ToSet(o) \ done
            /\ r # <<>> => NodeOf(nodes, r[1]).deps \subseteq done
<1> DEFINE I == Ids(nodes)
           P == {i \in DOMAIN o : o[i] \notin done}
           ps == Ascending(P)
           r == At(o, ps)
<1>1. o \in Seq(I) /\ Len(o) \in Nat /\ DOMAIN o = 1 .. Len(o)
      /\ \A i, j \in 1 .. Len(o) : o[i] = o[j] => i = j
  BY LenProperties DEF Topological, NoRepeat
<1>2. P \subseteq Nat /\ IsFiniteSet(P) /\ P \subseteq 1 .. Len(o)
      /\ \A i \in 1 .. Len(o) : i \in P <=> o[i] \notin done
  <2>1. P \subseteq 1 .. Len(o) /\ P \subseteq Nat
        /\ \A i \in 1 .. Len(o) : i \in P <=> o[i] \notin done
    BY <1>1
  <2> HIDE DEF P
  <2>2. IsFiniteSet(1 .. Len(o))
    BY <1>1, FS_Interval
  <2> QED
    BY <2>1, <2>2, FS_Subset
<1>3. \A i \in P : o[i] \in I
  <2>1. \A i \in 1 .. Len(o) : o[i] \in I
    BY <1>1, ElementOfSeq
  <2> QED
    BY <1>2, <2>1
<1> HIDE DEF P
<1>4. /\ ps \in Seq(P) /\ DOMAIN ps = 1 .. Len(ps) /\ Len(ps) \in Nat
      /\ \A x \in P : \E p \in 1 .. Len(ps) : ps[p] = x
      /\ \A p, q \in 1 .. Len(ps) : p < q <=> ps[p] < ps[q]
      /\ \A p, q \in 1 .. Len(ps) : ps[p] = ps[q] => p = q
  <2>1. ps \in Seq(P)
    BY <1>2, AscendingOf
  <2>2. DOMAIN ps = 1 .. Len(ps) /\ Len(ps) \in Nat
    BY <2>1, LenProperties
  <2> QED
    BY <1>2, <2>1, <2>2, AscendingOf
<1> HIDE DEF ps
<1>5. /\ r \in Seq(I) /\ Len(r) = Len(ps)
      /\ \A i \in 1 .. Len(ps) : r[i] = o[ps[i]] /\ ps[i] \in P
  BY <1>3, <1>4, AtPositions
<1> HIDE DEF r
<1>6. DOMAIN r = 1 .. Len(ps)
  BY <1>4, <1>5, LenProperties
<1>7. NoRepeat(r)
  <2> SUFFICES ASSUME NEW i \in 1 .. Len(ps), NEW j \in 1 .. Len(ps), r[i] = r[j] PROVE i = j
    BY <1>6 DEF NoRepeat
  <2>1. ps[i] = ps[j]
    <3> DEFINE a == ps[i]
               b == ps[j]
    <3>1. a \in 1 .. Len(o) /\ b \in 1 .. Len(o)
      BY <1>2, <1>5
    <3>2. o[a] = o[b]
      BY <1>5
    <3> HIDE DEF a, b
    <3>3. a = b
      BY <1>1, <3>1, <3>2
    <3> QED
      BY <3>3 DEF a, b
  <2> QED
    BY <1>4, <2>1
<1>8. ToSet(r) = ToSet(o) \ done
  <2>1. ASSUME NEW k \in ToSet(r) PROVE k \in ToSet(o) /\ k \notin done
    <3>1. PICK i \in 1 .. Len(ps) : r[i] = k
      BY <1>6 DEF ToSet
    <3>2. k = o[ps[i]] /\ ps[i] \in P
      BY <1>5, <3>1
    <3> QED
      BY <1>1, <1>2, <3>2 DEF ToSet
  <2>2. ASSUME NEW k \in ToSet(o), k \notin done PROVE k \in ToSet(r)
    <3>1. PICK i \in 1 .. Len(o) : o[i] = k
      BY <1>1 DEF ToSet
    <3>2. PICK p \in 1 .. Len(ps) : ps[p] = i
      BY <1>2, <1>4, <2>2, <3>1
    <3>3. r[p] = k
      BY <1>5, <3>1, <3>2
    <3> QED
      BY <1>6, <3>3 DEF ToSet
  <2> QED
    BY <2>1, <2>2
<1>9. ASSUME r # <<>> PROVE NodeOf(nodes, r[1]).deps \subseteq done
  <2>1. 1 \in 1 .. Len(ps)
    <3>1. Len(r) # 0
      BY <1>5, <1>9
    <3> QED
      BY <1>4, <1>5, <3>1
  <2>2. r[1] = o[ps[1]] /\ ps[1] \in 1 .. Len(o)
    BY <1>2, <1>5, <2>1
  <2>3. ASSUME NEW d \in NodeOf(nodes, r[1]).deps, d \notin done PROVE FALSE
    <3>1. PICK j \in 1 .. Len(o) : j < ps[1] /\ o[j] = d
      BY <2>2, <2>3 DEF Topological
    <3>2. PICK p \in 1 .. Len(ps) : ps[p] = j
      BY <1>2, <1>4, <2>3, <3>1
    <3>3. p < 1
      BY <1>4, <2>1, <3>1, <3>2
    <3> QED
      BY <3>3
  <2> QED
    BY <2>3
<1> QED
  BY <1>5, <1>7, <1>8, <1>9 DEF Remaining, r, ps, P, I

\* The waves so far: none is empty, none has an action of another, and what an action depends
\* on is in an earlier one.
Layered(nodes, width, ws) ==
  /\ ws \in Seq(Seq(Ids(nodes)))
  /\ \A i \in 1 .. Len(ws) : ws[i] # <<>> /\ Packed(nodes, width, Ids(nodes), ws[i])
  /\ \A i, j \in 1 .. Len(ws) : \A x \in ToSet(ws[i]) : x \in ToSet(ws[j]) => i = j
  /\ \A i \in 1 .. Len(ws) : \A x \in ToSet(ws[i]) : \A d \in NodeOf(nodes, x).deps :
       \E j \in 1 .. Len(ws) : j < i /\ d \in ToSet(ws[j])

\* What is done is in some wave.
LEMMA DoneIs ==
  ASSUME NEW X, NEW ws \in Seq(X)
  PROVE  \A x : x \in Done(ws) <=> \E i \in 1 .. Len(ws) : x \in ToSet(ws[i])
<1>1. DOMAIN ws = 1 .. Len(ws)
  BY LenProperties
<1> QED
  BY <1>1 DEF Done

\* A wave of what is left, all of it with its dependencies done, is a layer more.
LEMMA WaveLayers ==
  ASSUME NEW nodes, NEW width, NEW ws, Layered(nodes, width, ws),
         NEW w, Packed(nodes, width, Done(ws), w), w # <<>>,
         \A x \in ToSet(w) : x \notin Done(ws)
  PROVE  LET t == Append(ws, w)
         IN Layered(nodes, width, t) /\ Len(t) = Len(ws) + 1 /\ Done(t) = Done(ws) \cup ToSet(w)
<1> DEFINE I == Ids(nodes)
           n == Len(ws)
           t == Append(ws, w)
<1>1. ws \in Seq(Seq(I)) /\ w \in Seq(I) /\ n \in Nat
  BY LenProperties DEF Layered, Packed
<1>2. /\ t \in Seq(Seq(I)) /\ Len(t) = n + 1 /\ t[n + 1] = w
      /\ \A i \in 1 .. n : t[i] = ws[i]
  <2> DEFINE X == Seq(I)
  <2>1. ws \in Seq(X) /\ w \in X
    BY <1>1
  <2> HIDE DEF X
  <2>2. /\ t \in Seq(X) /\ Len(t) = n + 1 /\ t[n + 1] = w
        /\ \A i \in 1 .. n : t[i] = ws[i]
    BY <2>1, AppendProperties
  <2> QED
    BY <2>2 DEF X
<1>3. \A x : x \in Done(ws) <=> \E i \in 1 .. n : x \in ToSet(ws[i])
  BY <1>1, DoneIs
<1>4. \A x : x \in Done(t) <=> \E i \in 1 .. n + 1 : x \in ToSet(t[i])
  <2> HIDE DEF t
  <2> QED
    BY <1>2, DoneIs
<1> HIDE DEF t, n
<1>5. \A i \in 1 .. n + 1 : i \in 1 .. n \/ i = n + 1
  BY <1>1
<1>6. n + 1 \in 1 .. n + 1 /\ \A i \in 1 .. n : i \in 1 .. n + 1 /\ i < n + 1
  BY <1>1
<1>7. /\ \A i \in 1 .. n : ws[i] # <<>> /\ Packed(nodes, width, I, ws[i])
      /\ \A i, j \in 1 .. n : \A x \in ToSet(ws[i]) : x \in ToSet(ws[j]) => i = j
      /\ \A i \in 1 .. n : \A x \in ToSet(ws[i]) : \A d \in NodeOf(nodes, x).deps :
           \E j \in 1 .. n : j < i /\ d \in ToSet(ws[j])
  BY DEF Layered, n
<1>8. Done(ws) \subseteq I
  <2> SUFFICES ASSUME NEW x \in Done(ws) PROVE x \in I
    OBVIOUS
  <2>1. PICK i \in 1 .. n : x \in ToSet(ws[i])
    BY <1>3
  <2>2. ws[i] \in Seq(I)
    BY <1>7 DEF Packed
  <2>3. \A j \in DOMAIN ws[i] : ws[i][j] \in I
    BY <2>2, ElementOfSeq, LenProperties
  <2> QED
    BY <2>1, <2>3 DEF ToSet
<1>9. Packed(nodes, width, I, w)
  BY <1>8 DEF Packed
<1>10. \A i \in 1 .. n + 1 : t[i] # <<>> /\ Packed(nodes, width, I, t[i])
  BY <1>2, <1>5, <1>7, <1>9
<1>11. ASSUME NEW i \in 1 .. n + 1, NEW j \in 1 .. n + 1, NEW x \in ToSet(t[i]), x \in ToSet(t[j])
       PROVE  i = j
  <2>1. CASE i \in 1 .. n /\ j \in 1 .. n
    BY <1>2, <1>7, <1>11, <2>1
  <2>2. CASE i \in 1 .. n /\ j = n + 1
    BY <1>2, <1>3, <1>11, <2>2
  <2>3. CASE i = n + 1 /\ j \in 1 .. n
    BY <1>2, <1>3, <1>11, <2>3
  <2> QED
    BY <1>5, <2>1, <2>2, <2>3
<1>12. ASSUME NEW i \in 1 .. n + 1, NEW x \in ToSet(t[i]), NEW d \in NodeOf(nodes, x).deps
       PROVE  \E j \in 1 .. n + 1 : j < i /\ d \in ToSet(t[j])
  <2>1. CASE i \in 1 .. n
    <3>1. PICK j \in 1 .. n : j < i /\ d \in ToSet(ws[j])
      BY <1>2, <1>7, <1>12, <2>1
    <3> QED
      BY <1>2, <1>6, <3>1
  <2>2. CASE i = n + 1
    <3>1. x \in ToSet(w)
      BY <1>2, <1>12, <2>2
    <3>2. d \in Done(ws)
      BY <3>1 DEF Packed
    <3>3. PICK j \in 1 .. n : d \in ToSet(ws[j])
      BY <1>3, <3>2
    <3> QED
      BY <1>2, <1>6, <2>2, <3>3
  <2> QED
    BY <1>5, <2>1, <2>2
<1>13. Layered(nodes, width, t)
  BY <1>2, <1>10, <1>11, <1>12 DEF Layered
<1>14. Done(t) = Done(ws) \cup ToSet(w)
  <2>1. ASSUME NEW x \in Done(t) PROVE x \in Done(ws) \cup ToSet(w)
    BY <1>2, <1>3, <1>4, <1>5, <2>1
  <2>2. ASSUME NEW x \in Done(ws) PROVE x \in Done(t)
    BY <1>2, <1>3, <1>4, <1>6, <2>2
  <2>3. ASSUME NEW x \in ToSet(w) PROVE x \in Done(t)
    BY <1>2, <1>4, <1>6, <2>3
  <2> QED
    BY <2>1, <2>2, <2>3
<1> QED
  BY <1>2, <1>13, <1>14 DEF t, n

\* A wave more, as long as something remains.
LEMMA NextWaveLayers ==
  ASSUME NEW nodes, Graph(nodes), NEW width \in Nat, width >= 1,
         NEW ws, Layered(nodes, width, ws), Remaining(KahnOrder(nodes), Done(ws)) # <<>>
  PROVE  LET t == Append(ws, NextWave(nodes, width, ws))
         IN /\ Layered(nodes, width, t) /\ Len(t) = Len(ws) + 1
            /\ Done(ws) \subseteq Done(t) /\ Done(t) # Done(ws)
<1> DEFINE o == KahnOrder(nodes)
           done == Done(ws)
           r == Remaining(o, done)
           w == NextWave(nodes, width, ws)
           t == Append(ws, w)
<1>1. Topological(nodes, o)
  BY KahnIs
<1>2. w = Wave(nodes, r, done, width)
  BY DEF NextWave
<1>3. r # <<>>
  OBVIOUS
<1> HIDE DEF o, done, w, r
<1>4. /\ r \in Seq(Ids(nodes)) /\ NoRepeat(r) /\ ToSet(r) = ToSet(o) \ done
      /\ NodeOf(nodes, r[1]).deps \subseteq done
  BY <1>1, <1>3, RemainingIs DEF r
<1>5. Packed(nodes, width, done, w) /\ ToSet(w) \subseteq ToSet(r) /\ w # <<>>
  BY <1>2, <1>3, <1>4, WaveIs
<1>6. \A x \in ToSet(w) : x \notin done
  BY <1>4, <1>5
<1>7. Layered(nodes, width, t) /\ Len(t) = Len(ws) + 1 /\ Done(t) = done \cup ToSet(w)
  BY <1>5, <1>6, WaveLayers DEF done
<1>8. ToSet(w) # {}
  <2>1. w \in Seq(Ids(nodes))
    BY <1>5 DEF Packed
  <2>2. DOMAIN w = 1 .. Len(w) /\ Len(w) \in Nat /\ Len(w) # 0
    BY <1>5, <2>1
  <2>3. w[1] \in ToSet(w)
    BY <2>2 DEF ToSet
  <2> QED
    BY <2>3
<1> HIDE DEF t
<1> QED
  BY <1>6, <1>7, <1>8 DEF t, w, done

\* The waves are layered, and nothing remains when there is no cycle.
LEMMA WavesAre ==
  ASSUME NEW nodes, Graph(nodes), NEW width \in Nat, width >= 1,
         Len(KahnOrder(nodes)) = Len(nodes)
  PROVE  LET ws == Waves(nodes, width)
         IN Layered(nodes, width, ws) /\ Ids(nodes) \subseteq Done(ws)
<1> DEFINE N == Len(nodes)
           I == Ids(nodes)
           o == KahnOrder(nodes)
           V == {ws \in Seq(Seq(I)) : Layered(nodes, width, ws)}
           Left(ws) == Remaining(o, Done(ws))
           After(ws) == IF Left(ws) = <<>> THEN ws ELSE Append(ws, NextWave(nodes, width, ws))
           F == [ws \in V |-> After(ws)]
           waves[n \in 0 .. Len(nodes)] ==
             IF n = 0 THEN <<>>
             ELSE IF Remaining(KahnOrder(nodes), Done(waves[n - 1])) = <<>> THEN waves[n - 1]
             ELSE Append(waves[n - 1], NextWave(nodes, width, waves[n - 1]))
           Is(f) == f = [n \in 0 .. N |-> IF n = 0 THEN <<>> ELSE After(f[n - 1])]
<1>1. N \in Nat /\ IsFiniteSet(I) /\ Cardinality(I) = N
  BY DEF Graph
<1>2. Waves(nodes, width) = waves[N]
  BY DEF Waves
<1>3. waves = CHOOSE f : Is(f)
  OBVIOUS
<1> HIDE DEF waves, N
<1>4. Topological(nodes, o) /\ ToSet(o) = I
  BY KahnIs, CyclesAreFound
<1>5. <<>> \in V
  <2> DEFINE e == <<>>
  <2>1. Len(e) = 0 /\ e \in Seq(Seq(I))
    OBVIOUS
  <2> HIDE DEF e
  <2>2. Layered(nodes, width, e)
    BY <2>1 DEF Layered
  <2> QED
    BY <2>1, <2>2 DEF e
<1>6. ASSUME NEW ws \in V, Left(ws) # <<>>
      PROVE  /\ After(ws) \in V
             /\ Done(ws) \subseteq Done(After(ws)) /\ Done(After(ws)) # Done(ws)
  <2>1. After(ws) = Append(ws, NextWave(nodes, width, ws)) /\ Layered(nodes, width, ws)
    BY <1>6
  <2>2. Remaining(KahnOrder(nodes), Done(ws)) # <<>>
    BY <1>6
  <2> DEFINE t == Append(ws, NextWave(nodes, width, ws))
  <2>3. /\ Layered(nodes, width, t) /\ Done(ws) \subseteq Done(t) /\ Done(t) # Done(ws)
    BY <2>1, <2>2, NextWaveLayers
  <2> HIDE DEF t, After
  <2>4. t \in V
    BY <2>3 DEF Layered
  <2> QED
    BY <2>1, <2>3, <2>4 DEF t
<1>7. \A ws \in V : Left(ws) = <<>> => After(ws) = ws
  OBVIOUS
<1>8. \A ws \in V : Layered(nodes, width, ws)
  OBVIOUS
<1> HIDE DEF After, V, Left
<1>9. \A ws \in V : After(ws) \in V
  BY <1>6, <1>7
<1>10. F \in [V -> V] /\ \A ws \in V : F[ws] = After(ws)
  BY <1>9
<1> HIDE DEF F
<1>11. PICK f : Repeats(f, V, <<>>, F, N)
  BY <1>1, <1>5, <1>10, Repeated
<1>12. \E g : Is(g)
  <2>1. \A n \in 1 .. N : f[n - 1] \in V
    BY <1>1, <1>11 DEF Repeats
  <2>2. \A n \in 0 .. N : f[n] = IF n = 0 THEN <<>> ELSE After(f[n - 1])
    BY <1>1, <1>10, <1>11, <2>1 DEF Repeats
  <2>3. Is(f)
    BY <1>11, <2>2 DEF Repeats
  <2> HIDE DEF Is
  <2> QED
    BY <2>3
<1>13. Is(waves)
  <2> HIDE DEF Is
  <2> QED
    BY <1>3, <1>12
<1>14. waves[0] = <<>> /\ \A n \in 1 .. N : waves[n] = After(waves[n - 1])
  BY <1>1, <1>13
<1>15. \A ws \in V : Done(ws) \subseteq I /\ IsFiniteSet(Done(ws)) /\ Cardinality(Done(ws)) \in Nat
  <2> SUFFICES ASSUME NEW ws \in V
               PROVE  Done(ws) \subseteq I /\ IsFiniteSet(Done(ws)) /\ Cardinality(Done(ws)) \in Nat
    OBVIOUS
  <2>1. Layered(nodes, width, ws)
    BY <1>8
  <2>2. Done(ws) \subseteq I
    <3> SUFFICES ASSUME NEW x \in Done(ws) PROVE x \in I
      OBVIOUS
    <3>1. ws \in Seq(Seq(I))
      BY <2>1 DEF Layered
    <3>2. PICK i \in 1 .. Len(ws) : x \in ToSet(ws[i])
      BY <3>1, DoneIs
    <3>3. ws[i] \in Seq(I)
      BY <2>1 DEF Layered, Packed
    <3>4. \A j \in DOMAIN ws[i] : ws[i][j] \in I
      BY <3>3, ElementOfSeq, LenProperties
    <3> QED
      BY <3>2, <3>4 DEF ToSet
  <2>3. IsFiniteSet(Done(ws))
    BY <1>1, <2>2, FS_Subset
  <2> QED
    BY <2>2, <2>3, FS_CardinalityType
<1>16. ASSUME NEW ws \in V, Left(ws) = <<>> PROVE I \subseteq Done(ws)
  <2>1. ToSet(Left(ws)) = ToSet(o) \ Done(ws)
    <3> HIDE DEF o
    <3> QED
      BY <1>4, RemainingIs DEF Left
  <2>2. ToSet(<<>>) = {}
    BY DEF ToSet
  <2> QED
    BY <1>4, <1>16, <2>1, <2>2
<1> DEFINE S == {n \in 0 .. N : /\ waves[n] \in V
                                /\ Left(waves[n]) = <<>> \/ Cardinality(Done(waves[n])) >= n}
<1>17. 0 \in S
  <2>1. Cardinality(Done(waves[0])) >= 0
    BY <1>5, <1>14, <1>15
  <2> QED
    BY <1>1, <1>5, <1>14, <2>1
<1>18. ASSUME NEW n \in 0 .. N - 1, n \in S PROVE n + 1 \in S
  <2> DEFINE m == n + 1
             ws == waves[n]
             t == After(ws)
  <2>1. m \in 1 .. N /\ m \in 0 .. N /\ m - 1 = n /\ n \in Nat
    BY <1>1
  <2>2. ws \in V /\ (Left(ws) = <<>> \/ Cardinality(Done(ws)) >= n)
    BY <1>18
  <2> HIDE DEF m
  <2>3. waves[m] = t
    BY <1>14, <2>1
  <2> HIDE DEF ws
  <2>4. CASE Left(ws) = <<>>
    <3>1. t = ws
      BY <1>7, <2>2, <2>4
    <3> QED
      BY <2>1, <2>2, <2>3, <2>4, <3>1 DEF m
  <2>5. CASE Left(ws) # <<>>
    <3>1. t \in V /\ Done(ws) \subseteq Done(t) /\ Done(t) # Done(ws)
      BY <1>6, <2>2, <2>5
    <3> HIDE DEF t
    <3>2. PICK x : x \in Done(t) /\ x \notin Done(ws)
      BY <3>1
    <3>3. /\ IsFiniteSet(Done(ws)) /\ IsFiniteSet(Done(t))
          /\ Cardinality(Done(ws)) \in Nat /\ Cardinality(Done(t)) \in Nat
      BY <1>15, <2>2, <3>1
    <3>4. Cardinality(Done(ws) \cup {x}) = Cardinality(Done(ws)) + 1
      BY <3>2, <3>3, FS_AddElement
    <3>5. Cardinality(Done(ws) \cup {x}) <= Cardinality(Done(t))
      <4>1. Done(ws) \cup {x} \in SUBSET Done(t)
        BY <3>1, <3>2
      <4> QED
        BY <3>3, <4>1, FS_Subset
    <3>6. Cardinality(Done(t)) >= m
      BY <2>1, <2>2, <2>5, <3>3, <3>4, <3>5
    <3>7. m \in S
      BY <2>1, <2>3, <3>1, <3>6
    <3> QED
      BY <3>7 DEF m
  <2> QED
    BY <2>4, <2>5
<1>19. \A n \in 0 .. N : n \in S
  <2> HIDE DEF S
  <2> QED
    BY <1>1, <1>17, <1>18, CountUp
<1>20. waves[N] \in V /\ (Left(waves[N]) = <<>> \/ Cardinality(Done(waves[N])) >= N)
  <2>1. N \in 0 .. N
    BY <1>1
  <2>2. N \in S
    <3> HIDE DEF S
    <3> QED
      BY <1>19, <2>1
  <2> QED
    BY <2>2
<1> DEFINE ws == waves[N]
<1>21. I \subseteq Done(ws)
  <2>1. ws \in V
    BY <1>20
  <2>2. CASE Left(ws) = <<>>
    BY <1>16, <2>1, <2>2
  <2>3. CASE Cardinality(Done(ws)) >= N
    <3> HIDE DEF ws, I
    <3>1. Done(ws) \in SUBSET I /\ Cardinality(Done(ws)) \in Nat
      BY <1>15, <2>1
    <3>2. Cardinality(Done(ws)) <= Cardinality(I)
      BY <1>1, <3>1, FS_Subset
    <3>3. Cardinality(I) = Cardinality(Done(ws))
      BY <1>1, <2>3, <3>1, <3>2
    <3>4. I = Done(ws)
      BY <1>1, <3>1, <3>3, FS_Subset
    <3> QED
      BY <3>4
  <2> QED
    BY <1>20, <2>2, <2>3
<1> QED
  BY <1>2, <1>8, <1>20, <1>21

\* What plan_dag() promises, for every set of actions.
LEMMA PlanIs ==
  ASSUME NEW nodes, Numbered(nodes), NEW width \in Nat
  PROVE  PlanSound(nodes, width)
<1>1. Planned(nodes, width) <=> width >= 1 /\ WellBound(nodes) /\ Acyclic(nodes)
  <2>1. WellBound(nodes) => (Len(KahnOrder(nodes)) = Len(nodes) <=> Acyclic(nodes))
    BY NodesAre, CyclesAreFound
  <2> QED
    BY <2>1 DEF Planned
<1> DEFINE I == Ids(nodes)
           ws == Waves(nodes, width)
           Runs(x) == {i \in DOMAIN ws : x \in ToSet(ws[i])}
<1>2. ASSUME Planned(nodes, width)
      PROVE  /\ \A x \in I : Cardinality(Runs(x)) = 1
             /\ \A x \in I : \A d \in NodeOf(nodes, x).deps :
                  \A i \in Runs(x), j \in Runs(d) : j < i
             /\ \A i \in DOMAIN ws :
                  /\ Len(ws[i]) \in 1 .. width /\ NoRepeat(ws[i])
                  /\ Len(ws[i]) > 1 => \A x \in ToSet(ws[i]) : ~NodeOf(nodes, x).sensitive
  <2>1. Layered(nodes, width, ws) /\ I \subseteq Done(ws)
    BY <1>2, NodesAre, WavesAre DEF Planned
  <2> HIDE DEF ws
  <2>2. ws \in Seq(Seq(I)) /\ DOMAIN ws = 1 .. Len(ws) /\ Len(ws) \in Nat
    <3> DEFINE X == Seq(I)
    <3>1. ws \in Seq(X)
      BY <2>1 DEF Layered
    <3> HIDE DEF X
    <3>2. DOMAIN ws = 1 .. Len(ws) /\ Len(ws) \in Nat
      BY <3>1, LenProperties
    <3> QED
      BY <3>1, <3>2 DEF X
  <2>3. \A x : x \in Done(ws) <=> \E i \in 1 .. Len(ws) : x \in ToSet(ws[i])
    BY <2>2, DoneIs
  <2>4. ASSUME NEW x \in I PROVE Cardinality(Runs(x)) = 1
    <3>1. PICK i \in 1 .. Len(ws) : x \in ToSet(ws[i])
      BY <2>1, <2>3
    <3>2. \A j \in 1 .. Len(ws) : x \in ToSet(ws[j]) => j = i
      BY <2>1, <3>1 DEF Layered
    <3>3. Runs(x) = {i}
      BY <2>2, <3>1, <3>2
    <3> HIDE DEF Runs
    <3> QED
      BY <3>3, FS_Singleton
  <2>5. ASSUME NEW x \in I, NEW d \in NodeOf(nodes, x).deps, NEW i \in Runs(x), NEW j \in Runs(d)
        PROVE  j < i
    <3>1. i \in 1 .. Len(ws) /\ x \in ToSet(ws[i]) /\ j \in 1 .. Len(ws) /\ d \in ToSet(ws[j])
      BY <2>2
    <3>2. PICK k \in 1 .. Len(ws) : k < i /\ d \in ToSet(ws[k])
      BY <2>1, <3>1 DEF Layered
    <3>3. k = j
      BY <2>1, <3>1, <3>2 DEF Layered
    <3> QED
      BY <3>2, <3>3
  <2>6. ASSUME NEW i \in DOMAIN ws
        PROVE  /\ Len(ws[i]) \in 1 .. width /\ NoRepeat(ws[i])
               /\ Len(ws[i]) > 1 => \A x \in ToSet(ws[i]) : ~NodeOf(nodes, x).sensitive
    <3> DEFINE w == ws[i]
    <3>1. Packed(nodes, width, I, w) /\ w # <<>>
      BY <2>1, <2>2, <2>6 DEF Layered
    <3> HIDE DEF w
    <3>2. /\ w \in Seq(I) /\ NoRepeat(w) /\ Len(w) <= width
          /\ Len(w) > 1 => \A x \in ToSet(w) : ~NodeOf(nodes, x).sensitive
      BY <3>1 DEF Packed
    <3>3. Len(w) \in Nat /\ Len(w) # 0
      BY <3>1, <3>2
    <3>4. Len(w) \in 1 .. width
      BY <3>2, <3>3
    <3>5. /\ Len(w) \in 1 .. width /\ NoRepeat(w)
          /\ Len(w) > 1 => \A x \in ToSet(w) : ~NodeOf(nodes, x).sensitive
      BY <3>2, <3>4
    <3> QED
      BY <3>5, Zenon DEF w
  <2> QED
    BY <2>4, <2>5, <2>6
<1> HIDE DEF ws
<1> QED
  BY <1>1, <1>2 DEF PlanSound, ws

\* plan_dag() on every list of actions and every width: exactly what is bound to one revision
\* and free of cycles is planned, each action once, behind all it depends on, and what is
\* state-sensitive alone.
THEOREM PlanIsSound ==
  \A nodes : Numbered(nodes) => \A width \in Nat : PlanSound(nodes, width)
  BY PlanIs

\* What MCDecisions asks about is numbered.
LEMMA QuestionsAreNumbered ==
  \A nodes \in Graphs3 \cup Unbound \cup {<<>>} : Numbered(nodes)
<1>1. ASSUME NEW nodes \in Graphs3 PROVE Numbered(nodes)
  <2> DEFINE N(i, d, s) == [idx |-> i, deps |-> d, sensitive |-> s, revision |-> "r"]
  <2>1. PICK d \in [1 .. 3 -> SUBSET (1 .. 3)], s \in [1 .. 3 -> BOOLEAN] :
          nodes = <<N(1, d[1], s[1]), N(2, d[2], s[2]), N(3, d[3], s[3])>>
    BY DEF Graphs3
  <2>2. \A i \in Nat : N(i, d[i], s[i]).idx \in Nat
    OBVIOUS
  <2>3. \A i \in {1, 2, 3} : N(i, d[i], s[i]).idx \in Nat
    BY <2>2
  <2> HIDE DEF N
  <2>4. Len(nodes) = 3 /\ DOMAIN nodes = 1 .. 3
    BY <2>1
  <2>5. nodes[1] = N(1, d[1], s[1]) /\ nodes[2] = N(2, d[2], s[2]) /\ nodes[3] = N(3, d[3], s[3])
    BY <2>1
  <2>6. \A i \in 1 .. 3 : i = 1 \/ i = 2 \/ i = 3
    OBVIOUS
  <2>7. \A i \in 1 .. 3 : nodes[i].idx \in Nat
    BY <2>3, <2>5, <2>6
  <2> QED
    BY <2>4, <2>7 DEF Numbered
<1>2. ASSUME NEW nodes \in Unbound PROVE Numbered(nodes)
  <2>1. Len(nodes) = 2 /\ DOMAIN nodes = 1 .. 2
    <3> DEFINE A == [idx : {1, 2}, deps : SUBSET {1, 2, 5}, sensitive : {FALSE},
                     revision : {"r", "s", ""}]
               B == [idx : {2}, deps : {{}}, sensitive : BOOLEAN, revision : {"r", "s", ""}]
    <3>1. nodes \in A \X B
      BY DEF Unbound
    <3> HIDE DEF A, B
    <3> QED
      BY <3>1
  <2>2. nodes[1].idx \in {1, 2} /\ nodes[2].idx \in {2}
    BY DEF Unbound
  <2>3. \A j \in 1 .. 2 : j = 1 \/ j = 2
    OBVIOUS
  <2>4. \A j \in 1 .. 2 : nodes[j].idx \in Nat
    BY <2>2, <2>3
  <2> QED
    BY <2>1, <2>4 DEF Numbered
<1>3. Numbered(<<>>)
  <2> DEFINE e == <<>>
  <2>1. Len(e) = 0 /\ DOMAIN e = {} /\ 1 .. 0 = {}
    OBVIOUS
  <2> HIDE DEF e
  <2>2. Numbered(e)
    BY <2>1 DEF Numbered
  <2> QED
    BY <2>2 DEF e
<1> QED
  BY <1>1, <1>2, <1>3

\* plan_dag() on every question of MCDecisions: exactly the bound, acyclic sets of actions
\* are planned, each action once and behind all it depends on.
THEOREM PlansSoundCorrect == MCSpec => []PlansSound
<1>1. ASSUME Asked, Asks("plan")
      PROVE  PlanSound(query.nodes, query.width)
  <2>1. /\ query.nodes \in Graphs3 \cup Unbound \cup {<<>>}
        /\ query.width \in {1, 2, 3} \cup {0, 2}
    BY <1>1 DEF Asked, Posed, Asks
  <2>2. query.width \in Nat
    BY <2>1
  <2> QED
    BY <2>1, <2>2, QuestionsAreNumbered, PlanIsSound
<1>2. Asked => PlansSound
  BY <1>1 DEF PlansSound
<1> QED
  BY <1>2, QuestionStays, PTL
=============================================================================
