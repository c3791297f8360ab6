-------------------------- MODULE DeviceRun_proofs --------------------------
(***************************************************************************)
(* What a device run may count on (DeviceRun), for every set of scripts,   *)
(* any number of rounds and any number of cancellations.  First the        *)
(* scripts as data: each keeps five disciplines of observing, judging and  *)
(* acting, however long its loops are.  Then the runs: what is left of the *)
(* script keeps them too, through every failure, fallback, jump and        *)
(* cancellation, and the way out of it leaves nothing behind.              *)
(***************************************************************************)
EXTENDS DeviceRun, SequenceTheorems, WellFoundedInduction, TLAPS

-----------------------------------------------------------------------------
(***************************************************************************)
(* Disciplines.  A discipline says which steps need a condition, which     *)
(* restore it and which spoil it.  A list of steps is apt for it when each *)
(* step that needs the condition has it if it held at the start, and firm  *)
(* when it need not hold at the start.                                     *)
(***************************************************************************)

\* The steps there are.
Dos  == {"look", "see", "audit", "confirm", "settle", "recheck", "check", "act", "cheap",
         "probe", "mark", "touch", "end"}
Ops  == {"none", "home", "launch", "tap", "type", "gesture", "drop", "recover", "invalidate",
         "cancelled", "expired", "earlier", "last", "foreign", "invalid"}
Bads == {"none", "raise", "nothing", "again", "hold", "blocked", "stopped", "fail", "judged",
         "reported", "looked", "see", "home", "recover", "fallback", "cleanup", "skip"}
Steps == [do : Dos, op : Ops, bad : Bads]

\* Behind the last step.
End == Step("end", "none", "none")
StepAt(s, i) == IF i \in 1 .. Len(s) THEN s[i] ELSE End

\* A discipline: the steps that need something to hold, those that restore it, and those
\* that may spoil it.  Since a step before i it holds at i; or nothing before i spoils it.
Since(s, i, D) ==
  \E j \in 1 .. i - 1 : /\ s[j] \in D.restores
                        /\ \A k \in j + 1 .. i - 1 : s[k] \notin D.spoils
Untouched(s, i, D) == \A k \in 1 .. i - 1 : s[k] \notin D.spoils

\* The steps are in order whatever holds at the first; and if it holds there.
Firm(s, D) == \A i \in 1 .. Len(s) + 1 : StepAt(s, i) \in D.needs => Since(s, i, D)
Apt(s, D) ==
  \A i \in 1 .. Len(s) + 1 : StepAt(s, i) \in D.needs => Since(s, i, D) \/ Untouched(s, i, D)

\* t is s without its first d steps.
Behind(t, s, d) ==
  /\ s \in Seq(Steps) /\ t \in Seq(Steps) /\ d \in Nat
  /\ Len(s) = Len(t) + d
  /\ \A k \in 1 .. Len(t) : t[k] = s[k + d]

\* What is in order whatever holds at the first step is in order if it holds there.
LEMMA FirmIsApt == ASSUME NEW s, NEW D, Firm(s, D) PROVE Apt(s, D)
BY DEF Firm, Apt

\* The place i of t is the place i + d of s.
LEMMA SamePlace ==
  ASSUME NEW s, NEW t, NEW d, Behind(t, s, d), NEW D, NEW i \in 1 .. Len(t) + 1
  PROVE  /\ i + d \in 1 .. Len(s) + 1
         /\ StepAt(s, i + d) = StepAt(t, i)
         /\ Since(t, i, D) => Since(s, i + d, D)
         /\ Untouched(s, i + d, D) => Untouched(t, i, D)
<1>1. /\ Len(s) \in Nat /\ Len(t) \in Nat /\ d \in Nat /\ Len(s) = Len(t) + d
      /\ i \in Nat /\ i >= 1 /\ i <= Len(t) + 1
  BY DEF Behind
<1>2. \A k \in 1 .. Len(t) : t[k] = s[k + d]
  BY DEF Behind
<1>3. StepAt(s, i + d) = StepAt(t, i)
  <2>1. CASE i <= Len(t)
    BY <1>1, <1>2, <2>1 DEF StepAt
  <2>2. CASE i = Len(t) + 1
    BY <1>1, <2>2 DEF StepAt
  <2> QED
    BY <1>1, <2>1, <2>2
<1>4. ASSUME Since(t, i, D) PROVE Since(s, i + d, D)
  <2>1. PICK j \in 1 .. i - 1 : /\ t[j] \in D.restores
                                /\ \A k \in j + 1 .. i - 1 : t[k] \notin D.spoils
    BY <1>4 DEF Since
  <2> DEFINE m == j + d
  <2>2. m \in 1 .. (i + d) - 1 /\ s[m] = t[j]
    BY <1>1, <1>2, <2>1
  <2>3. ASSUME NEW k \in m + 1 .. (i + d) - 1 PROVE s[k] \notin D.spoils
    <3> DEFINE l == k - d
    <3>1. l \in j + 1 .. i - 1 /\ l \in 1 .. Len(t) /\ k = l + d
      BY <1>1, <2>1, <2>3
    <3> HIDE DEF l
    <3>2. t[l] = s[k]
      BY <1>2, <3>1
    <3> QED
      BY <2>1, <3>1, <3>2
  <2> HIDE DEF m
  <2> QED
    BY <2>1, <2>2, <2>3 DEF Since
<1>5. ASSUME Untouched(s, i + d, D), NEW k \in 1 .. i - 1 PROVE t[k] \notin D.spoils
  <2> DEFINE m == k + d
  <2>1. m \in 1 .. (i + d) - 1 /\ t[k] = s[m]
    BY <1>1, <1>2, <1>5
  <2> HIDE DEF m
  <2> QED
    BY <1>5, <2>1 DEF Untouched
<1> QED
  BY <1>1, <1>3, <1>4, <1>5 DEF Untouched

\* What holds since a step that t has lost holds at the start of t.
LEMMA LostPlace ==
  ASSUME NEW s, NEW t, NEW d, Behind(t, s, d), NEW D, NEW i \in 1 .. Len(t) + 1,
         Since(s, i + d, D)
  PROVE  Since(t, i, D) \/ (Untouched(t, i, D) /\ \E j \in 1 .. d :
           s[j] \in D.restores /\ \A k \in j + 1 .. (i + d) - 1 : s[k] \notin D.spoils)
<1>1. /\ Len(s) \in Nat /\ Len(t) \in Nat /\ d \in Nat /\ Len(s) = Len(t) + d
      /\ i \in Nat /\ i >= 1 /\ i <= Len(t) + 1
      /\ \A k \in 1 .. Len(t) : t[k] = s[k + d]
  BY DEF Behind
<1>2. PICK j \in 1 .. (i + d) - 1 :
        s[j] \in D.restores /\ \A k \in j + 1 .. (i + d) - 1 : s[k] \notin D.spoils
  BY DEF Since
<1>3. ASSUME NEW k \in 1 .. i - 1, k + d >= j + 1 PROVE t[k] \notin D.spoils
  <2> DEFINE m == k + d
  <2>1. m \in j + 1 .. (i + d) - 1 /\ t[k] = s[m]
    BY <1>1, <1>2, <1>3
  <2> HIDE DEF m
  <2> QED
    BY <1>2, <2>1
<1>4. CASE j <= d
  <2>1. \A k \in 1 .. i - 1 : k + d >= j + 1
    BY <1>1, <1>2, <1>4
  <2>2. Untouched(t, i, D)
    BY <1>3, <2>1 DEF Untouched
  <2>3. j \in 1 .. d
    BY <1>1, <1>2, <1>4
  <2> QED
    BY <1>2, <2>2, <2>3
<1>5. CASE j > d
  <2> DEFINE m == j - d
  <2>1. m \in 1 .. i - 1 /\ m + d = j /\ m \in 1 .. Len(t)
        /\ \A k \in m + 1 .. i - 1 : k + d >= j + 1 /\ k \in 1 .. i - 1
    BY <1>1, <1>2, <1>5
  <2> HIDE DEF m
  <2>2. t[m] = s[j]
    BY <1>1, <2>1
  <2>3. \A k \in m + 1 .. i - 1 : t[k] \notin D.spoils
    BY <1>3, <2>1
  <2> QED
    BY <1>2, <2>1, <2>2, <2>3 DEF Since
<1> QED
  BY <1>1, <1>2, <1>4, <1>5

\* What is left behind some steps of an apt list is apt.
LEMMA SuffixApt ==
  ASSUME NEW s, NEW t, NEW d, Behind(t, s, d), NEW D, Apt(s, D)
  PROVE  Apt(t, D)
<1> SUFFICES ASSUME NEW i \in 1 .. Len(t) + 1, StepAt(t, i) \in D.needs
             PROVE  Since(t, i, D) \/ Untouched(t, i, D)
  BY DEF Apt
<1>1. Since(s, i + d, D) \/ Untouched(s, i + d, D)
  BY SamePlace DEF Apt
<1> QED
  BY <1>1, SamePlace, LostPlace

\* Behind a spoiling step nothing is owed to what went before it.
LEMMA SuffixFirm ==
  ASSUME NEW s, NEW t, NEW d, Behind(t, s, d), NEW D, Apt(s, D), t # <<>>,
         t[1] \in D.spoils, t[1] \notin D.needs
  PROVE  Firm(t, D)
<1> SUFFICES ASSUME NEW i \in 1 .. Len(t) + 1, StepAt(t, i) \in D.needs
             PROVE  Since(t, i, D)
  BY DEF Firm
<1>1. Since(t, i, D) \/ Untouched(t, i, D)
  BY SuffixApt DEF Apt
<1>2. t \in Seq(Steps) /\ Len(t) \in Nat /\ Len(t) >= 1
  BY DEF Behind
<1>3. i # 1
  BY <1>2 DEF StepAt
<1>4. 1 \in 1 .. i - 1
  BY <1>2, <1>3
<1> QED
  BY <1>1, <1>4 DEF Untouched

\* What is left behind the first step; it is firm if that step spoils the condition.
LEMMA TailApt ==
  ASSUME NEW s, NEW t, Behind(t, s, 1), NEW D, Apt(s, D)
  PROVE  /\ Apt(t, D)
         /\ Firm(s, D) /\ s[1] \notin D.restores => Firm(t, D)
         /\ s[1] \in D.spoils /\ s[1] \notin D.restores => Firm(t, D)
<1>1. Apt(t, D)
  BY SuffixApt
<1>2. ASSUME s[1] \notin D.restores, Firm(s, D) \/ s[1] \in D.spoils PROVE Firm(t, D)
  <2> SUFFICES ASSUME NEW i \in 1 .. Len(t) + 1, StepAt(t, i) \in D.needs
               PROVE  Since(t, i, D)
    BY DEF Firm
  <2>1. i + 1 \in 1 .. Len(s) + 1 /\ StepAt(s, i + 1) \in D.needs
    <3>1. i + 1 \in 1 .. Len(s) + 1
      BY SamePlace
    <3>2. StepAt(s, i + 1) = StepAt(t, i)
      BY SamePlace
    <3> QED
      BY <3>1, <3>2
  <2>2. Since(s, i + 1, D) => Since(t, i, D)
    BY <1>2, LostPlace
  <2>3. CASE Firm(s, D)
    BY <2>1, <2>2, <2>3 DEF Firm
  <2>4. CASE s[1] \in D.spoils
    <3>1. 1 \in 1 .. (i + 1) - 1
      BY DEF Behind
    <3>2. ~Untouched(s, i + 1, D)
      BY <2>4, <3>1 DEF Untouched
    <3> QED
      BY <2>1, <2>2, <3>2 DEF Apt
  <2> QED
    BY <1>2, <2>3, <2>4
<1> QED
  BY <1>1, <1>2

\* A step before t.
LEMMA ConsApt ==
  ASSUME NEW s, NEW t, Behind(t, s, 1), NEW D, Apt(t, D), s[1] \notin D.needs
  PROVE  /\ s[1] \notin D.spoils => Apt(s, D)
         /\ s[1] \in D.restores => Firm(s, D)
         /\ Firm(t, D) => Firm(s, D)
<1>1. /\ Len(s) \in Nat /\ Len(t) \in Nat /\ Len(s) = Len(t) + 1
      /\ \A k \in 1 .. Len(t) : t[k] = s[k + 1]
  BY DEF Behind
<1>2. ASSUME NEW m \in 1 .. Len(s) + 1, StepAt(s, m) \in D.needs
      PROVE  /\ s[1] \notin D.spoils => Since(s, m, D) \/ Untouched(s, m, D)
             /\ s[1] \in D.restores \/ Firm(t, D) => Since(s, m, D)
  <2>1. m # 1
    BY <1>1, <1>2 DEF StepAt
  <2> DEFINE i == m - 1
  <2>2. i \in 1 .. Len(t) + 1 /\ m = i + 1 /\ 1 \in 1 .. m - 1 /\ i = m - 1
    BY <1>1, <1>2, <2>1
  <2> HIDE DEF i
  <2>3. StepAt(t, i) \in D.needs /\ (Since(t, i, D) => Since(s, m, D))
    BY <1>2, <2>2, SamePlace
  <2>4. Since(t, i, D) \/ Untouched(t, i, D)
    BY <2>2, <2>3 DEF Apt
  <2>5. ASSUME Untouched(t, i, D), NEW k \in 2 .. m - 1 PROVE s[k] \notin D.spoils
    <3> DEFINE l == k - 1
    <3>1. l \in 1 .. i - 1 /\ l \in 1 .. Len(t) /\ k = l + 1
      BY <1>1, <2>2, <2>5
    <3> HIDE DEF l
    <3>2. t[l] = s[k]
      BY <1>1, <3>1
    <3> QED
      BY <2>5, <3>1, <3>2 DEF Untouched
  <2>6. Untouched(t, i, D) /\ s[1] \in D.restores => Since(s, m, D)
    BY <2>2, <2>5 DEF Since
  <2>7. Untouched(t, i, D) /\ s[1] \notin D.spoils => Untouched(s, m, D)
    <3>1. \A k \in 1 .. m - 1 : k = 1 \/ k \in 2 .. m - 1
      BY <1>1, <2>2
    <3> QED
      BY <2>5, <3>1 DEF Untouched
  <2>8. Firm(t, D) => Since(t, i, D)
    BY <2>2, <2>3 DEF Firm
  <2> QED
    BY <2>3, <2>4, <2>6, <2>7, <2>8
<1> QED
  BY <1>2 DEF Apt, Firm

\* One list behind another.
LEMMA ConcatApt ==
  ASSUME NEW a \in Seq(Steps), NEW b \in Seq(Steps), NEW D, End \notin D.needs
  PROVE  /\ Apt(a, D) /\ Firm(b, D) => Apt(a \o b, D)
         /\ Firm(a, D) /\ Firm(b, D) => Firm(a \o b, D)
         /\ Firm(a, D) /\ Since(a, Len(a) + 1, D) /\ Apt(b, D) => Firm(a \o b, D)
<1> DEFINE s == a \o b
           n == Len(a)
<1>1. /\ s \in Seq(Steps) /\ Len(s) = Len(b) + n /\ n \in Nat /\ Len(b) \in Nat
      /\ \A k \in 1 .. n : s[k] = a[k]
      /\ \A k \in 1 .. Len(b) : s[k + n] = b[k]
  OBVIOUS
<1> HIDE DEF s
<1>2. Behind(b, s, n)
  BY <1>1 DEF Behind
<1> HIDE DEF n
<1>3. ASSUME NEW m \in 1 .. Len(s) + 1, StepAt(s, m) \in D.needs, m <= n
      PROVE  /\ m \in 1 .. Len(a) + 1 /\ StepAt(a, m) \in D.needs
             /\ Since(a, m, D) => Since(s, m, D)
             /\ Untouched(a, m, D) => Untouched(s, m, D)
  <2>1. n = Len(a)
    BY DEF n
  <2>2. \A k \in 1 .. m - 1 : s[k] = a[k]
    BY <1>1, <1>3
  <2>3. m \in 1 .. Len(a) + 1 /\ StepAt(a, m) = StepAt(s, m)
    BY <1>1, <1>3, <2>1 DEF StepAt
  <2>4. ASSUME Since(a, m, D) PROVE Since(s, m, D)
    <3>1. PICK j \in 1 .. m - 1 : /\ a[j] \in D.restores
                                  /\ \A k \in j + 1 .. m - 1 : a[k] \notin D.spoils
      BY <2>4 DEF Since
    <3>2. \A k \in j + 1 .. m - 1 : k \in 1 .. m - 1
      BY <1>1, <1>3, <3>1
    <3> QED
      BY <2>2, <3>1, <3>2 DEF Since
  <2>5. Untouched(a, m, D) => Untouched(s, m, D)
    BY <2>2 DEF Untouched
  <2> QED
    BY <1>3, <2>3, <2>4, <2>5
<1>4. ASSUME NEW m \in 1 .. Len(s) + 1, StepAt(s, m) \in D.needs, m > n
      PROVE  /\ Firm(b, D) => Since(s, m, D)
             /\ Since(a, n + 1, D) /\ Apt(b, D) => Since(s, m, D)
  <2> DEFINE i == m - n
  <2>1. i \in 1 .. Len(b) + 1 /\ m = i + n
    BY <1>1, <1>4
  <2> HIDE DEF i
  <2>2. StepAt(b, i) \in D.needs /\ (Since(b, i, D) => Since(s, m, D))
    <3>1. StepAt(s, i + n) = StepAt(b, i)
      BY <1>2, <2>1, SamePlace
    <3>2. Since(b, i, D) => Since(s, i + n, D)
      BY <1>2, <2>1, SamePlace
    <3> QED
      BY <1>4, <2>1, <3>1, <3>2
  <2>3. Firm(b, D) => Since(b, i, D)
    BY <2>1, <2>2 DEF Firm
  <2>4. Apt(b, D) => Since(b, i, D) \/ Untouched(b, i, D)
    BY <2>1, <2>2 DEF Apt
  <2>5. ASSUME Since(a, n + 1, D), Untouched(b, i, D) PROVE Since(s, m, D)
    <3>1. PICK j \in 1 .. (n + 1) - 1 : /\ a[j] \in D.restores
                                  /\ \A k \in j + 1 .. (n + 1) - 1 : a[k] \notin D.spoils
      BY <2>5 DEF Since
    <3>2. ASSUME NEW k \in j + 1 .. m - 1 PROVE s[k] \notin D.spoils
      <4>1. CASE k <= n
        <5>1. k \in 1 .. n /\ k \in j + 1 .. (n + 1) - 1
          BY <1>1, <3>1, <3>2, <4>1
        <5> QED
          BY <1>1, <3>1, <5>1
      <4>2. CASE k > n
        <5> DEFINE l == k - n
        <5>1. l \in 1 .. i - 1 /\ l \in 1 .. Len(b) /\ k = l + n
          BY <1>1, <2>1, <3>1, <3>2, <4>2
        <5> HIDE DEF l
        <5>2. b[l] = s[k]
          BY <1>1, <5>1
        <5> QED
          BY <2>5, <5>1, <5>2 DEF Untouched
      <4> QED
        BY <1>1, <3>1, <3>2, <4>1, <4>2
    <3>3. j \in 1 .. m - 1 /\ s[j] = a[j]
      BY <1>1, <1>4, <3>1
    <3> QED
      BY <3>1, <3>2, <3>3 DEF Since
  <2> QED
    BY <2>2, <2>3, <2>4, <2>5
<1>5. \A m \in 1 .. Len(s) + 1 : m <= n \/ m > n
  BY <1>1
<1>6. Apt(a, D) /\ Firm(b, D) => Apt(s, D)
  BY <1>3, <1>4, <1>5 DEF Apt
<1>7. Firm(a, D) /\ Firm(b, D) => Firm(s, D)
  BY <1>3, <1>4, <1>5 DEF Firm
<1>8. n = Len(a)
  BY DEF n
<1>9. Firm(a, D) /\ Since(a, Len(a) + 1, D) /\ Apt(b, D) => Firm(s, D)
  BY <1>3, <1>4, <1>5, <1>8 DEF Firm
<1> QED
  BY <1>6, <1>7, <1>9 DEF s

\* A step just before i restores what it needs.
Close(s, i, D) ==
  \/ i > 1 /\ s[i - 1] \in D.restores
  \/ i > 2 /\ s[i - 2] \in D.restores /\ s[i - 1] \notin D.spoils
  \/ i > 3 /\ s[i - 3] \in D.restores /\ s[i - 2] \notin D.spoils /\ s[i - 1] \notin D.spoils

\* What is restored close by is restored.
LEMMA CloseSince ==
  ASSUME NEW s, NEW D, NEW i \in Nat, Close(s, i, D)
  PROVE  Since(s, i, D)
<1>1. CASE i > 1 /\ s[i - 1] \in D.restores
  <2> DEFINE j == i - 1
  <2>1. j \in 1 .. i - 1 /\ s[j] \in D.restores /\ \A k \in j + 1 .. i - 1 : FALSE
    BY <1>1
  <2> HIDE DEF j
  <2> QED
    BY <2>1 DEF Since
<1>2. CASE i > 2 /\ s[i - 2] \in D.restores /\ s[i - 1] \notin D.spoils
  <2> DEFINE j == i - 2
  <2>1. j \in 1 .. i - 1 /\ s[j] \in D.restores /\ \A k \in j + 1 .. i - 1 : k = i - 1
    BY <1>2
  <2> HIDE DEF j
  <2> QED
    BY <1>2, <2>1 DEF Since
<1>3. CASE i > 3 /\ s[i - 3] \in D.restores /\ s[i - 2] \notin D.spoils /\ s[i - 1] \notin D.spoils
  <2> DEFINE j == i - 3
  <2>1. j \in 1 .. i - 1 /\ s[j] \in D.restores
        /\ \A k \in j + 1 .. i - 1 : k = i - 1 \/ k = i - 2
    BY <1>3
  <2> HIDE DEF j
  <2> QED
    BY <1>3, <2>1 DEF Since
<1> QED
  BY <1>1, <1>2, <1>3 DEF Close

\* A list of steps that each have close by what they need is firm;
LEMMA CloseFirm ==
  ASSUME NEW s \in Seq(Steps), NEW D,
         \A i \in 1 .. Len(s) + 1 : StepAt(s, i) \in D.needs => Close(s, i, D)
  PROVE  Firm(s, D)
<1>1. \A i \in 1 .. Len(s) + 1 : i \in Nat
  OBVIOUS
<1> QED
  BY <1>1, CloseSince DEF Firm

\* and it is apt, if nothing spoils what the others count on.
LEMMA CloseApt ==
  ASSUME NEW s \in Seq(Steps), NEW D,
         \A i \in 1 .. Len(s) + 1 :
           StepAt(s, i) \in D.needs => Close(s, i, D) \/ Untouched(s, i, D)
  PROVE  Apt(s, D)
<1>1. \A i \in 1 .. Len(s) + 1 : i \in Nat
  OBVIOUS
<1> QED
  BY <1>1, CloseSince DEF Apt

\* What nothing spoils, and what nothing needs.
LEMMA CalmApt ==
  ASSUME NEW s \in Seq(Steps), NEW D, \A k \in 1 .. Len(s) : s[k] \notin D.spoils
  PROVE  Apt(s, D)
<1>1. \A i \in 1 .. Len(s) + 1 : \A k \in 1 .. i - 1 : k \in 1 .. Len(s)
  OBVIOUS
<1> QED
  BY <1>1 DEF Apt, Untouched

\* Steps that need nothing.
LEMMA IdleFirm ==
  ASSUME NEW s \in Seq(Steps), NEW D, \A k \in 1 .. Len(s) : s[k] \notin D.needs,
         End \notin D.needs
  PROVE  Firm(s, D)
BY DEF Firm, StepAt

\* What nothing needs behind a step that may spoil it.
LEMMA EarlyApt ==
  ASSUME NEW s \in Seq(Steps), NEW D, End \notin D.needs,
         \A i, k \in 1 .. Len(s) : s[i] \in D.needs /\ s[k] \in D.spoils => i <= k
  PROVE  Apt(s, D)
<1>1. \A i \in 1 .. Len(s) : \A k \in 1 .. i - 1 : k \in 1 .. Len(s) /\ ~(i <= k)
  OBVIOUS
<1> QED
  BY <1>1 DEF Apt, Untouched, StepAt

-----------------------------------------------------------------------------
(***************************************************************************)
(* The five disciplines of the device runs, how each is seen place by      *)
(* place in a list of steps, and the scripts without loops and matrix.     *)
(***************************************************************************)

\* The steps that observe, and the answers that throw steps away.
Observing == {"look", "see", "audit", "confirm", "settle", "recheck"}
Jumps     == {"cleanup", "skip"}

\* The revision is the Runtime's: observed, and nothing sent since.
Fresh ==
  [needs    |-> {st \in Steps : st.do = "act" \/ st.bad \in Jumps},
   restores |-> {st \in Steps : st.do \in Observing},
   spoils   |-> {st \in Steps : st.do \notin Observing \cup {"check", "mark"}}]

\* The last cheap check has been followed by a full observation.
Audited ==
  [needs    |-> {st \in Steps : st.do \in {"act", "cheap", "end"} \/ st.bad \in Jumps},
   restores |-> {st \in Steps : st.do \in {"see", "audit"}},
   spoils   |-> {st \in Steps : st.do = "cheap" /\ st.bad # "recover"}]

\* Nothing is in doubt, unless to return to the home screen.
Sure ==
  [needs    |-> {st \in Steps : (st.do = "act" /\ st.op # "home") \/ st.bad \in Jumps},
   restores |-> {st \in Steps : st.do \in {"see", "confirm"}},
   spoils   |-> {st \in Steps : \/ st.do = "act" /\ st.bad \in {"judged", "reported", "looked"}
                                \/ st.do = "cheap" /\ st.bad = "recover"}]

\* The revision is not the Runtime's.
Forgotten ==
  [needs    |-> {st \in Steps : st.do = "probe" /\ st.op = "last"},
   restores |-> {st \in Steps : st.do = "touch" /\ st.op # "drop"},
   spoils   |-> {st \in Steps : st.do # "probe" /\ ~(st.do = "touch" /\ st.op # "drop")}]

\* Nothing is in doubt at the end.
Settles ==
  [needs    |-> {st \in Steps : st.do = "end"},
   restores |-> {st \in Steps : st.do \in {"see", "confirm", "settle"}},
   spoils   |-> {st \in Steps : \/ st.do = "act" /\ st.bad = "judged"
                                \/ st.do = "cheap" /\ st.bad = "recover"}]

\* What may follow which step.
Legal == {st \in Steps : /\ st.bad \in Jumps => st.do = "check"
                         /\ st.bad = "again" => st.do = "look"
                         /\ st.do # "end"}

\* A script that skips steps has a mark to go on from, and one that cleans up ends in it.
Lands(s) ==
  \A i \in 1 .. Len(s) :
    /\ s[i].bad = "skip" => \E j \in i + 1 .. Len(s) : s[j].do = "mark"
    /\ s[i].bad = "cleanup" => i < Len(s) - 1 /\ s[Len(s) - 1].do = "act"

\* What every script keeps.
Orderly(s) ==
  /\ s \in Seq(Legal) /\ Lands(s)
  /\ Firm(s, Fresh) /\ Apt(s, Audited) /\ Apt(s, Forgotten) /\ Apt(s, Settles)

\* The disciplines, place by place.
FreshEverywhere(s) ==
  \A i \in 1 .. Len(s) : s[i].do = "act" \/ s[i].bad \in Jumps =>
    \/ i > 1 /\ s[i - 1].do \in Observing
    \/ i > 2 /\ s[i - 2].do \in Observing /\ s[i - 1].do \in {"check", "mark"}
    \/ /\ i > 3 /\ s[i - 3].do \in Observing
       /\ s[i - 2].do \in {"check", "mark"} /\ s[i - 1].do \in {"check", "mark"}

\* An observation just before every attempt.
LEMMA FreshPlaces ==
  ASSUME NEW s \in Seq(Steps), FreshEverywhere(s)
  PROVE  Firm(s, Fresh)
<1>1. ASSUME NEW i \in 1 .. Len(s), s[i] \in Fresh.needs PROVE Close(s, i, Fresh)
  <2>1. s[i].do = "act" \/ s[i].bad \in Jumps
    BY <1>1 DEF Fresh
  <2>2. \A k \in 1 .. Len(s) :
          /\ s[k].do \in Observing => s[k] \in Fresh.restores
          /\ s[k].do \in {"check", "mark"} => s[k] \notin Fresh.spoils
    BY DEF Fresh
  <2>3. /\ i > 1 => i - 1 \in 1 .. Len(s)
        /\ i > 2 => i - 2 \in 1 .. Len(s)
        /\ i > 3 => i - 3 \in 1 .. Len(s)
    BY <1>1
  <2> QED
    BY <1>1, <2>1, <2>2, <2>3 DEF Close, FreshEverywhere
<1>2. End \notin Fresh.needs
  BY DEF End, Step, Fresh, Jumps
<1>3. \A i \in 1 .. Len(s) + 1 : StepAt(s, i) \in Fresh.needs => Close(s, i, Fresh)
  BY <1>1, <1>2 DEF StepAt
<1> QED
  BY <1>3, CloseFirm

\* No cheap check that main goes on from.
LEMMA AuditedPlaces ==
  ASSUME NEW s \in Seq(Steps),
         \A i \in 1 .. Len(s) : s[i].do # "cheap" \/ s[i].bad = "recover"
  PROVE  Apt(s, Audited)
<1>1. \A i \in 1 .. Len(s) : s[i] \notin Audited.spoils
  BY DEF Audited
<1> QED
  BY <1>1, CalmApt

\* Nothing but the way home behind what leaves a doubt.
SureEverywhere(s) ==
  \A i, k \in 1 .. Len(s) :
    /\ (s[i].do = "act" /\ s[i].op # "home") \/ s[i].bad \in Jumps
    /\ \/ s[k].do = "act" /\ s[k].bad \in {"judged", "reported", "looked"}
       \/ s[k].do = "cheap" /\ s[k].bad = "recover"
    => i <= k

\* Then the script is sure wherever it has to be.
LEMMA SurePlaces ==
  ASSUME NEW s \in Seq(Steps), SureEverywhere(s)
  PROVE  Apt(s, Sure)
<1>1. \A i, k \in 1 .. Len(s) : s[i] \in Sure.needs /\ s[k] \in Sure.spoils => i <= k
  BY DEF Sure, SureEverywhere
<1>2. End \notin Sure.needs
  BY DEF End, Step, Sure, Jumps
<1> QED
  BY <1>1, <1>2, EarlyApt

\* A probe of the last revision stands behind one that forgets it.
LEMMA ForgottenPlaces ==
  ASSUME NEW s \in Seq(Steps), \A i \in 1 .. Len(s) : s[i].do # "probe" \/ s[i].op # "last"
  PROVE  Firm(s, Forgotten)
<1>1. \A i \in 1 .. Len(s) : s[i] \notin Forgotten.needs
  BY DEF Forgotten
<1>2. End \notin Forgotten.needs
  BY DEF End, Step, Forgotten
<1> QED
  BY <1>1, <1>2, IdleFirm

\* No attempt judged later, and no cheap check the script recovers from.
LEMMA SettlesPlaces ==
  ASSUME NEW s \in Seq(Steps), \A i \in 1 .. Len(s) : s[i].do # "end",
         \/ Len(s) > 0 /\ s[Len(s)].do \in {"see", "confirm", "settle"}
         \/ \A i \in 1 .. Len(s) : /\ s[i].do = "act" => s[i].bad # "judged"
                                   /\ s[i].do = "cheap" => s[i].bad # "recover"
  PROVE  Apt(s, Settles)
<1>1. CASE Len(s) > 0 /\ s[Len(s)].do \in {"see", "confirm", "settle"}
  <2>1. s[Len(s)] \in Settles.restores
    BY <1>1 DEF Settles
  <2>2. \A i \in 1 .. Len(s) + 1 : StepAt(s, i) \in Settles.needs => i = Len(s) + 1
    BY DEF StepAt, Settles
  <2>3. Close(s, Len(s) + 1, Settles)
    BY <1>1, <2>1 DEF Close
  <2>4. \A i \in 1 .. Len(s) + 1 : StepAt(s, i) \in Settles.needs => Close(s, i, Settles)
    BY <2>2, <2>3
  <2> QED
    BY <2>4, CloseFirm, FirmIsApt
<1>2. CASE  \A i \in 1 .. Len(s) : /\ s[i].do = "act" => s[i].bad # "judged"
                                   /\ s[i].do = "cheap" => s[i].bad # "recover"
  <2>1. ASSUME NEW i \in 1 .. Len(s) PROVE s[i] \notin Settles.spoils
    <3>1. s[i].do = "act" => s[i].bad # "judged"
      BY <1>2
    <3>2. s[i].do = "cheap" => s[i].bad # "recover"
      BY <1>2
    <3> QED
      BY <3>1, <3>2 DEF Settles
  <2> QED
    BY <2>1, CalmApt
<1> QED
  BY <1>1, <1>2

\* A step, by its fields.
Is(st, d, o, b) == st \in Steps /\ st.do = d /\ st.op = o /\ st.bad = b

\* The step with these fields has them.
LEMMA StepIs ==
  ASSUME NEW d \in Dos, NEW o \in Ops, NEW b \in Bads
  PROVE  Is(Step(d, o, b), d, o, b)
BY DEF Step, Is, Steps

\* What the steps of the scripts are.
LEMMA StepsAre ==
  /\ Is(See, "see", "none", "raise") /\ Is(Audit, "audit", "none", "raise")
  /\ Is(Confirm, "confirm", "none", "raise") /\ Is(Settle, "settle", "none", "hold")
  /\ Is(Recheck, "recheck", "none", "raise") /\ Is(Mark, "mark", "none", "none")
  /\ Is(Observe, "look", "none", "nothing") /\ Is(LookTwice, "look", "none", "again")
  /\ \A bad \in Bads :
       /\ Is(Look(bad), "look", "none", bad) /\ Is(Check(bad), "check", "none", bad)
       /\ Is(Cheap(bad), "cheap", "none", bad)
  /\ \A op \in Ops : Is(Probe(op), "probe", op, "hold") /\ Is(Touch(op), "touch", op, "raise")
  /\ \A op \in Ops, bad \in Bads : Is(Act(op, bad), "act", op, bad)
<1>1. /\ {"look", "see", "audit", "confirm", "settle", "recheck"} \subseteq Dos
      /\ {"check", "act", "cheap", "probe", "mark", "touch"} \subseteq Dos
      /\ "none" \in Ops /\ {"raise", "hold", "none", "nothing", "again"} \subseteq Bads
  BY DEF Dos, Ops, Bads
<1>2. Is(See, "see", "none", "raise") /\ Is(Audit, "audit", "none", "raise")
  BY <1>1, StepIs DEF See, Audit
<1>3. Is(Confirm, "confirm", "none", "raise") /\ Is(Settle, "settle", "none", "hold")
  BY <1>1, StepIs DEF Confirm, Settle
<1>4. Is(Recheck, "recheck", "none", "raise") /\ Is(Mark, "mark", "none", "none")
  BY <1>1, StepIs DEF Recheck, Mark
<1>5. \A bad \in Bads :
       /\ Is(Look(bad), "look", "none", bad) /\ Is(Check(bad), "check", "none", bad)
       /\ Is(Cheap(bad), "cheap", "none", bad)
  BY <1>1, StepIs DEF Look, Check, Cheap
<1>6. Is(Observe, "look", "none", "nothing") /\ Is(LookTwice, "look", "none", "again")
  BY <1>1, <1>5 DEF Observe, LookTwice
<1>7. \A op \in Ops : Is(Probe(op), "probe", op, "hold") /\ Is(Touch(op), "touch", op, "raise")
  BY <1>1, StepIs DEF Probe, Touch
<1>8. \A op \in Ops, bad \in Bads : Is(Act(op, bad), "act", op, bad)
  BY <1>1, StepIs DEF Act
<1> QED
  BY <1>2, <1>3, <1>4, <1>5, <1>6, <1>7, <1>8

\* A function of the first n places is a sequence.
LEMMA SeqOfSteps ==
  ASSUME NEW S, NEW n \in Nat, NEW s, s = [i \in 1 .. n |-> s[i]], \A i \in 1 .. n : s[i] \in S
  PROVE  s \in Seq(S)
OBVIOUS

\* Legal steps are steps.
LEMMA LegalSteps == Seq(Legal) \subseteq Seq(Steps) /\ Legal \subseteq Steps
<1>1. Legal \subseteq Steps
  BY DEF Legal
<1> QED
  BY <1>1

\* A script without cheap checks, probes of the last revision, and steps behind a doubt.
LEMMA PlainOrderly ==
  ASSUME NEW s \in Seq(Legal), Lands(s), FreshEverywhere(s),
         \A i \in 1 .. Len(s) : s[i].do # "cheap" /\ s[i].op # "last",
         \/ Len(s) > 0 /\ s[Len(s)].do \in {"see", "confirm", "settle"}
         \/ \A i \in 1 .. Len(s) : s[i].bad # "judged"
  PROVE  Orderly(s)
<1>1. s \in Seq(Steps) /\ \A i \in 1 .. Len(s) : s[i] \in Legal /\ s[i].do # "end"
  <2>1. \A i \in 1 .. Len(s) : s[i] \in Legal
    OBVIOUS
  <2> QED
    BY <2>1, LegalSteps DEF Legal
<1>2. Firm(s, Fresh)
  BY <1>1, FreshPlaces
<1>3. Apt(s, Audited)
  BY <1>1, AuditedPlaces
<1>4. Apt(s, Forgotten)
  BY <1>1, ForgottenPlaces, FirmIsApt
<1>5. Apt(s, Settles)
  BY <1>1, SettlesPlaces
<1> QED
  BY <1>2, <1>3, <1>4, <1>5 DEF Orderly

\* The scripts without loops: the entry target probe,
LEMMA TargetOrderly == Orderly(TargetProbe) /\ Apt(TargetProbe, Sure)
<1> DEFINE s == TargetProbe
<1>1. /\ Len(s) = 6 /\ s[1] = Look("raise") /\ s[2] = Act("launch", "raise")
      /\ s[3] = Check("raise") /\ s[4] = Look("raise") /\ s[5] = Act("home", "judged")
      /\ s[6] = Confirm
  BY DEF TargetProbe
<1>2. \A i \in 1 .. 6 : i \in {1, 2, 3, 4, 5, 6}
  OBVIOUS
<1>3. /\ Is(s[1], "look", "none", "raise") /\ Is(s[2], "act", "launch", "raise")
      /\ Is(s[3], "check", "none", "raise") /\ Is(s[4], "look", "none", "raise")
      /\ Is(s[5], "act", "home", "judged") /\ Is(s[6], "confirm", "none", "raise")
  <2>1. /\ Is(s[1], "look", "none", "raise") /\ Is(s[2], "act", "launch", "raise")
        /\ Is(s[3], "check", "none", "raise")
    BY <1>1, StepsAre DEF Ops, Bads
  <2>2. /\ Is(s[4], "look", "none", "raise") /\ Is(s[5], "act", "home", "judged")
        /\ Is(s[6], "confirm", "none", "raise")
    BY <1>1, StepsAre DEF Ops, Bads
  <2> QED
    BY <2>1, <2>2
<1>4. s \in Seq(Legal)
  <2> HIDE DEF s
  <2>1. \A i \in 1 .. 6 : s[i] \in Legal
    BY <1>2, <1>3 DEF Legal, Is, Jumps
  <2> QED
    BY <1>1, <2>1, SeqOfSteps DEF s, TargetProbe
<1> HIDE DEF s
<1>5. Lands(s)
  BY <1>1, <1>2, <1>3 DEF Lands, Is
<1>6. FreshEverywhere(s)
  BY <1>1, <1>2, <1>3 DEF FreshEverywhere, Is, Observing, Jumps
<1>7. SureEverywhere(s)
  BY <1>1, <1>2, <1>3 DEF SureEverywhere, Is, Jumps
<1>8. /\ \A i \in 1 .. Len(s) : s[i].do # "cheap" /\ s[i].op # "last"
      /\ \/ Len(s) > 0 /\ s[Len(s)].do \in {"see", "confirm", "settle"}
         \/ \A i \in 1 .. Len(s) : s[i].bad # "judged"
  BY <1>1, <1>2, <1>3 DEF Is
<1>9. Orderly(s)
  BY <1>4, <1>5, <1>6, <1>8, PlainOrderly
<1> QED
  BY <1>4, <1>7, <1>9, LegalSteps, SurePlaces DEF s

\* the route probe,
LEMMA RouteOrderly == Orderly(RouteProbe) /\ Apt(RouteProbe, Sure)
<1> DEFINE s == RouteProbe
<1>1. /\ Len(s) = 11 /\ s[1] = Look("raise") /\ s[2] = Act("launch", "raise")
      /\ s[3] = Look("raise") /\ s[4] = Check("cleanup") /\ s[5] = Act("tap", "raise")
      /\ s[6] = Look("raise") /\ s[7] = Check("cleanup") /\ s[8] = Act("tap", "raise")
      /\ s[9] = Look("raise") /\ s[10] = Act("home", "judged") /\ s[11] = Confirm
  BY DEF RouteProbe
<1>2. \A i \in 1 .. 11 : i \in {1, 2, 3, 4, 5, 6, 7, 8, 9, 10, 11}
  OBVIOUS
<1>3. /\ Is(s[1], "look", "none", "raise") /\ Is(s[2], "act", "launch", "raise")
      /\ Is(s[3], "look", "none", "raise") /\ Is(s[4], "check", "none", "cleanup")
      /\ Is(s[5], "act", "tap", "raise") /\ Is(s[6], "look", "none", "raise")
      /\ Is(s[7], "check", "none", "cleanup") /\ Is(s[8], "act", "tap", "raise")
      /\ Is(s[9], "look", "none", "raise") /\ Is(s[10], "act", "home", "judged")
      /\ Is(s[11], "confirm", "none", "raise")
  <2>1. /\ Is(s[1], "look", "none", "raise") /\ Is(s[2], "act", "launch", "raise")
        /\ Is(s[3], "look", "none", "raise")
    BY <1>1, StepsAre DEF Ops, Bads
  <2>2. /\ Is(s[4], "check", "none", "cleanup") /\ Is(s[5], "act", "tap", "raise")
        /\ Is(s[6], "look", "none", "raise")
    BY <1>1, StepsAre DEF Ops, Bads
  <2>3. /\ Is(s[7], "check", "none", "cleanup") /\ Is(s[8], "act", "tap", "raise")
        /\ Is(s[9], "look", "none", "raise")
    BY <1>1, StepsAre DEF Ops, Bads
  <2>4. /\ Is(s[10], "act", "home", "judged") /\ Is(s[11], "confirm", "none", "raise")
    BY <1>1, StepsAre DEF Ops, Bads
  <2> QED
    BY <2>1, <2>2, <2>3, <2>4
<1>4. s \in Seq(Legal)
  <2> HIDE DEF s
  <2>1. \A i \in 1 .. 11 : s[i] \in Legal
    BY <1>2, <1>3 DEF Legal, Is, Jumps
  <2> QED
    BY <1>1, <2>1, SeqOfSteps DEF s, RouteProbe
<1> HIDE DEF s
<1>5. Lands(s)
  BY <1>1, <1>2, <1>3 DEF Lands, Is
<1>6. FreshEverywhere(s)
  BY <1>1, <1>2, <1>3 DEF FreshEverywhere, Is, Observing, Jumps
<1>7. SureEverywhere(s)
  BY <1>1, <1>2, <1>3 DEF SureEverywhere, Is, Jumps
<1>8. /\ \A i \in 1 .. Len(s) : s[i].do # "cheap" /\ s[i].op # "last"
      /\ \/ Len(s) > 0 /\ s[Len(s)].do \in {"see", "confirm", "settle"}
         \/ \A i \in 1 .. Len(s) : s[i].bad # "judged"
  BY <1>1, <1>2, <1>3 DEF Is
<1>9. Orderly(s)
  BY <1>4, <1>5, <1>6, <1>8, PlainOrderly
<1> QED
  BY <1>4, <1>7, <1>9, LegalSteps, SurePlaces DEF s

\* the board probe,
LEMMA BoardOrderly == Orderly(BoardProbe) /\ Apt(BoardProbe, Sure)
<1> DEFINE s == BoardProbe
<1>1. /\ Len(s) = 14 /\ s[1] = Look("raise") /\ s[2] = Act("launch", "raise")
      /\ s[3] = Look("raise") /\ s[4] = Check("raise") /\ s[5] = Act("tap", "raise")
      /\ s[6] = Look("raise") /\ s[7] = Check("raise") /\ s[8] = Act("tap", "raise")
      /\ s[9] = Look("raise") /\ s[10] = Check("cleanup") /\ s[11] = Act("tap", "judged")
      /\ s[12] = Settle /\ s[13] = Act("home", "judged") /\ s[14] = Confirm
  BY DEF BoardProbe
<1>2. \A i \in 1 .. 14 : i \in {1, 2, 3, 4, 5, 6, 7, 8, 9, 10, 11, 12, 13, 14}
  OBVIOUS
<1>3. /\ Is(s[1], "look", "none", "raise") /\ Is(s[2], "act", "launch", "raise")
      /\ Is(s[3], "look", "none", "raise") /\ Is(s[4], "check", "none", "raise")
      /\ Is(s[5], "act", "tap", "raise") /\ Is(s[6], "look", "none", "raise")
      /\ Is(s[7], "check", "none", "raise") /\ Is(s[8], "act", "tap", "raise")
      /\ Is(s[9], "look", "none", "raise") /\ Is(s[10], "check", "none", "cleanup")
      /\ Is(s[11], "act", "tap", "judged") /\ Is(s[12], "settle", "none", "hold")
      /\ Is(s[13], "act", "home", "judged") /\ Is(s[14], "confirm", "none", "raise")
  <2>1. /\ Is(s[1], "look", "none", "raise") /\ Is(s[2], "act", "launch", "raise")
        /\ Is(s[3], "look", "none", "raise")
    BY <1>1, StepsAre DEF Ops, Bads
  <2>2. /\ Is(s[4], "check", "none", "raise") /\ Is(s[5], "act", "tap", "raise")
        /\ Is(s[6], "look", "none", "raise")
    BY <1>1, StepsAre DEF Ops, Bads
  <2>3. /\ Is(s[7], "check", "none", "raise") /\ Is(s[8], "act", "tap", "raise")
        /\ Is(s[9], "look", "none", "raise")
    BY <1>1, StepsAre DEF Ops, Bads
  <2>4. /\ Is(s[10], "check", "none", "cleanup") /\ Is(s[11], "act", "tap", "judged")
        /\ Is(s[12], "settle", "none", "hold")
    BY <1>1, StepsAre DEF Ops, Bads
  <2>5. /\ Is(s[13], "act", "home", "judged") /\ Is(s[14], "confirm", "none", "raise")
    BY <1>1, StepsAre DEF Ops, Bads
  <2> QED
    BY <2>1, <2>2, <2>3, <2>4, <2>5
<1>4. s \in Seq(Legal)
  <2> HIDE DEF s
  <2>1. \A i \in 1 .. 14 : s[i] \in Legal
    BY <1>2, <1>3 DEF Legal, Is, Jumps
  <2> QED
    BY <1>1, <2>1, SeqOfSteps DEF s, BoardProbe
<1> HIDE DEF s
<1>5. Lands(s)
  BY <1>1, <1>2, <1>3 DEF Lands, Is
<1>6. FreshEverywhere(s)
  BY <1>1, <1>2, <1>3 DEF FreshEverywhere, Is, Observing, Jumps
<1>7. SureEverywhere(s)
  BY <1>1, <1>2, <1>3 DEF SureEverywhere, Is, Jumps
<1>8. /\ \A i \in 1 .. Len(s) : s[i].do # "cheap" /\ s[i].op # "last"
      /\ \/ Len(s) > 0 /\ s[Len(s)].do \in {"see", "confirm", "settle"}
         \/ \A i \in 1 .. Len(s) : s[i].bad # "judged"
  BY <1>1, <1>2, <1>3 DEF Is
<1>9. Orderly(s)
  BY <1>4, <1>5, <1>6, <1>8, PlainOrderly
<1> QED
  BY <1>4, <1>7, <1>9, LegalSteps, SurePlaces DEF s

\* and the matrix of the agent.
LEMMA AgentOrderly == Orderly(AgentMatrix) /\ Apt(AgentMatrix, Sure)
<1> DEFINE s == AgentMatrix
<1>1. /\ Len(s) = 7 /\ s[1] = Observe /\ s[2] = Act("launch", "reported") /\ s[3] = Observe
      /\ s[4] = Act("home", "reported") /\ s[5] = Observe /\ s[6] = Probe("cancelled")
      /\ s[7] = Probe("expired")
  BY DEF AgentMatrix
<1>2. \A i \in 1 .. 7 : i \in {1, 2, 3, 4, 5, 6, 7}
  OBVIOUS
<1>3. /\ Is(s[1], "look", "none", "nothing") /\ Is(s[2], "act", "launch", "reported")
      /\ Is(s[3], "look", "none", "nothing") /\ Is(s[4], "act", "home", "reported")
      /\ Is(s[5], "look", "none", "nothing") /\ Is(s[6], "probe", "cancelled", "hold")
      /\ Is(s[7], "probe", "expired", "hold")
  <2>1. /\ Is(s[1], "look", "none", "nothing") /\ Is(s[2], "act", "launch", "reported")
        /\ Is(s[3], "look", "none", "nothing")
    BY <1>1, StepsAre DEF Ops, Bads
  <2>2. /\ Is(s[4], "act", "home", "reported") /\ Is(s[5], "look", "none", "nothing")
        /\ Is(s[6], "probe", "cancelled", "hold")
    BY <1>1, StepsAre DEF Ops, Bads
  <2>3. /\ Is(s[7], "probe", "expired", "hold")
    BY <1>1, StepsAre DEF Ops, Bads
  <2> QED
    BY <2>1, <2>2, <2>3
<1>4. s \in Seq(Legal)
  <2> HIDE DEF s
  <2>1. \A i \in 1 .. 7 : s[i] \in Legal
    BY <1>2, <1>3 DEF Legal, Is, Jumps
  <2> QED
    BY <1>1, <2>1, SeqOfSteps DEF s, AgentMatrix
<1> HIDE DEF s
<1>5. Lands(s)
  BY <1>1, <1>2, <1>3 DEF Lands, Is
<1>6. FreshEverywhere(s)
  BY <1>1, <1>2, <1>3 DEF FreshEverywhere, Is, Observing, Jumps
<1>7. SureEverywhere(s)
  BY <1>1, <1>2, <1>3 DEF SureEverywhere, Is, Jumps
<1>8. /\ \A i \in 1 .. Len(s) : s[i].do # "cheap" /\ s[i].op # "last"
      /\ \/ Len(s) > 0 /\ s[Len(s)].do \in {"see", "confirm", "settle"}
         \/ \A i \in 1 .. Len(s) : s[i].bad # "judged"
  BY <1>1, <1>2, <1>3 DEF Is
<1>9. Orderly(s)
  BY <1>4, <1>5, <1>6, <1>8, PlainOrderly
<1> QED
  BY <1>4, <1>7, <1>9, LegalSteps, SurePlaces DEF s

-----------------------------------------------------------------------------
(***************************************************************************)
(* The scripts with loops, for any number of rounds.                       *)
(***************************************************************************)

\* Steps that no discipline but Fresh has anything to say about.
Calm ==
  {st \in Legal : /\ st.do \notin {"cheap", "probe"} /\ st.bad \notin Jumps
                  /\ st.bad \notin {"judged", "reported", "looked"}}

\* A calm script has only its observations to keep.
LEMMA CalmOrderly ==
  ASSUME NEW s \in Seq(Calm), Firm(s, Fresh)
  PROVE  Orderly(s) /\ Apt(s, Sure)
<1>1. s \in Seq(Legal) /\ s \in Seq(Steps)
      /\ \A i \in 1 .. Len(s) : s[i] \in Calm
  <2>1. Calm \subseteq Legal
    BY DEF Calm
  <2> QED
    BY <2>1, LegalSteps
<1>2. Lands(s)
  BY <1>1 DEF Lands, Calm, Jumps
<1>3. Apt(s, Audited)
  BY <1>1, AuditedPlaces DEF Calm
<1>4. Apt(s, Forgotten)
  BY <1>1, ForgottenPlaces, FirmIsApt DEF Calm
<1>5. Apt(s, Settles)
  <2>1. \A i \in 1 .. Len(s) : /\ s[i].do # "end" /\ s[i].do # "cheap"
                               /\ s[i].bad # "judged"
    BY <1>1 DEF Calm, Legal
  <2> QED
    BY <1>1, <2>1, SettlesPlaces
<1>6. Apt(s, Sure)
  <2>1. SureEverywhere(s)
    BY <1>1 DEF SureEverywhere, Calm
  <2> QED
    BY <1>1, <2>1, SurePlaces
<1> QED
  BY <1>1, <1>2, <1>3, <1>4, <1>5, <1>6 DEF Orderly

\* The place in the loop of the step i of a run of its rounds.
Turn(i, n) == ((i - 1) % n) + 1

\* The place before a place: in the same round, or the last of the round before.
LEMMA Turns ==
  ASSUME NEW n \in {2, 3, 4, 6}, NEW i \in Nat, i >= 1
  PROVE  /\ Turn(i, n) \in 1 .. n /\ Turn(i, n) <= i
         /\ Turn(i, n) > 1 => i > 1 /\ Turn(i - 1, n) = Turn(i, n) - 1
         /\ Turn(i, n) = 1 /\ i > 1 => Turn(i - 1, n) = n
<1>1. CASE n = 2
  BY <1>1 DEF Turn
<1>2. CASE n = 3
  BY <1>2 DEF Turn
<1>3. CASE n = 4
  BY <1>3 DEF Turn
<1>4. CASE n = 6
  BY <1>4 DEF Turn
<1> QED
  BY <1>1, <1>2, <1>3, <1>4

\* The last step of all rounds is the last of the loop.
LEMMA LastTurn ==
  ASSUME NEW n \in {2, 3, 4, 6}
  PROVE  Rounds * n \in Nat /\ Rounds * n >= n /\ Turn(Rounds * n, n) = n
<1>0. Rounds \in Nat /\ Rounds >= 1
  BY RoundsAssumption
<1>1. CASE n = 2
  BY <1>0, <1>1 DEF Turn
<1>2. CASE n = 3
  BY <1>0, <1>2 DEF Turn
<1>3. CASE n = 4
  BY <1>0, <1>3 DEF Turn
<1>4. CASE n = 6
  BY <1>0, <1>4 DEF Turn
<1> QED
  BY <1>1, <1>2, <1>3, <1>4

\* What the rounds of a loop are, place by place.
LEMMA TimesIs ==
  ASSUME NEW S, NEW steps \in Seq(S), NEW n \in {2, 3, 4, 6}, Len(steps) = n
  PROVE  /\ Times(steps) \in Seq(S) /\ Len(Times(steps)) = Rounds * n
         /\ \A i \in 1 .. Rounds * n : Times(steps)[i] = steps[Turn(i, n)]
<1> DEFINE m == Rounds * n
<1>1. m \in Nat
  BY LastTurn
<1>2. ASSUME NEW i \in 1 .. m PROVE Turn(i, n) \in 1 .. n
  <2>1. n \in {2, 3, 4, 6} /\ i \in Nat /\ i >= 1
    BY <1>1
  <2> QED
    BY <2>1, Turns
<1>3. \A i \in 1 .. n : steps[i] \in S
  OBVIOUS
<1>4. Times(steps) = [i \in 1 .. m |-> steps[Turn(i, n)]]
  BY DEF Times, Turn
<1> HIDE DEF m
<1>5. Times(steps) \in Seq(S) /\ Len(Times(steps)) = m
      /\ \A i \in 1 .. m : Times(steps)[i] = steps[Turn(i, n)]
  BY <1>1, <1>2, <1>3, <1>4
<1> QED
  BY <1>5 DEF m

\* A loop is in order if one round is.
LEMMA TimesFresh ==
  ASSUME NEW b \in Seq(Steps), Len(b) \in {2, 3, 4, 6}, FreshEverywhere(b)
  PROVE  Firm(Times(b), Fresh)
<1> DEFINE s == Times(b)
           n == Len(b)
<1>1. /\ s \in Seq(Steps) /\ Len(s) = Rounds * n
      /\ \A i \in 1 .. Len(s) : s[i] = b[Turn(i, n)]
  <2>1. n \in {2, 3, 4, 6} /\ Len(b) = n
    OBVIOUS
  <2> HIDE DEF n, s
  <2>2. s \in Seq(Steps) /\ Len(s) = Rounds * n /\ \A i \in 1 .. Rounds * n : s[i] = b[Turn(i, n)]
    BY <2>1, TimesIs DEF s
  <2> QED
    BY <2>2
<1> HIDE DEF s
<1>2. n \in {2, 3, 4, 6} /\ n \in Nat
  OBVIOUS
<1>3. \A i \in 1 .. n : b[i].do = "act" \/ b[i].bad \in Jumps =>
        \/ i > 1 /\ b[i - 1].do \in Observing
        \/ i > 2 /\ b[i - 2].do \in Observing /\ b[i - 1].do \in {"check", "mark"}
        \/ /\ i > 3 /\ b[i - 3].do \in Observing
           /\ b[i - 2].do \in {"check", "mark"} /\ b[i - 1].do \in {"check", "mark"}
  BY DEF FreshEverywhere
<1> HIDE DEF n
<1>4. ASSUME NEW i \in 1 .. Len(s), s[i].do = "act" \/ s[i].bad \in Jumps
      PROVE  \/ i > 1 /\ s[i - 1].do \in Observing
             \/ i > 2 /\ s[i - 2].do \in Observing /\ s[i - 1].do \in {"check", "mark"}
             \/ /\ i > 3 /\ s[i - 3].do \in Observing
                /\ s[i - 2].do \in {"check", "mark"} /\ s[i - 1].do \in {"check", "mark"}
  <2> DEFINE t == Turn(i, n)
  <2>0. Len(s) \in Nat /\ i \in Nat /\ i >= 1 /\ i <= Len(s)
    BY <1>1
  <2>1. /\ t \in 1 .. n /\ t <= i /\ s[i] = b[t]
        /\ t > 1 => i > 1 /\ Turn(i - 1, n) = t - 1
    BY <1>1, <1>2, <2>0, Turns
  <2>2. t > 1 => s[i - 1] = b[t - 1]
    BY <1>1, <2>0, <2>1
  <2>3. t > 2 => i > 2 /\ Turn(i - 2, n) = t - 2 /\ s[i - 2] = b[t - 2]
    <3>1. ASSUME t > 2 PROVE i > 2 /\ Turn((i - 1) - 1, n) = (t - 1) - 1
      <4>1. i - 1 \in Nat /\ i - 1 >= 1 /\ Turn(i - 1, n) = t - 1 /\ t - 1 > 1 /\ i > 2
        BY <2>0, <2>1, <3>1
      <4> HIDE DEF t
      <4> DEFINE k == i - 1
      <4>2. k \in Nat /\ k >= 1 /\ Turn(k, n) > 1
        BY <4>1
      <4> HIDE DEF k
      <4>3. Turn(k - 1, n) = Turn(k, n) - 1
        BY <1>2, <4>2, Turns
      <4> QED
        BY <4>1, <4>3 DEF k
    <3>2. (i - 1) - 1 = i - 2 /\ (t > 2 => (t - 1) - 1 = t - 2)
      BY <1>2, <2>0, <2>1
    <3> HIDE DEF t
    <3>3. t > 2 => i > 2 /\ Turn(i - 2, n) = t - 2 /\ i - 2 \in 1 .. Len(s)
      BY <2>0, <3>1, <3>2
    <3> QED
      BY <1>1, <3>3
  <2>4. t > 3 => i > 3 /\ s[i - 3] = b[t - 3]
    <3>1. ASSUME t > 3 PROVE i > 3 /\ Turn((i - 2) - 1, n) = (t - 2) - 1
      <4>1. i - 2 \in Nat /\ i - 2 >= 1 /\ Turn(i - 2, n) = t - 2 /\ t - 2 > 1 /\ i > 3
        BY <1>2, <2>0, <2>1, <2>3, <3>1
      <4> HIDE DEF t
      <4> DEFINE k == i - 2
      <4>2. k \in Nat /\ k >= 1 /\ Turn(k, n) > 1
        BY <4>1
      <4> HIDE DEF k
      <4>3. Turn(k - 1, n) = Turn(k, n) - 1
        BY <1>2, <4>2, Turns
      <4> QED
        BY <4>1, <4>3 DEF k
    <3>2. (i - 2) - 1 = i - 3 /\ (t > 3 => (t - 2) - 1 = t - 3)
      BY <1>2, <2>0, <2>1
    <3> HIDE DEF t
    <3>3. t > 3 => i > 3 /\ Turn(i - 3, n) = t - 3 /\ i - 3 \in 1 .. Len(s)
      BY <2>0, <3>1, <3>2
    <3> QED
      BY <1>1, <3>3
  <2> HIDE DEF t
  <2> QED
    BY <1>3, <1>4, <2>1, <2>2, <2>3, <2>4
<1>5. FreshEverywhere(s)
  BY <1>4 DEF FreshEverywhere
<1> QED
  BY <1>1, <1>5, FreshPlaces DEF s

\* The scripts that are only observing and acting by turns.
LEMMA PreflightCalm ==
  HomePreflight \in Seq(Calm) /\ Firm(HomePreflight, Fresh)
<1> DEFINE b == <<Look("blocked"), Act("home", "stopped"), Look("raise")>>
<1>1. /\ Len(b) = 3 /\ b[1] = Look("blocked") /\ b[2] = Act("home", "stopped")
      /\ b[3] = Look("raise")
  OBVIOUS
<1>2. \A i \in 1 .. 3 : i \in {1, 2, 3}
  OBVIOUS
<1>3. /\ Is(b[1], "look", "none", "blocked") /\ Is(b[2], "act", "home", "stopped")
      /\ Is(b[3], "look", "none", "raise")
  BY <1>1, StepsAre DEF Ops, Bads
<1>4. b \in Seq(Calm)
  <2> HIDE DEF b
  <2>1. \A i \in 1 .. 3 : b[i] \in Calm
    BY <1>2, <1>3 DEF Calm, Legal, Is, Jumps
  <2> QED
    BY <1>1, <2>1, SeqOfSteps DEF b
<1> HIDE DEF b
<1>5. FreshEverywhere(b)
  BY <1>1, <1>2, <1>3 DEF FreshEverywhere, Is, Observing, Jumps
<1>6. Calm \subseteq Steps
  BY DEF Calm, Legal
<1>7. b \in Seq(Steps) /\ Len(b) \in {2, 3, 4, 6}
  BY <1>1, <1>4, <1>6
<1>8. Times(b) \in Seq(Calm) /\ Firm(Times(b), Fresh)
  BY <1>4, <1>5, <1>7, TimesIs, TimesFresh
<1> QED
  BY <1>8 DEF b, HomePreflight

\* The representative workload.
LEMMA RepresentativeCalm ==
  Representative \in Seq(Calm) /\ Firm(Representative, Fresh)
<1> DEFINE b == <<Look("raise"), Act("launch", "raise"), Recheck,
                  Look("raise"), Act("home", "raise"), Recheck>>
<1>1. /\ Len(b) = 6 /\ b[1] = Look("raise") /\ b[2] = Act("launch", "raise") /\ b[3] = Recheck
      /\ b[4] = Look("raise") /\ b[5] = Act("home", "raise") /\ b[6] = Recheck
  OBVIOUS
<1>2. \A i \in 1 .. 6 : i \in {1, 2, 3, 4, 5, 6}
  OBVIOUS
<1>3. /\ Is(b[1], "look", "none", "raise") /\ Is(b[2], "act", "launch", "raise")
      /\ Is(b[3], "recheck", "none", "raise") /\ Is(b[4], "look", "none", "raise")
      /\ Is(b[5], "act", "home", "raise") /\ Is(b[6], "recheck", "none", "raise")
  <2>1. /\ Is(b[1], "look", "none", "raise") /\ Is(b[2], "act", "launch", "raise")
        /\ Is(b[3], "recheck", "none", "raise")
    BY <1>1, StepsAre DEF Ops, Bads
  <2>2. /\ Is(b[4], "look", "none", "raise") /\ Is(b[5], "act", "home", "raise")
        /\ Is(b[6], "recheck", "none", "raise")
    BY <1>1, StepsAre DEF Ops, Bads
  <2> QED
    BY <2>1, <2>2
<1>4. b \in Seq(Calm)
  <2> HIDE DEF b
  <2>1. \A i \in 1 .. 6 : b[i] \in Calm
    BY <1>2, <1>3 DEF Calm, Legal, Is, Jumps
  <2> QED
    BY <1>1, <2>1, SeqOfSteps DEF b
<1> HIDE DEF b
<1>5. FreshEverywhere(b)
  BY <1>1, <1>2, <1>3 DEF FreshEverywhere, Is, Observing, Jumps
<1>6. Calm \subseteq Steps
  BY DEF Calm, Legal
<1>7. b \in Seq(Steps) /\ Len(b) \in {2, 3, 4, 6}
  BY <1>1, <1>4, <1>6
<1>8. Times(b) \in Seq(Calm) /\ Firm(Times(b), Fresh)
  BY <1>4, <1>5, <1>7, TimesIs, TimesFresh
<1> QED
  BY <1>8 DEF b, Representative

\* The rounds of a domain,
LEMMA RoundsCalm ==
  /\ Times(<<Look("blocked"), Act("launch", "stopped")>>) \in Seq(Calm)
  /\ Firm(Times(<<Look("blocked"), Act("launch", "stopped")>>), Fresh)
<1> DEFINE b == <<Look("blocked"), Act("launch", "stopped")>>
<1>1. /\ Len(b) = 2 /\ b[1] = Look("blocked") /\ b[2] = Act("launch", "stopped")
  OBVIOUS
<1>2. \A i \in 1 .. 2 : i \in {1, 2}
  OBVIOUS
<1>3. /\ Is(b[1], "look", "none", "blocked") /\ Is(b[2], "act", "launch", "stopped")
  BY <1>1, StepsAre DEF Ops, Bads
<1>4. b \in Seq(Calm)
  <2> HIDE DEF b
  <2>1. \A i \in 1 .. 2 : b[i] \in Calm
    BY <1>2, <1>3 DEF Calm, Legal, Is, Jumps
  <2> QED
    BY <1>1, <2>1, SeqOfSteps DEF b
<1> HIDE DEF b
<1>5. FreshEverywhere(b)
  BY <1>1, <1>2, <1>3 DEF FreshEverywhere, Is, Observing, Jumps
<1>6. Calm \subseteq Steps
  BY DEF Calm, Legal
<1>7. b \in Seq(Steps) /\ Len(b) \in {2, 3, 4, 6}
  BY <1>1, <1>4, <1>6
<1>8. Times(b) \in Seq(Calm) /\ Firm(Times(b), Fresh)
  BY <1>4, <1>5, <1>7, TimesIs, TimesFresh
<1> QED
  BY <1>8 DEF b

\* the observation behind them,
LEMMA LastLookCalm == <<Look("raise")>> \in Seq(Calm) /\ Firm(<<Look("raise")>>, Fresh)
<1> DEFINE s == <<Look("raise")>>
<1>1. /\ Len(s) = 1 /\ s[1] = Look("raise")
  OBVIOUS
<1>2. \A i \in 1 .. 1 : i \in {1}
  OBVIOUS
<1>3. /\ Is(s[1], "look", "none", "raise")
  BY <1>1, StepsAre DEF Ops, Bads
<1>4. s \in Seq(Calm)
  <2> HIDE DEF s
  <2>1. \A i \in 1 .. 1 : s[i] \in Calm
    BY <1>2, <1>3 DEF Calm, Legal, Is, Jumps
  <2> QED
    BY <1>1, <2>1, SeqOfSteps DEF s
<1> HIDE DEF s
<1>5. FreshEverywhere(s)
  BY <1>1, <1>2, <1>3 DEF FreshEverywhere, Is, Observing, Jumps
<1>6. s \in Seq(Steps)
  BY <1>4 DEF Calm, Legal
<1> QED
  BY <1>4, <1>5, <1>6, FreshPlaces DEF s

\* and a domain of the R10 workflow.
LEMMA OneDomainCalm == OneDomain \in Seq(Calm) /\ Firm(OneDomain, Fresh)
<1> DEFINE s == OneDomain
<1>1. /\ Len(s) = 4 /\ s[1] = Look("fail") /\ s[2] = Act("launch", "fail")
      /\ s[3] = Check("fail") /\ s[4] = Look("fail")
  BY DEF OneDomain
<1>2. \A i \in 1 .. 4 : i \in {1, 2, 3, 4}
  OBVIOUS
<1>3. /\ Is(s[1], "look", "none", "fail") /\ Is(s[2], "act", "launch", "fail")
      /\ Is(s[3], "check", "none", "fail") /\ Is(s[4], "look", "none", "fail")
  <2>1. /\ Is(s[1], "look", "none", "fail") /\ Is(s[2], "act", "launch", "fail")
        /\ Is(s[3], "check", "none", "fail")
    BY <1>1, StepsAre DEF Ops, Bads
  <2>2. /\ Is(s[4], "look", "none", "fail")
    BY <1>1, StepsAre DEF Ops, Bads
  <2> QED
    BY <2>1, <2>2
<1>4. s \in Seq(Calm)
  <2> HIDE DEF s
  <2>1. \A i \in 1 .. 4 : s[i] \in Calm
    BY <1>2, <1>3 DEF Calm, Legal, Is, Jumps
  <2> QED
    BY <1>1, <2>1, SeqOfSteps DEF s, OneDomain
<1> HIDE DEF s
<1>5. FreshEverywhere(s)
  BY <1>1, <1>2, <1>3 DEF FreshEverywhere, Is, Observing, Jumps
<1>6. s \in Seq(Steps)
  BY <1>4 DEF Calm, Legal
<1> QED
  BY <1>4, <1>5, <1>6, FreshPlaces DEF s

\* One behind the other.
LEMMA CalmConcat ==
  ASSUME NEW a \in Seq(Calm), NEW b \in Seq(Calm), Firm(a, Fresh), Firm(b, Fresh)
  PROVE  a \o b \in Seq(Calm) /\ Firm(a \o b, Fresh)
<1>1. a \in Seq(Steps) /\ b \in Seq(Steps) /\ a \o b \in Seq(Calm)
  <2>1. Calm \subseteq Steps
    BY DEF Calm, Legal
  <2> QED
    BY <2>1
<1>2. End \notin Fresh.needs
  BY DEF End, Step, Fresh, Jumps
<1> QED
  BY <1>1, <1>2, ConcatApt

\* The scripts with nothing but observations and attempts.
LEMMA CalmScriptsOrderly ==
  /\ Orderly(HomePreflight) /\ Apt(HomePreflight, Sure)
  /\ Orderly(Representative) /\ Apt(Representative, Sure)
  /\ Orderly(ShadowWorkload) /\ Apt(ShadowWorkload, Sure)
  /\ Orderly(DomainWorkflow) /\ Apt(DomainWorkflow, Sure)
<1>1. Domain \in Seq(Calm) /\ Firm(Domain, Fresh)
  BY RoundsCalm, LastLookCalm, CalmConcat DEF Domain
<1>2. ShadowWorkload \in Seq(Calm) /\ Firm(ShadowWorkload, Fresh)
  BY <1>1, CalmConcat DEF ShadowWorkload
<1>3. DomainWorkflow \in Seq(Calm) /\ Firm(DomainWorkflow, Fresh)
  BY OneDomainCalm, CalmConcat DEF DomainWorkflow
<1> QED
  BY <1>2, <1>3, PreflightCalm, RepresentativeCalm, CalmOrderly

\* The launch canary: what its fallback would have left in doubt, See settles.
LEMMA LaunchOrderly == Orderly(LaunchCanary) /\ Apt(LaunchCanary, Sure)
<1> DEFINE s == LaunchCanary
<1>1. /\ Len(s) = 7 /\ s[1] = Look("blocked") /\ s[2] = Check("blocked")
      /\ s[3] = Act("launch", "raise") /\ s[4] = Cheap("home") /\ s[5] = See
      /\ s[6] = Act("home", "judged") /\ s[7] = Confirm
  BY DEF LaunchCanary
<1>2. \A i \in 1 .. 7 : i \in {1, 2, 3, 4, 5, 6, 7}
  OBVIOUS
<1>3. /\ Is(s[1], "look", "none", "blocked") /\ Is(s[2], "check", "none", "blocked")
      /\ Is(s[3], "act", "launch", "raise") /\ Is(s[4], "cheap", "none", "home")
      /\ Is(s[5], "see", "none", "raise") /\ Is(s[6], "act", "home", "judged")
      /\ Is(s[7], "confirm", "none", "raise")
  <2>1. /\ Is(s[1], "look", "none", "blocked") /\ Is(s[2], "check", "none", "blocked")
        /\ Is(s[3], "act", "launch", "raise")
    BY <1>1, StepsAre DEF Ops, Bads
  <2>2. /\ Is(s[4], "cheap", "none", "home") /\ Is(s[5], "see", "none", "raise")
        /\ Is(s[6], "act", "home", "judged")
    BY <1>1, StepsAre DEF Ops, Bads
  <2>3. /\ Is(s[7], "confirm", "none", "raise")
    BY <1>1, StepsAre DEF Ops, Bads
  <2> QED
    BY <2>1, <2>2, <2>3
<1>4. s \in Seq(Legal)
  <2> HIDE DEF s
  <2>1. \A i \in 1 .. 7 : s[i] \in Legal
    BY <1>2, <1>3 DEF Legal, Is, Jumps
  <2> QED
    BY <1>1, <2>1, SeqOfSteps DEF s, LaunchCanary
<1> HIDE DEF s
<1>5. s \in Seq(Steps) /\ Lands(s)
  <2>1. Lands(s)
    BY <1>1, <1>2, <1>3 DEF Lands, Is
  <2> QED
    BY <1>4, <2>1, LegalSteps
<1>6. Firm(s, Fresh)
  <2>1. FreshEverywhere(s)
    BY <1>1, <1>2, <1>3 DEF FreshEverywhere, Is, Observing, Jumps
  <2> QED
    BY <1>5, <2>1, FreshPlaces
<1>7. Apt(s, Audited)
  <2>1. /\ s[5] \in Audited.restores /\ s[6] \notin Audited.spoils /\ s[7] \notin Audited.spoils
        /\ s[1] \notin Audited.spoils /\ s[2] \notin Audited.spoils
        /\ s[3] \notin Audited.spoils
    BY <1>3 DEF Is, Audited
  <2>2. \A i \in 1 .. Len(s) : s[i] \in Audited.needs => i \in {3, 4, 6}
    BY <1>1, <1>2, <1>3 DEF Is, Audited, Jumps
  <2>3. Untouched(s, 3, Audited) /\ Untouched(s, 4, Audited)
    <3>1. \A k \in 1 .. 3 - 1 : k \in {1, 2}
      OBVIOUS
    <3>2. \A k \in 1 .. 4 - 1 : k \in {1, 2, 3}
      OBVIOUS
    <3> QED
      BY <2>1, <3>1, <3>2 DEF Untouched
  <2>4. Close(s, 6, Audited) /\ Close(s, 8, Audited)
    BY <2>1 DEF Close
  <2>5. \A i \in 1 .. Len(s) + 1 :
          StepAt(s, i) \in Audited.needs => Close(s, i, Audited) \/ Untouched(s, i, Audited)
    <3>1. \A i \in 1 .. Len(s) + 1 : i \in 1 .. Len(s) \/ i = 8
      BY <1>1
    <3> QED
      BY <2>2, <2>3, <2>4, <3>1 DEF StepAt
  <2> QED
    BY <1>5, <2>5, CloseApt
<1>8. Apt(s, Sure)
  <2>1. SureEverywhere(s)
    BY <1>1, <1>2, <1>3 DEF SureEverywhere, Is, Jumps
  <2> QED
    BY <1>5, <2>1, SurePlaces
<1>9. Apt(s, Forgotten) /\ Apt(s, Settles)
  <2>1. /\ \A i \in 1 .. Len(s) : s[i].op # "last" /\ s[i].do # "end"
        /\ Len(s) > 0 /\ s[Len(s)].do = "confirm"
    BY <1>1, <1>2, <1>3 DEF Is
  <2> QED
    BY <1>5, <2>1, ForgottenPlaces, SettlesPlaces, FirmIsApt
<1> QED
  BY <1>4, <1>5, <1>6, <1>7, <1>8, <1>9 DEF Orderly, s

\* The validator probe observes behind every cheap check, so nothing stays unaudited.
LEMMA ValidatorOrderly == Orderly(ValidatorProbe) /\ Apt(ValidatorProbe, Sure)
<1> DEFINE b == <<Look("raise"), Act("launch", "raise"), Cheap("recover"), Look("raise"),
                  Act("home", "raise"), See>>
           s == Times(b)
<1>1. /\ Len(b) = 6 /\ b[1] = Look("raise") /\ b[2] = Act("launch", "raise")
      /\ b[3] = Cheap("recover") /\ b[4] = Look("raise") /\ b[5] = Act("home", "raise")
      /\ b[6] = See
  OBVIOUS
<1>2. \A i \in 1 .. 6 : i \in {1, 2, 3, 4, 5, 6}
  OBVIOUS
<1>3. /\ Is(b[1], "look", "none", "raise") /\ Is(b[2], "act", "launch", "raise")
      /\ Is(b[3], "cheap", "none", "recover") /\ Is(b[4], "look", "none", "raise")
      /\ Is(b[5], "act", "home", "raise") /\ Is(b[6], "see", "none", "raise")
  <2>1. /\ Is(b[1], "look", "none", "raise") /\ Is(b[2], "act", "launch", "raise")
        /\ Is(b[3], "cheap", "none", "recover")
    BY <1>1, StepsAre DEF Ops, Bads
  <2>2. /\ Is(b[4], "look", "none", "raise") /\ Is(b[5], "act", "home", "raise")
        /\ Is(b[6], "see", "none", "raise")
    BY <1>1, StepsAre DEF Ops, Bads
  <2> QED
    BY <2>1, <2>2
<1>4. b \in Seq(Legal)
  <2> HIDE DEF b, s
  <2>1. \A i \in 1 .. 6 : b[i] \in Legal
    BY <1>2, <1>3 DEF Legal, Is, Jumps
  <2> QED
    BY <1>1, <2>1, SeqOfSteps DEF b
<1> HIDE DEF b
<1>5. b \in Seq(Steps) /\ Len(b) \in {2, 3, 4, 6}
  BY <1>1, <1>4, LegalSteps
<1>6. /\ s \in Seq(Legal) /\ s \in Seq(Steps) /\ Len(s) = Rounds * 6
      /\ \A i \in 1 .. Len(s) : s[i] = b[Turn(i, 6)]
  <2> HIDE DEF s
  <2>1. s \in Seq(Legal)
    BY <1>4, <1>5, TimesIs DEF s
  <2>2. Len(s) = Rounds * 6 /\ \A i \in 1 .. Rounds * 6 : s[i] = b[Turn(i, 6)]
    BY <1>1, <1>4, <1>5, TimesIs DEF s
  <2> QED
    BY <2>1, <2>2, LegalSteps
<1>7. Firm(s, Fresh)
  <2>1. FreshEverywhere(b)
    BY <1>1, <1>2, <1>3 DEF FreshEverywhere, Is, Observing, Jumps
  <2> QED
    BY <1>5, <2>1, TimesFresh
<1> HIDE DEF s
<1>8. ASSUME NEW i \in 1 .. Len(s)
      PROVE  /\ i \in Nat /\ i >= 1 /\ Turn(i, 6) \in 1 .. 6 /\ s[i] = b[Turn(i, 6)]
             /\ Turn(i, 6) > 1 => i > 1 /\ Turn(i - 1, 6) = Turn(i, 6) - 1
             /\ Turn(i, 6) = 1 /\ i > 1 => Turn(i - 1, 6) = 6
  <2>1. i \in Nat /\ i >= 1 /\ 6 \in {2, 3, 4, 6}
    BY <1>6
  <2> QED
    BY <1>6, <2>1, Turns
<1>9. \A i \in 1 .. Len(s) :
        /\ s[i].bad \notin Jumps
        /\ s[i].do = "cheap" => s[i].bad = "recover"
        /\ s[i].do # "end" /\ s[i].op # "last"
  BY <1>2, <1>3, <1>8 DEF Is, Jumps
<1>10. Len(s) > 0 /\ s[Len(s)].do \in {"see", "confirm", "settle"}
  <2>1. Rounds * 6 \in Nat /\ Rounds * 6 >= 6 /\ Turn(Rounds * 6, 6) = 6
    BY LastTurn
  <2>2. Len(s) \in 1 .. Len(s) /\ Len(s) > 0 /\ s[Len(s)] = b[6]
    BY <1>6, <2>1
  <2> QED
    BY <1>3, <2>2 DEF Is
<1>11. Lands(s) /\ Apt(s, Audited) /\ Apt(s, Forgotten) /\ Apt(s, Settles)
  <2>1. Lands(s)
    BY <1>9 DEF Lands, Jumps
  <2>2. \A i \in 1 .. Len(s) : s[i].do # "cheap" \/ s[i].bad = "recover"
    BY <1>9
  <2> QED
    BY <1>6, <1>9, <1>10, <2>1, <2>2, AuditedPlaces, ForgottenPlaces, SettlesPlaces, FirmIsApt
<1>12. Apt(s, Sure)
  <2>1. b[6] \in Sure.restores /\ b[1] \notin Sure.spoils /\ End \notin Sure.needs
    BY <1>3 DEF Is, Sure, End, Step, Jumps
  <2>2. \A t \in 1 .. 6 : b[t] \in Sure.needs => t = 2
    BY <1>2, <1>3 DEF Is, Sure, Jumps
  <2>3. ASSUME NEW i \in 1 .. Len(s), s[i] \in Sure.needs
        PROVE  Close(s, i, Sure) \/ Untouched(s, i, Sure)
    <3>1. Turn(i, 6) = 2 /\ i > 1 /\ Turn(i - 1, 6) = 1
      BY <1>8, <2>2, <2>3
    <3>2. i - 1 \in 1 .. Len(s) /\ s[i - 1] = b[1] /\ i \in Nat
      BY <1>6, <3>1
    <3>3. CASE i = 2
      <4>1. \A k \in 1 .. i - 1 : k = i - 1
        BY <3>3
      <4> QED
        BY <2>1, <3>2, <4>1 DEF Untouched
    <3>4. CASE i > 2
      <4> DEFINE j == i - 1
      <4>1. j \in 1 .. Len(s) /\ j > 1 /\ Turn(j, 6) = 1 /\ j - 1 \in 1 .. Len(s)
            /\ j - 1 = i - 2 /\ j = i - 1
        BY <3>1, <3>2, <3>4
      <4> HIDE DEF j
      <4>2. Turn(j - 1, 6) = 6
        BY <1>8, <4>1
      <4>3. s[j - 1] = b[6]
        BY <1>8, <4>1, <4>2
      <4>4. s[i - 2] \in Sure.restores /\ s[i - 1] \notin Sure.spoils
        BY <2>1, <3>2, <4>1, <4>3
      <4> QED
        BY <3>4, <4>4 DEF Close
    <3> QED
      BY <3>1, <3>2, <3>3, <3>4
  <2>4. \A i \in 1 .. Len(s) + 1 :
          StepAt(s, i) \in Sure.needs => Close(s, i, Sure) \/ Untouched(s, i, Sure)
    BY <2>1, <2>3 DEF StepAt
  <2> QED
    BY <1>6, <2>4, CloseApt
<1> QED
  BY <1>6, <1>7, <1>11, <1>12 DEF Orderly, s, b, ValidatorProbe

\* The limited canary: the audit of the next round, or the last See, is behind each cheap
\* check it went on from.
LEMMA LimitedOrderly == Orderly(LimitedCanary) /\ Apt(LimitedCanary, Sure)
<1> DEFINE b == <<Audit, Check("raise"), Act("home", "raise"), Cheap("see")>>
           a == Times(b)
           e == <<See>>
           s == a \o e
           n == Rounds * 4
<1>1. /\ Len(b) = 4 /\ b[1] = Audit /\ b[2] = Check("raise") /\ b[3] = Act("home", "raise")
      /\ b[4] = Cheap("see")
  OBVIOUS
<1>2. \A i \in 1 .. 4 : i \in {1, 2, 3, 4}
  OBVIOUS
<1>3. /\ Is(b[1], "audit", "none", "raise") /\ Is(b[2], "check", "none", "raise")
      /\ Is(b[3], "act", "home", "raise") /\ Is(b[4], "cheap", "none", "see")
  <2>1. /\ Is(b[1], "audit", "none", "raise") /\ Is(b[2], "check", "none", "raise")
        /\ Is(b[3], "act", "home", "raise")
    BY <1>1, StepsAre DEF Ops, Bads
  <2>2. /\ Is(b[4], "cheap", "none", "see")
    BY <1>1, StepsAre DEF Ops, Bads
  <2> QED
    BY <2>1, <2>2
<1>4. b \in Seq(Legal)
  <2> HIDE DEF b, a, s
  <2>1. \A i \in 1 .. 4 : b[i] \in Legal
    BY <1>2, <1>3 DEF Legal, Is, Jumps
  <2> QED
    BY <1>1, <2>1, SeqOfSteps DEF b
<1> HIDE DEF b
<1>5. b \in Seq(Steps) /\ Len(b) \in {2, 3, 4, 6}
  BY <1>1, <1>4, LegalSteps
<1>6. /\ a \in Seq(Legal) /\ a \in Seq(Steps) /\ Len(a) = n
      /\ \A i \in 1 .. n : a[i] = b[Turn(i, 4)]
  <2> HIDE DEF a
  <2>1. a \in Seq(Legal)
    BY <1>4, <1>5, TimesIs DEF a
  <2>2. Len(a) = n /\ \A i \in 1 .. n : a[i] = b[Turn(i, 4)]
    BY <1>1, <1>4, <1>5, TimesIs DEF a
  <2> QED
    BY <2>1, <2>2, LegalSteps
<1>7. Firm(a, Fresh)
  <2>1. FreshEverywhere(b)
    BY <1>1, <1>2, <1>3 DEF FreshEverywhere, Is, Observing, Jumps
  <2> QED
    BY <1>5, <2>1, TimesFresh
<1>8. n \in Nat /\ n >= 4
  BY LastTurn
<1> HIDE DEF a, n
<1>9. /\ e \in Seq(Legal) /\ e \in Seq(Steps) /\ Len(e) = 1 /\ Is(e[1], "see", "none", "raise")
  <2>1. Is(See, "see", "none", "raise") /\ See \in Legal
    BY StepsAre DEF Legal, Is, Jumps
  <2> QED
    BY <2>1, LegalSteps
<1> HIDE DEF e
<1>10. Firm(e, Fresh)
  <2>1. FreshEverywhere(e)
    BY <1>9 DEF FreshEverywhere, Is, Jumps
  <2> QED
    BY <1>9, <2>1, FreshPlaces
<1>11. Firm(s, Fresh)
  <2>1. End \notin Fresh.needs
    BY DEF End, Step, Fresh, Jumps
  <2> HIDE DEF s
  <2> QED
    BY <1>6, <1>7, <1>9, <1>10, <2>1, ConcatApt DEF s
<1>12. /\ s \in Seq(Legal) /\ s \in Seq(Steps) /\ Len(s) = n + 1
       /\ \A i \in 1 .. n : s[i] = b[Turn(i, 4)]
       /\ Is(s[n + 1], "see", "none", "raise")
  <2>1. s \in Seq(Legal)
    BY <1>6, <1>9
  <2>2. Len(s) = Len(a) + Len(e) /\ \A i \in 1 .. Len(a) + Len(e) :
          s[i] = IF i <= Len(a) THEN a[i] ELSE e[i - Len(a)]
    BY <1>6, <1>9, ConcatProperties
  <2>3. Len(s) = n + 1 /\ (\A i \in 1 .. n : s[i] = a[i]) /\ s[n + 1] = e[1]
    <3> HIDE DEF s
    <3>1. Len(a) = n /\ Len(e) = 1 /\ (n + 1) - n = 1
          /\ \A i \in 1 .. n : i \in 1 .. n + 1 /\ i <= n
      BY <1>6, <1>8, <1>9
    <3> QED
      BY <1>8, <2>2, <3>1
  <2> HIDE DEF s
  <2> QED
    BY <1>6, <1>9, <2>1, <2>3, LegalSteps
<1> HIDE DEF s
<1>13. ASSUME NEW i \in 1 .. n
       PROVE  /\ i \in Nat /\ i >= 1 /\ Turn(i, 4) \in 1 .. 4 /\ s[i] = b[Turn(i, 4)]
              /\ Turn(i, 4) > 1 => i > 1 /\ Turn(i - 1, 4) = Turn(i, 4) - 1
  <2>1. i \in Nat /\ i >= 1 /\ 4 \in {2, 3, 4, 6}
    BY <1>8
  <2> QED
    BY <1>12, <2>1, Turns
<1>14. \A i \in 1 .. Len(s) :
         /\ s[i].bad \notin Jumps /\ s[i].bad \notin {"judged", "reported", "looked", "recover"}
         /\ s[i].do # "end" /\ s[i].op # "last"
  <2>1. \A i \in 1 .. Len(s) : i \in 1 .. n \/ i = n + 1
    BY <1>8, <1>12
  <2>2. \A t \in 1 .. 4 :
          /\ b[t].bad \notin Jumps /\ b[t].bad \notin {"judged", "reported", "looked", "recover"}
          /\ b[t].do # "end" /\ b[t].op # "last"
    BY <1>2, <1>3 DEF Is, Jumps
  <2> QED
    BY <1>12, <1>13, <2>1, <2>2 DEF Is, Jumps
<1>15. Lands(s) /\ Apt(s, Forgotten) /\ Apt(s, Settles) /\ Apt(s, Sure)
  <2>1. Lands(s)
    BY <1>14 DEF Lands, Jumps
  <2>2. SureEverywhere(s)
    BY <1>14 DEF SureEverywhere
  <2> QED
    BY <1>12, <1>14, <2>1, <2>2, SurePlaces, ForgottenPlaces, SettlesPlaces, FirmIsApt
<1>16. Apt(s, Audited)
  <2>1. /\ b[1] \in Audited.restores /\ b[2] \notin Audited.spoils /\ b[3] \notin Audited.spoils
        /\ s[n + 1] \in Audited.restores /\ s[n + 1] \notin Audited.needs
    BY <1>3, <1>12 DEF Is, Audited, Jumps
  <2>2. \A t \in 1 .. 4 : b[t] \in Audited.needs => t \in {3, 4}
    BY <1>2, <1>3 DEF Is, Audited, Jumps
  <2>3. ASSUME NEW i \in 1 .. n, s[i] \in Audited.needs PROVE Close(s, i, Audited)
    <3> DEFINE j == i - 1
               k == j - 1
               l == k - 1
    <3>1. Turn(i, 4) \in {3, 4}
      BY <1>13, <2>2, <2>3
    <3>2. j \in 1 .. n /\ Turn(j, 4) = Turn(i, 4) - 1 /\ j = i - 1 /\ i > 1
      BY <1>8, <1>13, <3>1
    <3> HIDE DEF j
    <3>3. k \in 1 .. n /\ Turn(k, 4) = Turn(j, 4) - 1 /\ k = i - 2 /\ i > 2
      <4>1. Turn(j, 4) > 1
        BY <3>1, <3>2
      <4>2. j > 1 /\ Turn(j - 1, 4) = Turn(j, 4) - 1
        BY <1>13, <3>2, <4>1
      <4> QED
        BY <1>8, <3>2, <4>2
    <3> HIDE DEF k
    <3>4. CASE Turn(i, 4) = 3
      <4>1. s[i - 2] = b[1] /\ s[i - 1] = b[2]
        BY <1>13, <3>2, <3>3, <3>4
      <4> QED
        BY <2>1, <3>3, <4>1 DEF Close
    <3>5. CASE Turn(i, 4) = 4
      <4>1. k > 1 /\ Turn(k - 1, 4) = Turn(k, 4) - 1
        BY <1>13, <3>2, <3>3, <3>5
      <4>2. l \in 1 .. n /\ l = i - 3 /\ i > 3 /\ Turn(l, 4) = 1
        BY <1>8, <3>2, <3>3, <3>5, <4>1
      <4> HIDE DEF l
      <4>3. s[i - 3] = b[1] /\ s[i - 2] = b[2] /\ s[i - 1] = b[3]
        BY <1>13, <3>2, <3>3, <3>5, <4>2
      <4> QED
        BY <2>1, <4>2, <4>3 DEF Close
    <3> QED
      BY <3>1, <3>4, <3>5
  <2>4. Close(s, n + 2, Audited)
    <3>1. (n + 2) - 1 = n + 1 /\ n + 2 > 1
      BY <1>8
    <3> QED
      BY <2>1, <3>1 DEF Close
  <2>5. \A i \in 1 .. Len(s) + 1 : StepAt(s, i) \in Audited.needs => Close(s, i, Audited)
    <3>1. \A i \in 1 .. Len(s) + 1 : i \in 1 .. n \/ i = n + 1 \/ i = n + 2
      BY <1>8, <1>12
    <3>2. StepAt(s, n + 1) = s[n + 1] /\ \A i \in 1 .. n : StepAt(s, i) = s[i]
      BY <1>8, <1>12 DEF StepAt
    <3> QED
      BY <2>1, <2>3, <2>4, <3>1, <3>2
  <2> QED
    BY <1>12, <2>5, CloseFirm, FirmIsApt
<1> QED
  BY <1>11, <1>12, <1>15, <1>16 DEF Orderly, s, a, b, e, LimitedCanary

-----------------------------------------------------------------------------
(***************************************************************************)
(* The R4 matrix, cell by cell, and with it every script.                  *)
(***************************************************************************)

\* Steps of the R4 matrix.
Uncleaned ==
  {st \in Legal : st.bad # "cleanup" /\ st.do # "cheap" /\ st.bad # "judged"}

\* They are steps.
LEMMA UncleanedSteps == Seq(Uncleaned) \subseteq Seq(Steps) /\ Uncleaned \subseteq Steps
<1>1. Uncleaned \subseteq Steps
  BY DEF Uncleaned, Legal
<1> QED
  BY <1>1

\* A part of the matrix; it may count on the revision that the part before it has left.
Cell(s) == s \in Seq(Uncleaned) /\ Lands(s) /\ Apt(s, Fresh) /\ Firm(s, Forgotten)

\* The same of one that observes for itself.
FirmCell(s) == Cell(s) /\ Firm(s, Fresh)

\* A part without jumps, by its places.
LEMMA CellPlaces ==
  ASSUME NEW s \in Seq(Uncleaned), \A i \in 1 .. Len(s) : s[i].bad \notin Jumps,
         FreshEverywhere(s), Firm(s, Forgotten)
  PROVE  FirmCell(s)
<1>1. s \in Seq(Steps)
  BY UncleanedSteps
<1>2. Lands(s)
  BY DEF Lands, Jumps
<1>3. Firm(s, Fresh)
  BY <1>1, FreshPlaces
<1> QED
  BY <1>2, <1>3, FirmIsApt DEF Cell, FirmCell

\* The marks of two parts stay behind the steps that skip to them.
LEMMA LandsConcat ==
  ASSUME NEW a \in Seq(Uncleaned), NEW b \in Seq(Uncleaned), Lands(a), Lands(b)
  PROVE  Lands(a \o b)
<1> DEFINE s == a \o b
           n == Len(a)
           l == Len(b)
<1>1. /\ s \in Seq(Uncleaned) /\ Len(s) = n + l /\ n \in Nat /\ l \in Nat
      /\ \A i \in 1 .. n + l : s[i] = IF i <= n THEN a[i] ELSE b[i - n]
  BY ConcatProperties
<1> HIDE DEF s
<1>2. ASSUME NEW i \in 1 .. Len(s), s[i].bad = "skip"
      PROVE  \E j \in i + 1 .. Len(s) : s[j].do = "mark"
  <2>1. CASE i <= n
    <3>1. i \in 1 .. n /\ s[i] = a[i]
      BY <1>1, <1>2, <2>1
    <3>2. PICK j \in i + 1 .. n : a[j].do = "mark"
      BY <1>2, <3>1 DEF Lands
    <3> HIDE DEF n
    <3>3. j \in i + 1 .. Len(s) /\ s[j] = a[j]
      BY <1>1, <3>1, <3>2
    <3> QED
      BY <3>2, <3>3
  <2>2. CASE i > n
    <3> DEFINE k == i - n
    <3>1. k \in 1 .. l /\ s[i] = b[k] /\ i = k + n
      BY <1>1, <1>2, <2>2
    <3> HIDE DEF k
    <3>2. PICK j \in k + 1 .. l : b[j].do = "mark"
      BY <1>2, <3>1 DEF Lands
    <3> HIDE DEF n, l
    <3> DEFINE m == j + n
    <3>3. m \in i + 1 .. Len(s) /\ m - n = j /\ ~(m <= n) /\ m \in 1 .. n + l
      BY <1>1, <3>1, <3>2
    <3> HIDE DEF m
    <3>4. s[m] = b[j]
      BY <1>1, <3>3
    <3> QED
      BY <3>2, <3>3, <3>4
  <2> QED
    BY <1>1, <1>2, <2>1, <2>2
<1>3. \A i \in 1 .. Len(s) : s[i].bad # "cleanup"
  <2>1. \A i \in 1 .. Len(s) : s[i] \in Uncleaned
    BY <1>1
  <2> QED
    BY <2>1 DEF Uncleaned
<1> QED
  BY <1>2, <1>3 DEF Lands, s

\* A part behind another.
LEMMA CellConcat ==
  ASSUME NEW a, NEW b, FirmCell(a), FirmCell(b)
  PROVE  FirmCell(a \o b)
<1>1. a \in Seq(Uncleaned) /\ b \in Seq(Uncleaned)
  BY DEF FirmCell, Cell
<1>2. a \in Seq(Steps) /\ b \in Seq(Steps) /\ a \o b \in Seq(Uncleaned)
  BY <1>1, UncleanedSteps
<1>3. End \notin Fresh.needs /\ End \notin Forgotten.needs
  BY DEF End, Step, Fresh, Forgotten, Jumps
<1>4. Firm(a \o b, Fresh)
  BY <1>2, <1>3, ConcatApt DEF FirmCell
<1>5. Firm(a \o b, Forgotten)
  BY <1>2, <1>3, ConcatApt DEF FirmCell, Cell
<1>6. Lands(a \o b)
  BY <1>1, LandsConcat DEF FirmCell, Cell
<1> QED
  BY <1>2, <1>4, <1>5, <1>6, FirmIsApt DEF FirmCell, Cell

\* The parts of the matrix, one by one.
LEMMA ConnectCell == FirmCell(MatrixConnect)
<1> DEFINE s == MatrixConnect
<1>1. /\ Len(s) = 5 /\ s[1] = LookTwice /\ s[2] = Touch("drop") /\ s[3] = LookTwice
      /\ s[4] = Touch("recover") /\ s[5] = LookTwice
  BY DEF MatrixConnect
<1>2. \A i \in 1 .. 5 : i \in {1, 2, 3, 4, 5}
  OBVIOUS
<1>3. /\ Is(s[1], "look", "none", "again") /\ Is(s[2], "touch", "drop", "raise")
      /\ Is(s[3], "look", "none", "again") /\ Is(s[4], "touch", "recover", "raise")
      /\ Is(s[5], "look", "none", "again")
  <2>1. /\ Is(s[1], "look", "none", "again") /\ Is(s[2], "touch", "drop", "raise")
        /\ Is(s[3], "look", "none", "again")
    BY <1>1, StepsAre DEF Ops, Bads
  <2>2. /\ Is(s[4], "touch", "recover", "raise") /\ Is(s[5], "look", "none", "again")
    BY <1>1, StepsAre DEF Ops, Bads
  <2> QED
    BY <2>1, <2>2
<1>4. s \in Seq(Uncleaned)
  <2> HIDE DEF s
  <2>1. \A i \in 1 .. 5 : s[i] \in Uncleaned
    BY <1>2, <1>3 DEF Uncleaned, Legal, Is, Jumps
  <2> QED
    BY <1>1, <2>1, SeqOfSteps DEF s, MatrixConnect
<1> HIDE DEF s
<1>5. FreshEverywhere(s) /\ \A i \in 1 .. Len(s) : s[i].bad \notin Jumps
  BY <1>1, <1>2, <1>3 DEF FreshEverywhere, Is, Observing, Jumps
<1>6. Firm(s, Forgotten)
  <2>1. \A i \in 1 .. Len(s) : s[i].op # "last"
    BY <1>1, <1>2, <1>3 DEF Is
  <2> QED
    BY <1>4, <2>1, UncleanedSteps, ForgottenPlaces
<1> QED
  BY <1>4, <1>5, <1>6, CellPlaces DEF s

\* Revisions: the probe is of an earlier one.
LEMMA RevisionsCell == FirmCell(MatrixRevisions)
<1> DEFINE s == MatrixRevisions
<1>1. /\ Len(s) = 6 /\ s[1] = LookTwice /\ s[2] = LookTwice /\ s[3] = LookTwice
      /\ s[4] = Touch("invalidate") /\ s[5] = LookTwice /\ s[6] = Probe("earlier")
  BY DEF MatrixRevisions
<1>2. \A i \in 1 .. 6 : i \in {1, 2, 3, 4, 5, 6}
  OBVIOUS
<1>3. /\ Is(s[1], "look", "none", "again") /\ Is(s[2], "look", "none", "again")
      /\ Is(s[3], "look", "none", "again") /\ Is(s[4], "touch", "invalidate", "raise")
      /\ Is(s[5], "look", "none", "again") /\ Is(s[6], "probe", "earlier", "hold")
  <2>1. /\ Is(s[1], "look", "none", "again") /\ Is(s[2], "look", "none", "again")
        /\ Is(s[3], "look", "none", "again")
    BY <1>1, StepsAre DEF Ops, Bads
  <2>2. /\ Is(s[4], "touch", "invalidate", "raise") /\ Is(s[5], "look", "none", "again")
        /\ Is(s[6], "probe", "earlier", "hold")
    BY <1>1, StepsAre DEF Ops, Bads
  <2> QED
    BY <2>1, <2>2
<1>4. s \in Seq(Uncleaned)
  <2> HIDE DEF s
  <2>1. \A i \in 1 .. 6 : s[i] \in Uncleaned
    BY <1>2, <1>3 DEF Uncleaned, Legal, Is, Jumps
  <2> QED
    BY <1>1, <2>1, SeqOfSteps DEF s, MatrixRevisions
<1> HIDE DEF s
<1>5. FreshEverywhere(s) /\ \A i \in 1 .. Len(s) : s[i].bad \notin Jumps
  BY <1>1, <1>2, <1>3 DEF FreshEverywhere, Is, Observing, Jumps
<1>6. Firm(s, Forgotten)
  <2>1. \A i \in 1 .. Len(s) : s[i].op # "last"
    BY <1>1, <1>2, <1>3 DEF Is
  <2> QED
    BY <1>4, <2>1, UncleanedSteps, ForgottenPlaces
<1> QED
  BY <1>4, <1>5, <1>6, CellPlaces DEF s

\* Preflight: the last revision is invalidated before it is probed.
LEMMA PreflightCell == FirmCell(MatrixPreflight)
<1> DEFINE s == MatrixPreflight
<1>1. /\ Len(s) = 7 /\ s[1] = LookTwice /\ s[2] = Touch("invalidate") /\ s[3] = Probe("last")
      /\ s[4] = Probe("foreign") /\ s[5] = LookTwice /\ s[6] = Probe("invalid")
      /\ s[7] = Probe("invalid")
  BY DEF MatrixPreflight
<1>2. \A i \in 1 .. 7 : i \in {1, 2, 3, 4, 5, 6, 7}
  OBVIOUS
<1>3. /\ Is(s[1], "look", "none", "again") /\ Is(s[2], "touch", "invalidate", "raise")
      /\ Is(s[3], "probe", "last", "hold") /\ Is(s[4], "probe", "foreign", "hold")
      /\ Is(s[5], "look", "none", "again") /\ Is(s[6], "probe", "invalid", "hold")
      /\ Is(s[7], "probe", "invalid", "hold")
  <2>1. /\ Is(s[1], "look", "none", "again") /\ Is(s[2], "touch", "invalidate", "raise")
        /\ Is(s[3], "probe", "last", "hold")
    BY <1>1, StepsAre DEF Ops, Bads
  <2>2. /\ Is(s[4], "probe", "foreign", "hold") /\ Is(s[5], "look", "none", "again")
        /\ Is(s[6], "probe", "invalid", "hold")
    BY <1>1, StepsAre DEF Ops, Bads
  <2>3. /\ Is(s[7], "probe", "invalid", "hold")
    BY <1>1, StepsAre DEF Ops, Bads
  <2> QED
    BY <2>1, <2>2, <2>3
<1>4. s \in Seq(Uncleaned)
  <2> HIDE DEF s
  <2>1. \A i \in 1 .. 7 : s[i] \in Uncleaned
    BY <1>2, <1>3 DEF Uncleaned, Legal, Is, Jumps
  <2> QED
    BY <1>1, <2>1, SeqOfSteps DEF s, MatrixPreflight
<1> HIDE DEF s
<1>5. FreshEverywhere(s) /\ \A i \in 1 .. Len(s) : s[i].bad \notin Jumps
  BY <1>1, <1>2, <1>3 DEF FreshEverywhere, Is, Observing, Jumps
<1>6. Firm(s, Forgotten)
  <2>1. s[2] \in Forgotten.restores /\ End \notin Forgotten.needs
    BY <1>3 DEF Is, Forgotten, End, Step
  <2>2. \A i \in 1 .. Len(s) : s[i] \in Forgotten.needs => i = 3
    BY <1>1, <1>2, <1>3 DEF Is, Forgotten
  <2>3. Close(s, 3, Forgotten)
    BY <2>1 DEF Close
  <2>4. \A i \in 1 .. Len(s) + 1 : StepAt(s, i) \in Forgotten.needs => Close(s, i, Forgotten)
    BY <2>1, <2>2, <2>3 DEF StepAt
  <2> QED
    BY <1>4, <2>4, UncleanedSteps, CloseFirm
<1> QED
  BY <1>4, <1>5, <1>6, CellPlaces DEF s

\* Recovery.
LEMMA RecoversCell == FirmCell(MatrixRecovers)
<1> DEFINE s == MatrixRecovers
<1>1. /\ Len(s) = 6 /\ s[1] = LookTwice /\ s[2] = Touch("drop") /\ s[3] = LookTwice
      /\ s[4] = Touch("drop") /\ s[5] = Touch("recover") /\ s[6] = LookTwice
  BY DEF MatrixRecovers
<1>2. \A i \in 1 .. 6 : i \in {1, 2, 3, 4, 5, 6}
  OBVIOUS
<1>3. /\ Is(s[1], "look", "none", "again") /\ Is(s[2], "touch", "drop", "raise")
      /\ Is(s[3], "look", "none", "again") /\ Is(s[4], "touch", "drop", "raise")
      /\ Is(s[5], "touch", "recover", "raise") /\ Is(s[6], "look", "none", "again")
  <2>1. /\ Is(s[1], "look", "none", "again") /\ Is(s[2], "touch", "drop", "raise")
        /\ Is(s[3], "look", "none", "again")
    BY <1>1, StepsAre DEF Ops, Bads
  <2>2. /\ Is(s[4], "touch", "drop", "raise") /\ Is(s[5], "touch", "recover", "raise")
        /\ Is(s[6], "look", "none", "again")
    BY <1>1, StepsAre DEF Ops, Bads
  <2> QED
    BY <2>1, <2>2
<1>4. s \in Seq(Uncleaned)
  <2> HIDE DEF s
  <2>1. \A i \in 1 .. 6 : s[i] \in Uncleaned
    BY <1>2, <1>3 DEF Uncleaned, Legal, Is, Jumps
  <2> QED
    BY <1>1, <2>1, SeqOfSteps DEF s, MatrixRecovers
<1> HIDE DEF s
<1>5. FreshEverywhere(s) /\ \A i \in 1 .. Len(s) : s[i].bad \notin Jumps
  BY <1>1, <1>2, <1>3 DEF FreshEverywhere, Is, Observing, Jumps
<1>6. Firm(s, Forgotten)
  <2>1. \A i \in 1 .. Len(s) : s[i].op # "last"
    BY <1>1, <1>2, <1>3 DEF Is
  <2> QED
    BY <1>4, <2>1, UncleanedSteps, ForgottenPlaces
<1> QED
  BY <1>4, <1>5, <1>6, CellPlaces DEF s

\* Ten gestures and observations in turn.
LEMMA GesturesCell == FirmCell(MatrixGestures)
<1> DEFINE s == MatrixGestures
<1>1. /\ Is(LookTwice, "look", "none", "again")
      /\ Is(Act("gesture", "raise"), "act", "gesture", "raise")
  BY StepsAre DEF Ops, Bads
<1>2. LookTwice \in Uncleaned /\ Act("gesture", "raise") \in Uncleaned
  BY <1>1 DEF Is, Uncleaned, Legal, Jumps
<1>3. /\ s \in Seq(Uncleaned) /\ Len(s) = 10
      /\ \A i \in 1 .. 10 : s[i] = IF i % 2 = 1 THEN LookTwice ELSE Act("gesture", "raise")
  BY <1>2 DEF MatrixGestures
<1> HIDE DEF s
<1>4. FreshEverywhere(s)
  <2>1. ASSUME NEW i \in 1 .. Len(s), s[i].do = "act" \/ s[i].bad \in Jumps
        PROVE  i > 1 /\ s[i - 1].do \in Observing
    <3>1. i % 2 # 1 /\ i \in Nat /\ i <= 10 /\ i >= 1
      BY <1>1, <1>3, <2>1 DEF Is, Jumps
    <3>2. i - 1 \in 1 .. 10 /\ (i - 1) % 2 = 1 /\ i > 1
      BY <3>1
    <3>3. s[i - 1] = LookTwice
      BY <1>3, <3>2
    <3> QED
      BY <1>1, <3>2, <3>3 DEF Is, Observing
  <2> QED
    BY <2>1 DEF FreshEverywhere
<1>5. \A i \in 1 .. Len(s) : s[i].bad \notin Jumps /\ s[i].op # "last"
  BY <1>1, <1>3 DEF Is, Jumps
<1>6. Firm(s, Forgotten)
  BY <1>3, <1>5, UncleanedSteps, ForgottenPlaces
<1> QED
  BY <1>3, <1>4, <1>5, <1>6, CellPlaces DEF s

\* It ends with the revision observed, at the mark where the next part starts.
LEMMA NavigatesCell ==
  FirmCell(MatrixNavigates) /\ Since(MatrixNavigates, Len(MatrixNavigates) + 1, Fresh)
<1> DEFINE s == MatrixNavigates
<1>1. /\ Len(s) = 14 /\ s[1] = LookTwice /\ s[2] = Act("home", "raise") /\ s[3] = LookTwice
      /\ s[4] = Act("launch", "raise") /\ s[5] = LookTwice /\ s[6] = Check("skip")
      /\ s[7] = Act("tap", "raise") /\ s[8] = LookTwice /\ s[9] = LookTwice
      /\ s[10] = Act("home", "raise") /\ s[11] = LookTwice /\ s[12] = Act("launch", "raise")
      /\ s[13] = LookTwice /\ s[14] = Mark
  BY DEF MatrixNavigates
<1>2. \A i \in 1 .. 14 : i \in {1, 2, 3, 4, 5, 6, 7, 8, 9, 10, 11, 12, 13, 14}
  OBVIOUS
<1>3. /\ Is(s[1], "look", "none", "again") /\ Is(s[2], "act", "home", "raise")
      /\ Is(s[3], "look", "none", "again") /\ Is(s[4], "act", "launch", "raise")
      /\ Is(s[5], "look", "none", "again") /\ Is(s[6], "check", "none", "skip")
      /\ Is(s[7], "act", "tap", "raise") /\ Is(s[8], "look", "none", "again")
      /\ Is(s[9], "look", "none", "again") /\ Is(s[10], "act", "home", "raise")
      /\ Is(s[11], "look", "none", "again") /\ Is(s[12], "act", "launch", "raise")
      /\ Is(s[13], "look", "none", "again") /\ Is(s[14], "mark", "none", "none")
  <2>1. /\ Is(s[1], "look", "none", "again") /\ Is(s[2], "act", "home", "raise")
        /\ Is(s[3], "look", "none", "again")
    BY <1>1, StepsAre DEF Ops, Bads
  <2>2. /\ Is(s[4], "act", "launch", "raise") /\ Is(s[5], "look", "none", "again")
        /\ Is(s[6], "check", "none", "skip")
    BY <1>1, StepsAre DEF Ops, Bads
  <2>3. /\ Is(s[7], "act", "tap", "raise") /\ Is(s[8], "look", "none", "again")
        /\ Is(s[9], "look", "none", "again")
    BY <1>1, StepsAre DEF Ops, Bads
  <2>4. /\ Is(s[10], "act", "home", "raise") /\ Is(s[11], "look", "none", "again")
        /\ Is(s[12], "act", "launch", "raise")
    BY <1>1, StepsAre DEF Ops, Bads
  <2>5. /\ Is(s[13], "look", "none", "again") /\ Is(s[14], "mark", "none", "none")
    BY <1>1, StepsAre DEF Ops, Bads
  <2> QED
    BY <2>1, <2>2, <2>3, <2>4, <2>5
<1>4. s \in Seq(Uncleaned)
  <2> HIDE DEF s
  <2>1. \A i \in 1 .. 14 : s[i] \in Uncleaned
    BY <1>2, <1>3 DEF Uncleaned, Legal, Is, Jumps
  <2> QED
    BY <1>1, <2>1, SeqOfSteps DEF s, MatrixNavigates
<1> HIDE DEF s
<1>5. s \in Seq(Steps) /\ FreshEverywhere(s)
  <2>1. FreshEverywhere(s)
    BY <1>1, <1>2, <1>3 DEF FreshEverywhere, Is, Observing, Jumps
  <2> QED
    BY <1>4, <2>1, UncleanedSteps
<1>6. Firm(s, Fresh)
  BY <1>5, FreshPlaces
<1>7. Firm(s, Forgotten)
  <2>1. \A i \in 1 .. Len(s) : s[i].op # "last"
    BY <1>1, <1>2, <1>3 DEF Is
  <2> QED
    BY <1>5, <2>1, ForgottenPlaces
<1>8. Lands(s)
  <2>1. \A i \in 1 .. Len(s) : s[i].bad = "skip" => i = 6
    BY <1>1, <1>2, <1>3 DEF Is
  <2>2. 14 \in 6 + 1 .. Len(s) /\ s[14].do = "mark"
    BY <1>1, <1>3 DEF Is
  <2>3. \A i \in 1 .. Len(s) : s[i].bad # "cleanup"
    BY <1>1, <1>2, <1>3 DEF Is
  <2> QED
    BY <2>1, <2>2, <2>3 DEF Lands
<1>9. Since(s, Len(s) + 1, Fresh)
  <2>1. s[13] \in Fresh.restores /\ s[14] \notin Fresh.spoils
    BY <1>1, <1>3 DEF Is, Fresh, Observing
  <2>2. Close(s, Len(s) + 1, Fresh)
    BY <1>1, <2>1 DEF Close
  <2> QED
    BY <1>1, <2>2, CloseSince
<1> QED
  BY <1>4, <1>6, <1>7, <1>8, <1>9, FirmIsApt DEF FirmCell, Cell, s

\* It starts by looking at what the part before it has left.
LEMMA TypesCell == Cell(MatrixTypes)
<1> DEFINE s == MatrixTypes
<1>1. /\ Len(s) = 7 /\ s[1] = Check("skip") /\ s[2] = Act("tap", "raise") /\ s[3] = LookTwice
      /\ s[4] = Act("type", "looked") /\ s[5] = LookTwice /\ s[6] = Act("home", "raise")
      /\ s[7] = Mark
  BY DEF MatrixTypes
<1>2. \A i \in 1 .. 7 : i \in {1, 2, 3, 4, 5, 6, 7}
  OBVIOUS
<1>3. /\ Is(s[1], "check", "none", "skip") /\ Is(s[2], "act", "tap", "raise")
      /\ Is(s[3], "look", "none", "again") /\ Is(s[4], "act", "type", "looked")
      /\ Is(s[5], "look", "none", "again") /\ Is(s[6], "act", "home", "raise")
      /\ Is(s[7], "mark", "none", "none")
  <2>1. /\ Is(s[1], "check", "none", "skip") /\ Is(s[2], "act", "tap", "raise")
        /\ Is(s[3], "look", "none", "again")
    BY <1>1, StepsAre DEF Ops, Bads
  <2>2. /\ Is(s[4], "act", "type", "looked") /\ Is(s[5], "look", "none", "again")
        /\ Is(s[6], "act", "home", "raise")
    BY <1>1, StepsAre DEF Ops, Bads
  <2>3. /\ Is(s[7], "mark", "none", "none")
    BY <1>1, StepsAre DEF Ops, Bads
  <2> QED
    BY <2>1, <2>2, <2>3
<1>4. s \in Seq(Uncleaned)
  <2> HIDE DEF s
  <2>1. \A i \in 1 .. 7 : s[i] \in Uncleaned
    BY <1>2, <1>3 DEF Uncleaned, Legal, Is, Jumps
  <2> QED
    BY <1>1, <2>1, SeqOfSteps DEF s, MatrixTypes
<1> HIDE DEF s
<1>5. s \in Seq(Steps)
  BY <1>4, UncleanedSteps
<1>6. Apt(s, Fresh)
  <2>1. /\ s[1] \notin Fresh.spoils /\ s[3] \in Fresh.restores /\ s[5] \in Fresh.restores
        /\ End \notin Fresh.needs
    BY <1>3 DEF Is, Fresh, Observing, End, Step, Jumps
  <2>2. \A i \in 1 .. Len(s) : s[i] \in Fresh.needs => i \in {1, 2, 4, 6}
    BY <1>1, <1>2, <1>3 DEF Is, Fresh, Jumps
  <2>3. Untouched(s, 1, Fresh) /\ Untouched(s, 2, Fresh)
    <3>1. (\A k \in 1 .. 1 - 1 : FALSE) /\ (\A k \in 1 .. 2 - 1 : k = 1)
      OBVIOUS
    <3> QED
      BY <2>1, <3>1 DEF Untouched
  <2>4. Close(s, 4, Fresh) /\ Close(s, 6, Fresh)
    BY <2>1 DEF Close
  <2>5. \A i \in 1 .. Len(s) + 1 :
          StepAt(s, i) \in Fresh.needs => Close(s, i, Fresh) \/ Untouched(s, i, Fresh)
    BY <2>1, <2>2, <2>3, <2>4 DEF StepAt
  <2> QED
    BY <1>5, <2>5, CloseApt
<1>7. Firm(s, Forgotten)
  <2>1. \A i \in 1 .. Len(s) : s[i].op # "last"
    BY <1>1, <1>2, <1>3 DEF Is
  <2> QED
    BY <1>5, <2>1, ForgottenPlaces
<1>8. Lands(s)
  <2>1. \A i \in 1 .. Len(s) : s[i].bad = "skip" => i = 1
    BY <1>1, <1>2, <1>3 DEF Is
  <2>2. 7 \in 1 + 1 .. Len(s) /\ s[7].do = "mark"
    BY <1>1, <1>3 DEF Is
  <2>3. \A i \in 1 .. Len(s) : s[i].bad # "cleanup"
    BY <1>1, <1>2, <1>3 DEF Is
  <2> QED
    BY <2>1, <2>2, <2>3 DEF Lands
<1> QED
  BY <1>4, <1>6, <1>7, <1>8 DEF Cell, s

\* The matrix, cell behind cell.
LEMMA MatrixOrderly == Orderly(DeviceMatrix)
<1> DEFINE a == MatrixConnect \o MatrixRevisions
           b == a \o MatrixNavigates
           c == b \o MatrixTypes
           d == c \o MatrixGestures \o MatrixPreflight \o MatrixRecovers
<1>1. FirmCell(a) /\ FirmCell(b)
  BY ConnectCell, RevisionsCell, NavigatesCell, CellConcat
<1>2. /\ a \in Seq(Steps) /\ b \in Seq(Steps) /\ b \in Seq(Uncleaned)
      /\ MatrixNavigates \in Seq(Steps)
      /\ MatrixTypes \in Seq(Steps) /\ MatrixTypes \in Seq(Uncleaned)
  BY <1>1, NavigatesCell, TypesCell, UncleanedSteps DEF FirmCell, Cell
<1>3. Since(b, Len(b) + 1, Fresh)
  <2> DEFINE n == Len(a)
             m == Len(MatrixNavigates)
             i == m + 1
  <2> HIDE DEF a
  <2>1. Len(b) = m + n /\ \A k \in 1 .. m : b[k + n] = MatrixNavigates[k]
    BY <1>2
  <2> HIDE DEF b
  <2>2. m \in Nat /\ n \in Nat /\ i \in 1 .. Len(MatrixNavigates) + 1 /\ i + n = Len(b) + 1
    BY <1>2, <2>1
  <2>3. Behind(b, MatrixNavigates, n) \/ Behind(MatrixNavigates, b, n)
    BY <1>2, <2>1, <2>2 DEF Behind
  <2>4. Behind(MatrixNavigates, b, n)
    BY <1>2, <2>1, <2>2 DEF Behind
  <2>5. Since(MatrixNavigates, i, Fresh)
    BY NavigatesCell
  <2> HIDE DEF i, n, m
  <2>6. Since(b, i + n, Fresh)
    BY <2>2, <2>4, <2>5, SamePlace
  <2> QED
    BY <2>2, <2>6
<1> HIDE DEF a, b
<1>4. End \notin Fresh.needs /\ End \notin Forgotten.needs
  BY DEF End, Step, Fresh, Forgotten, Jumps
<1>5. FirmCell(c)
  <2>1. Firm(c, Fresh)
    BY <1>1, <1>2, <1>3, <1>4, TypesCell, ConcatApt DEF FirmCell, Cell
  <2>2. Firm(c, Forgotten)
    BY <1>1, <1>2, <1>4, TypesCell, ConcatApt DEF FirmCell, Cell
  <2>3. Lands(c)
    BY <1>1, <1>2, TypesCell, LandsConcat DEF FirmCell, Cell
  <2>4. c \in Seq(Uncleaned)
    BY <1>2
  <2> HIDE DEF c
  <2> QED
    BY <2>1, <2>2, <2>3, <2>4, FirmIsApt DEF FirmCell, Cell
<1> HIDE DEF c
<1>6. FirmCell(d)
  BY <1>5, GesturesCell, PreflightCell, RecoversCell, CellConcat
<1> HIDE DEF d
<1>7. /\ d \in Seq(Legal) /\ d \in Seq(Steps)
      /\ \A i \in 1 .. Len(d) : d[i] \in Uncleaned
  <2>1. Uncleaned \subseteq Legal
    BY DEF Uncleaned
  <2> QED
    BY <1>6, <2>1, LegalSteps DEF FirmCell, Cell
<1>8. \A i \in 1 .. Len(d) : d[i].do # "cheap" /\ d[i].bad # "judged" /\ d[i].do # "end"
  BY <1>7 DEF Uncleaned, Legal
<1>9. Apt(d, Audited) /\ Apt(d, Settles)
  BY <1>7, <1>8, AuditedPlaces, SettlesPlaces
<1>10. Orderly(d)
  BY <1>6, <1>7, <1>9, FirmIsApt DEF FirmCell, Cell, Orderly
<1> QED
  BY <1>10 DEF DeviceMatrix, a, b, c, d

\* What the scripts have been written to keep.
THEOREM ScriptsOrderly ==
  \A s \in DOMAIN Program :
    Orderly(Program[s]) /\ (s # "matrix" => Apt(Program[s], Sure))
BY LimitedOrderly, LaunchOrderly, ValidatorOrderly, TargetOrderly, RouteOrderly, BoardOrderly,
   CalmScriptsOrderly, AgentOrderly, MatrixOrderly DEF Program, BridgedWorkload

-----------------------------------------------------------------------------
(***************************************************************************)
(* Main's way out: what holds of the worker, the session and the Runtime   *)
(* at each stage of it, whatever the scripts do.                           *)
(***************************************************************************)

\* Main waits for every attempt, so while it goes through its body no job is under way.
BodyInv == main = "body" => worker = "idle" /\ queue = <<>>

\* A script without a RunSession has none to close.
SessionInv == Sessionless(script) => session # "open"

\* Behind the close of the session, the worker has nothing left to do.
ReleaseInv ==
  main \in {"releasing", "joining", "ended"} /\ ~cut =>
    worker = "idle" /\ queue = <<>> /\ session # "open"

\* Behind the close of the Runtime, no batch runs.
JoinInv == main \in {"joining", "ended"} /\ ~cut => ~batch /\ runtime = "closed"

\* The invariant of main's way out.
IInv == BodyInv /\ SessionInv /\ ReleaseInv /\ JoinInv

\* It holds at the start.
LEMMA InitInv == Init => IInv
BY DEF Init, IInv, BodyInv, SessionInv, ReleaseInv, JoinInv

\* A step of main out of its body, with no job under way: it goes on, or leaves it.
LEMMA BodyStep ==
  ASSUME IInv, worker = "idle", queue = <<>>,
         UNCHANGED <<script, worker, session, cut>>,
         \/ main' = "body" /\ queue' = queue
         \/ main' = "waiting"
         \/ \E s : Leave(s)
  PROVE  IInv'
BY DEF IInv, BodyInv, SessionInv, ReleaseInv, JoinInv, Leave

\* A bad step leaves main in its body, or it leaves.
LEMMA OtherwiseStep ==
  ASSUME NEW bad, main = "body", Otherwise(bad)
  PROVE  (main' = "body" /\ queue' = queue) \/ \E s : Leave(s)
BY DEF Otherwise, Raise, GoOnWith

\* Steps are taken in the body.
LEMMA AtBody == \A do : At(do) => main = "body"
BY DEF At

\* Observations, checks and touches.
LEMMA LookKeeps ==
  IInv /\ (LookDone \/ LookBad \/ ObserveFails \/ RecheckRecovers \/ Corroborated
           \/ NotCorroborated \/ Confirmed \/ NotConfirmed \/ Settled) => IInv'
<1> SUFFICES ASSUME IInv, LookDone \/ LookBad \/ ObserveFails \/ RecheckRecovers \/ Corroborated
                          \/ NotCorroborated \/ Confirmed \/ NotConfirmed \/ Settled
             PROVE  IInv'
  OBVIOUS
<1>1. main = "body"
  BY AtBody DEF LookDone, LookBad, ObserveFails, RecheckRecovers, Corroborated,
                NotCorroborated, Confirmed, NotConfirmed, Settled
<1>2. worker = "idle" /\ queue = <<>>
  BY <1>1 DEF IInv, BodyInv
<1>3. UNCHANGED <<script, worker, session, cut>>
  BY DEF LookDone, LookBad, ObserveFails, RecheckRecovers, Corroborated,
         NotCorroborated, Confirmed, NotConfirmed, Settled, workerVars
<1>4. (main' = "body" /\ queue' = queue) \/ \E s : Leave(s)
  <2>1. CASE LookDone \/ RecheckRecovers \/ Corroborated \/ Confirmed \/ Settled
    BY <1>1, <2>1 DEF LookDone, RecheckRecovers, Corroborated, Confirmed, Settled, GoOn, workerVars
  <2>2. CASE LookBad
    BY <1>1, <2>2, OtherwiseStep DEF LookBad
  <2>3. CASE ObserveFails
    BY <1>1, <2>3 DEF ObserveFails, GoOnWith, Raise
  <2>4. CASE NotCorroborated \/ NotConfirmed
    BY <1>1, <2>4 DEF NotCorroborated, NotConfirmed, GoOn, Raise
  <2> QED
    BY <2>1, <2>2, <2>3, <2>4
<1> QED
  BY <1>2, <1>3, <1>4, BodyStep

\* Checks, touches, probes, cheap checks, and the submission of an attempt.
LEMMA DoKeeps ==
  IInv /\ (CheckPasses \/ CheckFails \/ TouchDone \/ TouchFails \/ ProbeDone \/ CheapApplied
           \/ CheapFails \/ SubmitAttempt) => IInv'
<1> SUFFICES ASSUME IInv, CheckPasses \/ CheckFails \/ TouchDone \/ TouchFails \/ ProbeDone
                          \/ CheapApplied \/ CheapFails \/ SubmitAttempt
             PROVE  IInv'
  OBVIOUS
<1>1. main = "body"
  BY AtBody DEF CheckPasses, CheckFails, TouchDone, TouchFails, ProbeDone, CheapApplied,
                CheapFails, SubmitAttempt
<1>2. worker = "idle" /\ queue = <<>>
  BY <1>1 DEF IInv, BodyInv
<1>3. UNCHANGED <<script, worker, session, cut>>
  BY DEF CheckPasses, CheckFails, TouchDone, TouchFails, ProbeDone, CheapApplied, CheapFails,
         SubmitAttempt, Fallback, workerVars
<1>4. (main' = "body" /\ queue' = queue) \/ main' = "waiting" \/ \E s : Leave(s)
  <2>1. CASE CheckPasses \/ TouchDone \/ CheapApplied
    BY <1>1, <2>1 DEF CheckPasses, TouchDone, CheapApplied, GoOn, workerVars
  <2>2. CASE CheckFails
    BY <1>1, <2>2, OtherwiseStep DEF CheckFails
  <2>3. CASE TouchFails
    BY <1>1, <2>3 DEF TouchFails, Raise
  <2>4. CASE ProbeDone \/ CheapFails
    BY <1>1, <2>4 DEF ProbeDone, CheapFails, GoOnWith, Fallback
  <2>5. CASE SubmitAttempt
    BY <2>5 DEF SubmitAttempt
  <2> QED
    BY <2>1, <2>2, <2>3, <2>4, <2>5
<1> QED
  BY <1>2, <1>3, <1>4, BodyStep

\* The answer of an attempt, and the end of the body.
LEMMA AnswerKeeps ==
  IInv /\ (AttemptClean \/ AttemptUnclean \/ AttemptRaised \/ Return) => IInv'
<1> SUFFICES ASSUME IInv, AttemptClean \/ AttemptUnclean \/ AttemptRaised \/ Return
             PROVE  IInv'
  OBVIOUS
<1>1. worker = "idle" /\ queue = <<>>
  BY DEF IInv, BodyInv, AttemptClean, AttemptUnclean, AttemptRaised, Return, Answered
<1>2. UNCHANGED <<script, worker, session, cut>>
  BY DEF AttemptClean, AttemptUnclean, AttemptRaised, Return, workerVars
<1>3. CASE AttemptClean
  <2>1. main' = "body" /\ queue' = queue
    BY <1>3 DEF AttemptClean, workerVars
  <2> QED
    BY <1>1, <1>2, <2>1, BodyStep
<1>4. CASE AttemptUnclean
  <2> DEFINE bad == Head(todo).bad
  <2>1. CASE main' = "body" /\ Judged(bad)
    <3>1. queue' = queue
      BY <2>1 DEF Judged
    <3> QED
      BY <1>1, <1>2, <2>1, <3>1, BodyStep
  <2>2. CASE Otherwise(bad)
    <3>1. (UNCHANGED <<main, queue>>) \/ \E s : Leave(s)
      BY <2>2 DEF Otherwise, Raise, GoOnWith
    <3>2. main = "waiting"
      BY <1>4 DEF AttemptUnclean, Answered
    <3> QED
      BY <1>1, <1>2, <3>1, <3>2, BodyStep
  <2> QED
    BY <1>4, <2>1, <2>2 DEF AttemptUnclean
<1>5. CASE AttemptRaised \/ Return
  <2>1. \E s : Leave(s)
    BY <1>5 DEF AttemptRaised, Return, Raise
  <2> QED
    BY <1>1, <1>2, <2>1, BodyStep
<1> QED
  BY <1>3, <1>4, <1>5

\* Main's way out.
LEMMA CloseKeeps ==
  IInv /\ (SessionDone \/ Release \/ ReleaseGivesUp \/ Join) => IInv'
<1> SUFFICES ASSUME IInv, SessionDone \/ Release \/ ReleaseGivesUp \/ Join PROVE IInv'
  OBVIOUS
<1>1. CASE SessionDone
  BY <1>1 DEF SessionDone, IInv, BodyInv, SessionInv, ReleaseInv, JoinInv, workerVars
<1>2. CASE Release
  BY <1>2 DEF Release, ReleaseRaises, IInv, BodyInv, SessionInv, ReleaseInv, JoinInv, workerVars
<1>3. CASE ReleaseGivesUp
  BY <1>3 DEF ReleaseGivesUp, ReleaseRaises, IInv, BodyInv, SessionInv, ReleaseInv, JoinInv,
              workerVars
<1>4. CASE Join
  BY <1>4 DEF Join, IInv, BodyInv, SessionInv, ReleaseInv, JoinInv, workerVars
<1> QED
  BY <1>1, <1>2, <1>3, <1>4

\* A cancellation, wherever main is.
LEMMA CancelKeeps == IInv /\ Cancel => IInv'
<1> SUFFICES ASSUME IInv, Cancel PROVE IInv'
  OBVIOUS
<1>1. CASE CancelCheap
  <2>1. main = "body" /\ worker = "idle" /\ queue = <<>>
    BY <1>1, AtBody DEF CancelCheap, IInv, BodyInv
  <2>2. UNCHANGED <<script, worker, session, cut, main, queue>>
    BY <1>1 DEF CancelCheap, Fallback
  <2> QED
    BY <2>1, <2>2, BodyStep
<1>2. CASE CancelBody
  <2>1. main = "body" /\ worker = "idle" /\ queue = <<>>
    BY <1>2 DEF CancelBody, IInv, BodyInv
  <2>2. UNCHANGED <<script, worker, session, cut>> /\ Leave("failed")
    BY <1>2 DEF CancelBody
  <2> QED
    BY <2>1, <2>2, BodyStep
<1>3. CASE CancelWait
  <2>1. Sessionless(script) => Direct(script)
    BY DEF Sessionless, Direct
  <2> QED
    BY <1>3, <2>1 DEF CancelWait, StopOwnCall, IInv, BodyInv, SessionInv, ReleaseInv, JoinInv
<1>4. CASE CancelClosing
  BY <1>4 DEF CancelClosing, StopOwnCall, IInv, BodyInv, SessionInv, ReleaseInv, JoinInv
<1>5. CASE CancelReleasing
  BY <1>5 DEF CancelReleasing, IInv, BodyInv, SessionInv, ReleaseInv, JoinInv, workerVars
<1> QED
  BY <1>1, <1>2, <1>3, <1>4, <1>5 DEF Cancel

\* The worker and its batches.
LEMMA WorkerKeeps ==
  IInv /\ (TakeJob \/ SendBatch \/ AttemptEnds \/ BatchEnds \/ GiveUp \/ SessionCloses) => IInv'
<1> SUFFICES ASSUME IInv,
                    TakeJob \/ SendBatch \/ AttemptEnds \/ BatchEnds \/ GiveUp \/ SessionCloses
             PROVE  IInv'
  OBVIOUS
<1>1. UNCHANGED <<script, main, cut, runtime>>
  BY DEF TakeJob, SendBatch, AttemptEnds, BatchEnds, GiveUp, SessionCloses, mainVars
<1>2. CASE TakeJob
  BY <1>1, <1>2 DEF TakeJob, IInv, BodyInv, SessionInv, ReleaseInv, JoinInv
<1>3. CASE SendBatch \/ AttemptEnds \/ GiveUp
  BY <1>1, <1>3 DEF SendBatch, AttemptEnds, GiveUp, IInv, BodyInv, SessionInv, ReleaseInv, JoinInv
<1>4. CASE BatchEnds
  BY <1>1, <1>4 DEF BatchEnds, IInv, BodyInv, SessionInv, ReleaseInv, JoinInv
<1>5. CASE SessionCloses
  BY <1>1, <1>5 DEF SessionCloses, CloseSession, IInv, BodyInv, SessionInv, ReleaseInv, JoinInv
<1> QED
  BY <1>2, <1>3, <1>4, <1>5

\* Main's way out, of every run.
LEMMA IInvHolds == Spec => []IInv
<1>1. IInv /\ [Next]_vars => IInv'
  <2> SUFFICES ASSUME IInv, [Next]_vars PROVE IInv'
    OBVIOUS
  <2>1. CASE UNCHANGED vars
    BY <2>1 DEF vars, mainVars, workerVars, IInv, BodyInv, SessionInv, ReleaseInv, JoinInv
  <2> QED
    BY <2>1, LookKeeps, DoKeeps, AnswerKeeps, CloseKeeps, CancelKeeps, WorkerKeeps DEF Next
<1> QED
  BY <1>1, InitInv, PTL DEF Spec

\* When main has gone through its finally clauses undisturbed, nothing of the run is left:
\* no job, no batch, no open session, and the Runtime is closed.
THEOREM EndsQuietCorrect == Spec => []EndsQuiet
<1>1. IInv => EndsQuiet
  BY DEF IInv, ReleaseInv, JoinInv, EndsQuiet
<1> QED
  BY <1>1, IInvHolds, PTL

-----------------------------------------------------------------------------
(***************************************************************************)
(* Where the script is: each discipline holds of the steps main has yet to *)
(* do, from the condition the state is in.                                 *)
(***************************************************************************)

\* Main is in its body, or waits there for an attempt.
InHand == main \in {"body", "waiting"}

\* The steps left are legal, and while main waits the first of them is the attempt.
StepsInv ==
  /\ InHand => todo \in Seq(Legal) /\ Lands(todo) /\ status # "completed"
  /\ main = "waiting" => todo # <<>> /\ Head(todo).do = "act"

\* Each discipline, from where the script is.
FreshInv ==
  /\ main = "body" => Apt(todo, Fresh) /\ ((current /\ ~batch) \/ Firm(todo, Fresh))
  /\ main = "waiting" => Firm(Tail(todo), Fresh)

\* Where the revision has to be forgotten.
ForgottenInv ==
  /\ main = "body" => Apt(todo, Forgotten) /\ (~current \/ Firm(todo, Forgotten))
  /\ main = "waiting" => Firm(Tail(todo), Forgotten)

\* Where a cheap check has to be followed up.
AuditedInv == InHand => Apt(todo, Audited) /\ (~unaudited \/ Firm(todo, Audited))

\* Where nothing may be in doubt.
SureInv ==
  InHand /\ script # "matrix" => Apt(todo, Sure) /\ (~doubt \/ Firm(todo, Sure))

\* Where nothing may be in doubt at the end, for a report of success.
SettlesInv ==
  InHand /\ status = "running" => Apt(todo, Settles) /\ (~doubt \/ Firm(todo, Settles))

\* The script, from where main is.
ScriptInv ==
  StepsInv /\ FreshInv /\ ForgottenInv /\ AuditedInv /\ SureInv /\ SettlesInv

\* At the start the whole script is to do, and it is orderly.
LEMMA InitScript == Init => ScriptInv
<1> SUFFICES ASSUME Init PROVE ScriptInv
  OBVIOUS
<1>1. script \in DOMAIN Program /\ todo = Program[script]
  BY ScriptsAssumption DEF Init
<1>2. Orderly(todo) /\ (script # "matrix" => Apt(todo, Sure))
  BY <1>1, ScriptsOrderly
<1>3. main = "body" /\ current = FALSE /\ doubt = FALSE /\ unaudited = FALSE
      /\ status = "running"
  BY DEF Init
<1>4. Apt(todo, Fresh)
  BY <1>2, FirmIsApt DEF Orderly
<1> QED
  BY <1>2, <1>3, <1>4 DEF ScriptInv, StepsInv, FreshInv, ForgottenInv, AuditedInv, SureInv,
                          SettlesInv, Orderly, InHand

\* The steps behind the first are legal, and land, too.
LEMMA TailLegal ==
  ASSUME NEW s \in Seq(Legal), s # <<>>, Lands(s)
  PROVE  /\ Tail(s) \in Seq(Legal) /\ Lands(Tail(s)) /\ Behind(Tail(s), s, 1)
         /\ Head(s) = s[1] /\ Head(s) \in Legal /\ 1 \in 1 .. Len(s)
<1> DEFINE t == Tail(s)
           l == Len(t)
<1>1. /\ t \in Seq(Legal) /\ Len(s) = l + 1 /\ l \in Nat
      /\ \A k \in 1 .. l : t[k] = s[k + 1]
      /\ Head(s) = s[1] /\ Head(s) \in Legal
  OBVIOUS
<1> HIDE DEF t
<1>2. Behind(t, s, 1)
  BY <1>1, LegalSteps DEF Behind
<1> HIDE DEF l
<1>3. l = Len(t)
  BY DEF l
<1>4. ASSUME NEW i \in 1 .. l, t[i].bad = "skip" PROVE \E j \in i + 1 .. l : t[j].do = "mark"
  <2> DEFINE m == i + 1
  <2>1. m \in 1 .. Len(s) /\ s[m] = t[i]
    BY <1>1, <1>4
  <2> HIDE DEF m
  <2>2. PICK k \in m + 1 .. Len(s) : s[k].do = "mark"
    BY <1>4, <2>1 DEF Lands
  <2> DEFINE j == k - 1
  <2>3. j \in i + 1 .. l /\ j \in 1 .. l /\ k = j + 1
    BY <1>1, <1>4, <2>2 DEF m
  <2> HIDE DEF j
  <2> QED
    BY <1>1, <2>2, <2>3
<1>5. ASSUME NEW i \in 1 .. l, t[i].bad = "cleanup" PROVE i < l - 1 /\ t[l - 1].do = "act"
  <2> DEFINE m == i + 1
             k == l - 1
  <2>1. m \in 1 .. Len(s) /\ s[m] = t[i]
    BY <1>1, <1>5
  <2> HIDE DEF m
  <2>2. m < Len(s) - 1 /\ s[Len(s) - 1].do = "act"
    BY <1>5, <2>1 DEF Lands
  <2>3. k \in 1 .. l /\ k + 1 = Len(s) - 1 /\ i < k
    BY <1>1, <1>5, <2>2 DEF m
  <2> HIDE DEF k
  <2>4. t[k] = s[k + 1]
    BY <1>1, <2>3
  <2>5. t[k].do = "act" /\ i < k
    BY <2>2, <2>3, <2>4
  <2> QED
    BY <2>5 DEF k
<1>6. Lands(t)
  BY <1>3, <1>4, <1>5 DEF Lands
<1>7. 1 \in 1 .. Len(s)
  BY <1>1 DEF l
<1> QED
  BY <1>1, <1>2, <1>6, <1>7 DEF t

\* A step put before others.
LEMMA ConsLegal ==
  ASSUME NEW x \in Legal, NEW t \in Seq(Legal), x.bad \notin Jumps, Lands(t)
  PROVE  /\ <<x>> \o t \in Seq(Legal) /\ Lands(<<x>> \o t) /\ Behind(t, <<x>> \o t, 1)
         /\ (<<x>> \o t)[1] = x
<1> DEFINE s == <<x>> \o t
           l == Len(t)
<1>1. /\ s \in Seq(Legal) /\ Len(s) = l + 1 /\ l \in Nat
      /\ s[1] = x /\ \A k \in 1 .. l : t[k] = s[k + 1]
  OBVIOUS
<1> HIDE DEF s
<1>2. Behind(t, s, 1)
  BY <1>1, LegalSteps DEF Behind
<1> HIDE DEF l
<1>3. l = Len(t)
  BY DEF l
<1>4. ASSUME NEW m \in 1 .. Len(s), s[m].bad \in Jumps
      PROVE  m - 1 \in 1 .. l /\ s[m] = t[m - 1]
  <2>1. m # 1
    BY <1>1, <1>4
  <2> DEFINE k == m - 1
  <2>2. k \in 1 .. l /\ m = k + 1
    BY <1>1, <1>4, <2>1
  <2> HIDE DEF k
  <2>3. s[m] = t[k]
    BY <1>1, <2>2
  <2> QED
    BY <2>2, <2>3 DEF k
<1>5. ASSUME NEW m \in 1 .. Len(s), s[m].bad = "skip"
      PROVE  \E j \in m + 1 .. Len(s) : s[j].do = "mark"
  <2> DEFINE i == m - 1
  <2>1. i \in 1 .. l /\ s[m] = t[i]
    BY <1>4, <1>5 DEF Jumps
  <2>2. m = i + 1
    BY <1>1, <1>5
  <2> HIDE DEF i
  <2>3. PICK j \in i + 1 .. l : t[j].do = "mark"
    BY <1>3, <1>5, <2>1 DEF Lands
  <2> DEFINE k == j + 1
  <2>4. k \in m + 1 .. Len(s) /\ j \in 1 .. l
    BY <1>1, <2>1, <2>2, <2>3
  <2>5. s[k] = t[j]
    BY <1>1, <2>4
  <2> HIDE DEF k
  <2> QED
    BY <2>3, <2>4, <2>5
<1>6. ASSUME NEW m \in 1 .. Len(s), s[m].bad = "cleanup"
      PROVE  m < Len(s) - 1 /\ s[Len(s) - 1].do = "act"
  <2> DEFINE i == m - 1
  <2>1. i \in 1 .. l /\ s[m] = t[i]
    BY <1>4, <1>6 DEF Jumps
  <2>2. m = i + 1
    BY <1>1, <1>6
  <2> HIDE DEF i
  <2>3. i < l - 1 /\ t[l - 1].do = "act"
    BY <1>3, <1>6, <2>1 DEF Lands
  <2> DEFINE k == l - 1
  <2>4. k \in 1 .. l /\ Len(s) - 1 = k + 1 /\ m < k + 1
    BY <1>1, <2>1, <2>2, <2>3
  <2>5. s[k + 1] = t[k]
    BY <1>1, <2>4
  <2> HIDE DEF k
  <2>6. t[k].do = "act"
    BY <2>3 DEF k
  <2> QED
    BY <2>4, <2>5, <2>6
<1>7. Lands(s)
  BY <1>5, <1>6 DEF Lands
<1> QED
  BY <1>1, <1>2, <1>7 DEF s

\* The steps from a later one on.
LEMMA SuffixLegal ==
  ASSUME NEW s \in Seq(Legal), NEW m \in 1 .. Len(s), Lands(s)
  PROVE  /\ SubSeq(s, m, Len(s)) \in Seq(Legal) /\ Lands(SubSeq(s, m, Len(s)))
         /\ Behind(SubSeq(s, m, Len(s)), s, m - 1)
         /\ SubSeq(s, m, Len(s)) # <<>> /\ SubSeq(s, m, Len(s))[1] = s[m]
<1> DEFINE t == SubSeq(s, m, Len(s))
           l == Len(t)
           d == m - 1
<1>1. /\ t \in Seq(Legal) /\ Len(s) = l + d /\ l \in Nat /\ l >= 1 /\ d \in Nat
      /\ \A k \in 1 .. l : t[k] = s[k + d]
      /\ d + 1 = m
  BY SubSeqProperties
<1> HIDE DEF t, d
<1>2. Behind(t, s, d)
  BY <1>1, LegalSteps DEF Behind
<1> HIDE DEF l
<1>3. l = Len(t)
  BY DEF l
<1>4. ASSUME NEW i \in 1 .. l, t[i].bad = "skip" PROVE \E j \in i + 1 .. l : t[j].do = "mark"
  <2> DEFINE n == i + d
  <2>1. n \in 1 .. Len(s) /\ s[n] = t[i]
    BY <1>1, <1>4
  <2> HIDE DEF n
  <2>2. PICK k \in n + 1 .. Len(s) : s[k].do = "mark"
    BY <1>4, <2>1 DEF Lands
  <2> DEFINE j == k - d
  <2>3. j \in i + 1 .. l /\ j \in 1 .. l /\ k = j + d
    BY <1>1, <1>4, <2>2 DEF n
  <2> HIDE DEF j
  <2> QED
    BY <1>1, <2>2, <2>3
<1>5. ASSUME NEW i \in 1 .. l, t[i].bad = "cleanup" PROVE i < l - 1 /\ t[l - 1].do = "act"
  <2> DEFINE n == i + d
             k == l - 1
  <2>1. n \in 1 .. Len(s) /\ s[n] = t[i]
    BY <1>1, <1>5
  <2> HIDE DEF n
  <2>2. n < Len(s) - 1 /\ s[Len(s) - 1].do = "act"
    BY <1>5, <2>1 DEF Lands
  <2>3. k \in 1 .. l /\ k + d = Len(s) - 1 /\ i < k
    BY <1>1, <1>5, <2>2 DEF n
  <2> HIDE DEF k
  <2>4. t[k] = s[k + d]
    BY <1>1, <2>3
  <2>5. t[k].do = "act" /\ i < k
    BY <2>2, <2>3, <2>4
  <2> QED
    BY <2>5 DEF k
<1>6. Lands(t)
  BY <1>3, <1>4, <1>5 DEF Lands
<1>7. t # <<>> /\ t[1] = s[m]
  <2>1. 1 \in 1 .. l /\ 1 + d = m
    BY <1>1
  <2>2. t[1] = s[1 + d]
    BY <1>1, <2>1
  <2> QED
    BY <1>1, <1>3, <2>1, <2>2
<1> QED
  BY <1>1, <1>2, <1>6, <1>7 DEF t, d

\* A first step that needs the condition has it now.
LEMMA NeedsNow ==
  ASSUME NEW s, NEW D, StepAt(s, 1) \in D.needs, Len(s) \in Nat
  PROVE  ~Firm(s, D)
<1>1. 1 \in 1 .. Len(s) + 1 /\ \A j \in 1 .. 1 - 1 : FALSE
  OBVIOUS
<1> QED
  BY <1>1 DEF Firm, Since

\* What the sets of the disciplines say of a legal step.
LEMMA Sides ==
  ASSUME NEW x \in Legal
  PROVE  /\ x.bad \in Bads /\ x.bad # "completed"
         /\ x \in Fresh.needs <=> x.do = "act" \/ x.bad \in Jumps
         /\ x \in Fresh.restores <=> x.do \in Observing
         /\ x \in Fresh.spoils <=> x.do \notin Observing \cup {"check", "mark"}
         /\ x \in Audited.needs <=> x.do \in {"act", "cheap"} \/ x.bad \in Jumps
         /\ x \in Audited.restores <=> x.do \in {"see", "audit"}
         /\ x \in Audited.spoils <=> x.do = "cheap" /\ x.bad # "recover"
         /\ x \in Sure.needs <=> (x.do = "act" /\ x.op # "home") \/ x.bad \in Jumps
         /\ x \in Sure.restores <=> x.do \in {"see", "confirm"}
         /\ x \in Sure.spoils <=> \/ x.do = "act" /\ x.bad \in {"judged", "reported", "looked"}
                                  \/ x.do = "cheap" /\ x.bad = "recover"
         /\ x \in Forgotten.needs <=> x.do = "probe" /\ x.op = "last"
         /\ x \in Forgotten.restores <=> x.do = "touch" /\ x.op # "drop"
         /\ x \in Forgotten.spoils <=> x.do # "probe" /\ ~(x.do = "touch" /\ x.op # "drop")
         /\ x \notin Settles.needs
         /\ x \in Settles.restores <=> x.do \in {"see", "confirm", "settle"}
         /\ x \in Settles.spoils <=> \/ x.do = "act" /\ x.bad = "judged"
                                     \/ x.do = "cheap" /\ x.bad = "recover"
<1>1. x \in Steps /\ x.do # "end"
  BY DEF Legal
<1>2. x.bad \in Bads /\ x.bad # "completed"
  BY <1>1 DEF Steps, Bads
<1>3. /\ x \in Fresh.needs <=> x.do = "act" \/ x.bad \in Jumps
      /\ x \in Fresh.restores <=> x.do \in Observing
      /\ x \in Fresh.spoils <=> x.do \notin Observing \cup {"check", "mark"}
  BY <1>1 DEF Fresh
<1>4. /\ x \in Audited.needs <=> x.do \in {"act", "cheap"} \/ x.bad \in Jumps
      /\ x \in Audited.restores <=> x.do \in {"see", "audit"}
      /\ x \in Audited.spoils <=> x.do = "cheap" /\ x.bad # "recover"
  BY <1>1 DEF Audited
<1>5. /\ x \in Sure.needs <=> (x.do = "act" /\ x.op # "home") \/ x.bad \in Jumps
      /\ x \in Sure.restores <=> x.do \in {"see", "confirm"}
      /\ x \in Sure.spoils <=> \/ x.do = "act" /\ x.bad \in {"judged", "reported", "looked"}
                               \/ x.do = "cheap" /\ x.bad = "recover"
  BY <1>1 DEF Sure
<1>6. /\ x \in Forgotten.needs <=> x.do = "probe" /\ x.op = "last"
      /\ x \in Forgotten.restores <=> x.do = "touch" /\ x.op # "drop"
      /\ x \in Forgotten.spoils <=> x.do # "probe" /\ ~(x.do = "touch" /\ x.op # "drop")
  BY <1>1 DEF Forgotten
<1>7. /\ x \notin Settles.needs
      /\ x \in Settles.restores <=> x.do \in {"see", "confirm", "settle"}
      /\ x \in Settles.spoils <=> \/ x.do = "act" /\ x.bad = "judged"
                                  \/ x.do = "cheap" /\ x.bad = "recover"
  BY <1>1 DEF Settles
<1> QED
  BY <1>2, <1>3, <1>4, <1>5, <1>6, <1>7

\* Main has done the first step of todo, and each discipline's condition holds as the step
\* promises.
FreshFollows ==
  (Head(todo) \in Fresh.restores \/ (current /\ ~batch /\ Head(todo) \notin Fresh.spoils))
    => current' /\ ~batch'

\* The revision is forgotten where the step says so.
ForgottenFollows ==
  (Head(todo) \in Forgotten.restores \/ (~current /\ Head(todo) \notin Forgotten.spoils))
    => ~current'

\* A full observation ends what was unaudited.
AuditedFollows ==
  (Head(todo) \in Audited.restores \/ (~unaudited /\ Head(todo) \notin Audited.spoils))
    => ~unaudited'

\* What confirms the screen ends the doubt.
SureFollows ==
  (Head(todo) \in Sure.restores \/ (~doubt /\ Head(todo) \notin Sure.spoils)) => ~doubt'

\* The same, while the run may still succeed.
SettlesFollows ==
  status' = "running" =>
    /\ status = "running"
    /\ (Head(todo) \in Settles.restores \/ (~doubt /\ Head(todo) \notin Settles.spoils))
         => ~doubt'

\* What is known of the rest of the steps.
LEMMA RestKeeps ==
  ASSUME ScriptInv, InHand, todo # <<>>
  PROVE  /\ Tail(todo) \in Seq(Legal) /\ Lands(Tail(todo))
         /\ Head(todo) \in Legal
         /\ Apt(Tail(todo), Fresh) /\ Apt(Tail(todo), Forgotten)
         /\ ForgottenFollows => ~current' \/ Firm(Tail(todo), Forgotten)
         /\ FreshFollows => (current' /\ ~batch') \/ Firm(Tail(todo), Fresh)
         /\ Apt(Tail(todo), Audited)
         /\ AuditedFollows => ~unaudited' \/ Firm(Tail(todo), Audited)
         /\ script # "matrix" =>
              /\ Apt(Tail(todo), Sure)
              /\ SureFollows => ~doubt' \/ Firm(Tail(todo), Sure)
         /\ SettlesFollows /\ status' = "running" =>
              Apt(Tail(todo), Settles) /\ (~doubt' \/ Firm(Tail(todo), Settles))
         /\ status = "running" => Apt(Tail(todo), Settles)
<1> DEFINE x == Head(todo)
           t == Tail(todo)
<1>1. /\ todo \in Seq(Legal) /\ Lands(todo)
      /\ main = "body" \/ main = "waiting"
  BY DEF ScriptInv, StepsInv, InHand
<1>2. /\ t \in Seq(Legal) /\ Lands(t) /\ Behind(t, todo, 1) /\ todo[1] = x /\ x \in Legal
  BY <1>1, TailLegal
<1> HIDE DEF x, t
<1>3. ASSUME NEW D, Apt(todo, D)
      PROVE  /\ Apt(t, D) /\ (Firm(todo, D) /\ x \notin D.restores => Firm(t, D))
             /\ x \in D.spoils /\ x \notin D.restores => Firm(t, D)
  BY <1>2, <1>3, TailApt
<1>4. /\ Apt(t, Fresh)
      /\ FreshFollows => (current' /\ ~batch') \/ Firm(t, Fresh)
  <2>1. CASE main = "body"
    <3>1. Apt(todo, Fresh) /\ ((current /\ ~batch) \/ Firm(todo, Fresh))
      BY <2>1 DEF ScriptInv, FreshInv
    <3> QED
      BY <1>3, <3>1 DEF FreshFollows, x
  <2>2. CASE main = "waiting"
    <3>1. Firm(t, Fresh)
      BY <2>2 DEF ScriptInv, FreshInv, t
    <3> QED
      BY <3>1, FirmIsApt
  <2> QED
    BY <1>1, <2>1, <2>2
<1>5. /\ Apt(t, Forgotten)
      /\ ForgottenFollows => ~current' \/ Firm(t, Forgotten)
  <2>1. CASE main = "body"
    <3>1. Apt(todo, Forgotten) /\ (~current \/ Firm(todo, Forgotten))
      BY <2>1 DEF ScriptInv, ForgottenInv
    <3> QED
      BY <1>3, <3>1 DEF ForgottenFollows, x
  <2>2. CASE main = "waiting"
    <3>1. Firm(t, Forgotten)
      BY <2>2 DEF ScriptInv, ForgottenInv, t
    <3> QED
      BY <3>1, FirmIsApt
  <2> QED
    BY <1>1, <2>1, <2>2
<1>6. Apt(t, Audited) /\ (AuditedFollows => ~unaudited' \/ Firm(t, Audited))
  <2>1. Apt(todo, Audited) /\ (~unaudited \/ Firm(todo, Audited))
    BY DEF ScriptInv, AuditedInv
  <2> QED
    BY <1>3, <2>1 DEF AuditedFollows, x
<1>7. ASSUME script # "matrix"
      PROVE  Apt(t, Sure) /\ (SureFollows => ~doubt' \/ Firm(t, Sure))
  <2>1. Apt(todo, Sure) /\ (~doubt \/ Firm(todo, Sure))
    BY <1>7 DEF ScriptInv, SureInv
  <2> QED
    BY <1>3, <2>1 DEF SureFollows, x
<1>8. ASSUME status = "running"
      PROVE  /\ Apt(t, Settles)
             /\ SettlesFollows /\ status' = "running" => ~doubt' \/ Firm(t, Settles)
  <2>1. Apt(todo, Settles) /\ (~doubt \/ Firm(todo, Settles))
    BY <1>8 DEF ScriptInv, SettlesInv
  <2> QED
    BY <1>3, <2>1 DEF SettlesFollows, x
<1>9. SettlesFollows /\ status' = "running" => status = "running"
  BY DEF SettlesFollows
<1> QED
  BY <1>2, <1>4, <1>5, <1>6, <1>7, <1>8, <1>9 DEF x, t

\* Main goes on behind the first of its steps.
LEMMA Advances ==
  ASSUME ScriptInv, InHand, todo # <<>>, main' = "body", todo' = Tail(todo), script' = script,
         status' # "completed",
         FreshFollows, ForgottenFollows, AuditedFollows, SureFollows, SettlesFollows
  PROVE  ScriptInv'
<1>1. StepsInv' /\ FreshInv' /\ ForgottenInv'
  BY RestKeeps DEF StepsInv, FreshInv, ForgottenInv
<1>2. AuditedInv' /\ SureInv' /\ SettlesInv'
  BY RestKeeps DEF AuditedInv, SureInv, SettlesInv
<1> QED
  BY <1>1, <1>2 DEF ScriptInv

\* Main puts an observation in the place of the first of its steps.
LEMMA Replaces ==
  ASSUME ScriptInv, InHand, todo # <<>>, main' = "body", script' = script,
         NEW y \in Legal, todo' = <<y>> \o Tail(todo), y.do \in {"look", "see"},
         status' # "completed", status' = "running" => status = "running",
         Head(todo).do \notin {"probe", "touch"},
         y.do = "see" \/ (AuditedFollows /\ SureFollows /\ SettlesFollows)
  PROVE  ScriptInv'
<1> DEFINE x == Head(todo)
           t == Tail(todo)
           s == <<y>> \o t
<1>1. t \in Seq(Legal) /\ Lands(t) /\ x \in Legal /\ Apt(t, Fresh) /\ Apt(t, Forgotten)
  BY RestKeeps
<1>2. y.bad \notin Jumps /\ y.do # "check" /\ y.do \in Observing
  BY DEF Legal, Observing
<1>3. s \in Seq(Legal) /\ Lands(s) /\ Behind(t, s, 1) /\ s[1] = y
  BY <1>1, <1>2, ConsLegal
<1>4. Firm(t, Forgotten)
  <2>1. x \in Forgotten.spoils /\ x \notin Forgotten.restores
    BY <1>1, Sides
  <2>2. CASE main = "waiting"
    BY <2>2 DEF ScriptInv, ForgottenInv
  <2>3. CASE main = "body"
    <3>1. Behind(t, todo, 1) /\ todo[1] = x
      BY TailLegal DEF ScriptInv, StepsInv
    <3>2. Apt(todo, Forgotten)
      BY <2>3 DEF ScriptInv, ForgottenInv
    <3> HIDE DEF x, t
    <3> QED
      BY <2>1, <3>1, <3>2, TailApt
  <2> QED
    BY <2>2, <2>3 DEF InHand
<1>5. /\ Apt(t, Audited)
      /\ y.do = "look" => ~unaudited' \/ Firm(t, Audited)
      /\ script # "matrix" => /\ Apt(t, Sure)
                              /\ y.do = "look" => ~doubt' \/ Firm(t, Sure)
      /\ status' = "running" => /\ Apt(t, Settles)
                                /\ y.do = "look" => ~doubt' \/ Firm(t, Settles)
  BY RestKeeps
<1> HIDE DEF x, t, s
<1>6. ASSUME NEW D, Apt(t, D), y \notin D.needs, y \notin D.spoils
      PROVE  /\ Apt(s, D) /\ (y \in D.restores => Firm(s, D)) /\ (Firm(t, D) => Firm(s, D))
  BY <1>3, <1>6, ConsApt
<1>7. /\ y \notin Fresh.needs /\ y \in Fresh.restores /\ y \notin Fresh.spoils
      /\ y \notin Audited.needs /\ y \notin Audited.spoils
      /\ y \notin Sure.needs /\ y \notin Sure.spoils
      /\ y \notin Forgotten.needs
      /\ y \notin Settles.needs /\ y \notin Settles.spoils
      /\ y.do = "see" => y \in Audited.restores /\ y \in Sure.restores /\ y \in Settles.restores
  BY <1>2, Sides
<1>8. Firm(s, Fresh) /\ Apt(s, Fresh)
  BY <1>1, <1>6, <1>7
<1>9. Firm(s, Forgotten) /\ Apt(s, Forgotten)
  BY <1>1, <1>3, <1>4, <1>7, ConsApt, FirmIsApt
<1>10. Apt(s, Audited) /\ (~unaudited' \/ Firm(s, Audited))
  BY <1>5, <1>6, <1>7
<1>11. script # "matrix" => Apt(s, Sure) /\ (~doubt' \/ Firm(s, Sure))
  BY <1>5, <1>6, <1>7
<1>12. status' = "running" => Apt(s, Settles) /\ (~doubt' \/ Firm(s, Settles))
  BY <1>5, <1>6, <1>7
<1>13. todo' = s
  BY DEF s, t
<1>14. StepsInv' /\ FreshInv' /\ ForgottenInv'
  BY <1>3, <1>8, <1>9, <1>13 DEF StepsInv, FreshInv, ForgottenInv
<1>15. AuditedInv' /\ SureInv' /\ SettlesInv'
  BY <1>10, <1>11, <1>12, <1>13 DEF AuditedInv, SureInv, SettlesInv
<1> QED
  BY <1>14, <1>15 DEF ScriptInv

\* Main goes on from a later step.
LEMMA JumpsOn ==
  ASSUME ScriptInv, main = "body", todo # <<>>, main' = "body",
         UNCHANGED <<script, doubt, unaudited, current, batch>>,
         Head(todo).bad \in Jumps,
         NEW m \in 1 .. Len(todo), todo' = SubSeq(todo, m, Len(todo)),
         todo[m].do \in {"act", "mark"}, status' \notin {"completed", "running"}
  PROVE  ScriptInv'
<1> DEFINE t == SubSeq(todo, m, Len(todo))
           d == m - 1
<1>1. todo \in Seq(Legal) /\ Lands(todo)
  BY DEF ScriptInv, StepsInv, InHand
<1>2. /\ t \in Seq(Legal) /\ Lands(t) /\ Behind(t, todo, d) /\ t # <<>> /\ t[1] = todo[m]
  BY <1>1, SuffixLegal
<1>3. /\ Head(todo) \in Legal /\ Head(todo) = todo[1] /\ 1 \in 1 .. Len(todo)
      /\ todo[m] \in Legal /\ Len(todo) \in Nat
  BY <1>1, TailLegal
<1> HIDE DEF t, d
<1>4. /\ StepAt(todo, 1) \in Fresh.needs /\ StepAt(todo, 1) \in Audited.needs
      /\ StepAt(todo, 1) \in Sure.needs
      /\ t[1] \in Forgotten.spoils /\ t[1] \notin Forgotten.needs
  BY <1>2, <1>3, Sides DEF StepAt
<1>5. ~Firm(todo, Fresh) /\ ~Firm(todo, Audited) /\ ~Firm(todo, Sure)
  BY <1>3, <1>4, NeedsNow
<1>6. /\ Apt(todo, Fresh) /\ current /\ ~batch /\ Apt(todo, Forgotten)
      /\ Apt(todo, Audited) /\ ~unaudited
      /\ script # "matrix" => Apt(todo, Sure) /\ ~doubt
  BY <1>5 DEF ScriptInv, FreshInv, ForgottenInv, AuditedInv, SureInv, InHand
<1>7. /\ Apt(t, Fresh) /\ Apt(t, Audited) /\ Apt(t, Forgotten) /\ Firm(t, Forgotten)
      /\ script # "matrix" => Apt(t, Sure)
  BY <1>2, <1>4, <1>6, SuffixApt, SuffixFirm
<1>8. todo' = t
  BY DEF t
<1>9. StepsInv' /\ FreshInv' /\ ForgottenInv'
  BY <1>2, <1>6, <1>7, <1>8 DEF StepsInv, FreshInv, ForgottenInv
<1>10. AuditedInv' /\ SureInv' /\ SettlesInv'
  BY <1>6, <1>7, <1>8 DEF AuditedInv, SureInv, SettlesInv
<1> QED
  BY <1>9, <1>10 DEF ScriptInv

\* The launch canary falls back to the home screen.
LEMMA FallsBack ==
  ASSUME ScriptInv, main = "body", todo # <<>>, main' = "body", Head(todo).do = "cheap",
         UNCHANGED <<script, unaudited>>, status' = "fallback",
         todo' = <<Look("raise"), Act("home", "fallback")>>
  PROVE  ScriptInv'
<1> DEFINE s == <<Look("raise"), Act("home", "fallback")>>
<1>1. /\ Len(s) = 2 /\ s[1] = Look("raise") /\ s[2] = Act("home", "fallback")
  OBVIOUS
<1>2. \A i \in 1 .. 2 : i \in {1, 2}
  OBVIOUS
<1>3. /\ Is(s[1], "look", "none", "raise") /\ Is(s[2], "act", "home", "fallback")
  BY <1>1, StepsAre DEF Ops, Bads
<1>4. s \in Seq(Calm)
  <2> HIDE DEF s
  <2>1. \A i \in 1 .. 2 : s[i] \in Calm
    BY <1>2, <1>3 DEF Calm, Legal, Is, Jumps
  <2> QED
    BY <1>1, <2>1, SeqOfSteps DEF s
<1> HIDE DEF s
<1>5. s \in Seq(Steps) /\ s \in Seq(Legal)
  <2>1. Calm \subseteq Steps /\ Calm \subseteq Legal
    BY DEF Calm, Legal
  <2> QED
    BY <1>4, <2>1
<1>6. Firm(s, Fresh)
  <2>1. FreshEverywhere(s)
    BY <1>1, <1>2, <1>3 DEF FreshEverywhere, Is, Observing, Jumps
  <2> QED
    BY <1>5, <2>1, FreshPlaces
<1>7. Orderly(s) /\ Apt(s, Sure)
  BY <1>4, <1>6, CalmOrderly
<1>8. Firm(s, Sure) /\ Firm(s, Forgotten)
  <2>1. /\ \A i \in 1 .. Len(s) : s[i] \notin Sure.needs /\ s[i] \notin Forgotten.needs
        /\ End \notin Sure.needs /\ End \notin Forgotten.needs
    BY <1>1, <1>2, <1>3 DEF Is, Sure, Forgotten, Jumps, End, Step
  <2> QED
    BY <1>5, <2>1, IdleFirm
<1>9. ~unaudited
  <2>1. /\ todo \in Seq(Legal) /\ Lands(todo)
        /\ Apt(todo, Audited) /\ (~unaudited \/ Firm(todo, Audited))
    BY DEF ScriptInv, StepsInv, AuditedInv, InHand
  <2>2. Head(todo) \in Legal /\ Head(todo) = todo[1] /\ 1 \in 1 .. Len(todo) /\ Len(todo) \in Nat
    BY <2>1, TailLegal
  <2>3. StepAt(todo, 1) \in Audited.needs
    BY <2>2, Sides DEF StepAt
  <2> QED
    BY <2>1, <2>2, <2>3, NeedsNow
<1>10. todo' = s
  BY DEF s
<1>11. StepsInv' /\ FreshInv' /\ ForgottenInv'
  <2>1. Apt(s, Fresh) /\ Apt(s, Forgotten)
    BY <1>6, <1>8, FirmIsApt
  <2> QED
    BY <1>6, <1>7, <1>8, <1>10, <2>1 DEF StepsInv, FreshInv, ForgottenInv, Orderly
<1>12. AuditedInv' /\ SureInv' /\ SettlesInv'
  BY <1>7, <1>8, <1>9, <1>10 DEF AuditedInv, SureInv, SettlesInv, Orderly
<1> QED
  BY <1>11, <1>12 DEF ScriptInv

\* Once main has left, the script has nothing more to say.
LEMMA LeavesHand == ASSUME ~InHand' PROVE ScriptInv'
BY DEF ScriptInv, StepsInv, FreshInv, ForgottenInv, AuditedInv, SureInv, SettlesInv, InHand

-----------------------------------------------------------------------------
(***************************************************************************)
(* Main's actions.                                                         *)
(***************************************************************************)

\* The step main takes is a legal one.
LEMMA HeadLegal ==
  ASSUME ScriptInv, InHand, todo # <<>>
  PROVE  /\ Head(todo) \in Legal /\ Head(todo).bad \in Bads /\ Head(todo).bad # "completed"
         /\ status # "completed"
<1>1. todo \in Seq(Legal) /\ Lands(todo) /\ status # "completed"
  BY DEF ScriptInv, StepsInv
<1>2. Head(todo) \in Legal
  BY <1>1, TailLegal
<1> QED
  BY <1>1, <1>2, Sides

\* What main does that it goes on from.
LEMMA GoesOn ==
  ASSUME ScriptInv, main = "body", todo # <<>>, GoOn, script' = script,
         FreshFollows, ForgottenFollows, AuditedFollows, SureFollows,
         status = "running" => SettlesFollows
  PROVE  ScriptInv'
<1>1. status # "completed"
  BY HeadLegal DEF InHand
<1>2. SettlesFollows
  BY DEF GoOn, SettlesFollows
<1> QED
  BY <1>1, <1>2, Advances DEF GoOn, InHand

\* Main leaves its body;
LEMMA LeaveScript == ASSUME NEW s, Leave(s) PROVE ScriptInv'
<1>1. ~InHand'
  BY DEF Leave, InHand
<1> QED
  BY <1>1, LeavesHand

\* with an exception, too.
LEMMA RaiseScript == ASSUME Raise PROVE ScriptInv'
BY LeaveScript DEF Raise

\* Something in a nonempty set of numbers is its least.
LEMMA MinIn ==
  ASSUME NEW S, S \subseteq Nat, S # {}
  PROVE  Min(S) \in S
<1> DEFINE R == OpToRel(<, Nat)
<1>1. PICK m \in S : \A x \in S : ~(<<x, m>> \in R)
  <2> HIDE DEF R
  <2>1. IsWellFoundedOn(R, Nat)
    BY NatLessThanWellFounded DEF R
  <2> QED
    BY <2>1, WFMin
<1>2. \A x \in S : ~(x < m)
  BY <1>1 DEF OpToRel
<1>3. m \in Nat /\ \A x \in S : x \in Nat
  BY <1>1
<1>4. \A x \in S : m <= x
  BY <1>2, <1>3
<1> QED
  BY <1>1, <1>4 DEF Min

\* A step came out badly: main goes on from a later one, or leaves.
LEMMA OtherwiseScript ==
  ASSUME ScriptInv, main = "body", todo # <<>>, NEW bad, bad = Head(todo).bad,
         UNCHANGED <<script, doubt, unaudited>>,
         bad \in Jumps => UNCHANGED <<current, batch>>, Otherwise(bad)
  PROVE  ScriptInv'
<1>1. /\ todo \in Seq(Legal) /\ Lands(todo) /\ Head(todo) \in Legal
      /\ Head(todo) = todo[1] /\ 1 \in 1 .. Len(todo) /\ Len(todo) \in Nat
  <2>1. todo \in Seq(Legal) /\ Lands(todo)
    BY DEF ScriptInv, StepsInv, InHand
  <2> QED
    BY <2>1, TailLegal
<1>2. CASE bad = "cleanup"
  <2> DEFINE m == Len(todo) - 1
  <2>1. 1 < Len(todo) - 1 /\ todo[m].do = "act"
    BY <1>1, <1>2 DEF Lands
  <2>2. m \in 1 .. Len(todo)
    BY <1>1, <2>1
  <2>3. todo' = SubSeq(todo, m, Len(todo)) /\ status' = "blocked" /\ main' = "body"
    BY <1>2 DEF Otherwise, GoOnWith, FromCleanup
  <2>4. Head(todo).bad \in Jumps /\ UNCHANGED <<current, batch>>
    BY <1>2 DEF Jumps
  <2> HIDE DEF m
  <2> QED
    BY <2>1, <2>2, <2>3, <2>4, JumpsOn
<1>3. CASE bad = "skip"
  <2> DEFINE S == {i \in DOMAIN todo : todo[i].do = "mark"}
             m == Min(S)
  <2>1. \E j \in 1 + 1 .. Len(todo) : todo[j].do = "mark"
    BY <1>1, <1>3 DEF Lands
  <2>2. S # {} /\ S \subseteq Nat /\ \A i \in S : i \in 1 .. Len(todo) /\ todo[i].do = "mark"
    BY <1>1, <2>1
  <2>3. m \in S
    <3> HIDE DEF S
    <3> QED
      BY <2>2, MinIn
  <2>4. todo' = SubSeq(todo, m, Len(todo)) /\ status' = "hold" /\ main' = "body"
    BY <1>3 DEF Otherwise, GoOnWith, FromMark
  <2>5. Head(todo).bad \in Jumps /\ UNCHANGED <<current, batch>>
    BY <1>3 DEF Jumps
  <2> HIDE DEF S, m
  <2> QED
    BY <2>2, <2>3, <2>4, <2>5, JumpsOn
<1>4. CASE bad \notin Jumps
  <2>1. Raise \/ Leave(bad)
    BY <1>4 DEF Otherwise, Jumps
  <2> QED
    BY <2>1, RaiseScript, LeaveScript
<1> QED
  BY <1>2, <1>3, <1>4 DEF Jumps

\* The observations main can put in the place of a step.
LEMMA Observations ==
  /\ Observe \in Legal /\ LookTwice \in Legal /\ Look("raise") \in Legal /\ See \in Legal
  /\ Observe.do = "look" /\ LookTwice.do = "look" /\ Look("raise").do = "look" /\ See.do = "see"
<1>1. /\ Is(Observe, "look", "none", "nothing") /\ Is(LookTwice, "look", "none", "again")
      /\ Is(Look("raise"), "look", "none", "raise") /\ Is(See, "see", "none", "raise")
  BY StepsAre DEF Bads
<1> QED
  BY <1>1 DEF Is, Legal, Jumps

\* What is known of a step main takes.
LEMMA BodyAt ==
  ASSUME ScriptInv, NEW do, At(do)
  PROVE  main = "body" /\ InHand /\ todo # <<>> /\ Head(todo).do = do /\ Head(todo) \in Legal
         /\ status # "completed"
BY HeadLegal DEF At, InHand

\* Observations.
LEMMA LooksScript ==
  ScriptInv /\ (LookDone \/ LookBad \/ ObserveFails \/ RecheckRecovers) => ScriptInv'
<1> SUFFICES ASSUME ScriptInv, LookDone \/ LookBad \/ ObserveFails \/ RecheckRecovers
             PROVE  ScriptInv'
  OBVIOUS
<1>1. CASE LookDone
  <2>1. /\ main = "body" /\ todo # <<>> /\ Head(todo).do \in {"look", "recheck"}
        /\ Head(todo) \in Legal
    BY <1>1, BodyAt DEF LookDone
  <2>2. /\ current' /\ ~batch' /\ UNCHANGED <<script, doubt, unaudited>> /\ GoOn
    BY <1>1 DEF LookDone, Observed
  <2>3. FreshFollows /\ ForgottenFollows /\ AuditedFollows /\ SureFollows
    BY <2>1, <2>2, Sides DEF FreshFollows, ForgottenFollows, AuditedFollows, SureFollows
  <2>4. status = "running" => SettlesFollows
    BY <2>1, <2>2, Sides DEF SettlesFollows, GoOn
  <2> QED
    BY <2>1, <2>2, <2>3, <2>4, GoesOn
<1>2. CASE LookBad
  <2>1. /\ main = "body" /\ todo # <<>> /\ Head(todo).do = "look" /\ Head(todo) \in Legal
    BY <1>2, BodyAt DEF LookBad
  <2>2. Head(todo).bad \notin Jumps
    BY <2>1 DEF Legal
  <2>3. UNCHANGED <<script, doubt, unaudited>> /\ Otherwise(Head(todo).bad)
    BY <1>2 DEF LookBad
  <2> QED
    BY <2>1, <2>2, <2>3, OtherwiseScript
<1>3. CASE ObserveFails
  <2>1. /\ main = "body" /\ InHand /\ todo # <<>> /\ Head(todo) \in Legal
        /\ Head(todo).do \in Observing /\ status # "completed"
    BY <1>3, BodyAt DEF ObserveFails, Observing
  <2>2. CASE Head(todo).bad # "again"
    BY <1>3, <2>2, RaiseScript DEF ObserveFails
  <2>3. CASE Head(todo).bad = "again"
    <3>1. Head(todo).do = "look"
      BY <2>1, <2>3 DEF Legal
    <3>2. /\ todo' = <<Observe>> \o Tail(todo) /\ main' = "body"
          /\ UNCHANGED <<script, status, doubt, unaudited>>
      BY <1>3, <2>1, <2>3 DEF ObserveFails, GoOnWith
    <3>3. AuditedFollows /\ SureFollows /\ SettlesFollows
      BY <2>1, <3>1, <3>2, Sides DEF AuditedFollows, SureFollows, SettlesFollows
    <3> QED
      BY <2>1, <3>1, <3>2, <3>3, Observations, Replaces
  <2> QED
    BY <2>2, <2>3
<1>4. CASE RecheckRecovers
  <2>1. /\ main = "body" /\ InHand /\ todo # <<>> /\ Head(todo) \in Legal
        /\ Head(todo).do = "recheck" /\ status # "completed"
    BY <1>4, BodyAt DEF RecheckRecovers
  <2>2. /\ todo' = <<Look("raise")>> \o Tail(todo) /\ main' = "body"
        /\ UNCHANGED <<script, status, doubt, unaudited>>
    BY <1>4, <2>1 DEF RecheckRecovers
  <2>3. AuditedFollows /\ SureFollows /\ SettlesFollows
    BY <2>1, <2>2, Sides DEF AuditedFollows, SureFollows, SettlesFollows
  <2> QED
    BY <2>1, <2>2, <2>3, Observations, Replaces
<1> QED
  BY <1>1, <1>2, <1>3, <1>4

\* Observations that have to show the expected screen.
LEMMA SeesScript ==
  ScriptInv /\ (Corroborated \/ NotCorroborated \/ Confirmed \/ NotConfirmed \/ Settled)
    => ScriptInv'
<1> SUFFICES ASSUME ScriptInv,
                    Corroborated \/ NotCorroborated \/ Confirmed \/ NotConfirmed \/ Settled
             PROVE  ScriptInv'
  OBVIOUS
<1>1. CASE Corroborated
  <2>1. /\ main = "body" /\ todo # <<>> /\ Head(todo).do \in {"see", "audit"}
        /\ Head(todo) \in Legal
    BY <1>1, BodyAt DEF Corroborated
  <2>2. /\ current' /\ ~batch' /\ script' = script /\ ~doubt' /\ ~unaudited' /\ GoOn
    BY <1>1 DEF Corroborated, Observed
  <2>3. FreshFollows /\ ForgottenFollows /\ AuditedFollows /\ SureFollows
    BY <2>1, <2>2, Sides DEF FreshFollows, ForgottenFollows, AuditedFollows, SureFollows
  <2>4. status = "running" => SettlesFollows
    BY <2>2 DEF SettlesFollows
  <2> QED
    BY <2>1, <2>2, <2>3, <2>4, GoesOn
<1>2. CASE NotCorroborated
  <2>1. /\ main = "body" /\ todo # <<>> /\ Head(todo).do \in {"see", "audit"}
        /\ Head(todo) \in Legal
    BY <1>2, BodyAt DEF NotCorroborated
  <2>2. CASE MustCorroborate
    BY <1>2, <2>2, RaiseScript DEF NotCorroborated
  <2>3. CASE ~MustCorroborate
    <3>1. Head(todo).do = "audit" /\ ~unaudited
      BY <2>1, <2>3 DEF MustCorroborate, At
    <3>2. /\ current' /\ ~batch' /\ UNCHANGED <<script, doubt, unaudited>> /\ GoOn
      BY <1>2, <2>3 DEF NotCorroborated, Observed
    <3>3. FreshFollows /\ ForgottenFollows /\ AuditedFollows /\ SureFollows
      BY <2>1, <3>1, <3>2, Sides DEF FreshFollows, ForgottenFollows, AuditedFollows, SureFollows
    <3>4. status = "running" => SettlesFollows
      BY <2>1, <3>1, <3>2, Sides DEF SettlesFollows, GoOn
    <3> QED
      BY <2>1, <3>2, <3>3, <3>4, GoesOn
  <2> QED
    BY <2>2, <2>3
<1>3. CASE Confirmed
  <2>1. /\ main = "body" /\ todo # <<>> /\ Head(todo).do = "confirm" /\ Head(todo) \in Legal
    BY <1>3, BodyAt DEF Confirmed
  <2>2. /\ current' /\ ~batch' /\ UNCHANGED <<script, unaudited>> /\ ~doubt' /\ GoOn
    BY <1>3 DEF Confirmed, Observed
  <2>3. FreshFollows /\ ForgottenFollows /\ AuditedFollows /\ SureFollows
    BY <2>1, <2>2, Sides DEF FreshFollows, ForgottenFollows, AuditedFollows, SureFollows
  <2>4. status = "running" => SettlesFollows
    BY <2>2 DEF SettlesFollows
  <2> QED
    BY <2>1, <2>2, <2>3, <2>4, GoesOn
<1>4. CASE NotConfirmed
  BY <1>4, RaiseScript DEF NotConfirmed
<1>5. CASE Settled
  <2>1. /\ main = "body" /\ InHand /\ todo # <<>> /\ Head(todo).do = "settle"
        /\ Head(todo) \in Legal /\ status # "completed"
    BY <1>5, BodyAt DEF Settled
  <2>2. /\ current' /\ ~batch' /\ UNCHANGED <<script, main, unaudited>> /\ todo' = Tail(todo)
        /\ (~doubt' /\ UNCHANGED status) \/ (status' = "hold" /\ UNCHANGED doubt)
    BY <1>5 DEF Settled, Observed
  <2>3. FreshFollows /\ ForgottenFollows /\ AuditedFollows /\ SureFollows
    BY <2>1, <2>2, Sides DEF FreshFollows, ForgottenFollows, AuditedFollows, SureFollows
  <2>4. SettlesFollows /\ status' # "completed" /\ main' = "body"
    BY <2>1, <2>2 DEF SettlesFollows
  <2> QED
    BY <2>1, <2>2, <2>3, <2>4, Advances
<1> QED
  BY <1>1, <1>2, <1>3, <1>4, <1>5

\* Checks, touches and probes.
LEMMA ChecksScript ==
  ScriptInv /\ (CheckPasses \/ CheckFails \/ TouchDone \/ TouchFails \/ ProbeDone) => ScriptInv'
<1> SUFFICES ASSUME ScriptInv, CheckPasses \/ CheckFails \/ TouchDone \/ TouchFails \/ ProbeDone
             PROVE  ScriptInv'
  OBVIOUS
<1>1. CASE CheckPasses
  <2>1. /\ main = "body" /\ todo # <<>> /\ Head(todo).do \in {"check", "mark"}
        /\ Head(todo) \in Legal
    BY <1>1, BodyAt DEF CheckPasses
  <2>2. /\ UNCHANGED <<script, doubt, unaudited, batch, current>> /\ GoOn
    BY <1>1 DEF CheckPasses
  <2>3. FreshFollows /\ ForgottenFollows /\ AuditedFollows /\ SureFollows
    BY <2>1, <2>2, Sides DEF FreshFollows, ForgottenFollows, AuditedFollows, SureFollows, Observing
  <2>4. status = "running" => SettlesFollows
    BY <2>1, <2>2, Sides DEF SettlesFollows, GoOn
  <2> QED
    BY <2>1, <2>2, <2>3, <2>4, GoesOn
<1>2. CASE CheckFails
  <2>1. main = "body" /\ todo # <<>>
    BY <1>2, BodyAt DEF CheckFails
  <2>2. UNCHANGED <<script, doubt, unaudited, current, batch>> /\ Otherwise(Head(todo).bad)
    BY <1>2 DEF CheckFails
  <2> QED
    BY <2>1, <2>2, OtherwiseScript
<1>3. CASE TouchDone
  <2>1. /\ main = "body" /\ todo # <<>> /\ Head(todo).do = "touch" /\ Head(todo) \in Legal
    BY <1>3, BodyAt DEF TouchDone
  <2>2. /\ UNCHANGED <<script, doubt, unaudited>> /\ GoOn
        /\ Head(todo).op # "drop" => ~current'
    BY <1>3 DEF TouchDone
  <2>3. FreshFollows /\ ForgottenFollows /\ AuditedFollows /\ SureFollows
    BY <2>1, <2>2, Sides DEF FreshFollows, ForgottenFollows, AuditedFollows, SureFollows, Observing
  <2>4. status = "running" => SettlesFollows
    BY <2>1, <2>2, Sides DEF SettlesFollows, GoOn
  <2> QED
    BY <2>1, <2>2, <2>3, <2>4, GoesOn
<1>4. CASE TouchFails
  BY <1>4, RaiseScript DEF TouchFails
<1>5. CASE ProbeDone
  <2>1. /\ main = "body" /\ InHand /\ todo # <<>> /\ Head(todo).do = "probe"
        /\ Head(todo) \in Legal /\ status # "completed"
    BY <1>5, BodyAt DEF ProbeDone
  <2>2. /\ UNCHANGED <<script, main, doubt, unaudited, current>> /\ todo' = Tail(todo)
        /\ status' \in {status, "hold"}
    BY <1>5 DEF ProbeDone, GoOnWith
  <2>3. FreshFollows /\ ForgottenFollows /\ AuditedFollows /\ SureFollows
    BY <2>1, <2>2, Sides DEF FreshFollows, ForgottenFollows, AuditedFollows, SureFollows, Observing
  <2>4. SettlesFollows /\ status' # "completed"
    BY <2>1, <2>2, Sides DEF SettlesFollows
  <2> QED
    BY <2>1, <2>2, <2>3, <2>4, Advances
<1> QED
  BY <1>1, <1>2, <1>3, <1>4, <1>5

\* What follows a cheap check that failed.
LEMMA FallbackScript ==
  ASSUME ScriptInv, At("cheap"), Fallback(Head(todo).bad)
  PROVE  ScriptInv'
<1>1. /\ main = "body" /\ InHand /\ todo # <<>> /\ Head(todo).do = "cheap"
      /\ Head(todo) \in Legal /\ status # "completed"
  BY BodyAt
<1>2. UNCHANGED <<script, main, unaudited>> /\ doubt' = TRUE
  BY DEF Fallback
<1>3. CASE todo' = <<See>> \o Tail(todo) /\ UNCHANGED status
  BY <1>1, <1>2, <1>3, Observations, Replaces
<1>4. CASE todo' = <<Look("raise"), Act("home", "fallback")>> /\ status' = "fallback"
  BY <1>1, <1>2, <1>4, FallsBack
<1>5. CASE Head(todo).bad = "recover" /\ todo' = Tail(todo) /\ UNCHANGED status
  <2>1. FreshFollows /\ ForgottenFollows /\ AuditedFollows /\ SureFollows /\ SettlesFollows
    BY <1>1, <1>2, <1>5, Sides DEF FreshFollows, ForgottenFollows, AuditedFollows, SureFollows,
                                   SettlesFollows, Observing
  <2> QED
    BY <1>1, <1>2, <1>5, <2>1, Advances
<1> QED
  BY <1>3, <1>4, <1>5 DEF Fallback

\* Cheap checks.
LEMMA CheapsScript == ScriptInv /\ (CheapApplied \/ CheapFails) => ScriptInv'
<1> SUFFICES ASSUME ScriptInv, CheapApplied \/ CheapFails PROVE ScriptInv'
  OBVIOUS
<1>1. CASE CheapApplied
  <2>1. /\ main = "body" /\ todo # <<>> /\ Head(todo).do = "cheap" /\ Head(todo) \in Legal
    BY <1>1, BodyAt DEF CheapApplied
  <2>2. /\ UNCHANGED <<script, doubt>> /\ GoOn
        /\ Head(todo).bad = "recover" => ~unaudited'
    BY <1>1 DEF CheapApplied
  <2>3. FreshFollows /\ ForgottenFollows /\ AuditedFollows /\ SureFollows
    BY <2>1, <2>2, Sides DEF FreshFollows, ForgottenFollows, AuditedFollows, SureFollows, Observing
  <2>4. status = "running" => SettlesFollows
    BY <2>1, <2>2, Sides DEF SettlesFollows, GoOn
  <2> QED
    BY <2>1, <2>2, <2>3, <2>4, GoesOn
<1>2. CASE CheapFails
  BY <1>2, FallbackScript DEF CheapFails
<1> QED
  BY <1>1, <1>2

\* Attempts and their answers, and the end of the body.
LEMMA AttemptsScript ==
  ScriptInv /\ (SubmitAttempt \/ AttemptClean \/ AttemptUnclean \/ AttemptRaised \/ Return)
    => ScriptInv'
<1> SUFFICES ASSUME ScriptInv,
                    SubmitAttempt \/ AttemptClean \/ AttemptUnclean \/ AttemptRaised \/ Return
             PROVE  ScriptInv'
  OBVIOUS
<1>1. CASE SubmitAttempt
  <2>1. /\ main = "body" /\ InHand /\ todo # <<>> /\ Head(todo).do = "act"
        /\ Head(todo) \in Legal
    BY <1>1, BodyAt DEF SubmitAttempt
  <2>2. /\ UNCHANGED <<script, todo, status, doubt, unaudited>> /\ main' = "waiting"
    BY <1>1 DEF SubmitAttempt
  <2>3. /\ todo \in Seq(Legal) /\ Lands(todo) /\ Behind(Tail(todo), todo, 1)
        /\ Head(todo) = todo[1]
    BY <2>1, TailLegal DEF ScriptInv, StepsInv
  <2>4. /\ todo[1] \in Fresh.spoils /\ todo[1] \notin Fresh.restores
        /\ todo[1] \in Forgotten.spoils /\ todo[1] \notin Forgotten.restores
    BY <2>1, <2>3, Sides DEF Observing
  <2>5. Apt(todo, Fresh) /\ Apt(todo, Forgotten)
    BY <2>1 DEF ScriptInv, FreshInv, ForgottenInv
  <2>6. Firm(Tail(todo), Fresh) /\ Firm(Tail(todo), Forgotten)
    BY <2>3, <2>4, <2>5, TailApt
  <2>7. StepsInv' /\ FreshInv' /\ ForgottenInv'
    BY <2>1, <2>2, <2>6 DEF ScriptInv, StepsInv, FreshInv, ForgottenInv, InHand
  <2>8. AuditedInv' /\ SureInv' /\ SettlesInv'
    BY <2>1, <2>2 DEF ScriptInv, AuditedInv, SureInv, SettlesInv, InHand
  <2> QED
    BY <2>7, <2>8 DEF ScriptInv
<1>2. ASSUME Answered
      PROVE  /\ main = "waiting" /\ InHand /\ todo # <<>> /\ Head(todo).do = "act"
             /\ Head(todo) \in Legal /\ status # "completed"
  BY <1>2, HeadLegal DEF Answered, ScriptInv, StepsInv, InHand
<1>3. CASE AttemptClean
  <2>1. /\ main' = "body" /\ todo' = Tail(todo) /\ Answered
        /\ UNCHANGED <<script, status, doubt, unaudited>>
    BY <1>3 DEF AttemptClean
  <2>2. FreshFollows /\ ForgottenFollows /\ AuditedFollows /\ SureFollows /\ SettlesFollows
    BY <1>2, <2>1, Sides DEF FreshFollows, ForgottenFollows, AuditedFollows, SureFollows,
                             SettlesFollows, Observing
  <2> QED
    BY <1>2, <2>1, <2>2, Advances
<1>4. CASE AttemptUnclean
  <2> DEFINE x == Head(todo)
  <2>1. Answered /\ doubt' = TRUE /\ UNCHANGED <<script, unaudited>>
    BY <1>4 DEF AttemptUnclean
  <2>2. CASE x.bad \in {"judged", "reported", "looked"}
    <3>1. main' = "body" /\ Judged(x.bad)
      BY <1>4, <2>2 DEF AttemptUnclean
    <3>2. /\ x.bad # "looked" => todo' = <<>> \o Tail(todo)
          /\ x.bad = "looked" => todo' = <<LookTwice>> \o Tail(todo)
          /\ x.bad = "judged" => status' = status
          /\ x.bad # "judged" => status' = "hold"
      BY <3>1 DEF Judged
    <3>3. FreshFollows /\ ForgottenFollows /\ AuditedFollows /\ SureFollows /\ SettlesFollows
      BY <1>2, <2>1, <2>2, <3>2, Sides DEF FreshFollows, ForgottenFollows, AuditedFollows,
                                           SureFollows, SettlesFollows, Observing
    <3>4. status' # "completed" /\ (status' = "running" => status = "running")
      BY <1>2, <2>1, <3>2
    <3>5. CASE x.bad = "looked"
      BY <1>2, <2>1, <3>1, <3>2, <3>3, <3>4, <3>5, Observations, Replaces
    <3>6. CASE x.bad # "looked"
      <4>1. Tail(todo) \in Seq(Legal)
        BY <1>2, <2>1, RestKeeps
      <4>2. todo' = Tail(todo)
        BY <3>2, <3>6, <4>1, ConcatEmptySeq
      <4> QED
        BY <1>2, <2>1, <3>1, <3>3, <3>4, <4>2, Advances
    <3> QED
      BY <3>5, <3>6
  <2>3. CASE x.bad \notin {"judged", "reported", "looked"}
    <3>1. Otherwise(x.bad)
      BY <1>4, <2>3 DEF AttemptUnclean
    <3>2. x.bad \notin Jumps
      BY <1>2, <2>1 DEF Legal
    <3>3. Raise \/ Leave(x.bad)
      BY <3>1, <3>2 DEF Otherwise, Jumps
    <3> QED
      BY <3>3, RaiseScript, LeaveScript
  <2> QED
    BY <2>2, <2>3
<1>5. CASE AttemptRaised
  BY <1>5, RaiseScript DEF AttemptRaised
<1>6. CASE Return
  BY <1>6, LeaveScript DEF Return
<1> QED
  BY <1>1, <1>3, <1>4, <1>5, <1>6

\* Main's way out, and its cancellation.
LEMMA OutScript ==
  ScriptInv /\ (SessionDone \/ Release \/ ReleaseGivesUp \/ Join \/ Cancel) => ScriptInv'
<1> SUFFICES ASSUME ScriptInv, SessionDone \/ Release \/ ReleaseGivesUp \/ Join \/ Cancel
             PROVE  ScriptInv'
  OBVIOUS
<1>1. CASE SessionDone \/ Release \/ ReleaseGivesUp \/ Join
  <2>1. ~InHand'
    BY <1>1 DEF SessionDone, Release, ReleaseGivesUp, Join, InHand
  <2> QED
    BY <2>1, LeavesHand
<1>2. CASE CancelCheap
  BY <1>2, FallbackScript DEF CancelCheap
<1>3. CASE CancelBody
  BY <1>3, LeaveScript DEF CancelBody
<1>4. CASE CancelWait \/ CancelClosing \/ CancelReleasing
  <2>1. ~InHand'
    BY <1>4 DEF CancelWait, CancelClosing, CancelReleasing, InHand
  <2> QED
    BY <2>1, LeavesHand
<1> QED
  BY <1>1, <1>2, <1>3, <1>4 DEF Cancel

\* The way out: which jobs the worker can have, and what the session and the status say,
\* at each stage of it.
JobsInv ==
  /\ main = "waiting" => queue \in {<<>>, <<"attempt">>} /\ worker # "close"
  /\ ~InHand => queue \in {<<>>, <<"close">>}
  /\ worker = "close" => queue = <<>> /\ ~InHand
  /\ Sessionless(script) => session = "none" /\ worker # "close" /\ main # "closing"
  /\ Sessionless(script) => queue \in {<<>>, <<"attempt">>}

\* A session that is closed, or failed to, has nothing left to run; main does not go on
\* undisturbed otherwise.
ClosedInv ==
  /\ session \in {"none", "open", "closed", "failed"}
  /\ session \in {"closed", "failed"} => ~InHand /\ queue = <<>> /\ worker = "idle"
  /\ main \in {"releasing", "joining", "ended"} /\ ~raised =>
       session \in {"none", "closed"} /\ worker = "idle" /\ queue = <<>>

\* Success is reported of a run that left nothing in doubt, and in a file only behind a
\* session that closed.
CompletedInv ==
  /\ status = "completed" => ~InHand /\ ~doubt /\ ~unaudited
  /\ persisted = "completed" => session = "closed" /\ ~doubt /\ ~unaudited
  /\ persisted # "none" => Persists(script)

\* All of the way out.
OutInv == JobsInv /\ ClosedInv /\ CompletedInv

\* The worker and its batches leave the script where it is; while main goes through its
\* body, a batch can only end.
LEMMA WorkerScript ==
  ScriptInv /\ IInv /\ OutInv
    /\ (TakeJob \/ SendBatch \/ AttemptEnds \/ BatchEnds \/ GiveUp \/ SessionCloses)
    => ScriptInv'
<1> SUFFICES ASSUME ScriptInv, IInv, OutInv,
                    TakeJob \/ SendBatch \/ AttemptEnds \/ BatchEnds \/ GiveUp \/ SessionCloses
             PROVE  ScriptInv'
  OBVIOUS
<1>1. CASE SessionCloses
  <2>1. UNCHANGED main /\ worker = "close"
    BY <1>1 DEF SessionCloses
  <2>2. ~InHand'
    BY <2>1 DEF OutInv, JobsInv, InHand
  <2> QED
    BY <2>2, LeavesHand
<1>2. CASE TakeJob \/ SendBatch \/ AttemptEnds \/ BatchEnds \/ GiveUp
  <2>1. UNCHANGED <<script, main, todo, status, doubt, unaudited>>
    BY <1>2 DEF TakeJob, SendBatch, AttemptEnds, BatchEnds, GiveUp, mainVars
  <2>2. main = "body" => (current /\ ~batch => current' /\ ~batch') /\ (~current => ~current')
    <3> SUFFICES ASSUME main = "body"
                 PROVE  (current /\ ~batch => current' /\ ~batch') /\ (~current => ~current')
      OBVIOUS
    <3>1. worker = "idle" /\ queue = <<>>
      BY DEF IInv, BodyInv
    <3>2. ~TakeJob
      BY <3>1 DEF TakeJob
    <3>3. "idle" # "attempt" /\ "idle" # "listening"
      OBVIOUS
    <3>31. ~SendBatch /\ ~AttemptEnds
      BY <3>1, <3>3 DEF SendBatch, AttemptEnds
    <3>32. ~GiveUp
      BY <3>1, <3>3 DEF GiveUp
    <3>4. BatchEnds
      BY <1>2, <3>2, <3>31, <3>32
    <3> QED
      BY <3>4 DEF BatchEnds
  <2>3. StepsInv' /\ FreshInv' /\ ForgottenInv'
    BY <2>1, <2>2 DEF ScriptInv, StepsInv, FreshInv, ForgottenInv, InHand
  <2>4. AuditedInv' /\ SureInv' /\ SettlesInv'
    BY <2>1 DEF ScriptInv, AuditedInv, SureInv, SettlesInv, InHand
  <2> QED
    BY <2>3, <2>4 DEF ScriptInv
<1> QED
  BY <1>1, <1>2

-----------------------------------------------------------------------------
(***************************************************************************)
(* The session, the status and the report at each stage.                   *)
(***************************************************************************)

\* It holds at the start.
LEMMA InitOut == Init => OutInv
BY DEF Init, OutInv, JobsInv, ClosedInv, CompletedInv, InHand

\* A queue of one job.
LEMMA OneJob ==
  /\ Append(<<>>, "close") = <<"close">> /\ Append(<<>>, "attempt") = <<"attempt">>
  /\ \A job : <<job>> # <<>> /\ Head(<<job>>) = job /\ Tail(<<job>>) = <<>>
OBVIOUS

\* A step of main while no job is under way: it goes on, submits an attempt or leaves.
LEMMA OutStep ==
  ASSUME OutInv, InHand, worker = "idle", queue = <<>>,
         UNCHANGED <<script, worker, session, persisted>>,
         status' # "completed" \/ (main' \notin {"body", "waiting"} /\ ~doubt' /\ ~unaudited'),
         \/ main' = "body" /\ queue' = queue
         \/ main' = "waiting" /\ queue' \in {<<>>, <<"attempt">>}
         \/ \E s : Leave(s)
  PROVE  OutInv'
<1>1. session \in {"none", "open"} /\ (Sessionless(script) => session = "none")
      /\ persisted # "completed" /\ (persisted # "none" => Persists(script))
  BY DEF OutInv, JobsInv, ClosedInv, CompletedInv
<1>2. CASE main' = "body" /\ queue' = queue
  BY <1>1, <1>2 DEF OutInv, JobsInv, ClosedInv, CompletedInv, InHand
<1>3. CASE main' = "waiting" /\ queue' \in {<<>>, <<"attempt">>}
  BY <1>1, <1>3 DEF OutInv, JobsInv, ClosedInv, CompletedInv, InHand
<1>4. CASE \E s : Leave(s)
  <2>1. PICK s : Leave(s)
    BY <1>4
  <2>2. CASE Sessionless(script)
    <3>1. main' = "releasing" /\ queue' = <<>>
      BY <2>1, <2>2 DEF Leave
    <3> QED
      BY <1>1, <2>2, <3>1 DEF OutInv, JobsInv, ClosedInv, CompletedInv, InHand
  <2>3. CASE ~Sessionless(script)
    <3>1. main' = "closing" /\ queue' = <<"close">>
      BY <2>1, <2>3, OneJob DEF Leave
    <3> QED
      BY <1>1, <2>3, <3>1 DEF OutInv, JobsInv, ClosedInv, CompletedInv, InHand
  <2> QED
    BY <2>2, <2>3
<1> QED
  BY <1>2, <1>3, <1>4

\* What follows a bad step is never "completed".
LEMMA OtherwiseOut ==
  ASSUME NEW bad \in Bads, bad # "completed", status # "completed", Otherwise(bad)
  PROVE  /\ status' # "completed"
         /\ (UNCHANGED <<main, queue>>) \/ \E s : Leave(s)
<1>1. CASE bad \in Jumps
  BY <1>1 DEF Otherwise, GoOnWith, Jumps
<1>2. CASE bad \notin Jumps
  <2>1. Leave("failed") \/ Leave(bad)
    BY <1>2 DEF Otherwise, Raise, Jumps
  <2> QED
    BY <2>1 DEF Leave
<1> QED
  BY <1>1, <1>2

\* Observations go on or leave.
LEMMA LookOut ==
  ScriptInv /\ IInv /\ OutInv
    /\ (LookDone \/ LookBad \/ ObserveFails \/ RecheckRecovers \/ Corroborated
        \/ NotCorroborated \/ Confirmed \/ NotConfirmed \/ Settled) => OutInv'
<1> SUFFICES ASSUME ScriptInv, IInv, OutInv,
                    LookDone \/ LookBad \/ ObserveFails \/ RecheckRecovers \/ Corroborated
                      \/ NotCorroborated \/ Confirmed \/ NotConfirmed \/ Settled
             PROVE  OutInv'
  OBVIOUS
<1>1. main = "body" /\ InHand /\ todo # <<>> /\ Head(todo) \in Legal /\ status # "completed"
      /\ Head(todo).bad \in Bads /\ Head(todo).bad # "completed"
  <2>1. \E do : At(do)
    BY DEF LookDone, LookBad, ObserveFails, RecheckRecovers, Corroborated, NotCorroborated,
           Confirmed, NotConfirmed, Settled
  <2> QED
    BY <2>1, BodyAt, HeadLegal
<1>2. worker = "idle" /\ queue = <<>>
  BY <1>1 DEF IInv, BodyInv
<1>3. UNCHANGED <<script, worker, session, persisted>>
  BY DEF LookDone, LookBad, ObserveFails, RecheckRecovers, Corroborated,
         NotCorroborated, Confirmed, NotConfirmed, Settled, workerVars
<1>4. /\ status' # "completed"
      /\ (main' = "body" /\ queue' = queue) \/ \E s : Leave(s)
  <2>1. CASE LookDone \/ RecheckRecovers \/ Corroborated \/ Confirmed \/ Settled
    BY <1>1, <2>1 DEF LookDone, RecheckRecovers, Corroborated, Confirmed, Settled, GoOn, workerVars
  <2>2. CASE LookBad
    BY <1>1, <2>2, OtherwiseOut DEF LookBad
  <2>3. CASE ObserveFails
    BY <1>1, <2>3 DEF ObserveFails, GoOnWith, Raise, Leave
  <2>4. CASE NotCorroborated \/ NotConfirmed
    BY <1>1, <2>4 DEF NotCorroborated, NotConfirmed, GoOn, Raise, Leave
  <2> QED
    BY <2>1, <2>2, <2>3, <2>4
<1> QED
  BY <1>1, <1>2, <1>3, <1>4, OutStep

\* So do checks, touches, probes and cheap checks; an attempt is submitted.
LEMMA DoOut ==
  ScriptInv /\ IInv /\ OutInv
    /\ (CheckPasses \/ CheckFails \/ TouchDone \/ TouchFails \/ ProbeDone \/ CheapApplied
        \/ CheapFails \/ SubmitAttempt) => OutInv'
<1> SUFFICES ASSUME ScriptInv, IInv, OutInv,
                    CheckPasses \/ CheckFails \/ TouchDone \/ TouchFails \/ ProbeDone
                      \/ CheapApplied \/ CheapFails \/ SubmitAttempt
             PROVE  OutInv'
  OBVIOUS
<1>1. main = "body" /\ InHand /\ todo # <<>> /\ Head(todo) \in Legal /\ status # "completed"
      /\ Head(todo).bad \in Bads /\ Head(todo).bad # "completed"
  <2>1. \E do : At(do)
    BY DEF CheckPasses, CheckFails, TouchDone, TouchFails, ProbeDone, CheapApplied,
           CheapFails, SubmitAttempt
  <2> QED
    BY <2>1, BodyAt, HeadLegal
<1>2. worker = "idle" /\ queue = <<>>
  BY <1>1 DEF IInv, BodyInv
<1>3. UNCHANGED <<script, worker, session, persisted>>
  BY DEF CheckPasses, CheckFails, TouchDone, TouchFails, ProbeDone, CheapApplied, CheapFails,
         SubmitAttempt, Fallback, workerVars
<1>4. /\ status' # "completed"
      /\ \/ main' = "body" /\ queue' = queue
         \/ main' = "waiting" /\ queue' \in {<<>>, <<"attempt">>}
         \/ \E s : Leave(s)
  <2>1. CASE CheckPasses \/ TouchDone \/ CheapApplied
    BY <1>1, <2>1 DEF CheckPasses, TouchDone, CheapApplied, GoOn, workerVars
  <2>2. CASE CheckFails
    BY <1>1, <2>2, OtherwiseOut DEF CheckFails
  <2>3. CASE TouchFails
    BY <1>1, <2>3 DEF TouchFails, Raise, Leave
  <2>4. CASE ProbeDone
    BY <1>1, <2>4 DEF ProbeDone, GoOnWith
  <2>5. CASE CheapFails
    BY <1>1, <2>5 DEF CheapFails, Fallback
  <2>6. CASE SubmitAttempt
    BY <1>1, <1>2, <2>6, OneJob DEF SubmitAttempt
  <2> QED
    BY <2>1, <2>2, <2>3, <2>4, <2>5, <2>6
<1> QED
  BY <1>1, <1>2, <1>3, <1>4, OutStep

\* A report that comes out "completed": the last step left nothing in doubt.
LEMMA ReturnsClean ==
  ASSUME ScriptInv, main = "body", todo = <<>>
  PROVE  ~unaudited /\ (status = "running" => ~doubt)
<1>1. StepAt(todo, 1) = End /\ Len(todo) \in Nat
  BY DEF StepAt
<1>2. End \in Steps
  BY DEF End, Step, Steps, Dos, Ops, Bads
<1>3. End \in Audited.needs /\ End \in Settles.needs
  BY <1>2 DEF End, Step, Audited, Settles
<1>4. ~Firm(todo, Audited) /\ ~Firm(todo, Settles)
  BY <1>1, <1>3, NeedsNow
<1> QED
  BY <1>4 DEF ScriptInv, AuditedInv, SettlesInv, InHand

\* The answer of an attempt, and the end of the body.
LEMMA AnswerOut ==
  ScriptInv /\ IInv /\ OutInv /\ (AttemptClean \/ AttemptUnclean \/ AttemptRaised \/ Return)
    => OutInv'
<1> SUFFICES ASSUME ScriptInv, IInv, OutInv,
                    AttemptClean \/ AttemptUnclean \/ AttemptRaised \/ Return
             PROVE  OutInv'
  OBVIOUS
<1>1. worker = "idle" /\ queue = <<>> /\ InHand
  BY DEF IInv, BodyInv, AttemptClean, AttemptUnclean, AttemptRaised, Return, Answered, InHand
<1>2. UNCHANGED <<script, worker, session, persisted>>
  BY DEF AttemptClean, AttemptUnclean, AttemptRaised, Return, workerVars
<1>3. status # "completed"
  BY <1>1 DEF ScriptInv, StepsInv
<1>4. CASE AttemptClean
  <2>1. main' = "body" /\ queue' = queue /\ status' = status
    BY <1>4 DEF AttemptClean, workerVars
  <2> QED
    BY <1>1, <1>2, <1>3, <2>1, OutStep
<1>5. CASE AttemptUnclean
  <2> DEFINE bad == Head(todo).bad
  <2>1. main = "waiting" /\ bad \in Bads /\ bad # "completed"
    <3>1. main = "waiting"
      BY <1>5 DEF AttemptUnclean, Answered
    <3>2. todo # <<>>
      BY <3>1 DEF ScriptInv, StepsInv
    <3> QED
      BY <1>1, <3>1, <3>2, HeadLegal
  <2> HIDE DEF bad
  <2>2. CASE main' = "body" /\ Judged(bad)
    <3>1. queue' = queue /\ status' # "completed"
      BY <1>3, <2>2 DEF Judged
    <3> QED
      BY <1>1, <1>2, <2>2, <3>1, OutStep
  <2>3. CASE Otherwise(bad)
    <3>1. status' # "completed" /\ ((UNCHANGED <<main, queue>>) \/ \E s : Leave(s))
      BY <1>3, <2>1, <2>3, OtherwiseOut
    <3> QED
      BY <1>1, <1>2, <2>1, <3>1, OutStep
  <2> QED
    BY <1>5, <2>2, <2>3 DEF AttemptUnclean, bad
<1>6. CASE AttemptRaised
  <2>1. Leave("failed") /\ status' # "completed"
    BY <1>6 DEF AttemptRaised, Raise, Leave
  <2> QED
    BY <1>1, <1>2, <2>1, OutStep
<1>7. CASE Return
  <2>1. \E s : Leave(s)
    BY <1>7 DEF Return
  <2>2. status' # "completed" \/ (main' \notin {"body", "waiting"} /\ ~doubt' /\ ~unaudited')
    <3>1. CASE status = "running"
      <4>1. ~unaudited /\ ~doubt
        BY <1>7, <3>1, ReturnsClean DEF Return
      <4> QED
        BY <1>7, <4>1 DEF Return, Leave
    <3>2. CASE status # "running"
      BY <1>3, <1>7, <3>2 DEF Return, Leave
    <3> QED
      BY <3>1, <3>2
  <2> QED
    BY <1>1, <1>2, <2>1, <2>2, OutStep
<1> QED
  BY <1>4, <1>5, <1>6, <1>7

\* Main goes through its finally clauses.
LEMMA CloseOut ==
  OutInv /\ (SessionDone \/ Release \/ ReleaseGivesUp \/ Join) => OutInv'
<1> SUFFICES ASSUME OutInv, SessionDone \/ Release \/ ReleaseGivesUp \/ Join PROVE OutInv'
  OBVIOUS
<1>1. /\ main \in {"closing", "releasing", "joining"}
      /\ main' \in {"releasing", "joining", "ended"}
      /\ UNCHANGED <<script, worker, queue, session, persisted, status, doubt, unaudited>>
  BY DEF SessionDone, Release, ReleaseGivesUp, Join, workerVars
<1>2. ~raised' => session \in {"none", "closed"} /\ worker = "idle" /\ queue = <<>>
  <2>1. CASE SessionDone
    BY <2>1 DEF SessionDone, OutInv, ClosedInv
  <2>2. CASE Release \/ ReleaseGivesUp \/ Join
    <3>1. main \in {"releasing", "joining"}
      BY <2>2 DEF Release, ReleaseGivesUp, Join
    <3>2. (raised' = raised) \/ ReleaseRaises
      BY <2>2 DEF Release, ReleaseGivesUp, Join
    <3>3. raised => raised'
      BY <3>2, Zenon DEF ReleaseRaises
    <3> QED
      BY <3>1, <3>3 DEF OutInv, ClosedInv
  <2> QED
    BY <2>1, <2>2
<1>3. JobsInv'
  BY <1>1 DEF OutInv, JobsInv, InHand
<1>4. ClosedInv'
  BY <1>1, <1>2 DEF OutInv, ClosedInv, InHand
<1>5. CompletedInv'
  BY <1>1 DEF OutInv, CompletedInv, InHand
<1> QED
  BY <1>3, <1>4, <1>5 DEF OutInv

\* A cancellation, wherever main is.
LEMMA CancelOut == ScriptInv /\ IInv /\ OutInv /\ Cancel => OutInv'
<1> SUFFICES ASSUME ScriptInv, IInv, OutInv, Cancel PROVE OutInv'
  OBVIOUS
<1>1. CASE CancelCheap
  <2>1. At("cheap") /\ UNCHANGED <<script, worker, session, persisted, main, queue>>
        /\ status' \in {status, "fallback"}
    BY <1>1 DEF CancelCheap, Fallback
  <2>2. main = "body" /\ InHand /\ status # "completed"
    BY <2>1, BodyAt
  <2>3. worker = "idle" /\ queue = <<>>
    BY <2>2 DEF IInv, BodyInv
  <2> QED
    BY <2>1, <2>2, <2>3, OutStep
<1>2. CASE CancelBody
  <2>1. main = "body" /\ UNCHANGED <<script, worker, session, persisted>> /\ Leave("failed")
    BY <1>2 DEF CancelBody
  <2>2. worker = "idle" /\ queue = <<>> /\ InHand
    BY <2>1 DEF IInv, BodyInv, InHand
  <2>3. status' # "completed"
    BY <2>1 DEF Leave
  <2> QED
    BY <2>1, <2>2, <2>3, OutStep
<1>3. CASE CancelWait
  <2>1. Sessionless(script) => Direct(script)
    BY DEF Sessionless, Direct
  <2>2. /\ main = "waiting" /\ worker # "close" /\ session \in {"none", "open"}
        /\ persisted # "completed" /\ (persisted # "none" => Persists(script))
        /\ Sessionless(script) => session = "none"
    BY <1>3 DEF CancelWait, OutInv, JobsInv, ClosedInv, CompletedInv, InHand
  <2>3. /\ main' = IF Sessionless(script) THEN "releasing" ELSE "closing"
        /\ queue' = IF Sessionless(script) THEN <<>> ELSE <<"close">>
        /\ status' = "failed" /\ raised' = TRUE
        /\ worker' = "idle" \/ worker' = worker
        /\ Sessionless(script) => worker' = "idle"
        /\ UNCHANGED <<script, session, persisted>>
    BY <1>3, <2>1 DEF CancelWait, StopOwnCall
  <2>4. JobsInv'
    BY <2>2, <2>3 DEF JobsInv, InHand
  <2>5. ClosedInv'
    BY <2>2, <2>3 DEF ClosedInv, InHand
  <2>6. CompletedInv'
    BY <2>2, <2>3 DEF CompletedInv, InHand
  <2> QED
    BY <2>4, <2>5, <2>6 DEF OutInv
<1>4. CASE CancelClosing
  <2>1. /\ main = "closing" /\ main' = "releasing" /\ queue' = <<>> /\ raised' = TRUE
        /\ worker' = IF Direct(script) THEN "idle" ELSE worker
        /\ IF Direct(script) THEN session' = "failed" ELSE session' = session
        /\ UNCHANGED <<script, status, doubt, unaudited, persisted>>
    BY <1>4 DEF CancelClosing, StopOwnCall
  <2>2. ~Sessionless(script)
    BY <2>1 DEF OutInv, JobsInv
  <2>3. Persists(script) => ~Direct(script)
    BY DEF Persists, Direct
  <2>4. JobsInv'
    BY <2>1, <2>2 DEF OutInv, JobsInv, InHand
  <2>5. ClosedInv'
    BY <2>1, <2>2 DEF OutInv, ClosedInv, InHand
  <2>6. CompletedInv'
    BY <2>1, <2>3 DEF OutInv, CompletedInv, InHand
  <2> QED
    BY <2>4, <2>5, <2>6 DEF OutInv
<1>5. CASE CancelReleasing
  <2>1. /\ main = "releasing" /\ main' = "ended" /\ raised' = TRUE
        /\ UNCHANGED <<script, status, doubt, unaudited, worker, queue, session, persisted>>
    BY <1>5 DEF CancelReleasing, workerVars
  <2> QED
    BY <2>1 DEF OutInv, JobsInv, ClosedInv, CompletedInv, InHand
<1> QED
  BY <1>1, <1>2, <1>3, <1>4, <1>5 DEF Cancel

\* The worker and its batches.
LEMMA WorkerOut ==
  IInv /\ OutInv /\ (TakeJob \/ SendBatch \/ AttemptEnds \/ BatchEnds \/ GiveUp \/ SessionCloses)
    => OutInv'
<1> SUFFICES ASSUME IInv, OutInv,
                    TakeJob \/ SendBatch \/ AttemptEnds \/ BatchEnds \/ GiveUp \/ SessionCloses
             PROVE  OutInv'
  OBVIOUS
<1>1. UNCHANGED <<script, main, raised, doubt, unaudited>>
  BY DEF TakeJob, SendBatch, AttemptEnds, BatchEnds, GiveUp, SessionCloses, mainVars
<1>10. main = "body" => queue = <<>>
  BY DEF IInv, BodyInv
<1>2. CASE TakeJob
  <2>1. /\ worker = "idle" /\ queue # <<>> /\ worker' = Head(queue) /\ queue' = Tail(queue)
        /\ UNCHANGED <<status, session, persisted>>
    BY <1>2 DEF TakeJob, mainVars
  <2>2. queue \in {<<"attempt">>, <<"close">>}
    BY <2>1, <1>10 DEF OutInv, JobsInv, InHand
  <2>3. queue' = <<>> /\ worker' \in {"attempt", "close"}
        /\ (worker' = "close" => queue = <<"close">>)
    BY <2>1, <2>2, OneJob
  <2>4. worker' = "close" => ~InHand /\ ~Sessionless(script)
    BY <2>1, <2>3, <1>10, OneJob DEF OutInv, JobsInv, InHand
  <2>5. session \notin {"closed", "failed"}
        /\ (main \in {"releasing", "joining", "ended"} => raised)
    BY <2>1 DEF OutInv, ClosedInv
  <2>6. JobsInv'
    BY <1>1, <2>1, <2>3, <2>4 DEF OutInv, JobsInv, InHand
  <2>7. ClosedInv'
    BY <1>1, <2>1, <2>5 DEF OutInv, ClosedInv, InHand
  <2>8. CompletedInv'
    BY <1>1, <2>1 DEF OutInv, CompletedInv, InHand
  <2> QED
    BY <2>6, <2>7, <2>8 DEF OutInv
<1>3. CASE SendBatch \/ AttemptEnds \/ GiveUp \/ BatchEnds
  <2>1. /\ worker' \in {worker, "idle"} \/ (worker = "attempt" /\ worker' = "listening")
        /\ UNCHANGED <<queue, status, session, persisted>>
    BY <1>3 DEF SendBatch, AttemptEnds, GiveUp, BatchEnds, mainVars
  <2>2. JobsInv'
    BY <1>1, <2>1 DEF OutInv, JobsInv, InHand
  <2>3. ClosedInv'
    BY <1>1, <2>1 DEF OutInv, ClosedInv, InHand
  <2>4. CompletedInv'
    BY <1>1, <2>1 DEF OutInv, CompletedInv, InHand
  <2> QED
    BY <2>2, <2>3, <2>4 DEF OutInv
<1>4. CASE SessionCloses
  <2>1. worker = "close" /\ worker' = "idle" /\ queue' = queue
    BY <1>4 DEF SessionCloses
  <2>2. /\ queue = <<>> /\ ~InHand /\ ~Sessionless(script) /\ session \in {"none", "open"}
        /\ persisted # "completed"
        /\ main \in {"releasing", "joining", "ended"} => raised
    BY <2>1 DEF OutInv, JobsInv, ClosedInv, CompletedInv
  <2>3. PICK s \in {"closed", "failed"} : CloseSession(s)
    BY <1>4 DEF SessionCloses
  <2>4. JobsInv'
    BY <1>1, <2>1, <2>2 DEF JobsInv, InHand
  <2>5. ClosedInv'
    BY <1>1, <2>1, <2>2, <2>3 DEF CloseSession, ClosedInv, InHand
  <2>6. CompletedInv'
    BY <1>1, <2>1, <2>2, <2>3 DEF CloseSession, OutInv, CompletedInv, InHand
  <2> QED
    BY <2>4, <2>5, <2>6 DEF OutInv
<1> QED
  BY <1>2, <1>3, <1>4

-----------------------------------------------------------------------------
(***************************************************************************)
(* The theorems.                                                           *)
(***************************************************************************)

\* The script, the way out and what is under way, through every step.
LEMMA StepKeepsScript == IInv /\ ScriptInv /\ OutInv /\ [Next]_vars => ScriptInv' /\ OutInv'
<1> SUFFICES ASSUME IInv, ScriptInv, OutInv, [Next]_vars PROVE ScriptInv' /\ OutInv'
  OBVIOUS
<1>1. CASE UNCHANGED vars
  <2>1. UNCHANGED <<script, todo, main, status, doubt, unaudited, current, batch>>
    BY <1>1 DEF vars, mainVars
  <2>2. UNCHANGED <<worker, queue, session, persisted, raised>>
    BY <1>1 DEF vars, mainVars, workerVars
  <2>3. StepsInv' /\ FreshInv' /\ ForgottenInv'
    BY <2>1 DEF ScriptInv, StepsInv, FreshInv, ForgottenInv, InHand
  <2>4. AuditedInv' /\ SureInv' /\ SettlesInv'
    BY <2>1 DEF ScriptInv, AuditedInv, SureInv, SettlesInv, InHand
  <2>5. JobsInv' /\ CompletedInv'
    BY <2>1, <2>2 DEF OutInv, JobsInv, CompletedInv, InHand
  <2>6. ClosedInv'
    BY <2>1, <2>2 DEF OutInv, ClosedInv, InHand
  <2> QED
    BY <2>3, <2>4, <2>5, <2>6 DEF ScriptInv, OutInv
<1>2. CASE LookDone \/ LookBad \/ ObserveFails \/ RecheckRecovers \/ Corroborated
             \/ NotCorroborated \/ Confirmed \/ NotConfirmed \/ Settled
  BY <1>2, LooksScript, SeesScript, LookOut
<1>3. CASE CheckPasses \/ CheckFails \/ TouchDone \/ TouchFails \/ ProbeDone \/ CheapApplied
             \/ CheapFails \/ SubmitAttempt
  BY <1>3, ChecksScript, CheapsScript, AttemptsScript, DoOut
<1>4. CASE AttemptClean \/ AttemptUnclean \/ AttemptRaised \/ Return
  BY <1>4, AttemptsScript, AnswerOut
<1>5. CASE SessionDone \/ Release \/ ReleaseGivesUp \/ Join \/ Cancel
  BY <1>5, OutScript, CloseOut, CancelOut
<1>6. CASE TakeJob \/ SendBatch \/ AttemptEnds \/ BatchEnds \/ GiveUp \/ SessionCloses
  BY <1>6, WorkerScript, WorkerOut
<1> QED
  BY <1>1, <1>2, <1>3, <1>4, <1>5, <1>6 DEF Next

\* The invariant of a device run.
RunInv == IInv /\ ScriptInv /\ OutInv

\* It holds of every run: the script and the way out hold each other up, step by step.
LEMMA RunInvHolds == Spec => []RunInv
<1>1. Init => ScriptInv /\ OutInv
  BY InitScript, InitOut
<1>2. Spec => [](ScriptInv /\ OutInv)
  BY <1>1, IInvHolds, StepKeepsScript, PTL DEF Spec
<1> QED
  BY <1>2, IInvHolds, PTL DEF RunInv

\* Whoever reads "completed" reads of a run that was clean.
THEOREM CompletedMeansCleanCorrect == Spec => []CompletedMeansClean
<1>1. RunInv => CompletedMeansClean
  BY DEF RunInv, OutInv, ClosedInv, CompletedInv, CompletedMeansClean
<1> QED
  BY <1>1, RunInvHolds, PTL

\* The step main is about to take is the first of those left.
LEMMA FirstStep ==
  ASSUME ScriptInv, main = "body", todo # <<>>
  PROVE  /\ Head(todo) \in Legal
         /\ \A D : Head(todo) \in D.needs => ~Firm(todo, D)
<1>1. todo \in Seq(Legal) /\ Lands(todo)
  BY DEF ScriptInv, StepsInv, InHand
<1>2. Head(todo) \in Legal /\ Head(todo) = todo[1] /\ 1 \in 1 .. Len(todo) /\ Len(todo) \in Nat
  BY <1>1, TailLegal
<1>3. StepAt(todo, 1) = Head(todo)
  BY <1>2 DEF StepAt
<1> QED
  BY <1>2, <1>3, NeedsNow

\* An attempt is made on what was observed, never on the word of a cheap check, and in
\* doubt only to return home.
THEOREM OnlyHomeInDoubtCorrect == Spec => OnlyHomeInDoubt
<1>1. RunInv /\ SubmitAttempt =>
        /\ current /\ ~batch
        /\ ~unaudited
        /\ doubt => Head(todo).op = "home" \/ script = "matrix"
  <2> SUFFICES ASSUME RunInv, SubmitAttempt
               PROVE  /\ current /\ ~batch
                      /\ ~unaudited
                      /\ doubt => Head(todo).op = "home" \/ script = "matrix"
    OBVIOUS
  <2>1. ScriptInv /\ main = "body" /\ InHand /\ todo # <<>> /\ Head(todo).do = "act"
    BY BodyAt DEF SubmitAttempt, RunInv
  <2>2. /\ Head(todo) \in Fresh.needs /\ Head(todo) \in Audited.needs
        /\ Head(todo).op # "home" => Head(todo) \in Sure.needs
    BY <2>1, FirstStep, Sides
  <2>3. /\ ~Firm(todo, Fresh) /\ ~Firm(todo, Audited)
        /\ Head(todo).op # "home" => ~Firm(todo, Sure)
    BY <2>1, <2>2, FirstStep
  <2>4. current /\ ~batch
    BY <2>1, <2>3 DEF ScriptInv, FreshInv
  <2>5. ~unaudited
    BY <2>1, <2>3 DEF ScriptInv, AuditedInv
  <2>6. doubt => Head(todo).op = "home" \/ script = "matrix"
    BY <2>1, <2>3 DEF ScriptInv, SureInv
  <2> QED
    BY <2>4, <2>5, <2>6
<1>2. RunInv /\ [Next]_vars =>
        [SubmitAttempt => /\ current /\ ~batch
                          /\ ~unaudited
                          /\ doubt => Head(todo).op = "home" \/ script = "matrix"]_vars
  BY <1>1
<1> QED
  BY <1>2, RunInvHolds, PTL DEF Spec, OnlyHomeInDoubt

\* What a script sends to see it refused is refused.
THEOREM ProbesAreRefusedCorrect == Spec => ProbesAreRefused
<1>1. RunInv /\ ProbeDone => ~batch'
  <2> SUFFICES ASSUME RunInv, ProbeDone PROVE ~batch'
    OBVIOUS
  <2>1. ScriptInv /\ main = "body" /\ todo # <<>> /\ Head(todo).do = "probe"
    BY BodyAt DEF ProbeDone, RunInv
  <2>2. CASE Head(todo).op = "last"
    <3>1. Head(todo) \in Forgotten.needs
      BY <2>1, <2>2, FirstStep, Sides
    <3>2. ~Firm(todo, Forgotten)
      BY <2>1, <3>1, FirstStep
    <3>3. ~current
      BY <2>1, <3>2 DEF ScriptInv, ForgottenInv
    <3> QED
      BY <3>3 DEF ProbeDone, Accepted
  <2>3. CASE Head(todo).op # "last"
    BY <2>3 DEF ProbeDone, Accepted
  <2> QED
    BY <2>2, <2>3
<1>2. RunInv /\ [Next]_vars => [ProbeDone => ~batch']_vars
  BY <1>1
<1> QED
  BY <1>2, RunInvHolds, PTL DEF Spec, ProbesAreRefused
=============================================================================
