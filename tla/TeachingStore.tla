--------------------------- MODULE TeachingStore ---------------------------
(***************************************************************************)
(* HumanTeachingStore (knowledge/teaching.py): the append-only log of what *)
(* people asked and taught, and the promotion of a taught fact             *)
(* (knowledge/promotion.py).                                               *)
(*                                                                         *)
(* The handler threads of the monitor (monitor/server.py) ask, submit and  *)
(* answer; curators review, and mark teachings learned.  Each of them      *)
(* loads the log, checks what it sees, and appends one or two lines.  The  *)
(* store's lock covers one load or one append of one process, so the       *)
(* others come in between.                                                 *)
(*                                                                         *)
(* Nothing repairs the end of the file: the line behind a torn one is      *)
(* glued to it, and load() skips the two together.                         *)
(*                                                                         *)
(* Contexts, decisions and evidence may hold a character at which          *)
(* splitlines() splits but which json.dumps(ensure_ascii=False) leaves as  *)
(* it is.  load() then finds several lines for one.  It skips a fragment   *)
(* that is no JSON, but raises at one that is, such as a number.           *)
(***************************************************************************)
EXTENDS Naturals, Sequences, FiniteSets, SequencesExt

CONSTANTS
  Handler,       \* threads that ask, submit and answer
  Curator,       \* who reviews and learns
  NoQuestion,    \* of a teaching that answers none
  Facts,         \* the teachings submitted as facts
  MaxQuestions,  \* bound: questions asked
  MaxTeachings,  \* bound: teachings submitted
  MaxCurations,  \* bound: reviews and mark_learned() calls begun
  MaxUnread,     \* bound: lines load() cannot read, beyond which texts are on one line
  MaxAborts,     \* bound: operations that die between two appends
  MaxTears       \* bound: appends cut short

Actor    == Handler \cup Curator
Question == 1..MaxQuestions
Teaching == 1..MaxTeachings

VARIABLES
  log,        \* events.jsonl, as the lines load() splits it into
  ended,      \* the file ends with a newline
  todo,       \* what the operation of each actor has yet to append
  promoting,  \* what a promote_fact_teaching() has yet to mark learned, and its evidence
  asked,      \* questions numbered so far
  taught,     \* teachings numbered so far
  written,    \* history: the lines whose append returned
  spoilt,     \* history: teachings whose line load() cannot read
  crossed,    \* history: teachings that were reviewed, or learned, while someone else was
              \* about to append the other
  curations,  \* reviews and mark_learned() calls begun
  aborts,     \* operations that died between two appends
  tears       \* appends cut short

recorded == <<written, spoilt, crossed>>
vars == <<log, ended, todo, promoting, asked, taught, recorded, curations, aborts, tears>>

Line(event, q, t, flag) == [event |-> event, question |-> q, teaching |-> t, flag |-> flag]
\* What json.loads() does not accept: it is skipped.
Garbage == Line("garbage", NoQuestion, 0, FALSE)
\* A line with a fragment that is JSON but no object: somewhere in it, or at its end, where
\* the fragment goes on with what is appended behind it.
Breaking == Line("raises", NoQuestion, 0, FALSE)
Dangling == Line("raises", NoQuestion, 0, TRUE)

\* load() gets through the log.
Loads == \A i \in DOMAIN log : log[i].event # "raises"

NoPromotion == [teaching |-> 0, spelling |-> "plain"]
Idle(a) == todo[a] = <<>> /\ promoting[a] = NoPromotion

(***************************************************************************)
(* load(): the projection.  A question is created once, and a teaching     *)
(* submitted once, before anything else is written about it.               *)
(***************************************************************************)
Latest(lines) == log[Max(lines)]

About(q) == {i \in DOMAIN log : /\ log[i].question = q
                                /\ log[i].event \in {"created", "answered", "qlearned"}}
QuestionState(q) ==
  IF \A i \in About(q) : log[i].event # "created" THEN "absent"
  ELSE IF Latest(About(q)).event = "created" THEN "open"
  ELSE IF Latest(About(q)).event = "answered" THEN "answered" ELSE "learned"
AnswerOf(q) == Latest(About(q)).teaching

On(t) == {i \in DOMAIN log : /\ log[i].teaching = t
                             /\ log[i].event \in {"submitted", "reviewed", "learned"}}
Submitted(t) == {i \in On(t) : log[i].event = "submitted"}
Exists(t)  == Submitted(t) # {}
QuestionOf(t) == Latest(Submitted(t)).question
Reviews(t) == {i \in On(t) : log[i].event = "reviewed"}
Checked(t)  == Exists(t) /\ Reviews(t) # {}
Conflict(t) == Checked(t) /\ Latest(Reviews(t)).flag
Learned(t)  == Exists(t) /\ Latest(On(t)).event = "learned"

Init ==
  /\ log = <<>> /\ ended = TRUE
  /\ todo = [a \in Actor |-> <<>>]
  /\ promoting = [a \in Actor |-> NoPromotion]
  /\ asked = 0 /\ taught = 0
  /\ written = {} /\ spoilt = {} /\ crossed = {}
  /\ curations = 0 /\ aborts = 0 /\ tears = 0

(***************************************************************************)
(* _append().                                                              *)
(***************************************************************************)
\* What a torn line becomes with the line behind it.
Glued(line) ==
  IF line.event = "raises" THEN line
  ELSE IF Last(log) = Breaking THEN Breaking ELSE Garbage

\* Mutant of Appended: the file is opened for writing.
AppendedTruncating(line) == <<line>>
Appended(line) == IF ended THEN Append(log, line)
                           ELSE Append(Front(log), Glued(line))

\* The two orders in which a review and a learning of one teaching can cross.
Crossings == {<<"reviewed", "learned">>, <<"learned", "reviewed">>}
Crosses(a, line) ==
  \E b \in Curator \ {a} :
    /\ todo[b] # <<>>
    /\ Head(todo[b]).teaching = line.teaching
    /\ <<line.event, Head(todo[b]).event>> \in Crossings
Crossed(a, line) == IF Crosses(a, line) THEN crossed \cup {line.teaching} ELSE crossed

Write(a) ==
  /\ todo[a] # <<>>
  /\ log' = Appended(Head(todo[a]))
  /\ ended' = TRUE
  /\ written' = written \cup {Head(todo[a])}
  /\ crossed' = Crossed(a, Head(todo[a]))
  /\ todo' = [todo EXCEPT ![a] = Tail(@)]
  /\ UNCHANGED <<promoting, asked, taught, spoilt, curations, aborts, tears>>

\* What a write that is cut short may leave of a line: all but its newline, a piece
\* that is skipped, or a piece that ends in, or behind, a fragment that is not.
Torn(line) == {line, Garbage} \cup IF line = Breaking THEN {Dangling} ELSE {}

TornWrite(a) ==
  /\ todo[a] # <<>> /\ tears < MaxTears
  /\ \E left \in Torn(Head(todo[a])) :
       /\ log' = Appended(left)
       /\ crossed' = Crossed(a, left)
  /\ ended' = FALSE
  /\ todo' = [todo EXCEPT ![a] = <<>>]
  /\ promoting' = [promoting EXCEPT ![a] = NoPromotion]
  /\ tears' = tears + 1
  /\ UNCHANGED <<asked, taught, written, spoilt, curations, aborts>>

\* The process dies between two appends, or the next one raises with nothing written.
Abort(a) ==
  /\ ~Idle(a) /\ aborts < MaxAborts
  /\ todo' = [todo EXCEPT ![a] = <<>>]
  /\ promoting' = [promoting EXCEPT ![a] = NoPromotion]
  /\ aborts' = aborts + 1
  /\ UNCHANGED <<log, ended, asked, taught, recorded, curations, tears>>

(***************************************************************************)
(* ask(), submit() and answer().                                           *)
(***************************************************************************)
\* How a text is spelled: on one line, on several, or on several of which one makes
\* load() raise.
Spelling == {"plain", "splits", "raises"}
Spelled(line, spelling) ==
  CASE spelling = "plain"  -> line
    [] spelling = "splits" -> Garbage
    [] spelling = "raises" -> Breaking

\* The bound MaxUnread.
Spellings ==
  IF Cardinality({i \in DOMAIN log : log[i].event \in {"garbage", "raises"}}) < MaxUnread
  THEN Spelling ELSE {"plain"}

Spoils(t, spelling) == IF spelling = "plain" THEN spoilt ELSE spoilt \cup {t}

\* ask() and submit() do not load the log.
Ask(a, spelling) ==
  /\ Idle(a) /\ asked < MaxQuestions
  /\ asked' = asked + 1
  /\ todo' = [todo EXCEPT ![a] = <<Spelled(Line("created", asked', 0, FALSE), spelling)>>]
  /\ UNCHANGED <<log, ended, promoting, taught, recorded, curations, aborts, tears>>

MayAnswer(q) == Loads /\ QuestionState(q) = "open"
\* Mutant of AnswerLines: the question is marked answered first.
AnswerLinesSwapped(q, t, spelling) ==
  <<Line("answered", q, t, FALSE), Spelled(Line("submitted", q, t, FALSE), spelling)>>
AnswerLines(q, t, spelling) ==
  <<Spelled(Line("submitted", q, t, FALSE), spelling), Line("answered", q, t, FALSE)>>

Submit(a, spelling) ==
  /\ Idle(a) /\ taught < MaxTeachings
  /\ taught' = taught + 1
  /\ spoilt' = Spoils(taught', spelling)
  /\ todo' = [todo EXCEPT ![a] =
                <<Spelled(Line("submitted", NoQuestion, taught', FALSE), spelling)>>]
  /\ UNCHANGED <<log, ended, promoting, asked, written, crossed, curations, aborts, tears>>

Answer(a, q, spelling) ==
  /\ Idle(a) /\ taught < MaxTeachings
  /\ MayAnswer(q)
  /\ taught' = taught + 1
  /\ spoilt' = Spoils(taught', spelling)
  /\ todo' = [todo EXCEPT ![a] = AnswerLines(q, taught', spelling)]
  /\ UNCHANGED <<log, ended, promoting, asked, written, crossed, curations, aborts, tears>>

(***************************************************************************)
(* review() and mark_learned().                                            *)
(***************************************************************************)
\* Mutant of MayReview: a learned teaching may be reviewed again.
MayReviewAlways(t) == Loads /\ Exists(t)
MayReview(t) == Loads /\ Exists(t) /\ ~Learned(t)
\* Mutant of MayLearn: a conflict does not block.
MayLearnConflicting(t) == Loads /\ Exists(t) /\ Checked(t)
MayLearn(t)  == Loads /\ Exists(t) /\ Checked(t) /\ ~Conflict(t)

LearnedLines(t, spelling) ==
  <<Spelled(Line("learned", NoQuestion, t, FALSE), spelling)>> \o
  (IF QuestionOf(t) = NoQuestion THEN <<>>
                                 ELSE <<Line("qlearned", QuestionOf(t), t, FALSE)>>)

Review(a, t, conflict, spelling) ==
  /\ Idle(a) /\ curations < MaxCurations
  /\ MayReview(t)
  /\ todo' = [todo EXCEPT ![a] =
                <<Spelled(Line("reviewed", NoQuestion, t, conflict), spelling)>>]
  /\ curations' = curations + 1
  /\ UNCHANGED <<log, ended, promoting, asked, taught, recorded, aborts, tears>>

MarkLearned(a, t, spelling) ==
  /\ Idle(a) /\ curations < MaxCurations
  /\ MayLearn(t)
  /\ todo' = [todo EXCEPT ![a] = LearnedLines(t, spelling)]
  /\ curations' = curations + 1
  /\ UNCHANGED <<log, ended, promoting, asked, taught, recorded, aborts, tears>>

(***************************************************************************)
(* promote(): one step of the lifecycle of a claim.  The claim is          *)
(* readable; support says whether the evidence reaches the floor of two.   *)
(***************************************************************************)
Claim == [state : {"raw", "normalized", "candidate", "conflict_checked", "verified",
                   "promoted", "rejected"},
          teaching : {"policy", "fact", "other"}, support : BOOLEAN, contradicted : BOOLEAN,
          conflicting : BOOLEAN]

Blocked(c) ==
  \/ c.state = "candidate" /\ c.conflicting
  \/ c.state = "conflict_checked" /\ c.teaching # "policy" /\ (c.contradicted \/ ~c.support)
  \/ c.state = "verified" /\ (c.conflicting \/ c.contradicted)

Promote(c) ==
  IF Blocked(c) THEN c
  ELSE [c EXCEPT !.state =
         CASE c.state = "raw"              -> "normalized"
           [] c.state = "normalized"       -> "candidate"
           [] c.state = "candidate"        -> "conflict_checked"
           [] c.state = "conflict_checked" ->
                IF c.teaching = "policy" THEN "rejected" ELSE "verified"
           [] c.state = "verified"         -> "promoted"
           [] OTHER                        -> c.state]

\* promote_fact_teaching() takes up to six steps, until one does not move the claim.
Promoted(c) ==
  LET after[n \in 0..6] == IF n = 0 THEN c ELSE Promote(after[n - 1]) IN after[6]

\* promote_fact_teaching(): the claim's way is the argument's alone; then review(), with
\* a load of its own, and mark_learned(), with another.
PromoteFact(a, t, support, contradicted, conflicting, spelling) ==
  LET claim == Promoted([state |-> "raw", teaching |-> "fact", support |-> support,
                         contradicted |-> contradicted, conflicting |-> conflicting])
      review == Line("reviewed", NoQuestion, t, conflicting \/ contradicted)
  IN /\ Idle(a) /\ curations < MaxCurations
     /\ t \in Facts
     /\ MayReview(t)
     /\ todo' = [todo EXCEPT ![a] = <<Spelled(review, spelling)>>]
     /\ promoting' =
          IF claim.state = "promoted"
          THEN [promoting EXCEPT ![a] = [teaching |-> t, spelling |-> spelling]]
          ELSE promoting
     /\ curations' = curations + 1
     /\ UNCHANGED <<log, ended, asked, taught, recorded, aborts, tears>>

PromoteLearns(a) ==
  LET t == promoting[a].teaching
  IN /\ t # 0 /\ todo[a] = <<>>
     /\ todo' = [todo EXCEPT ![a] =
                   IF MayLearn(t) THEN LearnedLines(t, promoting[a].spelling) ELSE <<>>]
     /\ promoting' = [promoting EXCEPT ![a] = NoPromotion]
     /\ UNCHANGED <<log, ended, asked, taught, recorded, curations, aborts, tears>>

Next ==
  \/ \E a \in Handler, spelling \in Spellings :
       \/ Ask(a, spelling)
       \/ Submit(a, spelling)
       \/ \E q \in 1..asked : Answer(a, q, spelling)
  \/ \E a \in Curator, t \in 1..taught, spelling \in Spellings :
       \/ \E conflict \in BOOLEAN : Review(a, t, conflict, spelling)
       \/ MarkLearned(a, t, spelling)
       \/ \E support, contradicted, conflicting \in BOOLEAN :
            PromoteFact(a, t, support, contradicted, conflicting, spelling)
  \/ \E a \in Curator : PromoteLearns(a)
  \/ \E a \in Actor :
       \/ Write(a)
       \/ Abort(a)
       \/ TornWrite(a)

Spec == Init /\ [][Next]_vars

(***************************************************************************)
(* Properties.                                                             *)
(***************************************************************************)
\* What is learned has passed a review, and its last review found no conflict, if no
\* write was torn.  review() and mark_learned() look at the log once and append later,
\* and nothing keeps two curators apart: only a review and a learning that crossed can
\* leave a conflict behind a teaching that is learned.
LearnedWasCleared ==
  tears = 0 =>
    \A t \in 1..taught :
      Learned(t) => Checked(t) /\ (Conflict(t) => t \in crossed)

\* A question that shows as answered or learned names a teaching that answers it, if no
\* write was torn and its text can be read back: submit() appends the answer first, and
\* an operation that dies in between leaves the question open.
AnsweredByItsTeaching ==
  tears = 0 =>
    \A q \in 1..asked :
      QuestionState(q) \in {"answered", "learned"} =>
        \/ Exists(AnswerOf(q)) /\ QuestionOf(AnswerOf(q)) = q
        \/ AnswerOf(q) \in spoilt

\* A torn write costs at most one line whose append was acknowledged, the one behind it:
\* append mode and a newline with every line keep all the others readable.
TearsCostOneLine == Cardinality(written \ ToSet(log)) <= tears

\* review() refuses a learned teaching: once learned it stays so, unless a review of it
\* looked at the log before it was learned and was appended behind it, or the line that
\* says it is learned lacks its newline.
LearnedIsFinal ==
  [][\A t \in 1..taught : ended /\ Learned(t) /\ t \notin crossed => Learned(t)']_vars
=============================================================================
