------------------------------ MODULE MCDecisions ------------------------------
(***************************************************************************)
(* The pure decisions, each asked about every input of a small set, beside *)
(* the history of LearnedReuse: a state holds one question or a history.   *)
(***************************************************************************)
EXTENDS LearnedReuse, Advice, Selection

VARIABLE query  \* the question, or None

-----------------------------------------------------------------------------
(***************************************************************************)
(* The questions.                                                          *)
(***************************************************************************)
Context == [effect |-> "NONE", anchorSeen |-> TRUE, conf |-> 8, risky |-> FALSE, mismatch |-> FALSE]

ValidatorContexts ==
  {None, Context, [Context EXCEPT !.effect = "UNKNOWN"], [Context EXCEPT !.anchorSeen = FALSE],
   [Context EXCEPT !.conf = 4], [Context EXCEPT !.conf = 11]}

Latencies == {None, <<>>, <<2>>, <<2, 3>>, <<9, 2>>, <<1, 2, 1, 9>>}

Request ==
  [conf |-> 8, sensitive |-> FALSE, invalidated |-> FALSE, class |-> "low", decision |-> None,
   context |-> Context, floor |-> 5, pending |-> 3, revisionBound |-> TRUE, maxBatch |-> 8,
   latencies |-> None, budgetMs |-> 6, streak |-> 0, loop |-> FALSE, validatorFailed |-> FALSE,
   budget |-> None, observeRate |-> 2, recoveryRate |-> 9, reuse |-> TRUE]

Classes == {"low", "medium", "high", "unknown"}

\* Teachings as a curator writes them, a bare one among them.
Influences ==
  [cap : {None, <<4>>, <<9>>}, forceObserve : BOOLEAN, maxBatch : {None, <<1>>, <<12>>},
   disableReuse : BOOLEAN]

\* The request, but for some fields.
But(p) == [f \in DOMAIN Request |-> IF f \in DOMAIN p THEN p[f] ELSE Request[f]]

Confidences ==
  [conf : {4, 5, 8, 11}, sensitive : BOOLEAN, invalidated : BOOLEAN, class : Classes,
   decision : {None, "sufficient", "insufficient", "author"}, context : ValidatorContexts,
   floor : {5, 9}, revisionBound : BOOLEAN, maxBatch : {0, 2, 8}]
Confident == {But(p) : p \in Confidences}

Measurements ==
  [class : Classes, latencies : Latencies, budgetMs : {0, 6, 20},
   budget : {None, [maxLatency |-> 5, maxObserve |-> 3, minRecovery |-> 8]},
   streak : {0, 1, 3}, loop : BOOLEAN, observeRate : {2, 4, 11}]
Measured == {But(p) : p \in Measurements}

Operations == {"press-home", "launch-application"}

Policy ==
  [operation |-> "press-home", class |-> "low", allowHumanGate |-> FALSE, minSuccesses |-> 2,
   minShadow |-> 1, maxPartial |-> 0, maxUnknown |-> 0, maxReplays |-> 0,
   maxConflicts |-> 0, needValidator |-> TRUE, needFallback |-> TRUE,
   surface |-> "observation-only", sequence |-> FALSE, maxP90 |-> <<5>>, minRecovery |-> None]

Evidences ==
  [operation : Operations, humanGate : BOOLEAN, successes : {1, 2}, shadow : {0, 1},
   stable : {TRUE}, partial : {0}, unknown : {0, 1},
   replays : {0}, conflicts : {0}, validatorProven : BOOLEAN, fallbackProven : {TRUE},
   class : {"low", "medium"}, p90 : {None, <<4>>, <<6>>}, recovery : {<<9>>}]

Ready1 == [runtimeReady |-> TRUE, channelReady |-> TRUE, freshObservation |-> TRUE,
           laneIdle |-> TRUE, locked |-> FALSE, error |-> FALSE]

\* Sets of three actions that depend on one another in every way, and pairs that are not bound.
Graphs3 ==
  {<<[idx |-> 1, deps |-> d[1], sensitive |-> s[1], revision |-> "r"],
     [idx |-> 2, deps |-> d[2], sensitive |-> s[2], revision |-> "r"],
     [idx |-> 3, deps |-> d[3], sensitive |-> s[3], revision |-> "r"]>> :
     d \in [1 .. 3 -> SUBSET (1 .. 3)], s \in [1 .. 3 -> BOOLEAN]}

Unbound ==
  [idx : {1, 2}, deps : SUBSET {1, 2, 5}, sensitive : {FALSE}, revision : {"r", "s", ""}]
    \X [idx : {2}, deps : {{}}, sensitive : BOOLEAN, revision : {"r", "s", ""}]

\* Three events that come in any order; e3 has the middle priority or a tie with another.
Event(id) ==
  [id : {id}, priority : {50, 95}, kind : {"goal", "teaching", "risk"},
   hazard : {"none", "high", "unsafe"}, expired : BOOLEAN, assumption : {"", "held"}]
Plain(id) ==
  [id : {id}, priority : {50, 70, 95}, kind : {"goal", "teaching"}, hazard : {"none", "high"},
   expired : {FALSE}, assumption : {"", "other"}]

Items ==
  [1 .. 3 -> [state : {"promoted", "candidate", "superseded"}, overlap : {0, 1, 2},
              reliability : {50}]]
  \cup [1 .. 2 -> [state : {"verified", "disproved"}, overlap : {1}, reliability : {0, 50, 100}]]

States == [1 .. 3 -> [state : {"promoted", "candidate", "verified"}, overlap : {0},
                      reliability : {50}]]
Edges == SUBSET {<<1, 2>>, <<2, 3>>, <<1, 3>>, <<3, 1>>, <<2, 1>>, <<1, 4>>}

Posed(q) ==
  \/ q = None
  \/ q \in [ask : {"advice"}, ctx : Confident \cup Measured]
  \/ q \in [ask : {"promote"}, e : Evidences, f : Evidences]
  \/ q \in [ask : {"plan"}, nodes : Graphs3, width : {1, 2, 3}]
  \/ q \in [ask : {"plan"}, nodes : Unbound \cup {<<>>}, width : {0, 2}]
  \/ q \in [ask : {"arbitrate"}, events : Event(1) \X Plain(2) \X Plain(3),
                boundary : {TRUE}, held : {"held"}]
  \/ q \in [ask : {"arbitrate"}, events : (Event(2) \X Plain(1)) \cup {<<>>},
                boundary : BOOLEAN, held : {"held", ""}]
  \/ q \in [ask : {"retrieve"}, items : Items, query : {1, 3, 9}, topK : {0, 1, 2, 5},
                candidates : {<<>>, <<3, 1>>, <<9, 2, 2, 1>>}]
  \/ q \in [ask : {"expand"}, items : States, edges : Edges, start : {1, 2},
                depth : {1, 2}, budget : {1, 5}, mode : {"action", "audit"}]

Asked == Posed(query)

MCInit == ReuseInit /\ Asked
MCNext == query = None /\ ReuseNext /\ UNCHANGED query
MCSpec == MCInit /\ [][MCNext]_<<reuseVars, query>>

Asks(what) == query # None /\ query.ask = what

-----------------------------------------------------------------------------
(***************************************************************************)
(* Properties.                                                             *)
(***************************************************************************)

\* Whatever the signals, the live gate lets an optimization through only above the floor of
\* risk, causal proof and revision binding; the fast path is only for what was measured
\* fast; a human teaching never loosens anything; more or better evidence never takes
\* promotion away.  About: shadow_recommend(), LiveOptimizationGate, teaching influence and
\* the promotion gates, which each test their own part.
LiveKeepsFloor ==
  /\ Asks("advice") =>
       /\ LiveOnlyAboveFloor(query.ctx)
       /\ FastOnlyWhenMeasured(query.ctx)
       /\ \A t \in Influences : TeachingOnlyTightens(query.ctx, t)
  /\ Asks("promote") => ReadinessMonotone(Policy, query.e, query.f, Ready1)

\* PlanSound for every question: plan_dag() plans exactly what is acyclic and bound to one
\* revision, never an action beside or before what it depends on.  About: the waves are
\* filled greedily from one topological order, with three reasons to leave a node for later.
PlansSound == Asks("plan") => PlanSound(query.nodes, query.width)

\* ArbitrationSound for every question: no event is lost or answered twice, and the verdict
\* does not hang on the order in which events arrived.  About: arbitrate()'s tie-break, and
\* rejections decided while the candidates are still being collected.
ArbitrationsSound ==
  Asks("arbitrate") => ArbitrationSound(query.events, query.boundary, query.held)

\* RetrievalSound and ExpansionSound for every question: what was superseded, disproved or
\* never verified gives no authority to act, on whatever way it is reached.  About: the
\* three ways knowledge is found, each with a filter of its own.
RetrievalsSound ==
  /\ Asks("retrieve") =>
       RetrievalSound(query.items, query.query, query.candidates, query.topK)
  /\ Asks("expand") =>
       ExpansionSound(query.items, query.edges, query.start, query.depth, query.budget,
                      query.mode)
=============================================================================
