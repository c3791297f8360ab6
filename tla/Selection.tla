------------------------------ MODULE Selection ------------------------------
(***************************************************************************)
(* Three selections an agent makes before it acts, each as the code        *)
(* computes it and as what it promises: which actions may go together      *)
(* (adaptive/dag.py), which event is handled next (agent/arbiter.py), and  *)
(* which knowledge may be acted on (retrieval/store.py, graph.py and       *)
(* semantic.py).                                                           *)
(***************************************************************************)
EXTENDS Naturals, Sequences, FiniteSets, SequencesExt

\* sorted(): S in the order of before, a set of pairs.
Sorted(S, before) ==
  [p \in 1 .. Cardinality(S) |->
     CHOOSE x \in S : Cardinality({y \in S : <<y, x>> \in before}) = p - 1]

Ascending(S) == Sorted(S, {p \in S \X S : p[1] < p[2]})

\* What s holds at some positions, in their order.
At(s, positions) == [p \in DOMAIN positions |-> s[positions[p]]]

NoRepeat(s) == \A i, j \in DOMAIN s : s[i] = s[j] => i = j

-----------------------------------------------------------------------------
(***************************************************************************)
(* plan_dag().  nodes is the list of [idx, deps, sensitive, revision].     *)
(***************************************************************************)
Ids(nodes) == {nodes[i].idx : i \in DOMAIN nodes}
NodeOf(nodes, x) == nodes[CHOOSE i \in DOMAIN nodes : nodes[i].idx = x]

\* What is rejected before the cycle check; "" is a revision that is not there.
WellBound(nodes) ==
  /\ Cardinality(Ids(nodes)) = Len(nodes)
  /\ \A i, j \in DOMAIN nodes : nodes[i].revision = nodes[j].revision /\ nodes[i].revision # ""
  /\ \A i \in DOMAIN nodes : nodes[i].idx \notin nodes[i].deps /\ nodes[i].deps \subseteq Ids(nodes)

MinOf(S) == CHOOSE x \in S : \A y \in S : x <= y

\* What the queue holds: those not yet in the order whose dependencies all are.
Open(nodes, order) ==
  {x \in Ids(nodes) \ ToSet(order) : NodeOf(nodes, x).deps \subseteq ToSet(order)}

\* Kahn: the queue is sorted, so the smallest is next.
KahnOrder(nodes) ==
  LET order[n \in 0 .. Len(nodes)] ==
        IF n = 0 THEN <<>>
        ELSE IF Open(nodes, order[n - 1]) = {} THEN order[n - 1]
        ELSE Append(order[n - 1], MinOf(Open(nodes, order[n - 1])))
  IN order[Len(nodes)]

\* Mutant of Joins: a dependency in the same wave counts as done.
JoinsEarly(nodes, wave, done, width, x) ==
  /\ NodeOf(nodes, x).deps \subseteq done \cup ToSet(wave)
  /\ NodeOf(nodes, x).sensitive => wave = <<>>
  /\ \A w \in ToSet(wave) : ~NodeOf(nodes, w).sensitive
  /\ Len(wave) < width

\* x joins the wave; a state-sensitive node is alone in its own.
Joins(nodes, wave, done, width, x) ==
  /\ NodeOf(nodes, x).deps \subseteq done
  /\ NodeOf(nodes, x).sensitive => wave = <<>>
  /\ \A w \in ToSet(wave) : ~NodeOf(nodes, w).sensitive
  /\ Len(wave) < width

\* One pass over what remains.  Its first member always joins, so the wave is not empty and
\* the code's way out for an empty one is never taken.
Wave(nodes, remaining, done, width) ==
  LET wave[n \in 0 .. Len(remaining)] ==
        IF n = 0 THEN <<>>
        ELSE IF Joins(nodes, wave[n - 1], done, width, remaining[n])
        THEN Append(wave[n - 1], remaining[n])
        ELSE wave[n - 1]
  IN wave[Len(remaining)]

Done(waves) == UNION {ToSet(waves[i]) : i \in DOMAIN waves}

\* What is left of the order.
Remaining(order, done) == At(order, Ascending({i \in DOMAIN order : order[i] \notin done}))

NextWave(nodes, width, waves) ==
  Wave(nodes, Remaining(KahnOrder(nodes), Done(waves)), Done(waves), width)

\* The waves of an order without cycles.
Waves(nodes, width) ==
  LET waves[n \in 0 .. Len(nodes)] ==
        IF n = 0 THEN <<>>
        ELSE IF Remaining(KahnOrder(nodes), Done(waves[n - 1])) = <<>> THEN waves[n - 1]
        ELSE Append(waves[n - 1], NextWave(nodes, width, waves[n - 1]))
  IN waves[Len(nodes)]

Planned(nodes, width) ==
  width >= 1 /\ WellBound(nodes) /\ Len(KahnOrder(nodes)) = Len(nodes)

\* Reference: an order exists.
Acyclic(nodes) ==
  \A S \in SUBSET Ids(nodes) : S # {} => \E x \in S : NodeOf(nodes, x).deps \cap S = {}

\* A plan is made for exactly the bound, acyclic sets of actions; it runs each action once,
\* behind all it depends on, a state-sensitive one by itself, and never more than width at
\* a time.
PlanSound(nodes, width) ==
  /\ Planned(nodes, width) <=> width >= 1 /\ WellBound(nodes) /\ Acyclic(nodes)
  /\ Planned(nodes, width) =>
       LET waves == Waves(nodes, width)
           Runs(x) == {i \in DOMAIN waves : x \in ToSet(waves[i])}
       IN /\ \A x \in Ids(nodes) : Cardinality(Runs(x)) = 1
          /\ \A x \in Ids(nodes) : \A d \in NodeOf(nodes, x).deps :
               \A i \in Runs(x), j \in Runs(d) : j < i
          /\ \A i \in DOMAIN waves :
               /\ Len(waves[i]) \in 1 .. width /\ NoRepeat(waves[i])
               /\ Len(waves[i]) > 1 => \A x \in ToSet(waves[i]) : ~NodeOf(nodes, x).sensitive

-----------------------------------------------------------------------------
(***************************************************************************)
(* arbitrate().  events is the list of [id, priority, kind, hazard,        *)
(* expired, assumption]; hazard is none, high (risk) or unsafe (high risk  *)
(* and irreversible).  The safety policy is the default one.               *)
(***************************************************************************)
RejectedOutright(e) ==
  \/ e.expired
  \/ e.hazard = "unsafe" /\ e.kind # "risk"
  \/ e.kind = "teaching" /\ e.priority >= 90 /\ e.hazard # "none"

\* Mutant of Before: ties are left to the order in which the events came.
BeforeUntied(e, f) == e.priority > f.priority

Before(e, f) == e.priority > f.priority \/ (e.priority = f.priority /\ e.id < f.id)

IdsOf(events) == [i \in DOMAIN events |-> events[i].id]

Rejected(events) == {i \in DOMAIN events : RejectedOutright(events[i])}

\* A stable sort by Before.
Ranked(events) ==
  LET candidates == DOMAIN events \ Rejected(events)
      earlier == {p \in candidates \X candidates :
                    \/ Before(events[p[1]], events[p[2]])
                    \/ ~Before(events[p[2]], events[p[1]]) /\ p[1] < p[2]}
  IN At(events, Sorted(candidates, earlier))

Arbitrate(events, safeBoundary, assumption) ==
  LET ranked == Ranked(events)
      top == IF safeBoundary /\ ranked # <<>> THEN <<Head(ranked)>> ELSE <<>>
  IN [selected |-> IdsOf(top),
      deferred |-> IdsOf(IF top = <<>> THEN ranked ELSE Tail(ranked)),
      rejected |-> IdsOf(At(events, Ascending(Rejected(events)))),
      stalePlan |-> top # <<>> /\ assumption # "" /\ top[1].assumption \notin {"", assumption}]

\* Every event is selected, deferred or rejected, and which it is does not depend on the
\* order in which the events came; nothing preempts between two safe boundaries.
ArbitrationSound(events, safeBoundary, assumption) ==
  LET verdict == Arbitrate(events, safeBoundary, assumption)
      others == {Arbitrate([i \in DOMAIN events |-> events[p[i]]], safeBoundary, assumption) :
                   p \in {q \in [DOMAIN events -> DOMAIN events] :
                            \A i, j \in DOMAIN events : q[i] = q[j] => i = j}}
  IN /\ \A v \in others :
          /\ v.selected = verdict.selected /\ v.deferred = verdict.deferred
          /\ ToSet(v.rejected) = ToSet(verdict.rejected) /\ v.stalePlan = verdict.stalePlan
     /\ LET all == verdict.selected \o verdict.deferred \o verdict.rejected
        IN Len(all) = Len(events) /\ ToSet(all) = ToSet(IdsOf(events))
     /\ verdict.selected # <<>> => safeBoundary
     /\ \A i \in DOMAIN events :
          RejectedOutright(events[i]) <=> events[i].id \in ToSet(verdict.rejected)

-----------------------------------------------------------------------------
(***************************************************************************)
(* Retrieval.  items maps an id to [state, overlap, reliability]; overlap  *)
(* counts the words its claim shares with the query, reliability is in     *)
(* hundredths.  An id outside the domain is not in the store.              *)
(***************************************************************************)
ActionVisible == {"promoted", "verified"}

Visible(items, k) == k \in DOMAIN items /\ items[k].state \in ActionVisible
Shown(items, mode, k) == k \in DOMAIN items /\ (mode = "audit" \/ Visible(items, k))

Score(item) == item.overlap * 10000 + item.reliability

Stronger(items, k, l) ==
  \/ Score(items[k]) > Score(items[l])
  \/ Score(items[k]) = Score(items[l]) /\ k < l

FirstOf(s, n) == SubSeq(s, 1, IF n < Len(s) THEN n ELSE Len(s))

\* KnowledgeStore.retrieve()
Retrieve(items, query, mode, topK) ==
  LET exact == IF Shown(items, mode, query) THEN <<query>> ELSE <<>>
      scored == {k \in DOMAIN items : k # query /\ Shown(items, mode, k) /\ items[k].overlap > 0}
      lexical == Sorted(scored, {p \in scored \X scored : Stronger(items, p[1], p[2])})
  IN FirstOf(exact \o FirstOf(lexical, topK), topK)

\* Mutant of MayAppend: what the store knows is enough.
MayAppendKnown(items, hits, k) == k \in DOMAIN items /\ k \notin ToSet(hits)

MayAppend(items, hits, k) == Visible(items, k) /\ k \notin ToSet(hits)

\* rerank(): candidates of the semantic seam come behind; none when it failed.
Rerank(items, query, candidates, topK) ==
  LET hits == Retrieve(items, query, "action", topK)
      more == {i \in DOMAIN candidates : MayAppend(items, hits, candidates[i])}
  IN FirstOf(hits \o At(candidates, Ascending(more)), topK)

\* What expand() still has to find behind node n: the neighbours that were not seen and may
\* be shown.  A destination that may not be shown is passed over each time it is met.
Fresh(items, edges, start, mode, order, n) ==
  {k \in DOMAIN items \ ({start} \cup ToSet(order)) : <<n, k>> \in edges /\ Shown(items, mode, k)}

\* One node of the queue; b is [queue, order].
Walk(items, edges, start, depth, budget, mode, b) ==
  LET n == Head(b.queue)[1]
      d == Head(b.queue)[2]
      found == IF d >= depth THEN <<>>
               ELSE FirstOf(Ascending(Fresh(items, edges, start, mode, b.order, n)),
                            budget - Len(b.order))
  IN [queue |-> Tail(b.queue) \o [i \in DOMAIN found |-> <<found[i], d + 1>>],
      order |-> b.order \o found]

\* KnowledgeGraph.expand() over edges, a set of pairs: until the queue or the budget is spent.
Expand(items, edges, start, depth, budget, mode) ==
  LET steps == Cardinality(DOMAIN items) + 1
      walk[n \in 0 .. steps] ==
        IF n = 0 THEN [queue |-> <<<<start, 0>>>>, order |-> <<>>]
        ELSE IF walk[n - 1].queue = <<>> \/ Len(walk[n - 1].order) >= budget THEN walk[n - 1]
        ELSE Walk(items, edges, start, depth, budget, mode, walk[n - 1])
  IN IF ~Shown(items, mode, start) /\ mode # "audit" THEN <<>> ELSE walk[steps].order

\* Reference: what is within depth of start over knowledge that may be shown.
Within(items, edges, start, depth, mode) ==
  LET near[n \in 0 .. depth] ==
        IF n = 0 THEN {start}
        ELSE near[n - 1] \cup {k \in DOMAIN items :
                                 Shown(items, mode, k) /\ \E l \in near[n - 1] : <<l, k>> \in edges}
  IN near[depth] \ {start}

\* Nothing reaches an action that is not promoted or verified knowledge, by whatever way it
\* is found (words, semantic neighbours, links), nor through knowledge that is not; an exact
\* hit comes first, nothing stronger is left out for something weaker, and the semantic
\* seam never displaces what the store itself found.
RetrievalSound(items, query, candidates, topK) ==
  LET hits == Retrieve(items, query, "action", topK)
      reranked == Rerank(items, query, candidates, topK)
  IN /\ \A k \in ToSet(hits) \cup ToSet(reranked) : Visible(items, k)
     /\ Len(reranked) <= topK /\ NoRepeat(hits)
     /\ Visible(items, query) /\ topK > 0 => Head(hits) = query
     /\ \A k \in ToSet(hits) \ {query}, l \in DOMAIN items \ ({query} \cup ToSet(hits)) :
          Visible(items, l) /\ items[l].overlap > 0 => Stronger(items, k, l)
     /\ IsPrefix(hits, reranked)

ExpansionSound(items, edges, start, depth, budget, mode) ==
  LET order == Expand(items, edges, start, depth, budget, mode)
      within == IF mode = "audit" \/ Visible(items, start)
                THEN Within(items, edges, start, depth, mode) ELSE {}
  IN /\ NoRepeat(order) /\ ToSet(order) \subseteq within
     /\ Len(order) = IF Cardinality(within) < budget THEN Cardinality(within) ELSE budget
=============================================================================
