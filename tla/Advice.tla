------------------------------- MODULE Advice -------------------------------
(***************************************************************************)
(* What the adaptive layer advises for one action, and what the live gate  *)
(* lets through: the signals of adaptive/observation.py, batching.py,      *)
(* routing.py, fallback.py and retrieval/validator.py as shadow_recommend()*)
(* puts them together, apply_teaching_influence() before it, and           *)
(* LiveOptimizationGate and the promotion gates behind it.                 *)
(*                                                                         *)
(* Confidences are in tenths; one above 10 stands for what is no number    *)
(* between 0 and 1.  "class" is the floor of risk, reversibility and human *)
(* gate: low, medium (or compensable), high (irreversible, or gated) and   *)
(* unknown.                                                                *)
(***************************************************************************)
EXTENDS Naturals, Sequences, FiniteSets, SequencesExt

CONSTANT None  \* what a caller leaves out

ASSUME NoneAssumption == None \notin {"sufficient", "fast-path"}

Trusted == 0 .. 10

Smaller(a, b) == IF a < b THEN a ELSE b
Larger(a, b) == IF a < b THEN b ELSE a

-----------------------------------------------------------------------------
(***************************************************************************)
(* The signals.                                                            *)
(***************************************************************************)

\* AdaptiveValidator.decide()
Sufficient(v) == v.effect = "NONE" /\ ~v.mismatch /\ v.conf >= 5 /\ ~v.risky /\ v.anchorSeen

Authoritative(v) == IF Sufficient(v) THEN "sufficient" ELSE "insufficient"

\* The decision ObservationPolicy goes by: none when the context is malformed, or when the
\* caller's decision is not the one the context yields.
DecisionOn(ctx) ==
  IF ctx.context = None THEN ctx.decision
  ELSE IF ctx.context.conf \notin Trusted \/ ctx.decision \notin {None, Authoritative(ctx.context)}
    THEN None
    ELSE Authoritative(ctx.context)

\* ObservationPolicy.decide(): a decision that claims to create a revision is refused.
Observation(ctx) ==
  IF /\ DecisionOn(ctx) = "sufficient"
     /\ ctx.class = "low"
     /\ ~(ctx.invalidated /\ ctx.sensitive)
     /\ ctx.conf \in Trusted /\ ctx.conf >= ctx.floor /\ ~ctx.sensitive
    THEN "cheap-validate" ELSE "full-observe"

MaxBatchHard == 32

\* decide_batch(), its size
BatchSize(ctx) ==
  IF ctx.pending = 0 \/ ctx.maxBatch \notin 1 .. MaxBatchHard THEN 0
  ELSE IF ~ctx.revisionBound \/ ctx.class # "low" \/ ctx.sensitive THEN 1
  ELSE IF ctx.conf \notin Trusted THEN 1
  ELSE IF ctx.conf >= 8 THEN Smaller(ctx.pending, ctx.maxBatch)
  ELSE IF ctx.conf >= 5 THEN Smaller(ctx.pending, Larger(1, ctx.maxBatch \div 2))
  ELSE 1

\* PerformanceBaseline.measure(): the latencies of the successful events of one kind.
\* Of the sorted samples it takes the one behind the first nine tenths: the least sample
\* that more than so many do not exceed.
P90(latencies) ==
  LET before == Smaller(Len(latencies) - 1, (Len(latencies) * 9) \div 10)
      UpTo(v) == {i \in DOMAIN latencies : latencies[i] <= v}
  IN Min({v \in ToSet(latencies) : Cardinality(UpTo(v)) > before})

\* route_latency_aware()
Route(ctx) ==
  IF ctx.budgetMs = 0 \/ ctx.class \in {"unknown", "high"} THEN "careful"
  ELSE IF Len(ctx.latencies) < 2 THEN "careful"
  ELSE IF ctx.class = "medium" THEN "standard"
  ELSE IF P90(ctx.latencies) <= ctx.budgetMs \div 2 THEN "fast-path"
  ELSE IF P90(ctx.latencies) <= ctx.budgetMs THEN "standard"
  ELSE "careful"

\* adapt_strategy()
Strategy(ctx) ==
  IF ctx.validatorFailed \/ ctx.loop \/ ctx.streak >= 3 THEN "heavy"
  ELSE IF ctx.streak >= 1 THEN "lightweight"
  ELSE "deterministic"

\* check_budget(): no budget, or the limits of one
WithinBudget(ctx) ==
  \/ ctx.budget = None
  \/ /\ ctx.budget.maxLatency > 0
     /\ ctx.latencies \notin {None, <<>>} /\ P90(ctx.latencies) <= ctx.budget.maxLatency
     /\ ctx.observeRate \in Trusted /\ ctx.observeRate <= ctx.budget.maxObserve
     /\ ctx.recoveryRate \in Trusted /\ ctx.recoveryRate >= ctx.budget.minRecovery

\* shadow_recommend()
Recommend(ctx) ==
  [observation  |-> Observation(ctx),
   batch        |-> BatchSize(ctx),
   route        |-> IF ctx.latencies = None THEN None ELSE Route(ctx),
   strategy     |-> Strategy(ctx),
   fallback     |-> ~WithinBudget(ctx),
   conf         |-> IF ctx.conf \in Trusted THEN ctx.conf ELSE 0,
   reuse        |-> ctx.reuse,
   fewerObserve |-> Observation(ctx) = "cheap-validate",
   fewerActions |-> BatchSize(ctx) > 1]

-----------------------------------------------------------------------------
(***************************************************************************)
(* The gates.                                                              *)
(***************************************************************************)

\* LiveOptimizationGate(enabled=True).authorize()
Authorized(rec, class) == class = "low" /\ (rec.fewerObserve \/ rec.fewerActions)

\* What the limited canary asks besides: the observation only, and never a batch.
AuthorizedLive(rec, class) ==
  Authorized(rec, class) /\ rec.observation = "cheap-validate" /\ ~rec.fewerActions

\* Mutant of Taught: the cap of a teaching replaces the confidence.
TaughtReplaces(ctx, t) ==
  [ctx EXCEPT !.conf = IF t.cap = None THEN @ ELSE t.cap[1],
              !.sensitive = @ \/ t.forceObserve,
              !.maxBatch = IF t.maxBatch = None THEN @ ELSE Smaller(@, t.maxBatch[1]),
              !.reuse = @ /\ ~t.disableReuse]

\* apply_teaching_influence(), for learned teachings; a cap is <<tenths>> or None
Taught(ctx, t) ==
  [ctx EXCEPT !.conf = IF t.cap = None THEN @ ELSE Smaller(@, t.cap[1]),
              !.sensitive = @ \/ t.forceObserve,
              !.maxBatch = IF t.maxBatch = None THEN @ ELSE Smaller(@, t.maxBatch[1]),
              !.reuse = @ /\ ~t.disableReuse]

\* evaluate_promotion_readiness(); a latency or a rate the policy does not limit is None, and
\* risk and reversibility are one class, which must be the one that the policy names.
Ready(policy, e) ==
  /\ e.operation = policy.operation
  /\ e.successes >= policy.minSuccesses /\ e.shadow >= policy.minShadow /\ e.stable
  /\ e.partial <= policy.maxPartial /\ e.unknown <= policy.maxUnknown
  /\ e.replays <= policy.maxReplays /\ e.conflicts <= policy.maxConflicts
  /\ policy.needValidator => e.validatorProven
  /\ policy.needFallback => e.fallbackProven
  /\ e.class = policy.class /\ (e.humanGate => policy.allowHumanGate)
  /\ policy.surface = "observation-only" /\ ~policy.sequence
  /\ policy.maxP90 = None \/ (e.p90 # None /\ e.p90[1] <= policy.maxP90[1])
  /\ policy.minRecovery = None
       \/ (e.recovery # None /\ e.recovery[1] >= policy.minRecovery[1])

\* evaluate_canary_preflight()
Preflight(ready, policy, env) ==
  /\ ready /\ ~policy.sequence
  /\ env.runtimeReady /\ env.channelReady /\ env.freshObservation /\ env.laneIdle
  /\ ~env.locked /\ ~env.error

-----------------------------------------------------------------------------
(***************************************************************************)
(* What the advice promises, for contexts a caller can build: a confidence *)
(* between 0 and 1 and a batch limit the Runtime has.                      *)
(***************************************************************************)
WellFormed(ctx) == ctx.conf \in Trusted /\ ctx.maxBatch \in 1 .. MaxBatchHard

\* Who is let through without a full observation has a causal proof behind an attempt
\* without effect; who is let through with a batch has a revision to bind it to.
Floor(ctx) ==
  /\ ctx.class = "low" /\ ~ctx.sensitive
  /\ \/ /\ ctx.conf >= ctx.floor
        /\ ctx.context # None => ctx.context.effect = "NONE" /\ ctx.context.anchorSeen
     \/ ctx.revisionBound /\ ctx.conf >= 5

LiveOnlyAboveFloor(ctx) ==
  /\ Authorized(Recommend(ctx), ctx.class) => Floor(ctx)
  /\ AuthorizedLive(Recommend(ctx), ctx.class) =>
       DecisionOn(ctx) = "sufficient" /\ BatchSize(ctx) <= 1

FastOnlyWhenMeasured(ctx) ==
  Recommend(ctx).route = "fast-path" =>
    /\ ctx.class = "low" /\ Len(ctx.latencies) >= 2
    /\ 10 * Cardinality({i \in DOMAIN ctx.latencies : 2 * ctx.latencies[i] > ctx.budgetMs})
         <= Len(ctx.latencies)

TeachingOnlyTightens(ctx, t) ==
  WellFormed(ctx) =>
    /\ Authorized(Recommend(Taught(ctx, t)), ctx.class) => Authorized(Recommend(ctx), ctx.class)
    /\ BatchSize(Taught(ctx, t)) <= BatchSize(ctx)
    /\ Taught(ctx, t).reuse => ctx.reuse

\* e is about what f is about, and no better in anything that is counted, proved or measured.
NoBetter(e, f) ==
  /\ e.operation = f.operation /\ e.class = f.class /\ (f.humanGate => e.humanGate)
  /\ e.successes <= f.successes /\ e.shadow <= f.shadow
  /\ e.partial >= f.partial /\ e.unknown >= f.unknown
  /\ e.replays >= f.replays /\ e.conflicts >= f.conflicts
  /\ e.stable => f.stable
  /\ e.validatorProven => f.validatorProven
  /\ e.fallbackProven => f.fallbackProven
  /\ e.p90 = None \/ (f.p90 # None /\ e.p90[1] >= f.p90[1])
  /\ e.recovery = None \/ (f.recovery # None /\ e.recovery[1] <= f.recovery[1])

ReadinessMonotone(policy, e, f, env) ==
  NoBetter(e, f) /\ Preflight(Ready(policy, e), policy, env) =>
    Preflight(Ready(policy, f), policy, env)
=============================================================================
