---------------------------- MODULE LearnedReuse ----------------------------
(***************************************************************************)
(* What is learned from the episodes of one skill version, and how long it *)
(* may be used: build_episode() and rebind_history() of                    *)
(* adaptive/experience_bridge.py over learn_macros(), score_path() and     *)
(* their consumption gates of adaptive/learning.py.                        *)
(*                                                                         *)
(* Episodes outlive the run that wrote them; authority does not.  A later  *)
(* run presents the token its own registry issued, and the registry can    *)
(* take it back at any moment: between the look at the token and the       *)
(* statistics, and between these and their use.  Every episode here has    *)
(* the same macro_id and the same path_id; the log only grows, so the      *)
(* episodes that someone looks at are their positions in it.               *)
(***************************************************************************)
EXTENDS Naturals, Sequences, FiniteSets

CONSTANTS
  Revision,    \* revision references
  NoRevision,  \* the empty one
  MaxEpisodes, \* bound: episodes in the log
  MaxTokens    \* bound: tokens the registry issues

ASSUME BoundAssumption == MaxEpisodes \in Nat /\ MaxTokens \in Nat
ASSUME NoRevisionAssumption == NoRevision \notin Revision

MinEpisodes == 2
NoToken == 0

VARIABLES
  history, \* the persisted episodes
  tokens,  \* tokens the registry has issued
  live,    \* the one that is active, or NoToken
  bound,   \* rebind_history() half way: the episodes it passed through, and the token
  stats,   \* the statistics learned last, of the macro and of the path
  reused   \* what a consumption gate let through last

reuseVars == <<history, tokens, live, bound, stats, reused>>

\* What the coordinator says of an attempt; an attempt the Runtime refused is "failed" with
\* effect NONE.
Attempt == {<<"succeeded", "NONE">>, <<"failed", "NONE">>, <<"failed", "PARTIAL">>,
            <<"unknown", "UNKNOWN">>, <<"failed", "other">>}

Recognized(effect) == IF effect \in {"NONE", "PARTIAL", "UNKNOWN"} THEN effect ELSE "UNKNOWN"

\* ours: skill, version and provenance are the ones reuse is asked for.
BuildEpisode(attempt, revision, ours) ==
  [outcome |-> attempt[1], effect |-> Recognized(attempt[2]), revision |-> revision,
   ours |-> ours]

Nothing == [episodes |-> {}, token |-> NoToken]
NoStats == [episodes |-> {}, token |-> NoToken, trusted |-> FALSE]

ReuseInit ==
  /\ history = <<>> /\ tokens = 0 /\ live = NoToken
  /\ bound = Nothing
  /\ stats = [kind \in {"macro", "path"} |-> NoStats]
  /\ reused = {}

-----------------------------------------------------------------------------
(***************************************************************************)
(* The registry and the log.                                               *)
(***************************************************************************)
Activate ==
  /\ live = NoToken /\ tokens < MaxTokens
  /\ tokens' = tokens + 1 /\ live' = tokens'
  /\ UNCHANGED <<history, bound, stats, reused>>

Retire ==
  /\ live # NoToken
  /\ live' = NoToken
  /\ UNCHANGED <<history, tokens, bound, stats, reused>>

Record ==
  /\ Len(history) < MaxEpisodes
  /\ \E a \in Attempt, r \in Revision \cup {NoRevision}, ours \in BOOLEAN :
       history' = Append(history, BuildEpisode(a, r, ours))
  /\ UNCHANGED <<tokens, live, bound, stats, reused>>

-----------------------------------------------------------------------------
(***************************************************************************)
(* rebind_history().                                                       *)
(***************************************************************************)

\* is_token_active()
Active(t) == t # NoToken /\ t = live

PassedThrough(e) == e.ours /\ e.revision # NoRevision

\* The episodes that reach the statistics; a token that is not active lets none through.
Rebind(t) ==
  /\ bound' = [episodes |-> {i \in DOMAIN history : Active(t) /\ PassedThrough(history[i])},
               token |-> t]
  /\ UNCHANGED <<history, tokens, live, stats, reused>>

Revisions(episodes) == {history[i].revision : i \in episodes}

AllNone(episodes) == \A i \in episodes : history[i].effect = "NONE"

\* Mutant of MacroTrusted: any two episodes will do.
MacroTrustedOnce(episodes, t) ==
  Cardinality(episodes) >= MinEpisodes /\ Active(t) /\ AllNone(episodes)

\* learn_macros()
MacroTrusted(episodes, t) ==
  /\ Cardinality(episodes) >= MinEpisodes
  /\ Active(t)
  /\ NoRevision \notin Revisions(episodes) /\ Cardinality(Revisions(episodes)) >= MinEpisodes
  /\ AllNone(episodes)

\* score_path()
PathTrusted(episodes, t) ==
  /\ Active(t)
  /\ Cardinality(episodes) >= MinEpisodes
  /\ Cardinality(Revisions(episodes)) >= MinEpisodes /\ NoRevision \notin Revisions(episodes)
  /\ AllNone(episodes)

Stats(trusted) ==
  [episodes |-> bound.episodes, trusted |-> trusted,
   token |-> IF trusted THEN bound.token ELSE NoToken]

\* The second half: the statistics look at the token again.
Learn ==
  /\ bound # Nothing
  /\ stats' = [macro |-> Stats(MacroTrusted(bound.episodes, bound.token)),
               path |-> Stats(PathTrusted(bound.episodes, bound.token))]
  /\ bound' = Nothing
  /\ UNCHANGED <<history, tokens, live, reused>>

\* macro_reusable() and path_reusable(); a reuse is remembered with what it rests on.
Reusable(s) == s.trusted /\ Active(s.token)

Reuse(kind) ==
  /\ Reusable(stats[kind])
  /\ reused' = {[episodes |-> stats[kind].episodes, token |-> stats[kind].token, at |-> live]}
  /\ UNCHANGED <<history, tokens, live, bound, stats>>

ReuseNext ==
  \/ Activate \/ Retire \/ Record \/ Learn
  \/ \E t \in 1 .. tokens : Rebind(t)
  \/ \E kind \in DOMAIN stats : Reuse(kind)

ReuseSpec == ReuseInit /\ [][ReuseNext]_reuseVars

-----------------------------------------------------------------------------
(***************************************************************************)
(* Properties.                                                             *)
(***************************************************************************)

\* What is reused was learned under the authority that still holds, from the skill's own
\* episodes of at least two revisions, none of which left an effect behind: not from what
\* was learned before a revocation, nor from what was looked at before one.  About: a token
\* that is taken back between rebind_history(), the statistics and their use.
ReuseEarned ==
  \A r \in reused :
    /\ r.token = r.at
    /\ \A i \in r.episodes : history[i].ours /\ history[i].effect = "NONE"
    /\ \E i, j \in r.episodes :
         /\ history[i].revision # history[j].revision
         /\ NoRevision \notin {history[i].revision, history[j].revision}

\* "Retained failure/partial/unknown evidence: passed through so it poisons reuse trust,
\* never filtered into success" (experience_bridge.py).  The least that this can mean: what
\* has never succeeded is not trusted.
FailurePoisonsTrust ==
  \A kind \in DOMAIN stats :
    stats[kind].trusted => \E i \in stats[kind].episodes : history[i].outcome = "succeeded"
=============================================================================
