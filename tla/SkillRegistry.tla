--------------------------- MODULE SkillRegistry ---------------------------
(***************************************************************************)
(* SkillRegistry with HumanApprovalAuthority (skill/registry.py), the      *)
(* lifecycle of a skill (skill/lifecycle.py) and the executor that relies  *)
(* on them (skill/executor.py), for the versions of one skill.             *)
(*                                                                         *)
(* The registry and the authority hold locks, and are used by threads: one *)
(* thread at a time changes the lifecycle, and any number of them execute  *)
(* the skill and turn human evidence into approvals.  A step is the code   *)
(* between two accesses to shared state that another thread can come       *)
(* between; a region under a lock is one step.                             *)
(*                                                                         *)
(* A mutation stands for a payload with the revision it is meant for: all  *)
(* the registry does with the two is to compare them.                      *)
(***************************************************************************)
EXTENDS Naturals, FiniteSets

CONSTANTS
  Thread,       \* threads that execute the skill and mint approvals
  Mutation,     \* payloads, each with its revision
  None,         \* no evidence
  MaxVersion,   \* versions of the skill
  MaxEvidence,  \* bound: human approvals attested in a behaviour
  MaxRuns       \* bound: calls handed to the coordinator in a behaviour

ASSUME VersionAssumption == MaxVersion \in Nat
ASSUME BoundAssumption == MaxEvidence \in Nat /\ MaxRuns \in Nat

Version   == 1..MaxVersion
NoVersion == 0

\* What a person has attested: the claims of HumanApprovalEvidence, and of the
\* approval minted from it.
Evidence   == [id : 1..MaxEvidence, version : Version, mutation : Mutation]
Run        == [version : Version, mutation : Mutation, evidence : Evidence \cup {None}]
Recorded   == [n : Nat, run : Run]

ASSUME NoneAssumption == None \notin Evidence

States == {"absent", "candidate", "validated", "active", "degraded", "superseded",
           "revoked"}

\* How much of the success evidence is there that activate() wants: two revisions, by
\* distinct pieces of evidence.
Proof == {"none", "partial", "enough"}

VARIABLES
  life,        \* lifecycle.state of each version, absent before register()
  gated,       \* candidate.human_gate
  proven,      \* success_evidence
  live,        \* entry.active, active_policy and token are set
  activating,  \* the version activate() is at work on
  retiring,    \* the version whose _invalidate() is due
  attested,    \* every evidence the authority has issued
  issued,      \* __issued: evidence that has not been consumed
  approvals,   \* __human_approvals
  granted,     \* approvals that issue_human_gate_approval() returned
  pc,          \* where each thread is
  call,        \* what its call is about
  runs,        \* history: what reached the coordinator, numbered
  consumed,    \* history: evidence whose approval was used up
  purged       \* history: versions that were invalidated

lifeVars     == <<life, gated, proven, live, activating, retiring>>
approvalVars == <<attested, issued, approvals, granted>>
threadVars   == <<pc, call>>
history      == <<runs, consumed, purged>>
vars         == <<lifeVars, approvalVars, threadVars, history>>

NoCall == [version |-> NoVersion, mutation |-> None, evidence |-> None]

Init ==
  /\ life = [v \in Version |-> "absent"]
  /\ gated \in [Version -> BOOLEAN]
  /\ proven = [v \in Version |-> "none"]
  /\ live = [v \in Version |-> FALSE]
  /\ activating = NoVersion /\ retiring = NoVersion
  /\ attested = {} /\ issued = {} /\ approvals = {} /\ granted = {}
  /\ pc = [c \in Thread |-> "idle"]
  /\ call = [c \in Thread |-> NoCall]
  /\ runs = {} /\ consumed = {} /\ purged = {}
-----------------------------------------------------------------------------
(***************************************************************************)
(* The lifecycle.  transition() changes the state; what follows a change   *)
(* that ends the authority of a version, _invalidate(), is a later step.   *)
(***************************************************************************)
\* is_executable() for the skill object that activate() returned.
Executable(v) == life[v] = "active" /\ live[v]

CuratorIdle == activating = NoVersion /\ retiring = NoVersion

Register(v) ==
  /\ CuratorIdle
  /\ life[v] = "absent"
  /\ life' = [life EXCEPT ![v] = "candidate"]
  /\ UNCHANGED <<gated, proven, live, activating, retiring, approvalVars, threadVars,
                 history>>

Validate(v) ==
  /\ CuratorIdle
  /\ life[v] = "candidate"
  /\ life' = [life EXCEPT ![v] = "validated"]
  /\ UNCHANGED <<gated, proven, live, activating, retiring, approvalVars, threadVars,
                 history>>

\* A first success is never enough.  A later one may be, and it may also replace the
\* evidence of an earlier one under the same revision by evidence that another revision has.
\* What an active version records besides is not read again.
RecordSuccess(v) ==
  /\ CuratorIdle
  /\ life[v] = "validated"
  /\ \E proof \in {"partial", "enough"} :
       /\ proven[v] = "none" => proof = "partial"
       /\ proven' = [proven EXCEPT ![v] = proof]
  /\ UNCHANGED <<life, gated, live, activating, retiring, approvalVars, threadVars, history>>

NewerIsActive(v) == \E w \in Version : w > v /\ live[w] /\ life[w] = "active"

\* Mutant of Promotable: a degraded version can come back.
PromotableAgain(v) ==
  /\ life[v] \in {"validated", "degraded"}
  /\ ~live[v] /\ ~NewerIsActive(v) /\ proven[v] = "enough"

\* Mutant of Promotable: an older version may follow a newer one.
PromotableBehind(v) == life[v] = "validated" /\ ~live[v] /\ proven[v] = "enough"

Promotable(v) ==
  /\ life[v] = "validated"
  /\ ~live[v] /\ ~NewerIsActive(v) /\ proven[v] = "enough"

\* activate() until the state has changed.
Activate(v) ==
  /\ CuratorIdle
  /\ Promotable(v)
  /\ life' = [life EXCEPT ![v] = "active"]
  /\ activating' = v
  /\ UNCHANGED <<gated, proven, live, retiring, approvalVars, threadVars, history>>

Older(v) == {w \in Version : w < v /\ live[w]}

\* activate() supersedes the older versions one by one.
SupersedeOlder ==
  /\ activating # NoVersion /\ retiring = NoVersion
  /\ \E w \in Older(activating) :
       /\ life' = IF life[w] = "active" THEN [life EXCEPT ![w] = "superseded"] ELSE life
       /\ retiring' = w
  /\ UNCHANGED <<gated, proven, live, activating, approvalVars, threadVars, history>>

\* The new version gets its skill object, its policy and its token.
Publish ==
  /\ activating # NoVersion /\ retiring = NoVersion
  /\ Older(activating) = {}
  /\ live' = [live EXCEPT ![activating] = TRUE]
  /\ activating' = NoVersion
  /\ UNCHANGED <<life, gated, proven, retiring, approvalVars, threadVars, history>>

\* degrade(), revoke() and supersede() until the state has changed.
Retire(v) ==
  /\ CuratorIdle
  /\ \/ /\ life[v] = "active"
        /\ life' = [life EXCEPT ![v] = "degraded"]
     \/ /\ life[v] \in {"candidate", "validated", "active", "degraded"}
        /\ life' = [life EXCEPT ![v] = "revoked"]
     \/ /\ life[v] \in {"active", "degraded"}
        /\ life' = [life EXCEPT ![v] = "superseded"]
  /\ retiring' = v
  /\ UNCHANGED <<gated, proven, live, activating, approvalVars, threadVars, history>>

\* Mutant of Invalidate: outstanding approvals stay.
InvalidateKeepsApprovals ==
  /\ retiring # NoVersion
  /\ live' = [live EXCEPT ![retiring] = FALSE]
  /\ purged' = purged \cup {retiring}
  /\ retiring' = NoVersion
  /\ UNCHANGED <<life, gated, proven, activating, approvalVars, threadVars, runs, consumed>>

\* _invalidate(): the approvals of a live version go, then its token and object.
Invalidate ==
  /\ retiring # NoVersion
  /\ approvals' = IF live[retiring] THEN {a \in approvals : a.version # retiring} ELSE approvals
  /\ live' = [live EXCEPT ![retiring] = FALSE]
  /\ purged' = purged \cup {retiring}
  /\ retiring' = NoVersion
  /\ UNCHANGED <<life, gated, proven, activating, attested, issued, granted, threadVars,
                 runs, consumed>>
-----------------------------------------------------------------------------
(***************************************************************************)
(* Human approval.  The authority attests; a thread takes the evidence and *)
(* mints an approval from it.                                              *)
(***************************************************************************)
\* HumanApprovalAuthority.approve(): an evidence identifier is used once.
Approve(v, m) ==
  LET e == [id |-> Cardinality(attested) + 1, version |-> v, mutation |-> m] IN
  /\ e.id <= MaxEvidence
  /\ attested' = attested \cup {e}
  /\ issued' = issued \cup {e}
  /\ UNCHANGED <<lifeVars, approvals, granted, threadVars, history>>

Goto(c, place) == pc' = [pc EXCEPT ![c] = place]

\* The call of c ends without a trace.
Reject(c) ==
  /\ Goto(c, "idle")
  /\ call' = [call EXCEPT ![c] = NoCall]
  /\ UNCHANGED <<lifeVars, approvalVars, history>>

\* issue_human_gate_approval() up to the authority.
Issue(c) ==
  /\ pc[c] = "idle"
  /\ \E v \in Version, m \in Mutation, e \in attested :
       /\ Executable(v) /\ gated[v]
       /\ call' = [call EXCEPT ![c] = [version |-> v, mutation |-> m, evidence |-> e]]
  /\ Goto(c, "issuing")
  /\ UNCHANGED <<lifeVars, approvalVars, history>>

Fits(e, q) == e.version = q.version /\ e.mutation = q.mutation

\* Mutant of TakeEvidence: the authority keeps the evidence.
TakeEvidenceAndKeep(c) ==
  /\ pc[c] = "issuing"
  /\ call[c].evidence \in issued /\ Fits(call[c].evidence, call[c])
  /\ Goto(c, "minting")
  /\ UNCHANGED <<lifeVars, approvalVars, call, history>>

\* HumanApprovalAuthority._consume(), under its lock.
TakeEvidence(c) ==
  /\ pc[c] = "issuing"
  /\ call[c].evidence \in issued /\ Fits(call[c].evidence, call[c])
  /\ issued' = issued \ {call[c].evidence}
  /\ Goto(c, "minting")
  /\ UNCHANGED <<lifeVars, attested, approvals, granted, call, history>>

RefuseEvidence(c) ==
  /\ pc[c] = "issuing"
  /\ ~(call[c].evidence \in issued /\ Fits(call[c].evidence, call[c]))
  /\ Reject(c)

\* The approval enters the registry, under its lock, and is returned.
Mint(c) ==
  /\ pc[c] = "minting"
  /\ approvals' = approvals \cup {call[c].evidence}
  /\ granted' = granted \cup {call[c].evidence}
  /\ Goto(c, "idle")
  /\ call' = [call EXCEPT ![c] = NoCall]
  /\ UNCHANGED <<lifeVars, attested, issued, history>>
-----------------------------------------------------------------------------
(***************************************************************************)
(* SkillExecutor.  The last look at the registry before the approval is    *)
(* used, or before the coordinator is called, is the one that counts.      *)
(***************************************************************************)
\* execute() of a skill without a human gate, and execute_sequence().
Execute(c) ==
  /\ pc[c] = "idle"
  /\ \E v \in Version, m \in Mutation :
       /\ Executable(v) /\ ~gated[v]
       /\ call' = [call EXCEPT ![c] = [version |-> v, mutation |-> m, evidence |-> None]]
  /\ Goto(c, "cleared")
  /\ UNCHANGED <<lifeVars, approvalVars, history>>

\* execute() of a gated skill, up to the lock of consume_human_gate_approval().
ExecuteGated(c) ==
  /\ pc[c] = "idle"
  /\ \E v \in Version, m \in Mutation, a \in granted :
       /\ Executable(v) /\ gated[v]
       /\ call' = [call EXCEPT ![c] = [version |-> v, mutation |-> m, evidence |-> a]]
  /\ Goto(c, "checked")
  /\ UNCHANGED <<lifeVars, approvalVars, history>>

\* consume_human_gate_approval() under the lock.
Consume(c) ==
  /\ pc[c] = "checked"
  /\ call[c].evidence \in approvals /\ Fits(call[c].evidence, call[c])
  /\ approvals' = approvals \ {call[c].evidence}
  /\ consumed' = consumed \cup {call[c].evidence}
  /\ Goto(c, "cleared")
  /\ UNCHANGED <<lifeVars, attested, issued, granted, call, runs, purged>>

RefuseApproval(c) ==
  /\ pc[c] = "checked"
  /\ ~(call[c].evidence \in approvals /\ Fits(call[c].evidence, call[c]))
  /\ Reject(c)

\* ExecutionCoordinator.run() or run_sequence() is called.
Dispatch(c) ==
  /\ pc[c] = "cleared"
  /\ Cardinality(runs) < MaxRuns
  /\ runs' = runs \cup {[n |-> Cardinality(runs) + 1, run |-> call[c]]}
  /\ Goto(c, "idle")
  /\ call' = [call EXCEPT ![c] = NoCall]
  /\ UNCHANGED <<lifeVars, approvalVars, consumed, purged>>
-----------------------------------------------------------------------------
Curate ==
  \/ \E v \in Version :
       Register(v) \/ Validate(v) \/ RecordSuccess(v) \/ Activate(v) \/ Retire(v)
  \/ SupersedeOlder \/ Publish \/ Invalidate

Next ==
  \/ Curate
  \/ \E v \in Version, m \in Mutation : Approve(v, m)
  \/ \E c \in Thread :
       \/ Issue(c) \/ TakeEvidence(c) \/ RefuseEvidence(c) \/ Mint(c)
       \/ Execute(c) \/ ExecuteGated(c) \/ Consume(c) \/ RefuseApproval(c) \/ Dispatch(c)

Spec == Init /\ [][Next]_vars
-----------------------------------------------------------------------------
TypeOK ==
  /\ life \in [Version -> States]
  /\ {gated, live} \subseteq [Version -> BOOLEAN] /\ proven \in [Version -> Proof]
  /\ {activating, retiring} \subseteq Version \cup {NoVersion}
  /\ attested \subseteq Evidence /\ issued \subseteq Evidence
  /\ approvals \subseteq Evidence /\ granted \subseteq Evidence
  /\ pc \in [Thread -> {"idle", "issuing", "minting", "checked", "cleared"}]
  /\ call \in [Thread -> Run \cup {NoCall}]
  /\ runs \subseteq Recorded
  /\ consumed \subseteq Evidence /\ purged \subseteq Version

\* At no time do two versions of a skill have execution authority, not even while
\* activate() is half done: "activating a newer version atomically retires any older
\* active version".
OneExecutable == \A v, w \in Version : Executable(v) /\ Executable(w) => v = w

\* A version that has been invalidated has lost its authority for good: "revoked never
\* reactivates", and a degraded version does not come back either.
NeverAgain == \A v \in purged : ~Executable(v)

\* Each run of a gated version was attested by a person for exactly this version and
\* this mutation, and no attestation carries two runs, whatever threads raced for it.
Sanctioned ==
  \A d \in runs :
    gated[d.run.version] =>
      /\ d.run.evidence \in attested
      /\ Fits(d.run.evidence, d.run)
      /\ \A e \in runs : e.run.evidence = d.run.evidence => e = d

\* Once the approvals of a version have been purged none is used up any more, not by a
\* call that found the version executable before, nor one minted behind the purge.
PurgeIsFinal == [][\A a \in consumed' \ consumed : a.version \notin purged]_vars
=============================================================================
