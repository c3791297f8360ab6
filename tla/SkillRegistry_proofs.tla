------------------------ MODULE SkillRegistry_proofs ------------------------
(***************************************************************************)
(* Proofs about SkillRegistry: for any number of versions, threads,        *)
(* mutations, human approvals and runs.                                    *)
(***************************************************************************)
EXTENDS SkillRegistry, FiniteSetTheorems, TLAPS

Ended == {"degraded", "superseded", "revoked"}

\* At most one version is live; one whose authority has ended is not, or is about to be
\* invalidated; while activate() is at work no newer version is live.
LifeInv ==
  /\ \A v \in Version : live[v] => life[v] = "active" \/ retiring = v
  /\ \A v, w \in Version : live[v] /\ live[w] => v = w
  /\ activating # NoVersion =>
       /\ life[activating] = "active" /\ ~live[activating] /\ retiring # activating
       /\ \A w \in Version : w > activating => ~live[w]
  /\ retiring # NoVersion => life[retiring] \in Ended
  /\ \A v \in purged : life[v] \in Ended /\ ~live[v]

\* Evidence moves one way: issued, in the hands of one minter, granted.
EvidenceInv ==
  /\ IsFiniteSet(attested)
  /\ \A e \in attested : e.id <= Cardinality(attested)
  /\ issued \subseteq attested /\ granted \subseteq attested
  /\ approvals \subseteq granted /\ consumed \subseteq granted
  /\ issued \cap granted = {} /\ approvals \cap consumed = {}
  /\ \A c \in Thread :
       /\ pc[c] # "idle" => call[c] \in Run
       /\ pc[c] = "issuing" => call[c].evidence \in attested
       /\ pc[c] = "minting" => call[c].evidence \in attested \ (issued \cup granted)
       /\ pc[c] = "checked" => call[c].evidence \in granted /\ gated[call[c].version]
  /\ \A c, d \in Thread :
       pc[c] = "minting" /\ pc[d] = "minting" /\ call[c].evidence = call[d].evidence => c = d

\* A call that is cleared, or that ran, has used up an approval of its own, or has none
\* and needs none.
Covered(q) ==
  /\ gated[q.version] => q.evidence \in consumed /\ Fits(q.evidence, q)
  /\ ~gated[q.version] => q.evidence = None

RunInv ==
  /\ IsFiniteSet(runs)
  /\ \A d \in runs : d.n <= Cardinality(runs) /\ Covered(d.run)
  /\ \A c \in Thread : pc[c] = "cleared" => Covered(call[c])
  /\ \A c, d \in Thread :
       pc[c] = "cleared" /\ pc[d] = "cleared" /\ call[c].evidence = call[d].evidence
         => c = d \/ call[c].evidence = None
  /\ \A c \in Thread, d \in runs :
       pc[c] = "cleared" /\ call[c].evidence = d.run.evidence => d.run.evidence = None
  /\ \A d, e \in runs : d.run.evidence = e.run.evidence => d = e \/ d.run.evidence = None

\* A call that found its version executable before the purge finds no approval behind it.
PurgeInv ==
  \A c \in Thread : pc[c] = "checked" =>
    /\ live[call[c].version] \/ call[c].version \in purged
    /\ call[c].version \in purged /\ Fits(call[c].evidence, call[c])
         => call[c].evidence \notin approvals

IInv == TypeOK /\ LifeInv /\ EvidenceInv /\ RunInv /\ PurgeInv

-----------------------------------------------------------------------------
(* What the steps leave alone. *)

\* The steps of the thread that changes the lifecycle.
Curating ==
  \/ \E v \in Version :
       Register(v) \/ Validate(v) \/ RecordSuccess(v) \/ Activate(v) \/ Retire(v)
  \/ SupersedeOlder \/ Publish

LEMMA CuratingKeeps ==
  ASSUME Curating
  PROVE  UNCHANGED <<gated, approvalVars, threadVars, history>>
  BY DEF Curating, Register, Validate, RecordSuccess, Activate, Retire, SupersedeOlder, Publish

\* The steps of a thread.
Calling(c) ==
  \/ Issue(c) \/ TakeEvidence(c) \/ RefuseEvidence(c) \/ Mint(c)
  \/ Execute(c) \/ ExecuteGated(c) \/ Consume(c) \/ RefuseApproval(c) \/ Dispatch(c)

LEMMA CallingKeeps ==
  ASSUME NEW c \in Thread, Calling(c)
  PROVE  UNCHANGED <<lifeVars, attested, purged>>
  BY DEF Calling, Issue, TakeEvidence, RefuseEvidence, Mint, Execute, ExecuteGated, Consume,
     RefuseApproval, Dispatch, Reject, approvalVars, history

LEMMA NextCases ==
  ASSUME [Next]_vars
  PROVE  \/ Curating
         \/ Invalidate
         \/ \E v \in Version, m \in Mutation : Approve(v, m)
         \/ \E c \in Thread : Calling(c)
         \/ UNCHANGED vars
  BY DEF Next, Curate, Curating, Calling

\* Where a step of a thread leaves it, and that the others stay where they are.
LEMMA CallingMoves ==
  ASSUME TypeOK, NEW c \in Thread, Calling(c)
  PROVE  /\ \A d \in Thread \ {c} : pc'[d] = pc[d] /\ call'[d] = call[d]
         /\ Issue(c) => pc'[c] = "issuing"
         /\ TakeEvidence(c) => pc'[c] = "minting" /\ call'[c] = call[c]
         /\ Execute(c) => pc'[c] = "cleared"
         /\ ExecuteGated(c) => pc'[c] = "checked"
         /\ Consume(c) => pc'[c] = "cleared" /\ call'[c] = call[c]
         /\ RefuseEvidence(c) \/ Mint(c) \/ RefuseApproval(c) \/ Dispatch(c) => pc'[c] = "idle"
<1>1. CASE Issue(c) \/ TakeEvidence(c) \/ Execute(c) \/ ExecuteGated(c) \/ Consume(c)
  BY <1>1 DEF Issue, TakeEvidence, RefuseEvidence, Mint, Execute, ExecuteGated, Consume,
     RefuseApproval, Dispatch, Reject, Goto, TypeOK
<1>2. CASE RefuseEvidence(c) \/ Mint(c) \/ RefuseApproval(c) \/ Dispatch(c)
  BY <1>2 DEF Issue, TakeEvidence, RefuseEvidence, Mint, Execute, ExecuteGated, Consume,
     RefuseApproval, Dispatch, Reject, Goto, TypeOK
<1>. QED
  BY <1>1, <1>2 DEF Calling

-----------------------------------------------------------------------------
(* Types. *)

LEMMA TypeInit == Init => TypeOK
  BY DEF Init, TypeOK, States, Proof, NoVersion

LEMMA TypeStep ==
  ASSUME TypeOK, EvidenceInv, RunInv, [Next]_vars
  PROVE  TypeOK'
<1>1. CASE Curating
  <2>1. UNCHANGED <<gated, approvalVars, threadVars, history>>
    BY <1>1, CuratingKeeps
  <2>2. /\ life' \in [Version -> States] /\ live' \in [Version -> BOOLEAN]
        /\ proven' \in [Version -> Proof]
        /\ {activating', retiring'} \subseteq Version \cup {NoVersion}
    <3>1. CASE \E v \in Version : Register(v) \/ Validate(v) \/ Activate(v) \/ Retire(v)
      BY <3>1 DEF Register, Validate, Activate, Retire, TypeOK, States
    <3>2. CASE \E v \in Version : RecordSuccess(v)
      BY <3>2 DEF RecordSuccess, TypeOK, Proof
    <3>3. CASE SupersedeOlder
      BY <3>3 DEF SupersedeOlder, Older, TypeOK, States
    <3>4. CASE Publish
      BY <3>4 DEF Publish, TypeOK
    <3>. QED
      BY <1>1, <3>1, <3>2, <3>3, <3>4 DEF Curating
  <2>. QED
    BY <2>1, <2>2 DEF TypeOK, approvalVars, threadVars, history
<1>2. CASE Invalidate
  BY <1>2 DEF Invalidate, TypeOK, threadVars
<1>3. ASSUME NEW v \in Version, NEW m \in Mutation, Approve(v, m)
      PROVE  TypeOK'
  <2>1. [id |-> Cardinality(attested) + 1, version |-> v, mutation |-> m] \in Evidence
    <3>1. Cardinality(attested) \in Nat
      BY FS_CardinalityType DEF EvidenceInv
    <3>. QED
      BY <1>3, <3>1, BoundAssumption DEF Approve, Evidence
  <2>. QED
    BY <1>3, <2>1 DEF Approve, TypeOK, lifeVars, threadVars, history
<1>4. ASSUME NEW c \in Thread, Calling(c)
      PROVE  TypeOK'
  <2>1. UNCHANGED <<lifeVars, attested, purged>>
    BY <1>4, CallingKeeps
  <2>2. /\ life' \in [Version -> States] /\ attested' \subseteq Evidence
        /\ {gated', live'} \subseteq [Version -> BOOLEAN] /\ proven' \in [Version -> Proof]
        /\ {activating', retiring'} \subseteq Version \cup {NoVersion}
        /\ purged' \subseteq Version
    BY <2>1 DEF TypeOK, lifeVars
  <2>3. CASE Issue(c) \/ Execute(c) \/ ExecuteGated(c)
    <3>1. \E q \in Run, r \in {"issuing", "cleared", "checked"} :
           pc' = [pc EXCEPT ![c] = r] /\ call' = [call EXCEPT ![c] = q]
      BY <2>3 DEF Issue, Execute, ExecuteGated, Goto, Run, TypeOK
    <3>2. pc' \in [Thread -> {"idle", "issuing", "minting", "checked", "cleared"}]
            /\ call' \in [Thread -> Run \cup {NoCall}]
      BY <3>1 DEF TypeOK
    <3>3. UNCHANGED <<approvalVars, history>>
      BY <2>3 DEF Issue, Execute, ExecuteGated
    <3>. QED
      BY <2>2, <3>2, <3>3 DEF TypeOK, approvalVars, history
  <2>4. CASE TakeEvidence(c) \/ RefuseEvidence(c) \/ Mint(c) \/ Consume(c) \/ RefuseApproval(c)
               \/ Dispatch(c)
    <3>1. /\ pc' \in [Thread -> {"idle", "issuing", "minting", "checked", "cleared"}]
          /\ call' \in [Thread -> Run \cup {NoCall}]
      BY <2>4 DEF TakeEvidence, RefuseEvidence, Mint, Consume, RefuseApproval, Dispatch, Reject,
         Goto, TypeOK
    <3>2. /\ issued' \subseteq issued
          /\ approvals' \subseteq approvals \cup (IF Mint(c) THEN {call[c].evidence} ELSE {})
          /\ granted' \subseteq granted \cup (IF Mint(c) THEN {call[c].evidence} ELSE {})
          /\ consumed' \subseteq consumed \cup (IF Consume(c) THEN {call[c].evidence} ELSE {})
      BY <2>4 DEF TakeEvidence, RefuseEvidence, Mint, Consume, RefuseApproval, Dispatch, Reject,
         approvalVars, history
    <3>3. Mint(c) \/ Consume(c) => call[c].evidence \in Evidence
      BY DEF Mint, Consume, EvidenceInv, TypeOK
    <3>4. runs' \subseteq Recorded
      <4>1. CASE Dispatch(c)
        <5>1. Cardinality(runs) \in Nat
          BY FS_CardinalityType DEF RunInv
        <5>. QED
          BY <4>1, <5>1 DEF Dispatch, TypeOK, Recorded, EvidenceInv
      <4>2. CASE ~Dispatch(c)
        BY <2>4, <4>2 DEF TakeEvidence, RefuseEvidence, Mint, Consume, RefuseApproval, Reject,
           history, TypeOK
      <4>. QED
        BY <4>1, <4>2
    <3>5. /\ issued' \subseteq Evidence /\ approvals' \subseteq Evidence
          /\ granted' \subseteq Evidence /\ consumed' \subseteq Evidence
      BY <3>2, <3>3 DEF TypeOK
    <3>. QED
      BY <2>2, <3>1, <3>4, <3>5 DEF TypeOK
  <2>. QED
    BY <1>4, <2>3, <2>4 DEF Calling
<1>5. CASE UNCHANGED vars
  BY <1>5 DEF vars, lifeVars, approvalVars, threadVars, history, TypeOK
<1>. QED
  BY <1>1, <1>2, <1>3, <1>4, <1>5, NextCases

-----------------------------------------------------------------------------
(* One version has execution authority. *)

LEMMA LifeStep ==
  ASSUME TypeOK, LifeInv, [Next]_vars
  PROVE  LifeInv'
<1>. USE DEF Version, NoVersion, Ended
<1>1. ASSUME NEW v \in Version, Register(v) \/ Validate(v) \/ Retire(v)
      PROVE  LifeInv'
  <2>1. /\ activating' = NoVersion /\ retiring = NoVersion
        /\ retiring' \in {NoVersion, v} /\ live' = live /\ purged' = purged
        /\ \A w \in Version \ {v} : life'[w] = life[w]
        /\ purged \subseteq Version
    BY <1>1 DEF Register, Validate, Retire, CuratorIdle, TypeOK, history
  <2>2. CASE Register(v) \/ Validate(v)
    <3>1. life[v] \in {"absent", "candidate"} /\ retiring' = NoVersion
      BY <2>2 DEF Register, Validate, CuratorIdle
    <3>. QED
      BY <2>1, <3>1 DEF LifeInv
  <2>3. CASE Retire(v)
    <3>1. retiring' = v /\ life'[v] \in Ended
      BY <2>3 DEF Retire, TypeOK
    <3>. QED
      BY <2>1, <3>1 DEF LifeInv
  <2>. QED
    BY <1>1, <2>2, <2>3
<1>2. ASSUME NEW v \in Version, RecordSuccess(v)
      PROVE  LifeInv'
  BY <1>2 DEF RecordSuccess, history, LifeInv
<1>3. ASSUME NEW v \in Version, Activate(v)
      PROVE  LifeInv'
  <2>1. \A w \in Version : w > v => ~live[w]
    BY <1>3 DEF Activate, Promotable, NewerIsActive, CuratorIdle, LifeInv
  <2>2. /\ activating' = v /\ retiring' = NoVersion /\ live' = live /\ purged' = purged
        /\ life'[v] = "active" /\ ~live[v] /\ life[v] = "validated"
        /\ \A w \in Version \ {v} : life'[w] = life[w]
    BY <1>3 DEF Activate, Promotable, CuratorIdle, TypeOK, history
  <2>. QED
    BY <1>3, <2>1, <2>2 DEF LifeInv, Activate, CuratorIdle
<1>4. CASE SupersedeOlder
  <2>1. PICK w \in Version :
          /\ w < activating /\ live[w] /\ retiring' = w
          /\ life' = IF life[w] = "active" THEN [life EXCEPT ![w] = "superseded"] ELSE life
    BY <1>4 DEF SupersedeOlder, Older
  <2>2. /\ activating' = activating /\ live' = live /\ purged' = purged
        /\ activating \in Version /\ retiring = NoVersion
    BY <1>4 DEF SupersedeOlder, history, TypeOK
  <2>3. life[w] = "active"
    BY <2>1, <2>2 DEF LifeInv
  <2>4. life'[w] = "superseded" /\ \A x \in Version \ {w} : life'[x] = life[x]
    BY <2>1, <2>3 DEF TypeOK
  <2>5. w # activating
    BY <2>1, <2>2
  <2>. QED
    BY <2>1, <2>2, <2>3, <2>4, <2>5 DEF LifeInv
<1>5. CASE Publish
  <2>1. /\ life' = life /\ purged' = purged /\ activating' = NoVersion /\ retiring = NoVersion
        /\ retiring' = NoVersion /\ activating \in Version
        /\ live' = [live EXCEPT ![activating] = TRUE]
    BY <1>5 DEF Publish, history, TypeOK
  <2>2. \A w \in Version \ {activating} : ~live[w]
    BY <1>5, <2>1 DEF Publish, Older, LifeInv
  <2>3. live'[activating] /\ \A w \in Version \ {activating} : ~live'[w]
    BY <2>1, <2>2 DEF TypeOK
  <2>. QED
    BY <2>1, <2>2, <2>3 DEF LifeInv
<1>6. CASE Invalidate
  <2>1. /\ life' = life /\ purged' = purged \cup {retiring} /\ activating' = activating
        /\ retiring' = NoVersion /\ retiring \in Version
        /\ ~live'[retiring] /\ \A w \in Version \ {retiring} : live'[w] = live[w]
    BY <1>6 DEF Invalidate, TypeOK
  <2>. QED
    BY <2>1 DEF LifeInv, TypeOK
<1>7. CASE UNCHANGED <<lifeVars, purged>>
  BY <1>7 DEF lifeVars, LifeInv
<1>8. ASSUME NEW c \in Thread, Calling(c)
      PROVE  UNCHANGED <<lifeVars, purged>>
  BY <1>8, CallingKeeps
<1>9. ASSUME NEW v \in Version, NEW m \in Mutation, Approve(v, m)
      PROVE  UNCHANGED <<lifeVars, purged>>
  BY <1>9 DEF Approve, history
<1>10. UNCHANGED vars => UNCHANGED <<lifeVars, purged>>
  BY DEF vars, history
<1>. QED
  BY <1>1, <1>2, <1>3, <1>4, <1>5, <1>6, <1>7, <1>8, <1>9, <1>10, NextCases DEF Curating

-----------------------------------------------------------------------------
(* Evidence is used once. *)

LEMMA EvidenceStep ==
  ASSUME TypeOK, EvidenceInv, [Next]_vars
  PROVE  EvidenceInv'
<1>1. CASE Curating \/ Invalidate \/ UNCHANGED vars
  <2>1. /\ UNCHANGED <<gated, attested, issued, granted, consumed, pc, call>>
        /\ approvals' \subseteq approvals
    BY <1>1, CuratingKeeps DEF Invalidate, vars, lifeVars, approvalVars, threadVars, history
  <2>. QED
    BY <2>1 DEF EvidenceInv
<1>2. ASSUME NEW v \in Version, NEW m \in Mutation, Approve(v, m)
      PROVE  EvidenceInv'
  <2> DEFINE e == [id |-> Cardinality(attested) + 1, version |-> v, mutation |-> m]
  <2>1. Cardinality(attested) \in Nat
    BY FS_CardinalityType DEF EvidenceInv
  <2>2. e \notin attested
    BY <2>1 DEF EvidenceInv
  <2>3. /\ attested' = attested \cup {e} /\ issued' = issued \cup {e}
        /\ UNCHANGED <<gated, approvals, granted, consumed, pc, call>>
    BY <1>2 DEF Approve, lifeVars, threadVars, history
  <2>4. IsFiniteSet(attested') /\ Cardinality(attested') = Cardinality(attested) + 1
    BY <2>2, <2>3, FS_AddElement DEF EvidenceInv
  <2>5. \A x \in attested' : x.id <= Cardinality(attested')
    <3>1. \A x \in attested : x.id \in Nat
      BY DEF TypeOK, Evidence
    <3>. QED
      BY <2>1, <2>3, <2>4, <3>1 DEF EvidenceInv
  <2>. HIDE DEF e
  <2>. QED
    BY <2>2, <2>3, <2>4, <2>5 DEF EvidenceInv
<1>3. ASSUME NEW c \in Thread, Calling(c)
      PROVE  EvidenceInv'
  <2>1. gated' = gated /\ attested' = attested
    BY <1>3, CallingKeeps DEF lifeVars
  <2>2. \A d \in Thread \ {c} : pc'[d] = pc[d] /\ call'[d] = call[d]
    BY <1>3, CallingMoves
  <2>3. CASE Issue(c) \/ Execute(c) \/ ExecuteGated(c)
    <3>1. UNCHANGED <<issued, approvals, granted, consumed>>
      BY <2>3 DEF Issue, Execute, ExecuteGated, approvalVars, history
    <3>2. call'[c] \in Run
      BY <2>3 DEF Issue, Execute, ExecuteGated, TypeOK, Run
    <3>3. \/ pc'[c] = "issuing" /\ call'[c].evidence \in attested
          \/ pc'[c] = "cleared"
          \/ pc'[c] = "checked" /\ call'[c].evidence \in granted /\ gated[call'[c].version]
      BY <1>3, <2>3, CallingMoves DEF Issue, Execute, ExecuteGated, TypeOK
    <3>. QED
      BY <2>1, <2>2, <3>1, <3>2, <3>3 DEF EvidenceInv
  <2>4. CASE TakeEvidence(c)
    <3>1. /\ pc[c] = "issuing" /\ call[c].evidence \in issued
          /\ issued' = issued \ {call[c].evidence}
          /\ UNCHANGED <<approvals, granted, consumed>>
      BY <2>4 DEF TakeEvidence, history
    <3>2. pc'[c] = "minting" /\ call'[c] = call[c]
      BY <1>3, <2>4, CallingMoves
    <3>. QED
      BY <2>1, <2>2, <3>1, <3>2 DEF EvidenceInv
  <2>5. CASE Mint(c)
    <3>1. /\ pc[c] = "minting" /\ UNCHANGED <<issued, consumed>>
          /\ approvals' = approvals \cup {call[c].evidence}
          /\ granted' = granted \cup {call[c].evidence}
      BY <2>5 DEF Mint, history
    <3>2. pc'[c] = "idle"
      BY <1>3, <2>5, CallingMoves
    <3>. QED
      BY <2>1, <2>2, <3>1, <3>2 DEF EvidenceInv
  <2>6. CASE Consume(c)
    <3>1. /\ pc[c] = "checked" /\ UNCHANGED <<issued, granted>>
          /\ call[c].evidence \in approvals
          /\ approvals' = approvals \ {call[c].evidence}
          /\ consumed' = consumed \cup {call[c].evidence}
      BY <2>6 DEF Consume
    <3>2. pc'[c] = "cleared" /\ call'[c] = call[c]
      BY <1>3, <2>6, CallingMoves
    <3>. QED
      BY <2>1, <2>2, <3>1, <3>2 DEF EvidenceInv
  <2>7. CASE RefuseEvidence(c) \/ RefuseApproval(c) \/ Dispatch(c)
    <3>1. UNCHANGED <<issued, approvals, granted, consumed>>
      BY <2>7 DEF RefuseEvidence, RefuseApproval, Dispatch, Reject, approvalVars, history
    <3>2. pc'[c] = "idle"
      BY <1>3, <2>7, CallingMoves
    <3>. QED
      BY <2>1, <2>2, <3>1, <3>2 DEF EvidenceInv
  <2>. QED
    BY <1>3, <2>3, <2>4, <2>5, <2>6, <2>7 DEF Calling
<1>. QED
  BY <1>1, <1>2, <1>3, NextCases

-----------------------------------------------------------------------------
(* An approval covers one run. *)

LEMMA RunStep ==
  ASSUME TypeOK, EvidenceInv, RunInv, [Next]_vars
  PROVE  RunInv'
<1>1. CASE Curating \/ Invalidate \/ UNCHANGED vars
  <2>1. UNCHANGED <<gated, consumed, runs, pc, call>>
    BY <1>1, CuratingKeeps DEF Invalidate, vars, lifeVars, threadVars, history
  <2>. QED
    BY <2>1 DEF RunInv, Covered
<1>2. ASSUME NEW v \in Version, NEW m \in Mutation, Approve(v, m)
      PROVE  RunInv'
  <2>1. UNCHANGED <<gated, consumed, runs, pc, call>>
    BY <1>2 DEF Approve, lifeVars, threadVars, history
  <2>. QED
    BY <2>1 DEF RunInv, Covered
<1>3. ASSUME NEW c \in Thread, Calling(c)
      PROVE  RunInv'
  <2>1. gated' = gated
    BY <1>3, CallingKeeps DEF lifeVars
  <2>2. \A d \in Thread \ {c} : pc'[d] = pc[d] /\ call'[d] = call[d]
    BY <1>3, CallingMoves
  <2>3. CASE Issue(c) \/ TakeEvidence(c) \/ RefuseEvidence(c) \/ Mint(c) \/ ExecuteGated(c)
               \/ RefuseApproval(c)
    <3>1. pc'[c] # "cleared"
      BY <1>3, <2>3, CallingMoves
    <3>2. UNCHANGED <<consumed, runs>>
      BY <2>3 DEF Issue, TakeEvidence, RefuseEvidence, Mint, ExecuteGated, RefuseApproval, Reject,
         history
    <3>. QED
      BY <2>1, <2>2, <3>1, <3>2 DEF RunInv, Covered
  <2>4. CASE Execute(c)
    <3>1. /\ ~gated[call'[c].version] /\ call'[c].evidence = None
          /\ UNCHANGED <<consumed, runs>>
      BY <2>4 DEF Execute, history, TypeOK
    <3>. QED
      BY <2>1, <2>2, <3>1 DEF RunInv, Covered
  <2>5. CASE Consume(c)
    <3>1. /\ pc[c] = "checked" /\ runs' = runs
          /\ call[c].evidence \in approvals /\ Fits(call[c].evidence, call[c])
          /\ consumed' = consumed \cup {call[c].evidence}
      BY <2>5 DEF Consume
    <3>2. pc'[c] = "cleared" /\ call'[c] = call[c]
      BY <1>3, <2>5, CallingMoves
    <3>3. /\ gated[call[c].version] /\ call[c].evidence \notin consumed
          /\ call[c].evidence # None
      BY <3>1, NoneAssumption DEF EvidenceInv, TypeOK
    <3>4. /\ \A d \in Thread : pc[d] = "cleared" =>
               call[d].evidence \in consumed \cup {None}
          /\ \A d \in runs : d.run.evidence \in consumed \cup {None}
      BY DEF RunInv, Covered, TypeOK, Recorded, Run, EvidenceInv
    <3>. QED
      BY <2>1, <2>2, <3>1, <3>2, <3>3, <3>4 DEF RunInv, Covered
  <2>6. CASE Dispatch(c)
    <3> DEFINE d == [n |-> Cardinality(runs) + 1, run |-> call[c]]
    <3>1. /\ pc[c] = "cleared" /\ consumed' = consumed /\ runs' = runs \cup {d}
      BY <2>6 DEF Dispatch
    <3>2. pc'[c] = "idle"
      BY <1>3, <2>6, CallingMoves
    <3>3. Cardinality(runs) \in Nat
      BY FS_CardinalityType DEF RunInv
    <3>4. d \notin runs
      BY <3>3 DEF RunInv
    <3>5. IsFiniteSet(runs') /\ Cardinality(runs') = Cardinality(runs) + 1
      BY <3>1, <3>4, FS_AddElement DEF RunInv
    <3>6. \A x \in runs' : x.n <= Cardinality(runs')
      <4>1. \A x \in runs : x.n \in Nat
        BY DEF TypeOK, Recorded
      <4>. QED
        BY <3>1, <3>3, <3>5, <4>1 DEF RunInv
    <3>7. d.run = call[c]
      OBVIOUS
    <3>. HIDE DEF d
    <3>8. \A q : Covered(q)' <=> Covered(q)
      BY <2>1, <3>1 DEF Covered, Fits
    <3>9. \A x \in runs' : Covered(x.run)'
      BY <3>1, <3>7, <3>8 DEF RunInv
    <3>10. \A b \in Thread : pc'[b] = "cleared" => b # c /\ pc[b] = "cleared" /\ call'[b] = call[b]
      BY <2>2, <3>2
    <3>11. \A b \in Thread : pc'[b] = "cleared" => Covered(call[b])'
      BY <3>8, <3>10 DEF RunInv
    <3>12. \A b \in Thread, x \in runs' :
             pc'[b] = "cleared" /\ call'[b].evidence = x.run.evidence => x.run.evidence = None
      BY <3>1, <3>7, <3>10 DEF RunInv
    <3>13. \A x, y \in runs' :
             x.run.evidence = y.run.evidence => x = y \/ x.run.evidence = None
      BY <3>1, <3>7 DEF RunInv
    <3>. QED
      BY <3>5, <3>6, <3>9, <3>10, <3>11, <3>12, <3>13 DEF RunInv
  <2>. QED
    BY <1>3, <2>3, <2>4, <2>5, <2>6 DEF Calling
<1>. QED
  BY <1>1, <1>2, <1>3, NextCases

-----------------------------------------------------------------------------
(* A purge is final. *)

LEMMA PurgeStep ==
  ASSUME TypeOK, LifeInv, EvidenceInv, PurgeInv, [Next]_vars
  PROVE  PurgeInv'
<1>1. CASE Curating
  <2>1. /\ UNCHANGED <<approvals, purged, pc, call>>
        /\ \A v \in Version : live[v] => live'[v]
    BY <1>1, CuratingKeeps DEF Curating, Register, Validate, RecordSuccess, Activate, Retire,
       SupersedeOlder, Publish, approvalVars, threadVars, history, TypeOK
  <2>2. \A c \in Thread : pc[c] = "checked" => call[c].version \in Version
    BY DEF EvidenceInv, Run
  <2>. QED
    BY <2>1, <2>2 DEF PurgeInv
<1>2. CASE Invalidate
  <2>1. /\ approvals' = IF live[retiring] THEN {a \in approvals : a.version # retiring}
                                          ELSE approvals
        /\ purged' = purged \cup {retiring}
        /\ \A v \in Version \ {retiring} : live'[v] = live[v]
        /\ UNCHANGED <<pc, call>>
    BY <1>2 DEF Invalidate, threadVars, TypeOK
  <2>2. \A c \in Thread : pc[c] = "checked" => call[c].version \in Version
    BY DEF EvidenceInv, Run
  <2>. QED
    BY <2>1, <2>2 DEF PurgeInv, Fits
<1>3. ASSUME NEW v \in Version, NEW m \in Mutation, Approve(v, m)
      PROVE  PurgeInv'
  BY <1>3 DEF Approve, lifeVars, threadVars, history, PurgeInv
<1>4. ASSUME NEW c \in Thread, Calling(c)
      PROVE  PurgeInv'
  <2>1. live' = live /\ purged' = purged
    BY <1>4, CallingKeeps DEF lifeVars
  <2>2. \A d \in Thread \ {c} : pc'[d] = pc[d] /\ call'[d] = call[d]
    BY <1>4, CallingMoves
  <2>3. CASE ExecuteGated(c)
    <3>1. live[call'[c].version] /\ call'[c].version \in Version /\ approvals' = approvals
      BY <2>3 DEF ExecuteGated, Executable, approvalVars, TypeOK
    <3>2. call'[c].version \notin purged
      BY <3>1 DEF LifeInv
    <3>. QED
      BY <2>1, <2>2, <3>1, <3>2 DEF PurgeInv
  <2>4. CASE ~ExecuteGated(c)
    <3>1. pc'[c] # "checked"
      BY <1>4, <2>4, CallingMoves DEF Calling
    <3>2. approvals' \subseteq approvals \cup {e \in Evidence : e \notin granted}
      <4>1. CASE Mint(c)
        BY <4>1 DEF Mint, EvidenceInv, TypeOK
      <4>2. CASE ~Mint(c)
        BY <1>4, <4>2 DEF Calling, Issue, TakeEvidence, RefuseEvidence, Execute, ExecuteGated,
           Consume, RefuseApproval, Dispatch, Reject, approvalVars
      <4>. QED
        BY <4>1, <4>2
    <3>. QED
      BY <2>1, <2>2, <3>1, <3>2 DEF PurgeInv, EvidenceInv
  <2>. QED
    BY <2>3, <2>4
<1>5. CASE UNCHANGED vars
  BY <1>5 DEF vars, lifeVars, approvalVars, threadVars, history, PurgeInv
<1>. QED
  BY <1>1, <1>2, <1>3, <1>4, <1>5, NextCases

-----------------------------------------------------------------------------
LEMMA InitHolds == Init => IInv
<1> SUFFICES ASSUME Init PROVE IInv
  OBVIOUS
<1>1. TypeOK
  BY TypeInit
<1>2. LifeInv
  BY DEF Init, LifeInv, NoVersion, Version
<1>3. EvidenceInv /\ RunInv
  BY FS_EmptySet DEF Init, EvidenceInv, RunInv
<1>4. PurgeInv
  BY DEF Init, PurgeInv
<1>. QED
  BY <1>1, <1>2, <1>3, <1>4 DEF IInv

LEMMA StepHolds == IInv /\ [Next]_vars => IInv'
  BY TypeStep, LifeStep, EvidenceStep, RunStep, PurgeStep DEF IInv

LEMMA AlwaysIInv == Spec => []IInv
  BY InitHolds, StepHolds, PTL DEF Spec

\* The variables keep their types: whatever the threads do, a version is in a state of the
\* lifecycle and each call and approval is about a version and a mutation that exist.
THEOREM TypeCorrect == Spec => []TypeOK
<1>1. IInv => TypeOK
  BY DEF IInv
<1>. QED
  BY <1>1, AlwaysIInv, PTL

\* At no time are two versions of a skill executable, also while activate() has superseded
\* the old one and not yet published the new one.
THEOREM OneExecutableCorrect == Spec => []OneExecutable
<1>1. IInv => OneExecutable
  BY DEF IInv, LifeInv, OneExecutable, Executable
<1>. QED
  BY <1>1, AlwaysIInv, PTL

\* A version that _invalidate() has been through is never executable again.
THEOREM NeverAgainCorrect == Spec => []NeverAgain
<1>1. IInv => NeverAgain
  BY DEF IInv, LifeInv, NeverAgain, Executable
<1>. QED
  BY <1>1, AlwaysIInv, PTL

\* Each run of a gated version has an attestation of its own for this version and mutation,
\* for any number of threads that race to mint and to use it.
THEOREM SanctionedCorrect == Spec => []Sanctioned
<1>1. IInv => Sanctioned
  <2> SUFFICES ASSUME IInv, NEW d \in runs, gated[d.run.version]
               PROVE  /\ d.run.evidence \in attested
                      /\ Fits(d.run.evidence, d.run)
                      /\ \A e \in runs : e.run.evidence = d.run.evidence => e = d
    BY DEF Sanctioned
  <2>1. Covered(d.run)
    BY DEF IInv, RunInv
  <2>2. d.run.evidence \in attested /\ d.run.evidence \in Evidence
    BY <2>1 DEF Covered, IInv, EvidenceInv, TypeOK
  <2>. QED
    BY <2>1, <2>2, NoneAssumption DEF Covered, IInv, RunInv
<1>. QED
  BY <1>1, AlwaysIInv, PTL

\* No approval of a version is used up after _invalidate() has purged that version, not
\* even one that a thread was minting meanwhile.
THEOREM PurgeIsFinalCorrect == Spec => PurgeIsFinal
<1>1. IInv /\ [Next]_vars => [\A a \in consumed' \ consumed : a.version \notin purged]_vars
  <2> SUFFICES ASSUME IInv, [Next]_vars, NEW a \in consumed' \ consumed
               PROVE  a.version \notin purged
    OBVIOUS
  <2>1. PICK c \in Thread : Consume(c)
    <3>1. CASE Curating \/ Invalidate \/ UNCHANGED vars
      BY <3>1, CuratingKeeps DEF Invalidate, vars, history
    <3>2. CASE \E v \in Version, m \in Mutation : Approve(v, m)
      BY <3>2 DEF Approve, history
    <3>3. CASE \E c \in Thread : Calling(c)
      BY <3>3 DEF Calling, Issue, TakeEvidence, RefuseEvidence, Mint, Execute, ExecuteGated,
         RefuseApproval, Dispatch, Reject, history
    <3>. QED
      BY <3>1, <3>2, <3>3, NextCases
  <2>2. /\ pc[c] = "checked" /\ a = call[c].evidence
        /\ call[c].evidence \in approvals /\ Fits(call[c].evidence, call[c])
    BY <2>1 DEF Consume
  <2>. QED
    BY <2>2 DEF IInv, PurgeInv, Fits
<1>. QED
  BY <1>1, AlwaysIInv, PTL DEF PurgeIsFinal, Spec
=============================================================================
