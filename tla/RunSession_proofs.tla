-------------------------- MODULE RunSession_proofs --------------------------
(***************************************************************************)
(* What a session leaves behind (RunSession), for any length of the trace, *)
(* any watermark and any number of attempts, operations and faults.        *)
(***************************************************************************)
EXTENDS RunSession, FiniteSetTheorems, SequenceTheorems, TLAPS

\* What a call may have left to do.
LearningOn  == <<"learning", "policy", "attempt", "drain">>
PolicyOn    == <<"policy", "attempt", "drain">>
ExecutionOn == <<"execution", "attempt", "drain">>
AttemptOn   == <<"attempt", "drain">>
DrainOn     == <<"drain", "run.completed", "journal", "lane">>
SweepOn     == <<"sweep", "run.completed", "journal", "lane">>
CompleteOn  == <<"run.completed", "journal", "lane">>
CloseOn     == <<"journal", "lane">>

StepLists ==
  {<<>>, SkillSteps, LearningOn, PolicyOn, SequenceSteps, ExecutionOn, AttemptOn,
   <<"drain">>, <<"sweep">>, <<"decision">>,
   DrainOn, SweepOn, CompleteOn, CloseOn, <<"lane">>}

\* The list is settled by its head, but for the two sweeps and the two decisions.
LEMMA Heads ==
  ASSUME steps \in StepLists
  PROVE  /\ At("episode") => steps = SkillSteps
         /\ At("learning") => steps = LearningOn
         /\ At("policy") => steps = PolicyOn
         /\ At("execution") => steps = ExecutionOn
         /\ At("attempt") => steps = AttemptOn
         /\ At("decision") => steps \in {SequenceSteps, <<"decision">>}
         /\ At("drain") => steps \in {<<"drain">>, DrainOn}
         /\ At("sweep") => steps \in {<<"sweep">>, SweepOn}
         /\ At("run.completed") => steps = CompleteOn
         /\ At("journal") => steps = CloseOn
         /\ At("lane") => steps = <<"lane">>
BY DEF StepLists, At, SkillSteps, LearningOn, PolicyOn, SequenceSteps, ExecutionOn, AttemptOn,
       CompleteOn, CloseOn, DrainOn, SweepOn

LEMMA Tails ==
  /\ Tail(SkillSteps) = LearningOn /\ Tail(LearningOn) = PolicyOn
  /\ Tail(PolicyOn) = AttemptOn
  /\ Tail(SequenceSteps) = ExecutionOn /\ Tail(ExecutionOn) = AttemptOn
  /\ Tail(AttemptOn) = <<"drain">>
  /\ Tail(<<"decision">>) = <<>> /\ Tail(<<"sweep">>) = <<>> /\ Tail(<<"lane">>) = <<>>
  /\ Tail(SweepOn) = CompleteOn /\ Tail(CompleteOn) = CloseOn /\ Tail(CloseOn) = <<"lane">>
  /\ [<<"drain">> EXCEPT ![1] = "sweep"] = <<"sweep">>
  /\ [DrainOn EXCEPT ![1] = "sweep"] = SweepOn
<1>1. Tail(SkillSteps) = LearningOn /\ Tail(LearningOn) = PolicyOn
  BY DEF SkillSteps, LearningOn, PolicyOn
<1>2. Tail(PolicyOn) = AttemptOn /\ Tail(AttemptOn) = <<"drain">>
  BY DEF PolicyOn, AttemptOn
<1>3. Tail(SequenceSteps) = ExecutionOn /\ Tail(ExecutionOn) = AttemptOn
  BY DEF SequenceSteps, ExecutionOn, AttemptOn
<1>4. /\ Tail(<<"decision">>) = <<>> /\ Tail(<<"sweep">>) = <<>>
      /\ Tail(<<"lane">>) = <<>>
  OBVIOUS
<1>5. /\ Tail(SweepOn) = CompleteOn /\ Tail(CompleteOn) = CloseOn
      /\ Tail(CloseOn) = <<"lane">>
  BY DEF SweepOn, CompleteOn, CloseOn
<1>6. [<<"drain">> EXCEPT ![1] = "sweep"] = <<"sweep">>
  OBVIOUS
<1>7. [DrainOn EXCEPT ![1] = "sweep"] = SweepOn
  BY DEF DrainOn, SweepOn
<1> QED
  BY <1>1, <1>2, <1>3, <1>4, <1>5, <1>6, <1>7

LEMMA Lists ==
  /\ Len(SkillSteps) = 5 /\ Len(LearningOn) = 4 /\ Len(PolicyOn) = 3
  /\ Len(SequenceSteps) = 4 /\ Len(ExecutionOn) = 3 /\ Len(AttemptOn) = 2
  /\ Len(DrainOn) = 4 /\ Len(SweepOn) = 4 /\ Len(CompleteOn) = 3 /\ Len(CloseOn) = 2
BY DEF SkillSteps, LearningOn, PolicyOn, SequenceSteps, ExecutionOn, AttemptOn, CompleteOn,
       CloseOn, DrainOn, SweepOn

LEMMA HeadsOf ==
  /\ Head(SkillSteps) = "episode" /\ Head(LearningOn) = "learning"
  /\ Head(PolicyOn) = "policy" /\ Head(AttemptOn) = "attempt"
  /\ Head(SequenceSteps) = "decision" /\ Head(ExecutionOn) = "execution"
  /\ Head(DrainOn) = "drain" /\ Head(SweepOn) = "sweep"
  /\ Head(CompleteOn) = "run.completed" /\ Head(CloseOn) = "journal"
BY DEF SkillSteps, LearningOn, PolicyOn, SequenceSteps, ExecutionOn, AttemptOn, CompleteOn,
       CloseOn, DrainOn, SweepOn

-----------------------------------------------------------------------------
Kinds == {"run.started", "run.completed", "learning", "policy", "decision", "execution",
          "attempt", "runtime"}
Entry == [kind : Kinds, id : Nat]

TypeOK ==
  /\ file \in Seq(Entry)
  /\ steps \in StepLists
  /\ records \in Nat /\ attempt \in Nat /\ attempts \in Nat
  /\ trace \in Seq(1 .. records) /\ batch \in Seq(1 .. records)
  /\ seen \subseteq 1 .. records
  /\ errors \in Seq(Hook) /\ raised \in [Hook -> SUBSET Nat]

\* What is in the journal stays there.
LEMMA Appended ==
  ASSUME file \in Seq(Entry), NEW e \in Entry, file' = Append(file, e)
  PROVE  /\ file' \in Seq(Entry)
         /\ e \in ToSet(file)'
         /\ \A kind, id : Journaled(kind, id) => Journaled(kind, id)'
<1>1. file' \in Seq(Entry) /\ Len(file') = Len(file) + 1 /\ file'[Len(file) + 1] = e
  OBVIOUS
<1>2. \A i \in 1 .. Len(file) : file'[i] = file[i]
  OBVIOUS
<1>3. DOMAIN file = 1 .. Len(file) /\ DOMAIN file' = 1 .. Len(file')
  BY <1>1
<1>4. ToSet(file) \subseteq ToSet(file)'
  BY <1>1, <1>2, <1>3 DEF ToSet
<1>5. e \in ToSet(file)'
  BY <1>1, <1>3 DEF ToSet
<1> QED
  BY <1>1, <1>4, <1>5 DEF Journaled

LEMMA EmitsKeeps ==
  ASSUME file \in Seq(Entry), NEW kind \in Kinds, NEW id \in Nat, Emits(Event(kind, id))
  PROVE  /\ file' \in Seq(Entry) /\ Journaled(kind, id)'
         /\ \A k, n : Journaled(k, n) => Journaled(k, n)'
<1>1. Event(kind, id) \in Entry
  BY DEF Event, Entry
<1> QED
  BY <1>1, Appended DEF Emits, Journaled

LEMMA EmitRaisesKeeps ==
  ASSUME file \in Seq(Entry), NEW kind \in Kinds, NEW id \in Nat, EmitRaises(Event(kind, id))
  PROVE  /\ file' \in Seq(Entry)
         /\ \A k, n : Journaled(k, n) => Journaled(k, n)'
<1>1. Event(kind, id) \in Entry
  BY DEF Event, Entry
<1>2. CASE file' = file
  BY <1>2 DEF Journaled
<1>3. CASE file' = Append(file, Event(kind, id))
  BY <1>1, <1>3, Appended
<1> QED
  BY <1>2, <1>3 DEF EmitRaises

-----------------------------------------------------------------------------
\* The steps that are left are a list of StepLists again.
LEMMA StepsKeep == steps \in StepLists /\ [Next]_vars => steps' \in StepLists
<1> SUFFICES ASSUME steps \in StepLists, [Next]_vars PROVE steps' \in StepLists
  OBVIOUS
<1>1. CASE steps' = steps \/ steps' = <<>>
  BY <1>1 DEF StepLists
<1>2. CASE steps' = Tail(steps) /\ steps # <<>> /\ ~At("drain")
  <2>1. steps \notin {<<"drain">>, DrainOn}
    BY <1>2, HeadsOf DEF At
  <2> QED
    BY <1>2, <2>1, Tails DEF StepLists
<1>3. CASE Start \/ StartRaises \/ RuntimeOperates \/ Sweep \/ UNCHANGED vars
  BY <1>1, <1>3 DEF Start, StartRaises, RuntimeOperates, Sweep, vars
<1>4. ASSUME NEW plan \in {SkillSteps, SequenceSteps}, Execute(plan) PROVE steps' \in StepLists
  BY <1>4 DEF Execute, StepLists
<1>5. CASE SequenceRefused
  BY <1>5 DEF SequenceRefused, StepLists
<1>6. CASE Episode
  BY <1>2, <1>6 DEF Episode, At, Done
<1>7. CASE EpisodeRaises
  <2>1. steps' = PolicyOn
    BY <1>7, Heads, Tails DEF EpisodeRaises
  <2> QED
    BY <2>1 DEF StepLists
<1>8. ASSUME NEW kind \in {"learning", "policy"}, Hooked(kind) \/ HookRaises(kind)
      PROVE  steps' \in StepLists
  BY <1>2, <1>8 DEF Hooked, HookRaises, At, Done
<1>9. ASSUME NEW kind \in {"decision", "execution", "attempt"}, Note(kind) \/ NoteRaises(kind)
      PROVE  steps' \in StepLists
  BY <1>1, <1>2, <1>9 DEF Note, NoteRaises, Raises, At, Done
<1>10. CASE Drain
  <2>1. steps' \in {<<"sweep">>, SweepOn}
    BY <1>10, Heads, Tails DEF Drain
  <2> QED
    BY <2>1 DEF StepLists
<1>11. CASE SweepRaises
  BY <1>1, <1>11 DEF SweepRaises, Raises
<1>12. CASE Swept \/ Complete \/ CloseJournal \/ CloseLane
  BY <1>2, <1>12 DEF Swept, Complete, CloseJournal, CloseLane, At, Done
<1>13. CASE Close
  BY <1>13 DEF Close, ClosingSteps, StepLists, DrainOn, CloseOn
<1>14. CASE CompleteRaises \/ CloseJournalRaises \/ CloseLaneRaises
  BY <1>1, <1>14 DEF CompleteRaises, CloseJournalRaises, CloseLaneRaises, Raises
<1> QED
  BY <1>3, <1>4, <1>5, <1>6, <1>7, <1>8, <1>9, <1>10, <1>11, <1>12, <1>13, <1>14 DEF Next

\* Nothing is taken back: not what is in the journal, nor in the store, nor that a hook raised.
Growing ==
  /\ file' \in Seq(Entry)
  /\ \A kind, id : Journaled(kind, id) => Journaled(kind, id)'
  /\ store \subseteq store' /\ \A hook \in Hook : raised[hook] \subseteq raised'[hook]
  /\ swept \subseteq swept' /\ lost \subseteq lost' /\ records \in 0 .. records'
  /\ records' \in Nat

LEMMA Same ==
  ASSUME file \in Seq(Entry), file' = file
  PROVE  file' \in Seq(Entry) /\ \A kind, id : Journaled(kind, id) => Journaled(kind, id)'
BY DEF Journaled

\* What a hook raised is added.
LEMMA NoteAdds ==
  ASSUME TypeOK, NEW hook \in Hook, NoteHookError(hook)
  PROVE  /\ errors' \in Seq(Hook) /\ raised' \in [Hook -> SUBSET Nat]
         /\ \A h \in Hook : raised[h] \subseteq raised'[h]
         /\ attempt \in raised'[hook]
<1>1. errors \in Seq(Hook) /\ raised \in [Hook -> SUBSET Nat] /\ attempt \in Nat
  BY DEF TypeOK
<1>2. Len(errors) < MaxHookErrors \/ errors # <<>>
  BY <1>1, HookErrorsAssumption
<1>3. errors' \in Seq(Hook)
  BY <1>1, <1>2 DEF NoteHookError, Noted
<1>4. raised' = [raised EXCEPT ![hook] = @ \cup {attempt}]
  BY DEF NoteHookError
<1> QED
  BY <1>1, <1>3, <1>4

\* Only a hook that raises changes what is noted.
LEMMA NoteOrSame ==
  ASSUME [Next]_vars
  PROVE  UNCHANGED <<errors, raised>> \/ \E hook \in Hook : NoteHookError(hook)
<1>1. CASE Start \/ StartRaises \/ RuntimeOperates \/ SequenceRefused \/ Episode
  BY <1>1 DEF Start, StartRaises, RuntimeOperates, SequenceRefused, Episode, evidence
<1>2. ASSUME NEW plan \in {SkillSteps, SequenceSteps}, Execute(plan)
      PROVE  UNCHANGED <<errors, raised>>
  BY <1>2 DEF Execute, evidence
<1>3. CASE EpisodeRaises
  BY <1>3 DEF EpisodeRaises, Hook
<1>4. ASSUME NEW kind \in {"learning", "policy"}, Hooked(kind) \/ HookRaises(kind)
      PROVE  UNCHANGED <<errors, raised>> \/ \E hook \in Hook : NoteHookError(hook)
  BY <1>4 DEF Hooked, HookRaises, evidence, Hook
<1>5. ASSUME NEW kind \in {"decision", "execution", "attempt"}, Note(kind) \/ NoteRaises(kind)
      PROVE  UNCHANGED <<errors, raised>>
  BY <1>5 DEF Note, NoteRaises, evidence
<1>6. CASE Drain \/ Sweep \/ SweepRaises \/ Swept \/ Close
  BY <1>6 DEF Drain, Sweep, SweepRaises, Swept, Close, evidence
<1>7. CASE Complete \/ CompleteRaises \/ CloseJournal \/ CloseJournalRaises \/ CloseLane
           \/ CloseLaneRaises
  BY <1>7 DEF Complete, CompleteRaises, CloseJournal, CloseJournalRaises, CloseLane,
              CloseLaneRaises, evidence
<1>8. CASE UNCHANGED vars
  BY <1>8 DEF vars, evidence
<1> QED
  BY <1>1, <1>2, <1>3, <1>4, <1>5, <1>6, <1>7, <1>8 DEF Next

LEMMA HookKinds == Hook \subseteq Kinds /\ Hook = {"learning", "policy"}
BY DEF Hook, Kinds

LEMMA Grows == TypeOK /\ [Next]_vars => Growing
<1> SUFFICES ASSUME TypeOK, [Next]_vars PROVE Growing
  OBVIOUS
<1>0. file \in Seq(Entry) /\ attempt \in Nat /\ records \in Nat /\ batch \in Seq(1 .. records)
  BY DEF TypeOK
<1>1. 0 \in Nat /\ (batch # <<>> => Head(batch) \in Nat)
  BY <1>0
<1>2. ASSUME file' = file, UNCHANGED <<evidence, swept, lost>>, records' \in {records, records + 1}
      PROVE  Growing
  BY <1>2, <1>0, Same DEF Growing, evidence
<1>3. CASE Start \/ StartRaises
  <2>1. /\ file' \in Seq(Entry)
        /\ \A kind, id : Journaled(kind, id) => Journaled(kind, id)'
    BY <1>3, <1>0, <1>1, EmitsKeeps, EmitRaisesKeeps DEF Start, StartRaises, Kinds
  <2> QED
    BY <2>1, <1>0, <1>3 DEF Growing, Start, StartRaises, evidence, tracing
<1>4. CASE RuntimeOperates
  BY <1>2, <1>4 DEF RuntimeOperates, history
<1>5. ASSUME NEW plan \in {SkillSteps, SequenceSteps}, Execute(plan) PROVE Growing
  BY <1>2, <1>5 DEF Execute, history
<1>6. CASE SequenceRefused \/ Swept \/ CloseJournal \/ CloseJournalRaises \/ CloseLane
           \/ CloseLaneRaises \/ Close \/ Drain
  BY <1>2, <1>6 DEF SequenceRefused, Swept, CloseJournal, CloseJournalRaises, CloseLane,
                    CloseLaneRaises, Close, Drain, tracing, history
<1>7. CASE Episode \/ EpisodeRaises
  <2>1. \A hook \in Hook : raised[hook] \subseteq raised'[hook]
    BY <1>7, NoteAdds, HookKinds DEF Episode, EpisodeRaises
  <2> QED
    BY <2>1, <1>7, <1>0, Same DEF Episode, EpisodeRaises, Growing, tracing
<1>8. ASSUME NEW kind \in {"learning", "policy"}, Hooked(kind) \/ HookRaises(kind)
      PROVE  Growing
  <2>1. /\ file' \in Seq(Entry)
        /\ \A k, id : Journaled(k, id) => Journaled(k, id)'
    BY <1>8, <1>0, EmitsKeeps, EmitRaisesKeeps DEF Hooked, HookRaises, Kinds
  <2>2. \A hook \in Hook : raised[hook] \subseteq raised'[hook]
    BY <1>8, NoteAdds, HookKinds DEF Hooked, HookRaises, evidence
  <2>3. store \subseteq store' /\ UNCHANGED tracing
    BY <1>8 DEF Hooked, HookRaises, evidence
  <2> QED
    BY <2>1, <2>2, <2>3, <1>0 DEF Growing, tracing
<1>9. ASSUME NEW kind \in {"decision", "execution", "attempt"}, Note(kind) \/ NoteRaises(kind)
      PROVE  Growing
  <2>1. /\ file' \in Seq(Entry)
        /\ \A k, id : Journaled(k, id) => Journaled(k, id)'
    BY <1>9, <1>0, EmitsKeeps, EmitRaisesKeeps DEF Note, NoteRaises, Kinds
  <2> QED
    BY <2>1, <1>0, <1>9 DEF Growing, Note, NoteRaises, evidence, tracing, history
<1>10. CASE Sweep
  <2>1. /\ file' \in Seq(Entry)
        /\ \A k, id : Journaled(k, id) => Journaled(k, id)'
    BY <1>10, <1>0, <1>1, EmitsKeeps, Same DEF Sweep, Kinds
  <2> QED
    BY <2>1, <1>0, <1>10 DEF Growing, Sweep, evidence
<1>11. CASE SweepRaises
  <2>1. /\ file' \in Seq(Entry)
        /\ \A k, id : Journaled(k, id) => Journaled(k, id)'
    BY <1>11, <1>0, <1>1, EmitRaisesKeeps DEF SweepRaises, Kinds
  <2> QED
    BY <2>1, <1>0, <1>11 DEF Growing, SweepRaises, evidence
<1>12. CASE Complete \/ CompleteRaises
  <2>1. /\ file' \in Seq(Entry)
        /\ \A k, id : Journaled(k, id) => Journaled(k, id)'
    BY <1>12, <1>0, <1>1, EmitsKeeps, EmitRaisesKeeps DEF Complete, CompleteRaises, Kinds
  <2> QED
    BY <2>1, <1>0, <1>12 DEF Growing, Complete, CompleteRaises, evidence, tracing, history
<1>13. CASE UNCHANGED vars
  BY <1>2, <1>13 DEF vars, evidence, tracing
<1> QED
  BY <1>3, <1>4, <1>5, <1>6, <1>7, <1>8, <1>9, <1>10, <1>11, <1>12, <1>13 DEF Next

LEMMA RecordedType ==
  ASSUME TypeOK, records' = records + 1, trace' = Recorded(records')
  PROVE  trace' \in Seq(1 .. records') /\ batch \in Seq(1 .. records') /\ seen \subseteq 1 .. records'
<1>1. records \in Nat /\ trace \in Seq(1 .. records) /\ batch \in Seq(1 .. records)
  BY DEF TypeOK
<1>2. 1 .. records \subseteq 1 .. records'
  BY <1>1
<1>3. trace \in Seq(1 .. records') /\ batch \in Seq(1 .. records')
  BY <1>1, <1>2
<1>4. seen \subseteq 1 .. records'
  BY <1>2 DEF TypeOK
<1>5. Len(trace) < Keep \/ trace # <<>>
  BY <1>1, KeepAssumption
<1>6. trace' \in Seq(1 .. records')
  <2> DEFINE S == 1 .. records'
  <2>1. records' \in S /\ trace \in Seq(S)
    BY <1>1, <1>3
  <2> HIDE DEF S
  <2>2. Append(trace, records') \in Seq(S)
    BY <2>1
  <2>3. trace # <<>> => Append(Tail(trace), records') \in Seq(S)
    BY <2>1
  <2> QED
    BY <1>5, <2>2, <2>3 DEF Recorded, S
<1> QED
  BY <1>3, <1>4, <1>6

LEMMA TypeKeeps == TypeOK /\ [Next]_vars => TypeOK'
<1> SUFFICES ASSUME TypeOK, [Next]_vars PROVE TypeOK'
  OBVIOUS
<1>0. /\ file' \in Seq(Entry) /\ steps' \in StepLists
      /\ errors' \in Seq(Hook) /\ raised' \in [Hook -> SUBSET Nat]
  <2>1. file' \in Seq(Entry) /\ steps' \in StepLists
    BY Grows, StepsKeep DEF Growing, TypeOK
  <2>2. CASE UNCHANGED <<errors, raised>>
    BY <2>1, <2>2 DEF TypeOK
  <2> QED
    BY <2>1, <2>2, NoteAdds, NoteOrSame
<1>1. ASSUME UNCHANGED <<records, trace>>, attempt' \in Nat, attempts' \in Nat,
             batch' \in Seq(1 .. records), seen' \subseteq 1 .. records
      PROVE  TypeOK'
  BY <1>0, <1>1 DEF TypeOK
<1>2. attempt \in Nat /\ attempts \in Nat /\ batch \in Seq(1 .. records) /\ <<>> \in Seq(1 .. records)
      /\ seen \subseteq 1 .. records /\ trace \in Seq(1 .. records)
  BY DEF TypeOK
<1>3. ASSUME NEW r \in 1 .. records PROVE Marked(r) \subseteq 1 .. records
  BY <1>2, <1>3 DEF Marked
<1>4. batch # <<>> => Head(batch) \in 1 .. records /\ Tail(batch) \in Seq(1 .. records)
  <2> DEFINE S == 1 .. records
  <2>1. batch \in Seq(S)
    BY <1>2
  <2> HIDE DEF S
  <2>2. batch # <<>> => Head(batch) \in S /\ Tail(batch) \in Seq(S)
    BY <2>1
  <2> QED
    BY <2>2 DEF S
<1>5. ASSUME records' = records + 1, trace' = Recorded(records'), UNCHANGED <<batch, seen>>,
             attempt' \in Nat, attempts' \in Nat
      PROVE  TypeOK'
  <2>1. records' \in Nat
    BY <1>5 DEF TypeOK
  <2>2. /\ trace' \in Seq(1 .. records') /\ batch' \in Seq(1 .. records')
        /\ seen' \subseteq 1 .. records'
    BY <1>5, RecordedType
  <2> QED
    BY <1>0, <1>5, <2>1, <2>2 DEF TypeOK
<1>19. CASE RuntimeOperates
  BY <1>2, <1>5, <1>19 DEF RuntimeOperates
<1>6. ASSUME NEW plan \in {SkillSteps, SequenceSteps}, Execute(plan) PROVE TypeOK'
  BY <1>2, <1>5, <1>6 DEF Execute
<1>7. CASE Start \/ StartRaises
  BY <1>1, <1>2, <1>7 DEF Start, StartRaises, tracing
<1>16. CASE SequenceRefused
  BY <1>1, <1>2, <1>16 DEF SequenceRefused, tracing
<1>17. CASE Episode \/ EpisodeRaises
  BY <1>1, <1>2, <1>17 DEF Episode, EpisodeRaises, tracing
<1>8. ASSUME NEW kind \in {"learning", "policy"}, Hooked(kind) \/ HookRaises(kind)
      PROVE  TypeOK'
  BY <1>1, <1>2, <1>8 DEF Hooked, HookRaises, tracing
<1>9. ASSUME NEW kind \in {"decision", "execution", "attempt"}, Note(kind) \/ NoteRaises(kind)
      PROVE  TypeOK'
  BY <1>1, <1>2, <1>9 DEF Note, NoteRaises, Raises, tracing
<1>10. CASE Drain
  BY <1>1, <1>2, <1>10 DEF Drain
<1>11. CASE Sweep
  BY <1>1, <1>2, <1>3, <1>4, <1>11 DEF Sweep
<1>12. CASE SweepRaises
  BY <1>1, <1>2, <1>3, <1>4, <1>12 DEF SweepRaises, Raises
<1>13. CASE Swept \/ Complete \/ CloseJournal \/ CloseLane
  BY <1>1, <1>2, <1>13 DEF Swept, Complete, CloseJournal, CloseLane, tracing
<1>18. CASE Close
  BY <1>1, <1>2, <1>18 DEF Close, tracing
<1>14. CASE CompleteRaises \/ CloseJournalRaises \/ CloseLaneRaises
  BY <1>1, <1>2, <1>14 DEF CompleteRaises, CloseJournalRaises, CloseLaneRaises, Raises
<1>15. CASE UNCHANGED vars
  BY <1>1, <1>2, <1>15 DEF vars, tracing
<1> QED
  BY <1>6, <1>7, <1>8, <1>9, <1>10, <1>11, <1>12, <1>13, <1>14, <1>15, <1>16, <1>17, <1>18,
     <1>19 DEF Next

LEMMA TypeInit == Init => TypeOK
BY DEF Init, TypeOK, StepLists

-----------------------------------------------------------------------------
(***************************************************************************)
(* The order of a close: what it has passed has been done.                 *)
(***************************************************************************)
ClosedInv ==
  /\ completed => Journaled("run.completed", 0)
  /\ At("journal") \/ At("lane") => completed
  /\ At("lane") => journal = "closed"
  /\ closed => completed /\ journal = "closed" /\ lane = "closed"

\* Before start() there is nothing to close.
NewInv == phase = "new" => steps = <<>> /\ ~closed

LEMMA NewKeeps == NewInv /\ [Next]_vars => NewInv'
<1> SUFFICES ASSUME NewInv, [Next]_vars PROVE NewInv'
  OBVIOUS
<1>1. CASE Start \/ StartRaises
  BY <1>1 DEF Start, StartRaises, NewInv
<1>2. CASE steps # <<>> /\ phase' = phase
  BY <1>2 DEF NewInv
<1>3. CASE phase = "open" /\ phase' = phase
  BY <1>3 DEF NewInv
<1>4. CASE RuntimeOperates \/ SequenceRefused \/ Close
  BY <1>3, <1>4 DEF RuntimeOperates, SequenceRefused, Close, Idle
<1>5. ASSUME NEW plan \in {SkillSteps, SequenceSteps}, Execute(plan) PROVE NewInv'
  BY <1>3, <1>5 DEF Execute, Idle
<1>6. CASE Episode \/ EpisodeRaises \/ Drain \/ Sweep \/ SweepRaises \/ Swept
  BY <1>2, <1>6 DEF Episode, EpisodeRaises, Drain, Sweep, SweepRaises, Swept, At
<1>7. ASSUME NEW kind \in Kinds,
             Hooked(kind) \/ HookRaises(kind) \/ Note(kind) \/ NoteRaises(kind)
      PROVE  NewInv'
  BY <1>2, <1>7 DEF Hooked, HookRaises, Note, NoteRaises, At
<1>8. CASE Complete \/ CompleteRaises \/ CloseJournal \/ CloseJournalRaises \/ CloseLane
           \/ CloseLaneRaises
  BY <1>2, <1>8 DEF Complete, CompleteRaises, CloseJournal, CloseJournalRaises, CloseLane,
                    CloseLaneRaises, At
<1>9. CASE UNCHANGED vars
  BY <1>9 DEF vars, NewInv, plumbing
<1> QED
  BY <1>1, <1>4, <1>5, <1>6, <1>7, <1>8, <1>9 DEF Next, Kinds

LEMMA ClosedKeeps == TypeOK /\ NewInv /\ ClosedInv /\ [Next]_vars => ClosedInv'
<1> SUFFICES ASSUME TypeOK, NewInv, ClosedInv, [Next]_vars PROVE ClosedInv'
  OBVIOUS
<1>0. /\ steps \in StepLists
      /\ \A kind, id : Journaled(kind, id) => Journaled(kind, id)'
  BY Grows DEF TypeOK, Growing
\* Who leaves the flags alone, and has neither of the two last steps ahead.
<1>1. ASSUME UNCHANGED plumbing,
             steps' \in {steps, <<>>} \/ Head(steps') \notin {"journal", "lane"}
      PROVE  ClosedInv'
  BY <1>0, <1>1 DEF ClosedInv, plumbing, At
<1>2. CASE RuntimeOperates \/ Sweep \/ SweepRaises
  BY <1>1, <1>2 DEF RuntimeOperates, Sweep, SweepRaises, Raises
<1>15. CASE Start \/ StartRaises
  BY <1>0, <1>15 DEF Start, StartRaises, plumbing, NewInv, ClosedInv, At
<1>3. ASSUME NEW plan \in {SkillSteps, SequenceSteps}, Execute(plan) PROVE ClosedInv'
  BY <1>1, <1>3, HeadsOf DEF Execute
<1>4. CASE SequenceRefused
  BY <1>1, <1>4 DEF SequenceRefused
<1>5. CASE Episode \/ EpisodeRaises
  <2>1. steps' \in {LearningOn, PolicyOn}
    BY <1>0, <1>5, Heads, Tails DEF Episode, EpisodeRaises, Done
  <2> QED
    BY <1>1, <1>5, <2>1, HeadsOf DEF Episode, EpisodeRaises
<1>6. ASSUME NEW kind \in {"learning", "policy"}, Hooked(kind) \/ HookRaises(kind)
      PROVE  ClosedInv'
  <2>1. steps' \in {PolicyOn, AttemptOn}
    BY <1>0, <1>6, Heads, Tails DEF Hooked, HookRaises, Done
  <2> QED
    BY <1>1, <1>6, <2>1, HeadsOf DEF Hooked, HookRaises
<1>7. ASSUME NEW kind \in {"decision", "execution", "attempt"}, Note(kind) \/ NoteRaises(kind)
      PROVE  ClosedInv'
  <2>1. steps' \in {<<>>, ExecutionOn, AttemptOn, <<"drain">>}
    BY <1>0, <1>7, Heads, Tails DEF Note, NoteRaises, Raises, Done
  <2> QED
    BY <1>1, <1>7, <2>1, HeadsOf DEF Note, NoteRaises
<1>8. CASE Drain \/ Swept
  <2>1. steps' \in {<<"sweep">>, SweepOn, <<>>, CompleteOn}
    BY <1>0, <1>8, Heads, Tails DEF Drain, Swept, Done
  <2> QED
    BY <1>1, <1>8, <2>1, HeadsOf DEF Drain, Swept
<1>9. CASE Close
  BY <1>0, <1>9 DEF Close, ClosingSteps, ClosedInv, plumbing, At
<1>10. CASE Complete
  <2>1. Journaled("run.completed", 0)'
    BY <1>10, EmitsKeeps DEF Complete, TypeOK, Kinds
  <2>2. steps' = CloseOn
    BY <1>0, <1>10, Heads, Tails DEF Complete, Done
  <2> QED
    BY <1>10, <2>1, <2>2, HeadsOf DEF Complete, ClosedInv, At
<1>11. CASE CloseJournal
  <2>1. completed /\ steps' = <<"lane">>
    BY <1>0, <1>11, Heads, Tails DEF CloseJournal, Done, ClosedInv
  <2> QED
    BY <1>0, <1>11, <2>1 DEF CloseJournal, ClosedInv, At
<1>12. CASE CloseLane
  <2>1. completed /\ journal = "closed" /\ steps' = <<>>
    BY <1>0, <1>12, Heads, Tails DEF CloseLane, Done, ClosedInv
  <2> QED
    BY <1>0, <1>12, <2>1 DEF CloseLane, ClosedInv, At
<1>13. CASE CompleteRaises \/ CloseJournalRaises \/ CloseLaneRaises
  BY <1>0, <1>13 DEF CompleteRaises, CloseJournalRaises, CloseLaneRaises, Raises, plumbing,
                     ClosedInv, At
<1>14. CASE UNCHANGED vars
  BY <1>1, <1>14 DEF vars
<1> QED
  BY <1>2, <1>3, <1>4, <1>5, <1>6, <1>7, <1>8, <1>9, <1>10, <1>11, <1>12, <1>13, <1>14,
     <1>15 DEF Next

LEMMA ClosedInit == Init => NewInv /\ ClosedInv
BY DEF Init, NewInv, ClosedInv, At

-----------------------------------------------------------------------------
(***************************************************************************)
(* The evidence of an attempt: what its call has passed is there, or the   *)
(* hook raised.  Up to its limit hook_errors has an entry for each time.   *)
(***************************************************************************)
Learned(n) == n \in raised["learning"] \/ (n \in store /\ Journaled("learning", n))
Advised(n) == n \in raised["policy"] \/ Journaled("policy", n)
Kept(n)    == Journaled("execution", n) \/ (Learned(n) /\ Advised(n))

EvidenceInv ==
  /\ attempt # 0 =>
       /\ At("learning") => attempt \in store
       /\ At("policy") => Learned(attempt)
       /\ At("attempt") => Kept(attempt)
       /\ At("drain") \/ At("sweep") => Kept(attempt) /\ Journaled("attempt", attempt)
       /\ steps # <<"decision">>
  /\ \A n \in returned : Kept(n) /\ Journaled("attempt", n)

LEMMA EvidenceKeeps == TypeOK /\ EvidenceInv /\ [Next]_vars => EvidenceInv'
<1> SUFFICES ASSUME TypeOK, EvidenceInv, [Next]_vars PROVE EvidenceInv'
  OBVIOUS
<1> DEFINE Here == /\ At("learning") => attempt \in store
                   /\ At("policy") => Learned(attempt)
                   /\ At("attempt") => Kept(attempt)
                   /\ At("drain") \/ At("sweep") =>
                        Kept(attempt) /\ Journaled("attempt", attempt)
                   /\ steps # <<"decision">>
<1>0. /\ steps \in StepLists /\ file \in Seq(Entry) /\ attempt \in Nat
      /\ \A kind, id : Journaled(kind, id) => Journaled(kind, id)'
      /\ store \subseteq store' /\ \A hook \in Hook : raised[hook] \subseteq raised'[hook]
      /\ "learning" \in Hook /\ "policy" \in Hook
  BY Grows, HookKinds DEF TypeOK, Growing
<1>22. \A n : (Learned(n) => Learned(n)') /\ (Advised(n) => Advised(n)')
  BY <1>0 DEF Learned, Advised
<1>1. \A n : Kept(n) => Kept(n)'
  BY <1>0, <1>22 DEF Kept
<1>2. attempt # 0 => Here
  BY DEF EvidenceInv
<1>3. \A n \in returned : Kept(n) /\ Journaled("attempt", n)
  BY DEF EvidenceInv
<1>4. ASSUME attempt' # 0 => Here',
             returned' = returned \/ (attempt # 0 /\ returned' = returned \cup {attempt}
                                      /\ Kept(attempt) /\ Journaled("attempt", attempt))
      PROVE  EvidenceInv'
  <2>1. \A n \in returned' : Kept(n) /\ Journaled("attempt", n)
    BY <1>3, <1>4
  <2>2. \A n \in returned' : Kept(n)' /\ Journaled("attempt", n)'
    BY <2>1, <1>0, <1>1
  <2> QED
    BY <2>2, <1>4 DEF EvidenceInv
\* Nothing is asked of a call that has ended, or that has only to do what follows.
<1>5. ASSUME returned' = returned,
             steps' = <<>> \/ (Len(steps') # 1 /\ Head(steps') \in {"episode", "execution",
                                                    "run.completed", "journal"})
                           \/ steps' = <<"lane">>
      PROVE  EvidenceInv'
  <2>1. Here'
    BY <1>5 DEF At
  <2> QED
    BY <2>1, <1>4, <1>5
<1>6. ASSUME UNCHANGED <<steps, attempt, returned>> PROVE EvidenceInv'
  <2>1. \A step : At(step)' = At(step)
    BY <1>6 DEF At
  <2>2. attempt' # 0 => Here'
    BY <1>0, <1>1, <1>2, <1>6, <1>22, <2>1
  <2> QED
    BY <2>2, <1>4, <1>6
<1>7. CASE Start \/ StartRaises \/ RuntimeOperates \/ Sweep \/ UNCHANGED vars
  BY <1>6, <1>7 DEF Start, StartRaises, RuntimeOperates, Sweep, vars, history
<1>8. ASSUME NEW plan \in {SkillSteps, SequenceSteps}, Execute(plan) PROVE EvidenceInv'
  <2>1. Here'
    BY <1>8, HeadsOf, Lists DEF Execute, At
  <2> QED
    BY <2>1, <1>4, <1>8 DEF Execute, history
<1>9. CASE SequenceRefused \/ Close
  BY <1>4, <1>9 DEF SequenceRefused, Close
<1>10. CASE Episode
  <2>1. steps' = LearningOn /\ attempt \in store' /\ attempt' = attempt /\ returned' = returned
    BY <1>0, <1>10, Heads, Tails DEF Episode, Done
  <2>2. Here'
    BY <2>1, HeadsOf, Lists DEF At
  <2> QED
    BY <2>1, <2>2, <1>4
<1>11. CASE EpisodeRaises
  <2>1. steps' = PolicyOn /\ attempt' = attempt /\ returned' = returned
    BY <1>0, <1>11, Heads, Tails DEF EpisodeRaises
  <2>3. Learned(attempt)'
    BY <1>0, <1>11, <2>1, NoteAdds DEF EpisodeRaises, Learned
  <2>2. Here'
    BY <2>1, <2>3, HeadsOf, Lists DEF At
  <2> QED
    BY <2>1, <2>2, <1>4
<1>12. CASE Hooked("learning") \/ HookRaises("learning")
  <2>1. steps' = PolicyOn /\ attempt' = attempt /\ returned' = returned
    BY <1>0, <1>12, Heads, Tails DEF Hooked, HookRaises, Done
  <2>2. attempt # 0 => Learned(attempt)'
    <3>1. CASE Hooked("learning")
      BY <1>0, <1>2, <2>1, <3>1, EmitsKeeps DEF Hooked, Kinds, Learned
    <3>2. CASE HookRaises("learning")
      BY <1>0, <2>1, <3>2, NoteAdds DEF HookRaises, Learned
    <3> QED
      BY <1>12, <3>1, <3>2
  <2>3. attempt' # 0 => Here'
    BY <2>1, <2>2, HeadsOf, Lists DEF At
  <2> QED
    BY <2>1, <2>3, <1>4
<1>13. CASE Hooked("policy") \/ HookRaises("policy")
  <2>1. steps' = AttemptOn /\ attempt' = attempt /\ returned' = returned
    BY <1>0, <1>13, Heads, Tails DEF Hooked, HookRaises, Done
  <2>2. attempt # 0 => Kept(attempt)'
    <3>1. attempt # 0 => Learned(attempt)'
      BY <1>2, <1>13, <1>22, <2>1 DEF Hooked, HookRaises
    <3>2. CASE Hooked("policy")
      BY <1>0, <2>1, <3>1, <3>2, EmitsKeeps DEF Hooked, Kinds, Advised, Kept
    <3>3. CASE HookRaises("policy")
      BY <1>0, <2>1, <3>1, <3>3, NoteAdds DEF HookRaises, Advised, Kept
    <3> QED
      BY <1>13, <3>2, <3>3
  <2>3. attempt' # 0 => Here'
    BY <2>1, <2>2, HeadsOf, Lists DEF At
  <2> QED
    BY <2>1, <2>3, <1>4
<1>14. CASE Note("decision")
  <2>1. attempt' = attempt
    BY <1>14 DEF Note
  <2>2. CASE steps = SequenceSteps
    <3>1. steps' = ExecutionOn
      BY <1>14, <2>2, Tails DEF Note, Done
    <3>2. returned' = returned
      BY <1>14, <2>2, Lists DEF Note, Returns
    <3> QED
      BY <3>1, <3>2, <1>5, HeadsOf, Lists
  <2>3. CASE steps = <<"decision">>
    BY <1>2, <1>4, <1>14, <2>1, <2>3 DEF Note, Returns
  <2> QED
    BY <1>0, <1>14, <2>2, <2>3, Heads DEF Note
<1>15. CASE Note("execution")
  <2>0. steps = ExecutionOn
    BY <1>0, <1>15, Heads DEF Note
  <2>4. returned' = returned
    BY <1>15, <2>0, Lists DEF Note, Returns
  <2>1. steps' = AttemptOn /\ attempt' = attempt /\ returned' = returned
    BY <1>15, <2>0, <2>4, Tails DEF Note, Done
  <2>2. Kept(attempt)'
    BY <1>0, <1>15, <2>1, EmitsKeeps DEF Note, Kinds, Kept
  <2>3. Here'
    BY <2>1, <2>2, HeadsOf, Lists DEF At
  <2> QED
    BY <2>1, <2>3, <1>4
<1>16. CASE Note("attempt")
  <2>0. steps = AttemptOn
    BY <1>0, <1>16, Heads DEF Note
  <2>4. returned' = returned
    BY <1>16, <2>0, Lists DEF Note, Returns
  <2>1. steps' = <<"drain">> /\ attempt' = attempt /\ returned' = returned
    BY <1>16, <2>0, <2>4, Tails DEF Note, Done
  <2>2. attempt # 0 => Kept(attempt)' /\ Journaled("attempt", attempt)'
    BY <1>0, <1>1, <1>2, <1>16, <2>1, EmitsKeeps DEF Note, Kinds
  <2>3. attempt' # 0 => Here'
    BY <2>1, <2>2 DEF At
  <2> QED
    BY <2>1, <2>3, <1>4
<1>17. ASSUME NEW kind \in {"decision", "execution", "attempt"}, NoteRaises(kind)
       PROVE  EvidenceInv'
  BY <1>5, <1>17 DEF NoteRaises, Raises, history
<1>18. CASE Drain
  <2>1. steps' \in {<<"sweep">>, SweepOn} /\ attempt' = attempt /\ returned' = returned
    BY <1>0, <1>18, Heads, Tails DEF Drain, history
  <2>2. attempt # 0 => Kept(attempt)' /\ Journaled("attempt", attempt)'
    BY <1>0, <1>1, <1>2, <1>18 DEF Drain
  <2>3. attempt' # 0 => Here'
    BY <2>1, <2>2, HeadsOf, Lists DEF At
  <2> QED
    BY <2>1, <2>3, <1>4
<1>19. CASE Swept
  <2>0. steps \in {<<"sweep">>, SweepOn}
    BY <1>0, <1>19, Heads DEF Swept
  <2>1. steps' \in {<<>>, CompleteOn} /\ attempt' = attempt
    BY <1>19, <2>0, Tails DEF Swept, Done
  <2>2. Here'
    <3>1. CASE steps' = <<>>
      BY <3>1 DEF At
    <3>2. CASE steps' = CompleteOn
      BY <3>2, HeadsOf, Lists DEF At
    <3> QED
      BY <2>1, <3>1, <3>2
  <2>3. attempt # 0 => Kept(attempt) /\ Journaled("attempt", attempt)
    BY <1>2, <1>19 DEF Swept
  <2>4. returned' = returned \/ (attempt # 0 /\ returned' = returned \cup {attempt})
    BY <1>19 DEF Swept, Returns
  <2> QED
    BY <2>2, <2>3, <2>4, <1>4
<1>20. CASE SweepRaises \/ CompleteRaises \/ CloseJournalRaises \/ CloseLaneRaises
  BY <1>5, <1>20 DEF SweepRaises, CompleteRaises, CloseJournalRaises, CloseLaneRaises, Raises,
                     history
<1>21. CASE Complete \/ CloseJournal \/ CloseLane
  <2>1. steps' \in {CloseOn, <<"lane">>, <<>>} /\ returned' = returned
    BY <1>0, <1>21, Heads, Tails DEF Complete, CloseJournal, CloseLane, Done
  <2> QED
    BY <2>1, <1>5, HeadsOf, Lists
<1> QED
  BY <1>7, <1>8, <1>9, <1>10, <1>11, <1>12, <1>13, <1>14, <1>15, <1>16, <1>17, <1>18, <1>19,
     <1>20, <1>21 DEF Next

LEMMA EvidenceInit == Init => EvidenceInv
BY DEF Init, EvidenceInv

\* Until it is full hook_errors has an entry for each time a hook raised.
ErrorsInv ==
  /\ Len(errors) <= MaxHookErrors
  /\ \A hook \in Hook : IsFiniteSet(raised[hook])
  /\ Len(errors) < MaxHookErrors =>
       \A hook \in Hook : Cardinality(raised[hook]) <= Cardinality(Entries(hook))

LEMMA EntriesFinite ==
  ASSUME NEW hook, errors \in Seq(Hook)
  PROVE  IsFiniteSet(Entries(hook)) /\ Cardinality(Entries(hook)) \in Nat
<1>1. IsFiniteSet(1 .. Len(errors))
  BY FS_Interval
<1>2. Entries(hook) \subseteq 1 .. Len(errors)
  BY DEF Entries
<1> QED
  BY <1>1, <1>2, FS_Subset, FS_CardinalityType

LEMMA NoteErrors ==
  ASSUME TypeOK, ErrorsInv, NEW hook \in Hook, NoteHookError(hook)
  PROVE  ErrorsInv'
<1>1. /\ errors \in Seq(Hook) /\ raised \in [Hook -> SUBSET Nat] /\ Len(errors) \in Nat
      /\ MaxHookErrors \in Nat \ {0} /\ Len(errors) <= MaxHookErrors
  BY HookErrorsAssumption DEF TypeOK, ErrorsInv
<1>2. raised' = [raised EXCEPT ![hook] = @ \cup {attempt}] /\ errors' = Noted(hook)
  BY DEF NoteHookError
<1>3. ASSUME NEW h \in Hook PROVE IsFiniteSet(raised'[h])
  BY <1>1, <1>2, <1>3, FS_AddElement DEF ErrorsInv
<1>4. CASE Len(errors) < MaxHookErrors
  <2>1. errors' = Append(errors, hook) /\ Len(errors') = Len(errors) + 1
    BY <1>1, <1>2, <1>4 DEF Noted
  <2>2. ASSUME NEW h \in Hook
        PROVE  Cardinality(raised'[h]) <= Cardinality(Entries(h)')
    <3> DEFINE old == Cardinality(raised[h])
               had == Cardinality(Entries(h))
    <3>1. IsFiniteSet(raised[h]) /\ old \in Nat /\ had \in Nat /\ old <= had
      BY <1>1, <1>4, EntriesFinite, FS_CardinalityType DEF ErrorsInv
    <3>2. CASE h = hook
      <4>1. Entries(h)' = Entries(h) \cup {Len(errors) + 1}
        BY <1>1, <2>1, <3>2 DEF Entries
      <4>2. Len(errors) + 1 \notin Entries(h)
        BY <1>1 DEF Entries
      <4>3. Cardinality(Entries(h)') = had + 1
        BY <1>1, <4>1, <4>2, EntriesFinite, FS_AddElement
      <4>4. Cardinality(raised'[h]) \in {old, old + 1}
        BY <1>1, <1>2, <3>1, <3>2, FS_AddElement
      <4> HIDE DEF old, had
      <4> QED
        BY <3>1, <4>3, <4>4
    <3>3. CASE h # hook
      <4>1. Entries(h)' = Entries(h)
        BY <1>1, <2>1, <3>3 DEF Entries
      <4>2. raised'[h] = raised[h]
        BY <1>1, <1>2, <3>3
      <4> QED
        BY <3>1, <4>1, <4>2
    <3> QED
      BY <3>2, <3>3
  <2>3. Len(errors') <= MaxHookErrors
    BY <1>1, <1>4, <2>1
  <2> QED
    BY <1>3, <2>2, <2>3 DEF ErrorsInv
<1>5. CASE ~(Len(errors) < MaxHookErrors)
  <2>1. errors' = Append(Tail(errors), hook) /\ errors # <<>> /\ Len(errors) = MaxHookErrors
    BY <1>1, <1>2, <1>5 DEF Noted
  <2>2. Len(errors') = MaxHookErrors
    BY <1>1, <2>1
  <2> QED
    BY <1>1, <1>3, <2>2 DEF ErrorsInv
<1> QED
  BY <1>4, <1>5

LEMMA ErrorsKeeps == TypeOK /\ ErrorsInv /\ [Next]_vars => ErrorsInv'
<1> SUFFICES ASSUME TypeOK, ErrorsInv, [Next]_vars PROVE ErrorsInv'
  OBVIOUS
<1>1. ASSUME UNCHANGED <<errors, raised>> PROVE ErrorsInv'
  BY <1>1 DEF ErrorsInv, Entries
<1>2. ASSUME NEW hook \in Hook, NoteHookError(hook) PROVE ErrorsInv'
  BY <1>2, NoteErrors
<1>3. UNCHANGED <<errors, raised>> \/ \E hook \in Hook : NoteHookError(hook)
  BY NoteOrSame
<1> QED
  BY <1>1, <1>2, <1>3

LEMMA ErrorsInit == Init => ErrorsInv
<1> SUFFICES ASSUME Init PROVE ErrorsInv
  OBVIOUS
<1>1. errors = <<>> /\ Len(errors) = 0 /\ \A hook \in Hook : raised[hook] = {}
  BY DEF Init
<1>2. Cardinality({}) = 0 /\ IsFiniteSet({})
  BY FS_EmptySet
<1>3. \A hook \in Hook : Entries(hook) = {}
  BY <1>1 DEF Entries
<1>4. Len(errors) <= MaxHookErrors
  BY <1>1, HookErrorsAssumption
<1>5. ASSUME NEW hook \in Hook PROVE Cardinality(raised[hook]) <= Cardinality(Entries(hook))
  <2>1. Cardinality(raised[hook]) = 0 /\ Cardinality(Entries(hook)) = 0
    BY <1>1, <1>2, <1>3
  <2> QED
    BY <2>1
<1>6. \A hook \in Hook : IsFiniteSet(raised[hook])
  BY <1>1, <1>2
<1> QED
  BY <1>4, <1>5, <1>6 DEF ErrorsInv

\* Of an attempt that returned, what is missing is counted.
LEMMA EvidenceFollows == TypeOK /\ EvidenceInv /\ ErrorsInv => EvidenceKept
<1> SUFFICES ASSUME TypeOK, EvidenceInv, ErrorsInv PROVE EvidenceKept
  OBVIOUS
<1>1. Unlearned \subseteq raised["learning"]
  BY DEF Unlearned, Hooks, EvidenceInv, Kept, Learned
<1>2. Unadvised \subseteq raised["policy"]
  BY DEF Unadvised, Hooks, EvidenceInv, Kept, Advised
<1>3. ASSUME NEW hook \in Hook, NEW S, S \subseteq raised[hook], Len(errors) < MaxHookErrors
      PROVE  Cardinality(S) <= Cardinality(Entries(hook))
  <2>1. /\ IsFiniteSet(raised[hook])
        /\ Cardinality(raised[hook]) <= Cardinality(Entries(hook))
    BY <1>3 DEF ErrorsInv
  <2>2. Cardinality(S) <= Cardinality(raised[hook]) /\ IsFiniteSet(S)
    BY <1>3, <2>1, FS_Subset
  <2>3. /\ Cardinality(S) \in Nat /\ Cardinality(raised[hook]) \in Nat
        /\ Cardinality(Entries(hook)) \in Nat
    BY <2>1, <2>2, EntriesFinite, FS_CardinalityType DEF TypeOK
  <2> QED
    BY <2>1, <2>2, <2>3
<1>4. \A n \in returned : Journaled("attempt", n)
  BY DEF EvidenceInv
<1> QED
  BY <1>1, <1>2, <1>3, <1>4, HookKinds DEF EvidenceKept

-----------------------------------------------------------------------------
(***************************************************************************)
(* The trace.  What has been seen is journaled, or its append has raised.  *)
(* As long as seen has not been cleared it is closed downwards within the  *)
(* batch, and with the batch within the trace: a record that is passed by  *)
(* unseen would break this, and so would one that comes again.             *)
(***************************************************************************)
SeenInv == \A r \in seen \cup swept : Journaled("runtime", r) \/ r \in lost

LEMMA SeenKeeps == TypeOK /\ SeenInv /\ [Next]_vars => SeenInv'
<1> SUFFICES ASSUME TypeOK, SeenInv, [Next]_vars PROVE SeenInv'
  OBVIOUS
<1>0. /\ file \in Seq(Entry) /\ batch \in Seq(1 .. records) /\ records \in Nat
      /\ \A kind, id : Journaled(kind, id) => Journaled(kind, id)'
      /\ lost \subseteq lost'
  BY Grows DEF TypeOK, Growing
<1>1. batch # <<>> => Head(batch) \in Nat
  BY <1>0
<1>2. ASSUME UNCHANGED <<seen, swept>> PROVE SeenInv'
  BY <1>0, <1>2 DEF SeenInv
<1>3. ASSUME NEW r, seen' \in {seen, Marked(r)}, swept' \in {swept, swept \cup {r}},
             Journaled("runtime", r)' \/ r \in lost'
      PROVE  SeenInv'
  BY <1>0, <1>3 DEF SeenInv, Marked
<1>4. CASE Sweep
  <2>0. PICK r \in Nat : r = Head(batch)
    BY <1>1, <1>4 DEF Sweep
  <2>1. CASE Unseen(r)
    <3>1. Journaled("runtime", r)'
      BY <1>0, <1>4, <2>0, <2>1, EmitsKeeps DEF Sweep, Kinds
    <3> QED
      BY <1>3, <1>4, <2>0, <2>1, <3>1 DEF Sweep
  <2>2. CASE ~Unseen(r)
    <3>1. Journaled("runtime", r)' \/ r \in lost'
      BY <1>0, <2>2 DEF SeenInv, Unseen
    <3> QED
      BY <1>3, <1>4, <2>0, <2>2, <3>1 DEF Sweep
  <2> QED
    BY <2>1, <2>2
<1>5. CASE SweepRaises
  <2>1. PICK r : r = Head(batch)
    OBVIOUS
  <2> QED
    BY <1>3, <1>5, <2>1 DEF SweepRaises
<1>6. CASE Start \/ StartRaises \/ RuntimeOperates \/ SequenceRefused
  BY <1>2, <1>6 DEF Start, StartRaises, RuntimeOperates, SequenceRefused, tracing, history
<1>7. ASSUME NEW plan \in {SkillSteps, SequenceSteps}, Execute(plan) PROVE SeenInv'
  BY <1>2, <1>7 DEF Execute, history
<1>8. CASE Episode \/ EpisodeRaises \/ Drain \/ Swept \/ Close
  BY <1>2, <1>8 DEF Episode, EpisodeRaises, Drain, Swept, Close, tracing, history
<1>9. ASSUME NEW kind \in Kinds,
             Hooked(kind) \/ HookRaises(kind) \/ Note(kind) \/ NoteRaises(kind)
      PROVE  SeenInv'
  BY <1>2, <1>9 DEF Hooked, HookRaises, Note, NoteRaises, tracing, history
<1>10. CASE Complete \/ CompleteRaises \/ CloseJournal \/ CloseJournalRaises
  BY <1>2, <1>10 DEF Complete, CompleteRaises, CloseJournal, CloseJournalRaises, tracing, history
<1>11. CASE CloseLane \/ CloseLaneRaises \/ UNCHANGED vars
  BY <1>2, <1>11 DEF CloseLane, CloseLaneRaises, vars, tracing, history
<1> QED
  BY <1>4, <1>5, <1>6, <1>7, <1>8, <1>9, <1>10, <1>11 DEF Next, Kinds

\* Until seen is cleared, the journal is in the order of the records, and what it shows of
\* them has been seen.
FileOnce ==
  /\ \A i, j \in DOMAIN file :
       i < j /\ file[i].kind = "runtime" /\ file[j].kind = "runtime" => file[i].id < file[j].id
  /\ \A i \in DOMAIN file : file[i].kind = "runtime" => file[i].id \in seen

Rising(s) == \A i, j \in 1 .. Len(s) : i < j => s[i] < s[j]
SeenBelow == \A i \in 1 .. Len(batch), r \in seen : batch[i] <= r => batch[i] \in seen
BatchBelow ==
  \A i \in 1 .. Len(trace), r \in seen \cup ToSet(batch) :
    trace[i] <= r => trace[i] \in seen \cup ToSet(batch)

OnceInv ==
  records <= Watermark => FileOnce /\ Rising(trace) /\ Rising(batch) /\ SeenBelow /\ BatchBelow

LEMMA OnceInit == Init => OnceInv /\ SeenInv
BY DEF Init, OnceInv, FileOnce, Rising, SeenBelow, BatchBelow, SeenInv, ToSet

\* As many records as the watermark do not clear it.
LEMMA NotCleared ==
  ASSUME TypeOK, records <= Watermark, NEW r \in 1 .. records
  PROVE  Marked(r) = seen \cup {r}
<1>1. IsFiniteSet(1 .. records) /\ Cardinality(1 .. records) = records
  BY FS_Interval DEF TypeOK
<1>2. seen \cup {r} \subseteq 1 .. records
  BY DEF TypeOK
<1>3. Cardinality(seen \cup {r}) <= records /\ IsFiniteSet(seen \cup {r})
  BY <1>1, <1>2, FS_Subset
<1>4. Cardinality(seen \cup {r}) \in Nat
  BY <1>3, FS_CardinalityType
<1> QED
  BY <1>3, <1>4, KeepAssumption DEF Marked, TypeOK

LEMMA FileOther ==
  ASSUME file \in Seq(Entry), FileOnce, NEW e \in Entry, e.kind # "runtime",
         file' = Append(file, e), seen' = seen
  PROVE  FileOnce'
<1>1. Len(file') = Len(file) + 1 /\ file'[Len(file) + 1] = e /\ Len(file) \in Nat
  OBVIOUS
<1>2. \A i \in 1 .. Len(file) : file'[i] = file[i]
  OBVIOUS
<1>3. DOMAIN file = 1 .. Len(file) /\ DOMAIN file' = 1 .. (Len(file) + 1)
  BY <1>1
<1> QED
  BY <1>1, <1>2, <1>3 DEF FileOnce

LEMMA FileRecord ==
  ASSUME file \in Seq(Entry), FileOnce, NEW r \in Nat, \A s \in seen : s < r,
         file' = Append(file, Event("runtime", r)), seen' = seen \cup {r}
  PROVE  FileOnce'
<1>1. Event("runtime", r) \in Entry
  BY DEF Event, Entry, Kinds
<1>2. Len(file') = Len(file) + 1 /\ file'[Len(file) + 1] = Event("runtime", r) /\ Len(file) \in Nat
  BY <1>1
<1>3. \A i \in 1 .. Len(file) : file'[i] = file[i]
  BY <1>1
<1>4. DOMAIN file = 1 .. Len(file) /\ DOMAIN file' = 1 .. (Len(file) + 1)
  BY <1>1, <1>2
<1> QED
  BY <1>2, <1>3, <1>4 DEF FileOnce, Event

LEMMA FileSame ==
  ASSUME FileOnce, file' = file, seen \subseteq seen'
  PROVE  FileOnce'
BY DEF FileOnce

\* A new record is above all that has been seen or copied.
LEMMA RecordOnce ==
  ASSUME TypeOK, OnceInv, records' = records + 1, trace' = Recorded(records'),
         UNCHANGED <<file, seen, batch>>
  PROVE  OnceInv'
<1> SUFFICES ASSUME records' <= Watermark
             PROVE  FileOnce' /\ Rising(trace)' /\ Rising(batch)' /\ SeenBelow' /\ BatchBelow'
  BY DEF OnceInv
<1>1. records \in Nat /\ trace \in Seq(1 .. records) /\ records <= Watermark
  BY KeepAssumption DEF TypeOK
<1>2. FileOnce /\ Rising(trace) /\ Rising(batch) /\ SeenBelow /\ BatchBelow
  BY <1>1 DEF OnceInv
<1>3. FileOnce' /\ Rising(batch)' /\ SeenBelow'
  BY <1>2, FileSame DEF Rising, SeenBelow
<1>4. \A r \in seen \cup ToSet(batch) : r \in 1 .. records
  BY DEF TypeOK, ToSet
<1>5. Len(trace) < Keep \/ trace # <<>>
  BY <1>1, KeepAssumption
<1>6. \E d \in {0, 1} :
        /\ Len(trace') = Len(trace) + 1 - d
        /\ \A i \in 1 .. Len(trace') : i # Len(trace') =>
             trace'[i] = trace[i + d] /\ i + d \in 1 .. Len(trace)
        /\ trace'[Len(trace')] = records + 1
  <2>1. CASE Len(trace) < Keep
    <3>1. trace' = Append(trace, records + 1)
      BY <2>1 DEF Recorded
    <3>2. trace \in Seq(Nat) /\ records + 1 \in Nat
      BY <1>1
    <3>3. /\ Len(trace') = Len(trace) + 1 /\ trace'[Len(trace) + 1] = records + 1
          /\ \A i \in 1 .. Len(trace) : trace'[i] = trace[i]
      BY <3>1, <3>2, AppendProperties
    <3>4. 0 \in {0, 1} /\ Len(trace) \in Nat
      BY <1>1
    <3> QED
      BY <3>3, <3>4
  <2>2. CASE ~(Len(trace) < Keep)
    <3>1. trace' = Append(Tail(trace), records + 1) /\ trace # <<>>
      BY <2>2, <1>5 DEF Recorded
    <3>2. /\ Tail(trace) \in Seq(1 .. records) /\ Len(Tail(trace)) = Len(trace) - 1
          /\ \A i \in 1 .. Len(trace) - 1 : Tail(trace)[i] = trace[i + 1]
      BY <1>1, <3>1
    <3>3. PICK t \in Seq(Nat) : t = Tail(trace)
      <4>1. trace \in Seq(Nat) /\ trace # <<>>
        BY <1>1, <3>1
      <4>2. Tail(trace) \in Seq(Nat)
        BY <4>1, HeadTailProperties
      <4> QED
        BY <4>2
    <3>4. /\ Len(Append(t, records + 1)) = Len(t) + 1
          /\ Append(t, records + 1)[Len(t) + 1] = records + 1
          /\ \A i \in 1 .. Len(t) : Append(t, records + 1)[i] = t[i]
      BY <1>1, AppendProperties
    <3>5. trace' = Append(t, records + 1) /\ Len(t) = Len(trace) - 1
      BY <3>1, <3>2, <3>3
    <3>6. Len(trace') = Len(trace) /\ trace'[Len(trace')] = records + 1
      BY <1>1, <3>4, <3>5
    <3>7. \A i \in 1 .. Len(trace) - 1 : trace'[i] = trace[i + 1]
      BY <3>2, <3>3, <3>4, <3>5
    <3>8. 1 \in {0, 1} /\ Len(trace) \in Nat
      BY <1>1
    <3> QED
      BY <3>6, <3>7, <3>8
  <2> QED
    BY <2>1, <2>2
<1>7. PICK d \in {0, 1} :
        /\ Len(trace') = Len(trace) + 1 - d
        /\ \A i \in 1 .. Len(trace') : i # Len(trace') =>
             trace'[i] = trace[i + d] /\ i + d \in 1 .. Len(trace)
        /\ trace'[Len(trace')] = records + 1
  BY <1>6
<1>8. \A i \in 1 .. Len(trace) : trace[i] \in 1 .. records
  BY <1>1
<1>9. Len(trace) \in Nat
  BY <1>1
<1>12. \A i \in 1 .. Len(trace') : i # Len(trace') => trace'[i] \in 1 .. records
  BY <1>7, <1>8
<1>10. Rising(trace)'
  <2> SUFFICES ASSUME NEW i \in 1 .. Len(trace'), NEW j \in 1 .. Len(trace'), i < j
               PROVE  trace'[i] < trace'[j]
    BY DEF Rising
  <2>1. i # Len(trace')
    BY <1>7, <1>9
  <2>2. CASE j = Len(trace')
    <3>1. trace'[i] \in 1 .. records
      BY <1>12, <2>1
    <3>2. trace'[j] = records + 1
      BY <1>7, <2>2
    <3> QED
      BY <1>1, <3>1, <3>2
  <2>3. CASE j # Len(trace')
    <3>1. /\ trace'[i] = trace[i + d] /\ i + d \in 1 .. Len(trace)
          /\ trace'[j] = trace[j + d] /\ j + d \in 1 .. Len(trace)
      BY <1>7, <2>1, <2>3
    <3>2. i + d < j + d
      BY <1>7, <1>9
    <3> QED
      BY <1>2, <3>1, <3>2 DEF Rising
  <2> QED
    BY <2>2, <2>3
<1>11. BatchBelow'
  <2> SUFFICES ASSUME NEW i \in 1 .. Len(trace'), NEW r \in seen \cup ToSet(batch),
                      trace'[i] <= r
               PROVE  trace'[i] \in seen \cup ToSet(batch)
    BY DEF BatchBelow
  <2>1. i # Len(trace')
    BY <1>1, <1>4, <1>7
  <2>2. trace'[i] = trace[i + d] /\ i + d \in 1 .. Len(trace)
    BY <1>7, <2>1
  <2> QED
    BY <1>2, <2>2 DEF BatchBelow
<1> QED
  BY <1>3, <1>10, <1>11

\* The records are swept in order, so the next unseen one is above all that was seen.
LEMMA NextUnseen ==
  ASSUME TypeOK, SeenBelow, batch # <<>>, Unseen(Head(batch))
  PROVE  \A r \in seen : r < Head(batch)
<1>1. Head(batch) = batch[1] /\ 1 \in 1 .. Len(batch) /\ batch[1] \in 1 .. records
  BY DEF TypeOK
<1> QED
  BY <1>1 DEF SeenBelow, Unseen, TypeOK

LEMMA SweepOnce ==
  ASSUME TypeOK, OnceInv, Sweep
  PROVE  OnceInv'
<1> SUFFICES ASSUME records' <= Watermark
             PROVE  FileOnce' /\ Rising(trace)' /\ Rising(batch)' /\ SeenBelow' /\ BatchBelow'
  BY DEF OnceInv
<1>1. UNCHANGED <<records, trace>> /\ batch # <<>> /\ batch' = Tail(batch)
  BY DEF Sweep
<1>2. FileOnce /\ Rising(trace) /\ Rising(batch) /\ SeenBelow /\ BatchBelow
  BY <1>1 DEF OnceInv
<1>3. PICK r \in 1 .. records : r = Head(batch) /\ r = batch[1]
  BY <1>1 DEF TypeOK
<1>4. seen' = seen \cup {r} /\ FileOnce'
  <2>1. CASE Unseen(r)
    <3>1. Marked(r) = seen \cup {r}
      BY <1>1, NotCleared
    <3>2. seen' = seen \cup {r} /\ file' = Append(file, Event("runtime", r))
      BY <1>3, <2>1, <3>1 DEF Sweep, Emits
    <3>3. \A x \in seen : x < r
      BY <1>1, <1>2, <1>3, <2>1, NextUnseen
    <3>4. r \in Nat /\ file \in Seq(Entry)
      BY DEF TypeOK
    <3> QED
      BY <1>2, <3>2, <3>3, <3>4, FileRecord
  <2>2. CASE ~Unseen(r)
    <3>1. seen' = seen /\ file' = file /\ r \in seen
      BY <1>3, <2>2 DEF Sweep, Unseen
    <3> QED
      BY <1>2, <3>1, FileSame
  <2> QED
    BY <2>1, <2>2
<1>5. /\ Len(batch) \in Nat /\ Len(batch') = Len(batch) - 1
      /\ \A i \in 1 .. Len(batch') : batch'[i] = batch[i + 1] /\ i + 1 \in 1 .. Len(batch)
  BY <1>1 DEF TypeOK
<1>6. \A i \in 1 .. Len(batch) : batch[i] \in 1 .. records
  BY DEF TypeOK
<1>7. Rising(trace)' /\ Rising(batch)'
  BY <1>1, <1>2, <1>5 DEF Rising
<1>8. \A i \in 1 .. Len(batch') : batch'[i] > r
  BY <1>1, <1>2, <1>3, <1>5, <1>6 DEF Rising
<1>9. SeenBelow'
  <2>1. \A i \in 1 .. Len(batch'), x \in seen : batch'[i] <= x => batch'[i] \in seen
    BY <1>2, <1>5 DEF SeenBelow
  <2>2. \A i \in 1 .. Len(batch') : ~(batch'[i] <= r)
    BY <1>3, <1>5, <1>6, <1>8
  <2> QED
    BY <1>4, <2>1, <2>2 DEF SeenBelow
<1>10. BatchBelow'
  <2>1. seen' \cup ToSet(batch)' = seen \cup ToSet(batch)
    <3>1. DOMAIN batch = 1 .. Len(batch) /\ DOMAIN batch' = 1 .. Len(batch')
      BY <1>1 DEF TypeOK
    <3>2. ToSet(batch) = {r} \cup ToSet(batch)'
      <4>1. \A i \in 1 .. Len(batch) : i = 1 \/ (i - 1 \in 1 .. Len(batch') /\ batch'[i - 1] = batch[i])
        BY <1>5
      <4>2. 1 \in 1 .. Len(batch)
        BY <1>1 DEF TypeOK
      <4>3. \A x \in ToSet(batch) : x = r \/ x \in ToSet(batch)'
        <5>1. TAKE x \in ToSet(batch)
        <5>2. PICK i \in 1 .. Len(batch) : x = batch[i]
          BY <3>1 DEF ToSet
        <5> QED
          BY <1>3, <3>1, <4>1, <5>2 DEF ToSet
      <4>4. \A x \in ToSet(batch)' : x \in ToSet(batch)
        BY <1>5, <3>1 DEF ToSet
      <4>5. r \in ToSet(batch)
        BY <1>3, <3>1, <4>2 DEF ToSet
      <4> QED
        BY <4>3, <4>4, <4>5
    <3> QED
      BY <1>4, <3>2
  <2> QED
    BY <1>1, <1>2, <2>1 DEF BatchBelow
<1> QED
  BY <1>4, <1>7, <1>9, <1>10

LEMMA SweepRaisesOnce ==
  ASSUME TypeOK, OnceInv, SweepRaises
  PROVE  OnceInv'
<1> SUFFICES ASSUME records' <= Watermark
             PROVE  FileOnce' /\ Rising(trace)' /\ Rising(batch)' /\ SeenBelow' /\ BatchBelow'
  BY DEF OnceInv
<1>1. UNCHANGED <<records, trace>> /\ batch # <<>> /\ batch' = <<>>
  BY DEF SweepRaises, Raises
<1>2. FileOnce /\ Rising(trace) /\ Rising(batch) /\ SeenBelow /\ BatchBelow
  BY <1>1 DEF OnceInv
<1>3. PICK r \in 1 .. records : r = Head(batch) /\ r = batch[1] /\ 1 \in 1 .. Len(batch)
  <2> DEFINE S == 1 .. records
  <2>1. batch \in Seq(S)
    BY DEF TypeOK
  <2> HIDE DEF S
  <2>2. Head(batch) \in S /\ Head(batch) = batch[1] /\ 1 \in 1 .. Len(batch)
    BY <1>1, <2>1
  <2> QED
    BY <2>2 DEF S
<1>4. seen' = seen \cup {r}
  BY <1>1, <1>3, NotCleared DEF SweepRaises
<1>5. FileOnce'
  <2>1. file' \in {file, Append(file, Event("runtime", r))}
    BY <1>3 DEF SweepRaises, EmitRaises
  <2>2. \A x \in seen : x < r
    BY <1>1, <1>2, <1>3, NextUnseen DEF SweepRaises
  <2>3. r \in Nat /\ file \in Seq(Entry)
    BY DEF TypeOK
  <2>4. CASE file' = file
    BY <1>2, <1>4, <2>4, FileSame
  <2>5. CASE file' = Append(file, Event("runtime", r))
    BY <1>2, <1>4, <2>2, <2>3, <2>5, FileRecord
  <2> QED
    BY <2>1, <2>4, <2>5
<1>6. Rising(trace)' /\ Rising(batch)' /\ SeenBelow'
  BY <1>1, <1>2 DEF Rising, SeenBelow
<1>7. BatchBelow'
  <2> SUFFICES ASSUME NEW i \in 1 .. Len(trace), NEW x \in seen \cup {r}, trace[i] <= x
               PROVE  trace[i] \in seen \cup {r}
    BY <1>1, <1>4 DEF BatchBelow, ToSet
  <2>1. r \in ToSet(batch)
    BY <1>3 DEF ToSet, TypeOK
  <2>2. trace[i] \in seen \cup ToSet(batch)
    BY <1>2, <2>1 DEF BatchBelow
  <2>3. CASE trace[i] \in seen
    BY <2>3
  <2>4. CASE trace[i] \in ToSet(batch)
    <3>0. DOMAIN batch = 1 .. Len(batch)
      BY DEF TypeOK
    <3>1. PICK k \in 1 .. Len(batch) : trace[i] = batch[k]
      BY <2>4, <3>0 DEF ToSet
    <3>2. CASE x \in seen
      BY <1>2, <3>1, <3>2 DEF SeenBelow
    <3>3. CASE x = r
      <4>1. batch[k] \in 1 .. records /\ batch[1] \in 1 .. records
        <5> DEFINE S == 1 .. records
        <5>1. batch \in Seq(S) /\ 1 \in 1 .. Len(batch) /\ k \in 1 .. Len(batch)
          BY <1>3 DEF TypeOK
        <5> HIDE DEF S
        <5>2. batch[k] \in S /\ batch[1] \in S
          BY <5>1
        <5> QED
          BY <5>2 DEF S
      <4>2. k = 1 \/ batch[1] < batch[k]
        BY <1>2, <1>3 DEF Rising
      <4> QED
        BY <1>3, <3>1, <3>3, <4>1, <4>2
    <3> QED
      BY <3>2, <3>3
  <2> QED
    BY <2>2, <2>3, <2>4
<1> QED
  BY <1>5, <1>6, <1>7

\* drain_trace() looks at a copy of the trace.
LEMMA DrainOnce ==
  ASSUME TypeOK, OnceInv, Drain
  PROVE  OnceInv'
<1> SUFFICES ASSUME records' <= Watermark
             PROVE  FileOnce' /\ Rising(trace)' /\ Rising(batch)' /\ SeenBelow' /\ BatchBelow'
  BY DEF OnceInv
<1>1. UNCHANGED <<records, trace, file, seen>> /\ batch' = trace /\ At("drain")
  BY DEF Drain
<1>2. FileOnce /\ Rising(trace) /\ SeenBelow /\ BatchBelow
  BY <1>1 DEF OnceInv
<1>3. FileOnce' /\ Rising(trace)' /\ Rising(batch)'
  BY <1>1, <1>2, FileSame DEF Rising
<1>4. DOMAIN trace = 1 .. Len(trace) /\ DOMAIN batch = 1 .. Len(batch)
  BY DEF TypeOK
<1>5. SeenBelow'
  <2> SUFFICES ASSUME NEW i \in 1 .. Len(trace), NEW r \in seen, trace[i] <= r
               PROVE  trace[i] \in seen
    BY <1>1 DEF SeenBelow
  <2>1. trace[i] \in seen \cup ToSet(batch)
    BY <1>2 DEF BatchBelow
  <2>2. CASE trace[i] \in ToSet(batch)
    <3>1. PICK k \in 1 .. Len(batch) : trace[i] = batch[k]
      BY <1>4, <2>2 DEF ToSet
    <3> QED
      BY <1>2, <3>1 DEF SeenBelow
  <2> QED
    BY <2>1, <2>2
<1>6. BatchBelow'
  BY <1>1, <1>4 DEF BatchBelow, ToSet
<1> QED
  BY <1>3, <1>5, <1>6

\* Whoever leaves the trace and what was seen of it alone, and appends nothing about it.
LEMMA OtherOnce ==
  ASSUME TypeOK, OnceInv, UNCHANGED <<records, trace, seen>>, batch' \in {batch, <<>>},
         file' = file \/ \E e \in Entry : e.kind # "runtime" /\ file' = Append(file, e)
  PROVE  OnceInv'
<1> SUFFICES ASSUME records' <= Watermark
             PROVE  FileOnce' /\ Rising(trace)' /\ Rising(batch)' /\ SeenBelow' /\ BatchBelow'
  BY DEF OnceInv
<1>1. FileOnce /\ Rising(trace) /\ Rising(batch) /\ SeenBelow /\ BatchBelow
  BY DEF OnceInv
<1>2. FileOnce'
  <2>1. file \in Seq(Entry)
    BY DEF TypeOK
  <2> QED
    BY <1>1, <2>1, FileSame, FileOther
<1>3. CASE batch' = batch
  BY <1>1, <1>2, <1>3 DEF Rising, SeenBelow, BatchBelow
<1>4. CASE batch' = <<>>
  <2>1. Rising(trace)' /\ Rising(batch)' /\ SeenBelow'
    BY <1>1, <1>4 DEF Rising, SeenBelow
  <2>2. BatchBelow'
    <3> SUFFICES ASSUME NEW i \in 1 .. Len(trace), NEW r \in seen, trace[i] <= r
                 PROVE  trace[i] \in seen
      BY <1>4 DEF BatchBelow, ToSet
    <3>1. trace[i] \in seen \cup ToSet(batch)
      BY <1>1 DEF BatchBelow
    <3>2. CASE trace[i] \in ToSet(batch)
      <4>1. DOMAIN batch = 1 .. Len(batch)
        BY DEF TypeOK
      <4>2. PICK k \in 1 .. Len(batch) : trace[i] = batch[k]
        BY <3>2, <4>1 DEF ToSet
      <4> QED
        BY <1>1, <4>2 DEF SeenBelow
    <3> QED
      BY <3>1, <3>2
  <2> QED
    BY <1>2, <2>1, <2>2
<1> QED
  BY <1>3, <1>4

LEMMA OnceKeeps == TypeOK /\ OnceInv /\ [Next]_vars => OnceInv'
<1> SUFFICES ASSUME TypeOK, OnceInv, [Next]_vars PROVE OnceInv'
  OBVIOUS
<1>0. attempt \in Nat
  BY DEF TypeOK
<1>1. ASSUME NEW kind \in Kinds \ {"runtime"}, NEW id \in Nat,
             Emits(Event(kind, id)) \/ EmitRaises(Event(kind, id)),
             UNCHANGED <<records, trace, seen>>, batch' \in {batch, <<>>}
      PROVE  OnceInv'
  <2>1. Event(kind, id) \in Entry /\ Event(kind, id).kind # "runtime"
    BY DEF Event, Entry
  <2> QED
    BY <1>1, <2>1, OtherOnce DEF Emits, EmitRaises
<1>2. CASE Start \/ StartRaises
  BY <1>1, <1>2 DEF Start, StartRaises, tracing, Kinds
<1>3. CASE RuntimeOperates
  BY <1>3, RecordOnce DEF RuntimeOperates
<1>4. ASSUME NEW plan \in {SkillSteps, SequenceSteps}, Execute(plan) PROVE OnceInv'
  BY <1>4, RecordOnce DEF Execute
<1>5. CASE SequenceRefused \/ Episode \/ EpisodeRaises \/ Close
  BY <1>5, OtherOnce DEF SequenceRefused, Episode, EpisodeRaises, Close, tracing
<1>6. ASSUME NEW kind \in {"learning", "policy"}, Hooked(kind) \/ HookRaises(kind)
      PROVE  OnceInv'
  BY <1>0, <1>1, <1>6 DEF Hooked, HookRaises, tracing, Kinds
<1>7. ASSUME NEW kind \in {"decision", "execution", "attempt"}, Note(kind) \/ NoteRaises(kind)
      PROVE  OnceInv'
  BY <1>0, <1>1, <1>7 DEF Note, NoteRaises, Raises, tracing, Kinds
<1>8. CASE Drain
  BY <1>8, DrainOnce
<1>9. CASE Sweep
  BY <1>9, SweepOnce
<1>10. CASE SweepRaises
  BY <1>10, SweepRaisesOnce
<1>11. CASE Swept \/ CloseJournal \/ CloseJournalRaises \/ CloseLane \/ CloseLaneRaises
  BY <1>11, OtherOnce DEF Swept, CloseJournal, CloseJournalRaises, CloseLane, CloseLaneRaises,
                          Raises, tracing
<1>12. CASE Complete \/ CompleteRaises
  BY <1>1, <1>12 DEF Complete, CompleteRaises, Raises, tracing, Kinds
<1>13. CASE UNCHANGED vars
  BY <1>13, OtherOnce DEF vars, tracing
<1> QED
  BY <1>2, <1>3, <1>4, <1>5, <1>6, <1>7, <1>8, <1>9, <1>10, <1>11, <1>12, <1>13 DEF Next

-----------------------------------------------------------------------------
IInv == TypeOK /\ NewInv /\ ClosedInv /\ EvidenceInv /\ ErrorsInv /\ SeenInv /\ OnceInv

LEMMA IInvHolds == Spec => []IInv
<1>1. Init => IInv
  BY TypeInit, ClosedInit, EvidenceInit, ErrorsInit, OnceInit DEF IInv
<1>2. IInv /\ [Next]_vars => IInv'
  BY TypeKeeps, NewKeeps, ClosedKeeps, EvidenceKeeps, ErrorsKeeps, SeenKeeps, OnceKeeps
     DEF IInv
<1> QED
  BY <1>1, <1>2, PTL DEF Spec

\* A session that close() calls closed is complete, however many earlier calls failed.
THEOREM ClosedIsCompleteCorrect == Spec => []ClosedIsComplete
<1>1. IInv => ClosedIsComplete
  BY DEF IInv, ClosedInv, ClosedIsComplete
<1> QED
  BY <1>1, IInvHolds, PTL

\* An attempt that returned is in the journal, and what its hooks should have left and did not
\* is counted in hook_errors, until that is full: for any limit and any number of attempts.
THEOREM EvidenceKeptCorrect == Spec => []EvidenceKept
<1>1. IInv => EvidenceKept
  BY EvidenceFollows DEF IInv
<1> QED
  BY <1>1, IInvHolds, PTL

\* drain_trace() passes no record by, whatever the length of the trace and the watermark.
THEOREM TraceKeptCorrect == Spec => []TraceKept
<1>1. IInv => TraceKept
  BY DEF IInv, SeenInv, TraceKept
<1> QED
  BY <1>1, IInvHolds, PTL

\* Up to the watermark the records are journaled in order, and each at most once.
THEOREM TraceOnceCorrect == Spec => []TraceOnce
<1>1. IInv => TraceOnce
  BY DEF IInv, OnceInv, FileOnce, TraceOnce
<1> QED
  BY <1>1, IInvHolds, PTL

\* File, trace and batch keep their types, and a call has one of the step lists left to do.
THEOREM TypeCorrect == Spec => []TypeOK
<1>1. IInv => TypeOK
  BY DEF IInv
<1> QED
  BY <1>1, IInvHolds, PTL
=============================================================================
