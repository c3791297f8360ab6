---------------------------- MODULE RunSession ----------------------------
(***************************************************************************)
(* RunSession (session.py) with the hooks it installs in the skill         *)
(* executor, over its journal, its coordinator, the experience store and   *)
(* the Runtime's trace (ios_runtime/trace.py).                             *)
(*                                                                         *)
(* A session is used by one thread.  A call is a list of steps, each of    *)
(* which appends to the journal or closes something and may fail; the      *)
(* Runtime records its operations, from its own thread, between any two.   *)
(* The journal is what module Journal shows of it: an append that raises   *)
(* has written nothing, or the event and has failed behind it (fsync); a   *)
(* close() that raises has left it open, or closed without its             *)
(* projections.  In the journal is here what an emit() returned for; that  *)
(* behind a close() which raised such a line may be glued to a torn one is *)
(* told in Journal.                                                        *)
(***************************************************************************)
EXTENDS Naturals, Sequences, FiniteSets, SequencesExt

CONSTANTS
  Keep,          \* length of the trace's deque
  Watermark,     \* _MAX_TRACE_WATERMARK
  MaxHookErrors, \* MAX_HOOK_ERRORS
  MaxRecords,    \* bound: operations of the Runtime
  MaxAttempts,   \* bound: calls that execute
  MaxFaults      \* bound: failing steps

ASSUME KeepAssumption == Keep \in Nat \ {0} /\ Watermark \in Nat
ASSUME HookErrorsAssumption == MaxHookErrors \in Nat \ {0}
ASSUME BoundAssumption ==
  MaxRecords \in Nat /\ MaxAttempts \in Nat /\ MaxFaults \in Nat

VARIABLES
  phase,      \* new, open, or failed: start() raised
  file,       \* events.jsonl
  journal,    \* open or closed
  lane,       \* the coordinator: absent, open or closed
  completed,  \* _completion_emitted
  closed,     \* _closed
  records,    \* operations the Runtime has recorded
  trace,      \* its deque
  seen,       \* _trace_seen
  steps,      \* what the running call has yet to do
  batch,      \* what its drain_trace() has yet to look at
  attempt,    \* the attempt the running call is about
  attempts,   \* attempts so far
  store,      \* the episodes on disk
  errors,     \* hook_errors: in memory, the hooks that raised last
  faults,     \* failing steps so far
  raised,     \* history: the attempts for which each hook raised
  returned,   \* history: attempts whose call returned to its caller
  swept,      \* history: records a drain_trace() that returned has looked at
  lost        \* history: records whose append raised

evidence == <<store, errors, raised>>
plumbing == <<journal, lane, completed, closed>>
tracing  == <<records, trace, seen, batch, swept, lost>>
history  == <<returned, swept, lost>>
vars     == <<phase, file, plumbing, tracing, steps, attempt, attempts, evidence, faults,
              returned>>

\* The hook that records what is learned, with its episode, and the one that gives the
\* advice: an entry of hook_errors names one of them, but not the attempt.
Hook == {"learning", "policy"}

Event(kind, id) == [kind |-> kind, id |-> id]
Journaled(kind, id) == Event(kind, id) \in ToSet(file)

Init ==
  /\ phase = "new" /\ file = <<>> /\ journal = "open" /\ lane = "absent"
  /\ completed = FALSE /\ closed = FALSE
  /\ records = 0 /\ trace = <<>> /\ seen = {} /\ batch = <<>>
  /\ steps = <<>> /\ attempt = 0 /\ attempts = 0
  /\ store = {} /\ errors = <<>> /\ raised = [hook \in Hook |-> {}] /\ faults = 0
  /\ returned = {} /\ swept = {} /\ lost = {}

Idle == phase = "open" /\ steps = <<>>
At(step) == steps # <<>> /\ Head(steps) = step
Done == steps' = Tail(steps)
Returns == returned' = IF Len(steps) = 1 /\ attempt # 0 THEN returned \cup {attempt}
                                                        ELSE returned

(***************************************************************************)
(* journal.emit().                                                         *)
(***************************************************************************)
Emits(e) == journal = "open" /\ file' = Append(file, e)
\* It raises: it is closed, the append fails, or the fsync behind it does.
EmitRaises(e) ==
  \/ journal = "closed" /\ UNCHANGED <<file, faults>>
  \/ /\ journal = "open" /\ faults < MaxFaults
     /\ faults' = faults + 1
     /\ file' \in {file, Append(file, e)}

\* An exception that no one catches ends the call.
Raises == steps' = <<>> /\ batch' = <<>>

(***************************************************************************)
(* Trace.record(), by the Runtime's own thread.                            *)
(***************************************************************************)
Recorded(n) == IF Len(trace) < Keep THEN Append(trace, n) ELSE Append(Tail(trace), n)

RuntimeOperates ==
  /\ phase = "open" /\ records < MaxRecords
  /\ records' = records + 1
  /\ trace' = Recorded(records')
  /\ UNCHANGED <<phase, file, plumbing, seen, batch, steps, attempt, attempts, evidence,
                 faults, history>>

(***************************************************************************)
(* start(): run.started, then the coordinator with the ledger of the run,  *)
(* then the store and the hooks.                                           *)
(***************************************************************************)
Start ==
  /\ phase = "new"
  /\ Emits(Event("run.started", 0))
  /\ lane' = "open" /\ phase' = "open"
  /\ UNCHANGED <<journal, completed, closed, tracing, steps, attempt, attempts, evidence,
                 faults, returned>>

\* The journal stays open behind a start() that raises.
StartRaises ==
  /\ phase = "new"
  /\ \/ EmitRaises(Event("run.started", 0))
     \/ /\ faults < MaxFaults /\ faults' = faults + 1
        /\ Emits(Event("run.started", 0))
  /\ phase' = "failed"
  /\ UNCHANGED <<plumbing, tracing, steps, attempt, attempts, evidence, returned>>

(***************************************************************************)
(* execute_skill() and execute_sequence().                                 *)
(***************************************************************************)
\* _post_run_evidence() of the executor, then note_attempt() and drain_trace().
SkillSteps    == <<"episode", "learning", "policy", "attempt", "drain">>
SequenceSteps == <<"decision", "execution", "attempt", "drain">>

\* The coordinator runs the attempt: the Runtime executes, and records it.
Execute(plan) ==
  /\ Idle /\ attempts < MaxAttempts /\ records < MaxRecords
  /\ lane = "open"
  /\ attempts' = attempts + 1 /\ attempt' = attempts'
  /\ records' = records + 1
  /\ trace' = Recorded(records')
  /\ steps' = plan
  /\ UNCHANGED <<phase, file, plumbing, seen, batch, evidence, faults, history>>

\* The executor or the coordinator refuses, or its end of the attempt is an exception:
\* execute_sequence() journals why, execute_skill() does not.
SequenceRefused ==
  /\ Idle /\ attempts < MaxAttempts
  /\ attempts' = attempts + 1 /\ attempt' = 0
  /\ steps' = <<"decision">>
  /\ UNCHANGED <<phase, file, plumbing, tracing, evidence, faults, returned>>

\* JournalExperienceRecorder.record(): the store first, then the journal.
Episode ==
  /\ At("episode") /\ Done
  /\ store' = store \cup {attempt}
  /\ UNCHANGED <<phase, file, plumbing, tracing, attempt, attempts, errors, raised, faults,
                 returned>>

\* _note_hook_error(): an entry behind the others, the oldest of which is deleted at the limit.
Noted(hook) ==
  IF Len(errors) < MaxHookErrors THEN Append(errors, hook) ELSE Append(Tail(errors), hook)
NoteHookError(hook) ==
  /\ errors' = Noted(hook)
  /\ raised' = [raised EXCEPT ![hook] = @ \cup {attempt}]

\* What the hook raises is noted, and the call goes on.
EpisodeRaises ==
  /\ At("episode") /\ faults < MaxFaults
  /\ faults' = faults + 1
  /\ steps' = Tail(Tail(steps))
  /\ NoteHookError("learning")
  /\ UNCHANGED <<phase, file, plumbing, tracing, attempt, attempts, store, returned>>

Hooked(kind) ==
  /\ At(kind) /\ Done
  /\ Emits(Event(kind, attempt))
  /\ UNCHANGED <<phase, plumbing, tracing, attempt, attempts, evidence, faults, returned>>

\* Mutant of HookRaises: the hook swallows what it raises.
HookRaisesUnnoted(kind) ==
  /\ At(kind) /\ Done
  /\ EmitRaises(Event(kind, attempt))
  /\ UNCHANGED <<phase, plumbing, tracing, attempt, attempts, evidence, returned>>

HookRaises(kind) ==
  /\ At(kind) /\ Done
  /\ EmitRaises(Event(kind, attempt))
  /\ NoteHookError(kind)
  /\ UNCHANGED <<phase, plumbing, tracing, attempt, attempts, store, returned>>

Note(kind) ==
  /\ At(kind) /\ Done /\ Returns
  /\ Emits(Event(kind, attempt))
  /\ UNCHANGED <<phase, plumbing, tracing, attempt, attempts, evidence, faults>>

NoteRaises(kind) ==
  /\ At(kind) /\ Raises
  /\ EmitRaises(Event(kind, attempt))
  /\ UNCHANGED <<phase, plumbing, records, trace, seen, attempt, attempts, evidence, history>>

(***************************************************************************)
(* drain_trace(): a copy of the deque, then one record after the other,    *)
(* which is marked seen before it is journaled.                            *)
(***************************************************************************)
Drain ==
  /\ At("drain")
  /\ steps' = [steps EXCEPT ![1] = "sweep"]
  /\ batch' = trace
  /\ UNCHANGED <<phase, file, plumbing, records, trace, seen, attempt, attempts, evidence,
                 faults, history>>

Marked(r) == IF Cardinality(seen \cup {r}) > Watermark THEN {} ELSE seen \cup {r}
Unseen(r) == r \notin seen

\* Mutant of Sweep: it stops at the first record it has seen.
SweepStops ==
  /\ At("sweep") /\ batch # <<>>
  /\ IF Unseen(Head(batch))
     THEN /\ seen' = Marked(Head(batch))
          /\ Emits(Event("runtime", Head(batch)))
          /\ batch' = Tail(batch)
          /\ swept' = swept \cup {Head(batch)}
     ELSE /\ UNCHANGED <<seen, file>>
          /\ batch' = <<>>
          /\ swept' = swept \cup ToSet(batch)
  /\ UNCHANGED <<phase, plumbing, records, trace, steps, attempt, attempts, evidence, faults,
                 returned, lost>>

Sweep ==
  /\ At("sweep") /\ batch # <<>>
  /\ IF Unseen(Head(batch))
     THEN /\ seen' = Marked(Head(batch))
          /\ Emits(Event("runtime", Head(batch)))
     ELSE UNCHANGED <<seen, file>>
  /\ batch' = Tail(batch)
  /\ swept' = swept \cup {Head(batch)}
  /\ UNCHANGED <<phase, plumbing, records, trace, steps, attempt, attempts, evidence, faults,
                 returned, lost>>

\* Mutant of SweepRaises: a record is marked seen when it has been journaled.
SweepRaisesUnmarked ==
  /\ At("sweep") /\ batch # <<>>
  /\ Unseen(Head(batch))
  /\ EmitRaises(Event("runtime", Head(batch)))
  /\ lost' = lost \cup {Head(batch)}
  /\ Raises
  /\ UNCHANGED <<phase, plumbing, records, trace, seen, attempt, attempts, evidence, returned,
                 swept>>

SweepRaises ==
  /\ At("sweep") /\ batch # <<>>
  /\ Unseen(Head(batch))
  /\ seen' = Marked(Head(batch))
  /\ EmitRaises(Event("runtime", Head(batch)))
  /\ lost' = lost \cup {Head(batch)}
  /\ Raises
  /\ UNCHANGED <<phase, plumbing, records, trace, attempt, attempts, evidence, returned, swept>>

Swept ==
  /\ At("sweep") /\ batch = <<>>
  /\ Done /\ Returns
  /\ UNCHANGED <<phase, file, plumbing, tracing, attempt, attempts, evidence, faults>>

(***************************************************************************)
(* close(): a last sweep and run.completed, unless an earlier close() got  *)
(* that far; then the journal, the coordinator, and only then _closed.     *)
(***************************************************************************)
ClosingSteps == IF completed THEN <<"journal", "lane">>
                             ELSE <<"drain", "run.completed", "journal", "lane">>

Close ==
  /\ Idle /\ ~closed
  /\ steps' = ClosingSteps
  /\ attempt' = 0
  /\ UNCHANGED <<phase, file, plumbing, tracing, attempts, evidence, faults, returned>>

Complete ==
  /\ At("run.completed") /\ Done
  /\ Emits(Event("run.completed", 0))
  /\ completed' = TRUE
  /\ UNCHANGED <<phase, journal, lane, closed, tracing, attempt, attempts, evidence, faults,
                 returned>>

\* Mutant of CompleteRaises: the flag is set ahead of the emit.
CompleteRaisesFlagged ==
  /\ At("run.completed") /\ Raises
  /\ EmitRaises(Event("run.completed", 0))
  /\ completed' = TRUE
  /\ UNCHANGED <<phase, journal, lane, closed, records, trace, seen, attempt, attempts,
                 evidence, history>>

CompleteRaises ==
  /\ At("run.completed") /\ Raises
  /\ EmitRaises(Event("run.completed", 0))
  /\ UNCHANGED <<phase, plumbing, records, trace, seen, attempt, attempts, evidence, history>>

\* journal.close() may be called again: what is closed already is left alone, and the
\* projections are written again.
CloseJournal ==
  /\ At("journal") /\ Done
  /\ journal' = "closed"
  /\ UNCHANGED <<phase, file, lane, completed, closed, tracing, attempt, attempts, evidence,
                 faults, returned>>

CloseJournalRaises ==
  /\ At("journal") /\ Raises
  /\ faults < MaxFaults /\ faults' = faults + 1
  /\ journal' \in {journal, "closed"}
  /\ UNCHANGED <<phase, file, lane, completed, closed, records, trace, seen, attempt,
                 attempts, evidence, history>>

\* coordinator.close(), whatever its ledger says, then _closed.
CloseLane ==
  /\ At("lane") /\ Done
  /\ lane' = "closed" /\ closed' = TRUE
  /\ UNCHANGED <<phase, file, journal, completed, tracing, attempt, attempts, evidence, faults,
                 returned>>

\* The ledger's last commit raises, behind the release of the leases.
CloseLaneRaises ==
  /\ At("lane") /\ Raises
  /\ lane = "open" /\ faults < MaxFaults /\ faults' = faults + 1
  /\ lane' = "closed"
  /\ UNCHANGED <<phase, file, journal, completed, closed, records, trace, seen, attempt,
                 attempts, evidence, history>>

Next ==
  \/ Start \/ StartRaises
  \/ RuntimeOperates
  \/ \E plan \in {SkillSteps, SequenceSteps} : Execute(plan)
  \/ SequenceRefused
  \/ Episode \/ EpisodeRaises
  \/ \E kind \in {"learning", "policy"} : Hooked(kind) \/ HookRaises(kind)
  \/ \E kind \in {"decision", "execution", "attempt"} : Note(kind) \/ NoteRaises(kind)
  \/ Drain \/ Sweep \/ SweepRaises \/ Swept
  \/ Close \/ Complete \/ CompleteRaises
  \/ CloseJournal \/ CloseJournalRaises
  \/ CloseLane \/ CloseLaneRaises

Spec == Init /\ [][Next]_vars

(***************************************************************************)
(* Properties.                                                             *)
(***************************************************************************)
\* A session that says it is closed has its completion in the journal, and has let go of
\* journal and coordinator, however many close() calls failed on the way.
ClosedIsComplete ==
  closed => /\ Journaled("run.completed", 0)
            /\ journal = "closed" /\ lane = "closed"

\* An attempt whose call returned is in the journal.  Of what was learned from it, with its
\* episode in the store, and of the advice about it nothing is missing without an entry of
\* its own in hook_errors, until those are as many as are kept: from then on evidence can
\* be lost without a trace.  A sequence has no hooks, and its execution is there instead.
Hooks == {n \in returned : ~Journaled("execution", n)}
Unlearned == {n \in Hooks : ~(n \in store /\ Journaled("learning", n))}
Unadvised == {n \in Hooks : ~Journaled("policy", n)}
Entries(hook) == {i \in DOMAIN errors : errors[i] = hook}

EvidenceKept ==
  /\ \A n \in returned : Journaled("attempt", n)
  /\ Len(errors) < MaxHookErrors =>
       /\ Cardinality(Unlearned) <= Cardinality(Entries("learning"))
       /\ Cardinality(Unadvised) <= Cardinality(Entries("policy"))

\* drain_trace() passes no record by: each it has looked at is in the journal, unless an
\* append for it has raised.
TraceKept == \A r \in swept : Journaled("runtime", r) \/ r \in lost

\* As long as the watermark has not been cleared, the records in the journal are in the
\* order of the operations and none is there twice, not even behind an append that
\* raised with the event on disk.
TraceOnce ==
  records <= Watermark =>
    \A i, j \in DOMAIN file :
      i < j /\ file[i].kind = "runtime" /\ file[j].kind = "runtime" => file[i].id < file[j].id
=============================================================================
