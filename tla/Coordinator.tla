---------------------------- MODULE Coordinator ----------------------------
(***************************************************************************)
(* The execution coordinator (agent/coordinator.py): calls that want to    *)
(* mutate the device are admitted one at a time by a lease, leave a row in *)
(* a durable ledger before they are dispatched to the Runtime, and end     *)
(* with a row that says what became of them.                               *)
(*                                                                         *)
(* Several coordinators share one DeviceLeaseManager, one device and one   *)
(* Runtime; each has its own ledger file.  Everything runs on one event    *)
(* loop: cpu is the call whose code is running, and while it is set only   *)
(* time, a request to cancel (a flag other threads may set) and a crash    *)
(* happen beside it.  A call through run() or run_batch() keeps the loop   *)
(* while the device works; one through run_async() gives it back at its    *)
(* awaits.  run_sequence() is run() with a longer payload.                 *)
(*                                                                         *)
(* A step ends where the ledger commits, so a crash can fall between any   *)
(* two commits.  The Runtime is reduced to what module NativeRuntime shows *)
(* of it: one operation at a time, a batch only under the current          *)
(* revision, which every end of the batch but a cancellation forgets.      *)
(* Others observe and recover through it too, and hold its lock while they *)
(* await the device.                                                       *)
(***************************************************************************)
EXTENDS Naturals, FiniteSets

CONSTANTS
  Coord,        \* ledgers, each with the coordinator that has it open
  Call,         \* calls to run(), run_batch() or run_async(), each made once
  Owner,        \* names under which a lease is held
  Free,         \* the device is not leased
  Nobody,       \* the event loop is idle
  MaxBatch,     \* specs in the longest batch
  Forms,        \* the calls made: mode, whether they have a deadline, number of specs
  MaxRev,       \* bound: observations made by the Runtime
  MaxCancels,   \* bound: cancellations of tasks and calls of cancel()
  MaxStops      \* bound: crashes and calls of close()

Form == [mode : {"run", "batch", "async"}, limited : BOOLEAN, len : 1..MaxBatch]

ASSUME FormsAssumption ==
  /\ Forms \subseteq Form
  /\ \A f \in Forms : f.mode # "batch" => f.len = 1
ASSUME NamesAssumption == Free \notin Owner /\ Nobody \notin Call
ASSUME BoundsAssumption ==
  MaxBatch \in Nat /\ MaxRev \in Nat /\ MaxCancels \in Nat /\ MaxStops \in Nat

VARIABLES
  lease,      \* DeviceLeaseManager: owner of the device
  held,       \* _held of each coordinator: how often it lists each owner
  closed,     \* _closed
  cancelled,  \* the flag cancel() sets
  ledger,     \* durable: [call, step] -> state and effect of the attempt
  form,       \* the form of each call
  coord,      \* the coordinator it is made of
  owner,      \* the name it acquires the lease under
  pc,         \* where each call is
  step,       \* which spec of the batch it is at
  rev,        \* the revision that spec is bound to
  late,       \* the deadline of the call has passed
  answer,     \* what the Runtime answered, until it is recorded
  exe,        \* Execution.state of the call's last execution
  cpu,        \* the call that occupies the event loop
  current,    \* the Runtime's revision
  issued,     \* revisions issued so far
  other,      \* the operation that someone else has the Runtime's lock for
  inval,      \* calls whose shielded invalidate() has not run yet
  cancels,    \* cancellations so far
  stops,      \* crashes and closes so far
  touched,    \* history: attempts that reached the device, with their revision
  acked,      \* history: attempts the device completed
  evicted,    \* history: calls whose coordinator was closed under them
  abandoned   \* history: calls cancelled a second time, while invalidating

callVars == <<form, coord, owner>>
leaseVars == <<lease, held>>
flags == <<closed, cancelled>>
runtimeVars == <<current, issued, inval, other>>
bounds == <<cancels, stops>>
history == <<touched, acked, evicted, abandoned>>
vars == <<leaseVars, flags, ledger, callVars, pc, step, rev, late, answer, exe, cpu,
          runtimeVars, bounds, history>>

RowStates == {"absent", "planned", "sent", "succeeded", "failed", "unknown"}
Incomplete == {"planned", "sent"}
Effects == {"NONE", "PARTIAL", "UNKNOWN"}
Row(state, effect) == [state |-> state, effect |-> effect]
Absent == Row("absent", "NONE")

Stages == {"new", "admitted", "planned", "sent", "waiting", "device", "answered",
           "invalidating", "done"}

\* Between the acquisition of the lease and its release.
Lane == {t \in Call : pc[t] \notin {"new", "done"}}

Async(t) == form[t].mode = "async"

\* The code of t can run: t has the loop, or nobody has it and t gave it back.
CanRun(t) == cpu = IF Async(t) THEN Nobody ELSE t

Init ==
  /\ lease = Free
  /\ held = [k \in Coord |-> [o \in Owner |-> 0]]
  /\ closed = [k \in Coord |-> FALSE]
  /\ cancelled = [k \in Coord |-> FALSE]
  /\ ledger = [t \in Call |-> [i \in 1..MaxBatch |-> Absent]]
  /\ form \in [Call -> Forms]
  /\ coord \in [Call -> Coord]
  /\ owner \in [Call -> Owner]
  /\ pc = [t \in Call |-> "new"]
  /\ step = [t \in Call |-> 1]
  /\ rev = [t \in Call |-> 0]
  /\ late = [t \in Call |-> FALSE]
  /\ answer = [t \in Call |-> Absent]
  /\ exe = [t \in Call |-> "none"]
  /\ cpu = Nobody
  /\ current = 0 /\ issued = 0 /\ inval = {} /\ other = "none"
  /\ cancels = 0 /\ stops = 0
  /\ touched = {} /\ acked = {} /\ evicted = {} /\ abandoned = {}

-----------------------------------------------------------------------------
(* Admission. *)

\* _guard(): cancel() was called, or the deadline has passed.
Barred(t) == cancelled[coord[t]] \/ (form[t].limited /\ late[t])

\* The call ends: the lease is released if its owner still holds it.
Leave(t) ==
  /\ lease' = IF lease = owner[t] THEN Free ELSE lease
  /\ held' = IF t \in evicted \/ held[coord[t]][owner[t]] = 0 THEN held
             ELSE [held EXCEPT ![coord[t]][owner[t]] = @ - 1]
  /\ pc' = [pc EXCEPT ![t] = "done"]
  /\ cpu' = Nobody

\* Validation, the open check, the guard and the lease, in one go: no attempt exists.
Reject(t) ==
  /\ cpu = Nobody
  /\ pc[t] = "new"
  /\ closed[coord[t]] \/ Barred(t) \/ lease # Free
  /\ pc' = [pc EXCEPT ![t] = "done"]
  /\ UNCHANGED <<leaseVars, flags, ledger, callVars, step, rev, late, answer, exe, cpu,
                 runtimeVars, bounds, history>>

\* Mutant of Admit: the lease is taken over instead of refused.
AdmitTakingOver(t) ==
  /\ cpu = Nobody
  /\ pc[t] = "new"
  /\ issued > 0
  /\ ~closed[coord[t]]
  /\ ~Barred(t)
  /\ lease' = owner[t]
  /\ held' = [held EXCEPT ![coord[t]][owner[t]] = @ + 1]
  /\ pc' = [pc EXCEPT ![t] = "admitted"]
  /\ cpu' = t
  /\ UNCHANGED <<flags, ledger, callVars, step, rev, late, answer, exe, runtimeVars,
                 bounds, history>>

\* A spec is bound to a revision, so its caller has seen one.
Admit(t) ==
  /\ cpu = Nobody
  /\ pc[t] = "new"
  /\ issued > 0
  /\ ~closed[coord[t]]
  /\ ~Barred(t)
  /\ lease = Free
  /\ lease' = owner[t]
  /\ held' = [held EXCEPT ![coord[t]][owner[t]] = @ + 1]
  /\ pc' = [pc EXCEPT ![t] = "admitted"]
  /\ cpu' = t
  /\ UNCHANGED <<flags, ledger, callVars, step, rev, late, answer, exe, runtimeVars,
                 bounds, history>>

\* Mutant of Write: a closed coordinator still reaches the ledger.
WriteAfterClose(t, row) == ledger' = [ledger EXCEPT ![t][step[t]] = row]

\* A row for the attempt, unless the ledger was closed under the call.
Write(t, row) ==
  ledger' = IF t \in evicted THEN ledger ELSE [ledger EXCEPT ![t][step[t]] = row]

\* _new_attempt(): the intent is committed.  The spec's revision is the current one
\* or an old one.
Plan(t) ==
  /\ pc[t] = "admitted"
  /\ form[t].mode = "batch" => ~Barred(t)
  /\ \E r \in 1..issued : rev' = [rev EXCEPT ![t] = r]
  /\ Write(t, Row("planned", "NONE"))
  /\ exe' = [exe EXCEPT ![t] = "running"]
  /\ pc' = [pc EXCEPT ![t] = "planned"]
  /\ UNCHANGED <<leaseVars, flags, callVars, step, late, answer, cpu, runtimeVars,
                 bounds, history>>

\* _mark_sent(): committed before the Runtime is called.
Mark(t) ==
  /\ pc[t] = "planned"
  /\ form[t].mode # "batch" => ~Barred(t)
  /\ Write(t, Row("sent", "UNKNOWN"))
  /\ pc' = [pc EXCEPT ![t] = "sent"]
  /\ UNCHANGED <<leaseVars, flags, callVars, step, rev, late, answer, exe, cpu,
                 runtimeVars, bounds, history>>

\* The guard raises: in a batch before the next attempt exists, otherwise after;
\* so does an action_factory.
GuardRaises(t) ==
  /\ \/ pc[t] = "admitted" /\ form[t].mode = "batch" /\ Barred(t)
     \/ pc[t] = "planned" /\ form[t].mode # "batch" /\ Barred(t)
     \/ pc[t] = "planned" /\ Async(t)
  /\ Leave(t)
  /\ UNCHANGED <<flags, ledger, callVars, step, rev, late, answer, exe, runtimeVars,
                 bounds, history>>

-----------------------------------------------------------------------------
(* The Runtime. *)

\* The Runtime's lock is free.
DeviceFree ==
  /\ other = "none"
  /\ \A u \in Call : pc[u] # "device"

\* The code of t goes on with an answer of the Runtime (or with none).
Answered(t, row) ==
  /\ answer' = [answer EXCEPT ![t] = row]
  /\ pc' = [pc EXCEPT ![t] = "answered"]
  /\ cpu' = t

\* rt.execute() is called and, in run_async(), awaited: for what is left of the
\* deadline, and not at all if nothing is left.
Dispatch(t) ==
  /\ pc[t] = "sent"
  /\ \/ /\ Async(t) /\ form[t].limited /\ late[t]
        /\ Answered(t, Row("unknown", "UNKNOWN"))
     \/ /\ ~(Async(t) /\ form[t].limited /\ late[t])
        /\ pc' = [pc EXCEPT ![t] = "waiting"]
        /\ cpu' = IF Async(t) THEN Nobody ELSE t
        /\ UNCHANGED answer
  /\ UNCHANGED <<leaseVars, flags, ledger, callVars, step, rev, late, exe, runtimeVars,
                 bounds, history>>

\* Nothing is sent: the revision is stale, a preflight fails, the device cannot be
\* reached, or an error comes that says nothing about its effect.
Refuse(t) ==
  /\ pc[t] = "waiting"
  /\ CanRun(t)
  /\ DeviceFree
  /\ \/ Answered(t, Row("failed", "NONE"))
     \/ rev[t] = current /\ Answered(t, Row("unknown", "UNKNOWN"))
  /\ UNCHANGED <<leaseVars, flags, ledger, callVars, step, rev, late, exe, runtimeVars,
                 bounds, history>>

Attempted(t) == [call |-> t, step |-> step[t], rev |-> rev[t]]

\* The mutation goes to the device.
Touch(t) ==
  /\ pc[t] = "waiting"
  /\ CanRun(t)
  /\ DeviceFree
  /\ rev[t] = current
  /\ touched' = touched \cup {Attempted(t)}
  /\ pc' = [pc EXCEPT ![t] = "device"]
  /\ UNCHANGED <<leaseVars, flags, ledger, callVars, step, rev, late, answer, exe, cpu,
                 runtimeVars, bounds, acked, evicted, abandoned>>

\* The device is done with it: every answer forgets the revision.
Reply(t) ==
  /\ pc[t] = "device"
  /\ CanRun(t)
  /\ \/ /\ Answered(t, Row("succeeded", "NONE"))
        /\ acked' = acked \cup {Attempted(t)}
     \/ /\ Answered(t, Row("failed", "PARTIAL")) \/ Answered(t, Row("unknown", "UNKNOWN"))
        /\ UNCHANGED acked
  /\ current' = 0
  /\ UNCHANGED <<leaseVars, flags, ledger, callVars, step, rev, late, exe, issued, inval,
                 other, bounds, touched, evicted, abandoned>>

\* Other tasks run: nobody has the loop, or the call that has it waits for a Runtime
\* on another loop.
OthersRun == cpu # Nobody => pc[cpu] = "waiting"

\* Someone observes or recovers: the lock is held while the device is awaited, for as
\* long as that takes.  recover() forgets the revision first.
OtherStarts ==
  /\ OthersRun
  /\ DeviceFree
  /\ \/ issued < MaxRev /\ other' = "observe" /\ UNCHANGED current
     \/ other' = "recover" /\ current' = 0
  /\ UNCHANGED <<leaseVars, flags, ledger, callVars, pc, step, rev, late, answer, exe, cpu,
                 issued, inval, bounds, history>>

\* A new revision.
Observed ==
  /\ OthersRun
  /\ other = "observe"
  /\ other' = "none"
  /\ issued' = issued + 1
  /\ current' = issued + 1
  /\ UNCHANGED <<leaseVars, flags, ledger, callVars, pc, step, rev, late, answer, exe, cpu,
                 inval, bounds, history>>

\* The plumbing is recovered; or the operation fails, or is cancelled.
OtherEnds ==
  /\ OthersRun
  /\ other # "none"
  /\ other' = "none"
  /\ UNCHANGED <<leaseVars, flags, ledger, callVars, pc, step, rev, late, answer, exe, cpu,
                 current, issued, inval, bounds, history>>

-----------------------------------------------------------------------------
(* The end of an attempt. *)

\* Mutant of GoesOn: an ambiguous attempt does not stop the batch.
GoesOnBlindly(t) == step[t] < form[t].len

\* A batch may go on behind an attempt without effect.
GoesOn(t) == step[t] < form[t].len /\ answer[t].effect = "NONE"

\* The final row is committed, and the call ends or goes on to its next spec: behind a
\* failure without effect its error decides, a stale or a forgotten revision ends it.
Record(t) ==
  /\ pc[t] = "answered"
  /\ Write(t, answer[t])
  /\ exe' = [exe EXCEPT ![t] = answer[t].state]
  /\ \/ /\ GoesOn(t) => answer[t].state = "failed"
        /\ Leave(t)
        /\ UNCHANGED step
     \/ /\ GoesOn(t)
        /\ step' = [step EXCEPT ![t] = @ + 1]
        /\ pc' = [pc EXCEPT ![t] = "admitted"]
        /\ UNCHANGED <<leaseVars, cpu>>
  /\ UNCHANGED <<flags, callVars, rev, late, answer, runtimeVars, bounds, history>>

\* A synchronous port raises the coordinator's own CancelledError or DeadlineError:
\* it passes through, and the row stays as it was sent.
PortGivesUp(t) ==
  /\ pc[t] = "waiting"
  /\ ~Async(t)
  /\ Leave(t)
  /\ UNCHANGED <<flags, ledger, callVars, step, rev, late, answer, exe, runtimeVars,
                 bounds, history>>

\* Mutant of Interrupt: the call ends without an invalidation.
InterruptAndLeave(t) ==
  /\ pc[t] \in {"waiting", "device"}
  /\ Async(t)
  /\ cpu = Nobody
  /\ \/ form[t].limited /\ late[t] /\ UNCHANGED cancels
     \/ cancels < MaxCancels /\ cancels' = cancels + 1
  /\ Leave(t)
  /\ UNCHANGED <<flags, ledger, callVars, step, rev, late, answer, exe, runtimeVars,
                 stops, history>>

\* wait_for() times out, or the task is cancelled: the Runtime drops the batch, and
\* a shielded invalidate() queues for its lock.  The step is the end of the batch: a
\* cancelled request to the device is taken to unwind.
Interrupt(t) ==
  /\ pc[t] \in {"waiting", "device"}
  /\ Async(t)
  /\ cpu = Nobody
  /\ \/ form[t].limited /\ late[t] /\ UNCHANGED cancels
     \/ cancels < MaxCancels /\ cancels' = cancels + 1
  /\ pc' = [pc EXCEPT ![t] = "invalidating"]
  /\ inval' = inval \cup {t}
  /\ UNCHANGED <<leaseVars, flags, ledger, callVars, step, rev, late, answer, exe, cpu,
                 current, issued, other, stops, history>>

\* The shielded invalidate() runs, whatever became of the call that waits for it.
RunInvalidate(t) ==
  /\ t \in inval
  /\ cpu = Nobody
  /\ DeviceFree
  /\ inval' = inval \ {t}
  /\ current' = 0
  /\ UNCHANGED <<leaseVars, flags, ledger, callVars, pc, step, rev, late, answer, exe, cpu,
                 issued, other, bounds, history>>

Invalidated(t) ==
  /\ pc[t] = "invalidating"
  /\ t \notin inval
  /\ cpu = Nobody
  /\ Answered(t, Row("unknown", "UNKNOWN"))
  /\ UNCHANGED <<leaseVars, flags, ledger, callVars, step, rev, late, exe, runtimeVars,
                 bounds, history>>

\* Cancelled while it waits for the invalidation: CancelledError is not an
\* Exception, so nothing is recorded and the lease is released.
CancelAgain(t) ==
  /\ pc[t] = "invalidating"
  /\ cpu = Nobody
  /\ cancels < MaxCancels
  /\ cancels' = cancels + 1
  /\ Leave(t)
  /\ abandoned' = abandoned \cup {t}
  /\ UNCHANGED <<flags, ledger, callVars, step, rev, late, answer, exe, runtimeVars,
                 stops, touched, acked, evicted>>

-----------------------------------------------------------------------------
(* cancel(), close(), restarts and time. *)

Cancel(k) ==
  /\ ~cancelled[k]
  /\ cancels < MaxCancels
  /\ cancels' = cancels + 1
  /\ cancelled' = [cancelled EXCEPT ![k] = TRUE]
  /\ UNCHANGED <<leaseVars, closed, ledger, callVars, pc, step, rev, late, answer, exe,
                 cpu, runtimeVars, stops, history>>

Time(t) ==
  /\ form[t].limited
  /\ ~late[t]
  /\ late' = [late EXCEPT ![t] = TRUE]
  /\ UNCHANGED <<leaseVars, flags, ledger, callVars, pc, step, rev, answer, exe, cpu,
                 runtimeVars, bounds, history>>

\* close(): the leases the coordinator lists are released and its ledger is closed,
\* also under calls that are at their awaits.
Close(k) ==
  /\ cpu = Nobody
  /\ ~closed[k]
  /\ stops < MaxStops
  /\ stops' = stops + 1
  /\ closed' = [closed EXCEPT ![k] = TRUE]
  /\ lease' = IF \E o \in Owner : o = lease /\ held[k][o] > 0 THEN Free ELSE lease
  /\ held' = [held EXCEPT ![k] = [o \in Owner |-> 0]]
  /\ evicted' = evicted \cup {t \in Lane : coord[t] = k}
  /\ UNCHANGED <<cancelled, ledger, callVars, pc, step, rev, late, answer, exe, cpu,
                 runtimeVars, cancels, touched, acked, abandoned>>

\* Mutant of Recovered: what did not end is taken to have had no effect.
RecoveredAsFailed(row) == IF row.state \in Incomplete THEN Row("failed", "NONE") ELSE row

\* _recover_incomplete_attempts(): when a ledger is opened, what it does not know
\* the end of becomes unknown.
Recovered(row) == IF row.state \in Incomplete THEN Row("unknown", "UNKNOWN") ELSE row

\* A new coordinator opens the ledger of a closed one.
Reopen(k) ==
  /\ cpu = Nobody
  /\ closed[k]
  /\ closed' = [closed EXCEPT ![k] = FALSE]
  /\ cancelled' = [cancelled EXCEPT ![k] = FALSE]
  /\ ledger' = [t \in Call |-> [i \in 1..MaxBatch |->
                  IF coord[t] = k THEN Recovered(ledger[t][i]) ELSE ledger[t][i]]]
  /\ UNCHANGED <<leaseVars, callVars, pc, step, rev, late, answer, exe, cpu,
                 runtimeVars, bounds, history>>

\* The process dies, whatever it is doing.  A new one opens the ledgers, with new
\* leases and a new Runtime.
Crash ==
  /\ stops < MaxStops
  /\ stops' = stops + 1
  /\ lease' = Free
  /\ held' = [k \in Coord |-> [o \in Owner |-> 0]]
  /\ closed' = [k \in Coord |-> FALSE]
  /\ cancelled' = [k \in Coord |-> FALSE]
  /\ ledger' = [t \in Call |-> [i \in 1..MaxBatch |-> Recovered(ledger[t][i])]]
  /\ pc' = [t \in Call |-> IF t \in Lane THEN "done" ELSE pc[t]]
  /\ exe' = [t \in Call |-> "none"]
  /\ cpu' = Nobody
  /\ current' = 0
  /\ inval' = {}
  /\ other' = "none"
  /\ UNCHANGED <<callVars, step, rev, late, answer, issued, cancels, history>>

Proceed(t) ==
  \/ Admit(t)
  \/ Reject(t)
  \/ Plan(t)
  \/ Mark(t)
  \/ GuardRaises(t)
  \/ Dispatch(t)
  \/ Record(t)
  \/ RunInvalidate(t)
  \/ Invalidated(t)

Device(t) ==
  \/ Refuse(t)
  \/ Touch(t)
  \/ Reply(t)
  \/ PortGivesUp(t)

Next ==
  \/ \E t \in Call :
       \/ Proceed(t)
       \/ Device(t)
       \/ Interrupt(t)
       \/ CancelAgain(t)
       \/ Time(t)
  \/ \E k \in Coord : Cancel(k) \/ Close(k) \/ Reopen(k)
  \/ OtherStarts
  \/ Observed
  \/ OtherEnds
  \/ Crash

Spec == Init /\ [][Next]_vars

\* Time passes, wait_for() fires, the loop runs what can run, and the Runtime's lock
\* serves who waits for it in turn.  Nothing makes the device answer, neither to a
\* batch nor to an observation.
FairSpec ==
  /\ Spec
  /\ \A t \in Call :
       /\ WF_vars(Proceed(t))
       /\ SF_vars(RunInvalidate(t))
       /\ WF_vars(Time(t))
       /\ WF_vars(Interrupt(t) /\ late[t])

-----------------------------------------------------------------------------
(* Properties. *)

\* Every variable keeps its type: the fields of the coordinators, the rows of their
\* ledgers and where each call is.
TypeOK ==
  /\ lease \in Owner \cup {Free}
  /\ held \in [Coord -> [Owner -> Nat]]
  /\ closed \in [Coord -> BOOLEAN] /\ cancelled \in [Coord -> BOOLEAN]
  /\ ledger \in [Call -> [1..MaxBatch -> [state : RowStates, effect : Effects]]]
  /\ form \in [Call -> Forms] /\ coord \in [Call -> Coord] /\ owner \in [Call -> Owner]
  /\ pc \in [Call -> Stages]
  /\ step \in [Call -> 1..MaxBatch]
  /\ rev \in [Call -> Nat]
  /\ late \in [Call -> BOOLEAN]
  /\ answer \in [Call -> [state : RowStates, effect : Effects]]
  /\ exe \in [Call -> {"none", "running"} \cup RowStates]
  /\ cpu \in Call \cup {Nobody}
  /\ current \in Nat /\ issued \in Nat /\ cancels \in Nat /\ stops \in Nat
  /\ other \in {"none", "observe", "recover"}
  /\ inval \subseteq Call /\ evicted \subseteq Call /\ abandoned \subseteq Call
  /\ touched \subseteq [call : Call, step : 1..MaxBatch, rev : Nat]
  /\ acked \subseteq touched

\* The lease of t was taken by a close(), or can be released by a call that lost its
\* own lease to one: release() only compares the names of the owners.
Undermined(t) == \E e \in evicted : owner[e] = owner[t]

\* One mutation owner per device: two calls are past the lease only if a close() took
\* the lease from a call, running under the name of one of them.
OneOwner ==
  \A t, u \in Lane : t # u => Undermined(t) \/ Undermined(u)

\* The ledger never claims more than happened, nor forgets what may have: success
\* only for what the device completed, no effect only for what never reached it, and
\* an intent on disk before anything reaches the device, over crashes and closes too.
LedgerHonest ==
  \A t \in Call, i \in 1..MaxBatch :
    LET row == ledger[t][i]
        reached == \E a \in touched : a.call = t /\ a.step = i
        complete == \E a \in acked : a.call = t /\ a.step = i
    IN /\ row.state = "succeeded" => complete
       /\ row.state = "failed" /\ row.effect = "NONE" => ~reached
       /\ reached => row.state \notin {"absent", "planned"}

\* A revision carries one mutation to the device, also when the first was cancelled
\* or timed out at it: invalidate() ran before the lease was released, unless the
\* call was cancelled again while it waited for that, or a close() undermined its lease.
OneMutationPerRevision ==
  \A a, b \in touched :
    a.rev = b.rev /\ a # b =>
      \E t \in {a.call, b.call} : t \in abandoned \/ Undermined(t)

\* A batch goes no further than the first attempt that may have had an effect without
\* succeeding: what follows it in the ledger was never planned, whatever crashed.
BatchStopsAtEffect ==
  \A t \in Call, i, j \in 1..MaxBatch :
    i < j /\ ledger[t][j] # Absent =>
      ledger[t][i] \in {Row("succeeded", "NONE"), Row("failed", "NONE")}

\* The end of an attempt, once committed, is never rewritten.
EndsAreFinal ==
  [][\A t \in Call, i \in 1..MaxBatch :
       ledger[t][i].state \notin Incomplete \cup {"absent"} => ledger'[t][i] = ledger[t][i]]_vars

\* A call with a deadline comes to an end, and with it its hold on the lease, though
\* the device never answers: "Lease release on: terminal attempt, cancellation, deadline
\* expiry, coordinator close" (docs/evidence/20260906_r6-r7-plan-freeze.md).  The code
\* first awaits an invalidate() that has no deadline, behind whoever observes.
DeadlineReleases ==
  \A t \in Call : t \in Lane /\ form[t].limited ~> t \notin Lane

=============================================================================
