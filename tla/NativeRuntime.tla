--------------------------- MODULE NativeRuntime ---------------------------
(***************************************************************************)
(* The six-operation iOS Runtime (ios_runtime/runtime.py) with the two     *)
(* engines it owns: the ObservationEngine, which installs the one current  *)
(* revision, and the ActionExecutor, which admits a batch of actions only  *)
(* under that revision and sends it to the device action by action.        *)
(*                                                                         *)
(* The Runtime lives on one asyncio event loop.  A step of this model is   *)
(* what one task does between two awaits that can suspend: everything a    *)
(* handler does between them is atomic, and every such await is a place    *)
(* where the task can be cancelled.  The awaits inside transport.connect() *)
(* and those inside engine.capture() are one program-counter value each:   *)
(* nothing the Runtime owns changes between them.                          *)
(*                                                                         *)
(* _op_lock is an asyncio.Lock: waiters are served in the order in which   *)
(* they asked.  Calls are numbered as they are made, and the lock goes to  *)
(* the waiting call with the smallest number.  A call that finds the lock  *)
(* free is a waiter that has not run yet.                                  *)
(*                                                                         *)
(* A revision (uuid4 hex) is the number of the observation that installed  *)
(* it.  The transport is reduced to what the Runtime asks of it: whether   *)
(* connect() takes its fast path, and how an awaited call can end.         *)
(***************************************************************************)
EXTENDS Naturals

CONSTANTS
  Client,       \* tasks on the event loop that call the Runtime
  Free,         \* value of the lock when no task holds it
  MaxBatch,     \* max_batch_actions
  MaxOps,       \* bound: number of calls made in a behaviour
  MaxCancels    \* bound: number of task cancellations in a behaviour

ASSUME FreeAssumption  == Free \notin Client
ASSUME BatchAssumption == MaxBatch \in Nat \ {0}
ASSUME BoundAssumption == MaxOps \in Nat /\ MaxCancels \in Nat

VARIABLES
  closed,       \* NativeIosRuntime._closed
  current,      \* ObservationEngine._revision
  observation,  \* the revision _observation and _elements belong to
  issued,       \* revisions installed so far
  plumbing,     \* what transport.snapshot() projects: down, up or closed
  lastError,    \* _last_error_code
  lock,         \* holder of _op_lock
  pc,           \* where each task is suspended
  call,         \* the call each task is in
  sent,         \* actions of the running batch handed to the transport
  result,       \* what the task's last call returned or raised
  ops,          \* calls made so far
  cancels,      \* cancellations so far
  attempts,     \* history: every action handed to the transport
  interrupted   \* history: calls cancelled while an action was in flight

vars == <<closed, current, observation, issued, plumbing, lastError, lock, pc,
          call, sent, result, ops, cancels, attempts, interrupted>>

NoRev == 0

Source == {"screenshot", "accessibility"}

Waits == {"idle", "queued", "observe_connect", "capture", "execute_connect",
          "action", "recreate", "close"}

Inside == Waits \ {"idle", "queued"}

Codes == {"ok", "cancelled", "unclassified", "INVALID_REQUEST", "STALE_REVISION",
          "RUNTIME_CLOSED", "OBSERVATION_FAILED", "NOT_READY", "ACTION_FAILED",
          "EFFECT_UNKNOWN", "RECOVERY_FAILED"}

Effects == {"NONE", "PARTIAL", "UNKNOWN"}

(***************************************************************************)
(* A call and what it carries.  For execute: the expected revision, the    *)
(* number of actions, the revision the element refs of its TapElement      *)
(* actions come from (NoRev if it has none), and whether some action is    *)
(* malformed or out of the screen.                                         *)
(***************************************************************************)
Calls == [op : {"none", "observe", "execute", "invalidate", "recover", "close"},
          id : Nat, rev : Nat, len : Nat, ref : Nat, bad : BOOLEAN,
          sources : SUBSET Source]

NoCall == [op |-> "none", id |-> 0, rev |-> NoRev, len |-> 0, ref |-> NoRev,
           bad |-> FALSE, sources |-> {}]

Results == [id : Nat, code : Codes, effect : Effects, completed : Nat]

NoResult == [id |-> 0, code |-> "ok", effect |-> "NONE", completed |-> 0]

Attempt == [id : Nat, rev : Nat, index : Nat]

Init ==
  /\ closed = FALSE
  /\ current = NoRev
  /\ observation = NoRev
  /\ issued = 0
  /\ plumbing = "down"
  /\ lastError = "ok"
  /\ lock = Free
  /\ pc = [c \in Client |-> "idle"]
  /\ call = [c \in Client |-> NoCall]
  /\ sent = 0
  /\ result = [c \in Client |-> NoResult]
  /\ ops = 0
  /\ cancels = 0
  /\ attempts = {}
  /\ interrupted = {}

-----------------------------------------------------------------------------
(* Making a call, and waiting for the lock. *)

Request(c, q) ==
  /\ pc[c] = "idle"
  /\ ops < MaxOps
  /\ ops' = ops + 1
  /\ call' = [call EXCEPT ![c] = [q EXCEPT !.id = ops + 1]]
  /\ pc' = [pc EXCEPT ![c] = "queued"]
  /\ result' = [result EXCEPT ![c] = NoResult]
  /\ UNCHANGED <<closed, current, observation, issued, plumbing, lastError, lock,
                 sent, cancels, attempts, interrupted>>

RequestObserve(c) ==
  \E s \in SUBSET Source :
    Request(c, [NoCall EXCEPT !.op = "observe", !.sources = s])

\* A caller presents a revision it was once given: the current one or an old one.
RequestExecute(c) ==
  \E r \in 1..issued, n \in 0..(MaxBatch + 1) :
    \/ Request(c, [NoCall EXCEPT !.op = "execute", !.rev = r, !.len = n])
    \/ Request(c, [NoCall EXCEPT !.op = "execute", !.rev = r, !.len = n, !.bad = TRUE])
    \/ \E ref \in 1..issued :
         Request(c, [NoCall EXCEPT !.op = "execute", !.rev = r, !.len = n, !.ref = ref])

RequestOther(c) ==
  \E op \in {"invalidate", "recover", "close"} :
    Request(c, [NoCall EXCEPT !.op = op])

\* Mutant of Granted: whoever runs first takes a free lock.
GrantedUnfairly(c) ==
  /\ lock = Free
  /\ pc[c] = "queued"

\* The lock is free and c asked before every other waiting task.
Granted(c) ==
  /\ lock = Free
  /\ pc[c] = "queued"
  /\ \A d \in Client : pc[d] = "queued" => call[c].id <= call[d].id

\* The task suspends at an await with the lock held.
Suspend(c, wait) ==
  /\ lock' = c
  /\ pc' = [pc EXCEPT ![c] = wait]
  /\ UNCHANGED <<call, result>>

\* The task leaves the lock and its caller sees the outcome.
Answer(c, code, effect, completed) ==
  /\ lock' = Free
  /\ pc' = [pc EXCEPT ![c] = "idle"]
  /\ call' = [call EXCEPT ![c] = NoCall]
  /\ result' = [result EXCEPT ![c] = [id |-> call[c].id, code |-> code,
                                      effect |-> effect, completed |-> completed]]

Forget ==
  /\ current' = NoRev
  /\ observation' = NoRev

Bookkeeping == <<issued, ops, cancels, interrupted>>

RejectClosed(c) ==
  /\ Granted(c)
  /\ call[c].op \in {"observe", "execute", "recover"}
  /\ closed
  /\ lastError' = "RUNTIME_CLOSED"
  /\ Answer(c, "RUNTIME_CLOSED", "NONE", 0)
  /\ UNCHANGED <<closed, current, observation, plumbing, sent, attempts, Bookkeeping>>

-----------------------------------------------------------------------------
(* observe() *)

\* connect() is done; capture() checks the requested sources before any I/O.
BeginCapture(c) ==
  \/ /\ call[c].sources # {}
     /\ Suspend(c, "capture")
     /\ UNCHANGED lastError
  \/ /\ call[c].sources = {}
     /\ lastError' = "INVALID_REQUEST"
     /\ Answer(c, "INVALID_REQUEST", "NONE", 0)

StartObserve(c) ==
  /\ Granted(c)
  /\ call[c].op = "observe"
  /\ ~closed
  /\ \/ plumbing = "up" /\ BeginCapture(c)
     \/ plumbing # "up" /\ Suspend(c, "observe_connect") /\ UNCHANGED lastError
  /\ UNCHANGED <<closed, current, observation, plumbing, sent, attempts, Bookkeeping>>

ObserveConnected(c) ==
  /\ pc[c] = "observe_connect"
  /\ plumbing # "closed"
  /\ plumbing' = "up"
  /\ BeginCapture(c)
  /\ UNCHANGED <<closed, current, observation, sent, attempts, Bookkeeping>>

\* A TransportError, or an error of the upstream library that nothing wraps.
ObserveNotConnected(c) ==
  /\ pc[c] = "observe_connect"
  /\ \/ /\ lastError' = "OBSERVATION_FAILED"
        /\ Answer(c, "OBSERVATION_FAILED", "NONE", 0)
     \/ /\ UNCHANGED lastError
        /\ Answer(c, "unclassified", "UNKNOWN", 0)
  /\ UNCHANGED <<closed, current, observation, plumbing, sent, attempts, Bookkeeping>>

\* A session-scoped WDA call drops the cached session on a 404, and starts one
\* when there is none.
Traffic == plumbing' \in {"up", "down"}

\* At least one requested source was captured and the screen size is known.
Capture(c) ==
  /\ pc[c] = "capture"
  /\ issued' = issued + 1
  /\ current' = issued + 1
  /\ observation' = issued + 1
  /\ lastError' = "ok"
  /\ Traffic
  /\ Answer(c, "ok", "NONE", 0)
  /\ UNCHANGED <<closed, sent, attempts, ops, cancels, interrupted>>

\* The revision that was current before the call stays current.
CaptureFailed(c) ==
  /\ pc[c] = "capture"
  /\ lastError' = "OBSERVATION_FAILED"
  /\ Traffic
  /\ Answer(c, "OBSERVATION_FAILED", "NONE", 0)
  /\ UNCHANGED <<closed, current, observation, sent, attempts, Bookkeeping>>

-----------------------------------------------------------------------------
(* execute() *)

Preflight(q) ==
  IF q.len = 0 \/ q.len > MaxBatch THEN "INVALID_REQUEST"
  ELSE IF current = NoRev \/ q.rev # current \/ observation = NoRev THEN "STALE_REVISION"
  ELSE IF q.bad THEN "INVALID_REQUEST"
  ELSE IF q.ref \notin {NoRev, observation} THEN "STALE_REVISION"
  ELSE "ok"

\* Hand action number k of c's batch to the transport, and wait for the device.
Send(c, k) ==
  /\ sent' = k + 1
  /\ attempts' = attempts \cup {[id |-> call[c].id, rev |-> call[c].rev, index |-> k]}
  /\ Suspend(c, "action")

RejectExecute(c) ==
  /\ Granted(c)
  /\ call[c].op = "execute"
  /\ ~closed
  /\ Preflight(call[c]) # "ok"
  /\ lastError' = Preflight(call[c])
  /\ Answer(c, Preflight(call[c]), "NONE", 0)
  /\ UNCHANGED <<closed, current, observation, plumbing, sent, attempts, Bookkeeping>>

StartExecute(c) ==
  /\ Granted(c)
  /\ call[c].op = "execute"
  /\ ~closed
  /\ Preflight(call[c]) = "ok"
  /\ \/ plumbing = "up" /\ Send(c, 0)
     \/ plumbing # "up" /\ Suspend(c, "execute_connect") /\ UNCHANGED <<sent, attempts>>
  /\ UNCHANGED <<closed, current, observation, plumbing, lastError, Bookkeeping>>

ExecuteConnected(c) ==
  /\ pc[c] = "execute_connect"
  /\ plumbing # "closed"
  /\ plumbing' = "up"
  /\ Send(c, 0)
  /\ UNCHANGED <<closed, current, observation, lastError, Bookkeeping>>

ExecuteNotConnected(c) ==
  /\ pc[c] = "execute_connect"
  /\ \/ lastError' = "NOT_READY" /\ Answer(c, "NOT_READY", "NONE", 0)
     \/ UNCHANGED lastError /\ Answer(c, "unclassified", "UNKNOWN", 0)
  /\ UNCHANGED <<closed, current, observation, plumbing, sent, attempts, Bookkeeping>>

\* Mutant of ActionDone: a batch that succeeds keeps its revision.
ActionDoneKeepsRevision(c) ==
  /\ pc[c] = "action"
  /\ \/ /\ sent < call[c].len
        /\ Send(c, sent)
        /\ UNCHANGED lastError
     \/ /\ sent = call[c].len
        /\ lastError' = "ok"
        /\ sent' = 0
        /\ Answer(c, "ok", "NONE", sent)
        /\ UNCHANGED attempts
  /\ Traffic
  /\ UNCHANGED <<closed, current, observation, Bookkeeping>>

\* The device acknowledged the action: send the next one, or the batch is done.
ActionDone(c) ==
  /\ pc[c] = "action"
  /\ \/ /\ sent < call[c].len
        /\ Send(c, sent)
        /\ UNCHANGED <<current, observation, lastError>>
     \/ /\ sent = call[c].len
        /\ Forget
        /\ lastError' = "ok"
        /\ sent' = 0
        /\ Answer(c, "ok", "NONE", sent)
        /\ UNCHANGED attempts
  /\ Traffic
  /\ UNCHANGED <<closed, Bookkeeping>>

\* Mutant of ActionFailed: only an ambiguous failure forgets the revision.
ActionFailedKeepsRevision(c) ==
  /\ pc[c] = "action"
  /\ \/ /\ lastError' = "ACTION_FAILED"
        /\ Answer(c, "ACTION_FAILED", "PARTIAL", sent - 1)
        /\ UNCHANGED <<current, observation>>
     \/ /\ lastError' = "EFFECT_UNKNOWN"
        /\ Answer(c, "EFFECT_UNKNOWN", "UNKNOWN", sent - 1)
        /\ Forget
  /\ Traffic
  /\ sent' = 0
  /\ UNCHANGED <<closed, attempts, Bookkeeping>>

\* Mutant of ActionFailed: the action that failed is counted as completed.
ActionFailedCountsItself(c) ==
  /\ pc[c] = "action"
  /\ \/ lastError' = "ACTION_FAILED" /\ Answer(c, "ACTION_FAILED", "PARTIAL", sent)
     \/ lastError' = "EFFECT_UNKNOWN" /\ Answer(c, "EFFECT_UNKNOWN", "UNKNOWN", sent)
  /\ Forget
  /\ Traffic
  /\ sent' = 0
  /\ UNCHANGED <<closed, attempts, Bookkeeping>>

\* The action failed: definitively, or (lost connection, timeout) ambiguously.
ActionFailed(c) ==
  /\ pc[c] = "action"
  /\ \/ lastError' = "ACTION_FAILED" /\ Answer(c, "ACTION_FAILED", "PARTIAL", sent - 1)
     \/ lastError' = "EFFECT_UNKNOWN" /\ Answer(c, "EFFECT_UNKNOWN", "UNKNOWN", sent - 1)
  /\ Forget
  /\ Traffic
  /\ sent' = 0
  /\ UNCHANGED <<closed, attempts, Bookkeeping>>

-----------------------------------------------------------------------------
(* invalidate(), recover(), close() *)

Invalidate(c) ==
  /\ Granted(c)
  /\ call[c].op = "invalidate"
  /\ Forget
  /\ Answer(c, "ok", "NONE", 0)
  /\ UNCHANGED <<closed, plumbing, lastError, sent, attempts, Bookkeeping>>

StartRecover(c) ==
  /\ Granted(c)
  /\ call[c].op = "recover"
  /\ ~closed
  /\ Forget
  /\ Suspend(c, "recreate")
  /\ UNCHANGED <<closed, plumbing, lastError, sent, attempts, Bookkeeping>>

Recreated(c) ==
  /\ pc[c] = "recreate"
  /\ \/ plumbing' = "up" /\ lastError' = "ok" /\ Answer(c, "ok", "NONE", 0)
     \/ /\ plumbing' = "down"
        /\ lastError' = "RECOVERY_FAILED"
        /\ Answer(c, "RECOVERY_FAILED", "NONE", 0)
     \/ /\ plumbing' = "down"
        /\ UNCHANGED lastError
        /\ Answer(c, "unclassified", "UNKNOWN", 0)
  /\ UNCHANGED <<closed, current, observation, sent, attempts, Bookkeeping>>

\* Mutant of StartClose: close() does not wait for the lock.
StartCloseUnlocked(c) ==
  /\ pc[c] = "queued"
  /\ call[c].op = "close"
  /\ \/ closed /\ Answer(c, "ok", "NONE", 0) /\ UNCHANGED <<closed, current, observation>>
     \/ ~closed /\ closed' = TRUE /\ Forget /\ Suspend(c, "close")
  /\ UNCHANGED <<plumbing, lastError, sent, attempts, Bookkeeping>>

StartClose(c) ==
  /\ Granted(c)
  /\ call[c].op = "close"
  /\ \/ closed /\ Answer(c, "ok", "NONE", 0) /\ UNCHANGED <<closed, current, observation>>
     \/ ~closed /\ closed' = TRUE /\ Forget /\ Suspend(c, "close")
  /\ UNCHANGED <<plumbing, lastError, sent, attempts, Bookkeeping>>

TransportClosed(c) ==
  /\ pc[c] = "close"
  /\ plumbing' = "closed"
  /\ Answer(c, "ok", "NONE", 0)
  /\ UNCHANGED <<closed, current, observation, lastError, sent, attempts, Bookkeeping>>

-----------------------------------------------------------------------------
(* What the surroundings do. *)

\* The tunnel's watcher drops it, or WDA forgets the session.
PlumbingLost ==
  /\ plumbing = "up"
  /\ plumbing' = "down"
  /\ UNCHANGED <<closed, current, observation, lastError, lock, pc, call, sent,
                 result, attempts, Bookkeeping>>

\* A waiter leaves the queue without having run.
CancelWaiter(c) ==
  /\ pc[c] = "queued"
  /\ cancels < MaxCancels
  /\ cancels' = cancels + 1
  /\ pc' = [pc EXCEPT ![c] = "idle"]
  /\ call' = [call EXCEPT ![c] = NoCall]
  /\ result' = [result EXCEPT ![c] = [id |-> call[c].id, code |-> "cancelled",
                                      effect |-> "UNKNOWN", completed |-> 0]]
  /\ UNCHANGED <<closed, current, observation, issued, plumbing, lastError, lock,
                 sent, ops, attempts, interrupted>>

\* Mutant of CancelHolder: a cancelled task does not leave the lock.
CancelHolderKeepsLock(c) ==
  /\ pc[c] \in Inside
  /\ cancels < MaxCancels
  /\ cancels' = cancels + 1
  /\ pc' = [pc EXCEPT ![c] = "idle"]
  /\ call' = [call EXCEPT ![c] = NoCall]
  /\ UNCHANGED <<closed, current, observation, issued, plumbing, lastError, lock,
                 result, sent, ops, attempts, interrupted>>

\* asyncio.CancelledError is raised at an await with the lock held.  It is not
\* one of the exceptions the handlers catch, so the lock is all it releases.
CancelHolder(c) ==
  /\ pc[c] \in Inside
  /\ cancels < MaxCancels
  /\ cancels' = cancels + 1
  /\ Answer(c, "cancelled", "UNKNOWN", 0)
  /\ interrupted' = IF pc[c] = "action" THEN interrupted \cup {call[c].id} ELSE interrupted
  /\ plumbing' \in IF pc[c] \in {"recreate", "close"} THEN {plumbing, "down"} ELSE {plumbing}
  /\ sent' = 0
  /\ UNCHANGED <<closed, current, observation, issued, lastError, ops, attempts>>

Operate(c) ==
  \/ RejectClosed(c)
  \/ StartObserve(c)
  \/ RejectExecute(c)
  \/ StartExecute(c)
  \/ Invalidate(c)
  \/ StartRecover(c)
  \/ StartClose(c)

Resume(c) ==
  \/ ObserveConnected(c)
  \/ ObserveNotConnected(c)
  \/ Capture(c)
  \/ CaptureFailed(c)
  \/ ExecuteConnected(c)
  \/ ExecuteNotConnected(c)
  \/ ActionDone(c)
  \/ ActionFailed(c)
  \/ Recreated(c)
  \/ TransportClosed(c)

Next ==
  \/ \E c \in Client :
       \/ RequestObserve(c)
       \/ RequestExecute(c)
       \/ RequestOther(c)
       \/ Operate(c)
       \/ Resume(c)
       \/ CancelWaiter(c)
       \/ CancelHolder(c)
  \/ PlumbingLost

Spec == Init /\ [][Next]_vars

\* The event loop runs every task that can run.  Nothing makes the device answer:
\* the Runtime puts no time limit on the primitives it awaits.
FairSpec == Spec /\ \A c \in Client : WF_vars(Operate(c))

-----------------------------------------------------------------------------
(* Properties. *)

\* Every variable keeps its type: the shape of the Runtime's fields and of the
\* answers its six operations give.
TypeOK ==
  /\ closed \in BOOLEAN
  /\ {current, observation, issued, sent, ops, cancels} \subseteq Nat
  /\ plumbing \in {"down", "up", "closed"}
  /\ lastError \in Codes
  /\ lock \in Client \cup {Free}
  /\ pc \in [Client -> Waits]
  /\ call \in [Client -> Calls]
  /\ result \in [Client -> Results]
  /\ attempts \subseteq Attempt
  /\ interrupted \subseteq Nat

\* A revision admits one batch: when two calls have sent actions under the same
\* revision, the earlier call was cancelled while an action of its was in flight.
\* (execute() forgets the revision after every other end of a batch.)
OneBatchPerRevision ==
  \A a, b \in attempts :
    a.rev = b.rev /\ a.id < b.id => a.id \in interrupted

Indices(id) == {a.index : a \in {x \in attempts : x.id = id}}

\* What a caller is told of a batch is what the device was sent: an answer with
\* effect NONE and k completed actions sent exactly those k, so a failure with
\* no effect (retry_safe) sent none; a PARTIAL or UNKNOWN failure after k
\* completed actions sent those k and one more, and nothing behind it.
ReportMatchesDevice ==
  \A c \in Client :
    LET r == result[c] IN
      pc[c] = "idle" =>
        /\ r.effect = "NONE" => Indices(r.id) = 0..r.completed \ {r.completed}
        /\ r.code \in {"ACTION_FAILED", "EFFECT_UNKNOWN"} =>
             Indices(r.id) = 0..r.completed

\* Once close() has begun, no action is handed to the device any more, also not
\* the rest of a batch that was running when close() was called.
NothingAfterClose == [][closed => attempts' = attempts]_vars

\* Actions reach the device in the order of the calls: no batch starts while a
\* call made before it (an invalidate, another batch, a close) still waits.
InCallOrder ==
  [][\A a \in attempts' \ attempts, c \in Client :
       pc[c] = "queued" => a.id <= call[c].id]_vars

\* As long as no call stays at the device for ever, every call is answered, also
\* behind calls that fail or are cancelled.
EveryCallAnswered ==
  []<>(\A c \in Client : pc[c] \notin Inside)
    => \A c \in Client : pc[c] = "queued" ~> pc[c] = "idle"

-----------------------------------------------------------------------------
(***************************************************************************)
(* The Runtime implements the gate: the lane is occupied while an action   *)
(* of a batch is with the device, and the current revision is a key except *)
(* during that time.                                                       *)
(***************************************************************************)

Busy == \E c \in Client : pc[c] = "action"

\* Revisions a batch acted under that was not cancelled at the device.
Spent == {a.rev : a \in {b \in attempts : b.id \notin interrupted}}

Gate == INSTANCE RevisionGate WITH
  key   <- IF Busy THEN NoRev ELSE current,
  lane  <- IF Busy THEN current ELSE NoRev,
  made  <- issued,
  spent <- Spent,
  shut  <- closed

\* Every step of the Runtime is a step of the gate or changes nothing the gate knows
\* of: a revision opens the device to one batch unless that batch is cancelled there,
\* batches do not overlap, and none enters after close().
ImplementsGate == Gate!Spec

=============================================================================
