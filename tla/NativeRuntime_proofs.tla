------------------------ MODULE NativeRuntime_proofs ------------------------
(***************************************************************************)
(* Proofs about NativeRuntime: for any number of tasks, any batch size and *)
(* any number of calls and cancellations.                                  *)
(***************************************************************************)
EXTENDS NativeRuntime, TLAPS

Pending(c) == pc[c] # "idle"

\* _op_lock: a task is past the lock exactly when it holds it.
LockInv == \A c \in Client : pc[c] \in Inside <=> lock = c

\* Calls are numbered apart, from 1; the holder's call was made before those waiting.
CallInv ==
  /\ \A c \in Client : Pending(c) => call[c].id \in 1..ops
  /\ \A c \in Client : ~Pending(c) => call[c] = NoCall
  /\ \A c, d \in Client : Pending(c) /\ Pending(d) /\ c # d => call[c].id # call[d].id
  /\ \A c, d \in Client : pc[c] \in Inside /\ pc[d] = "queued" => call[c].id < call[d].id

\* A call past the lock at one of execute()'s awaits was admitted under the
\* revision that is still current.
AdmittedInv ==
  /\ observation = current
  /\ current <= issued
  /\ \A c \in Client : pc[c] \in {"execute_connect", "action"} =>
       /\ call[c].rev = current
       /\ current # NoRev
  /\ \A c \in Client : pc[c] = "action" => sent \in 1..call[c].len
  /\ \A c \in Client : pc[c] = "execute_connect" => 1 <= call[c].len

\* After close() has begun no other operation is past the lock.
ClosedInv ==
  closed => /\ current = NoRev
            /\ \A c \in Client : pc[c] \in {"idle", "queued", "close"}

\* Which actions were sent: by calls already made, under revisions already
\* installed, and not by a call that still waits; under the current revision only
\* by the batch now running or by an interrupted one.
SentInv ==
  /\ \A a \in attempts : a.id \in 1..ops /\ a.rev \in 1..issued
  /\ \A a \in attempts, c \in Client : Pending(c) => a.id <= call[c].id
  /\ \A a \in attempts, c \in Client : Pending(c) /\ a.id = call[c].id => pc[c] = "action"
  /\ \A a \in attempts :
       a.rev = current => \/ a.id \in interrupted
                          \/ \E c \in Client : pc[c] = "action" /\ call[c].id = a.id

\* The running batch has sent its first actions; a finished one, what it reported.
ReportInv ==
  /\ \A c \in Client : pc[c] = "action" => Indices(call[c].id) = 0..(sent - 1)
  /\ \A c \in Client : result[c].id <= ops
  /\ \A c, d \in Client : Pending(d) => result[c].id # call[d].id
  /\ \A c \in Client :
       /\ result[c].effect = "NONE" =>
            Indices(result[c].id) = 0..result[c].completed \ {result[c].completed}
       /\ result[c].code \in {"ACTION_FAILED", "EFFECT_UNKNOWN"} =>
            Indices(result[c].id) = 0..result[c].completed

IInv ==
  /\ TypeOK
  /\ LockInv
  /\ CallInv
  /\ AdmittedInv
  /\ ClosedInv
  /\ SentInv
  /\ ReportInv
  /\ OneBatchPerRevision

-----------------------------------------------------------------------------
(* Types. *)

LEMMA RequestType ==
  ASSUME TypeOK, NEW c \in Client, NEW q \in Calls, Request(c, q)
  PROVE  TypeOK'
<1>1. [q EXCEPT !.id = ops + 1] \in Calls
  BY DEF Calls, TypeOK
<1>2. NoResult \in Results
  BY DEF NoResult, Results, Codes, Effects
<1>. QED
  BY <1>1, <1>2 DEF Request, TypeOK, Waits

LEMMA NoCallType == NoCall \in Calls
  BY DEF NoCall, Calls, NoRev

LEMMA AnswerType ==
  ASSUME TypeOK, NEW c \in Client, NEW code \in Codes, NEW effect \in Effects,
         NEW completed \in Nat, Answer(c, code, effect, completed)
  PROVE  /\ lock' \in Client \cup {Free}
         /\ pc' \in [Client -> Waits]
         /\ call' \in [Client -> Calls]
         /\ result' \in [Client -> Results]
<1>1. call[c].id \in Nat
  BY DEF TypeOK, Calls
<1>2. [id |-> call[c].id, code |-> code, effect |-> effect, completed |-> completed]
        \in Results
  BY <1>1 DEF Results
<1>. QED
  BY <1>2, NoCallType DEF Answer, TypeOK, Waits

LEMMA SuspendType ==
  ASSUME TypeOK, NEW c \in Client, NEW wait \in Waits, Suspend(c, wait)
  PROVE  /\ lock' \in Client \cup {Free}
         /\ pc' \in [Client -> Waits]
         /\ call' \in [Client -> Calls]
         /\ result' \in [Client -> Results]
  BY DEF Suspend, TypeOK

LEMMA SendType ==
  ASSUME TypeOK, NEW c \in Client, NEW k \in Nat, Send(c, k)
  PROVE  /\ sent' \in Nat
         /\ attempts' \subseteq Attempt
         /\ lock' \in Client \cup {Free}
         /\ pc' \in [Client -> Waits]
         /\ call' \in [Client -> Calls]
         /\ result' \in [Client -> Results]
<1>1. call[c].id \in Nat /\ call[c].rev \in Nat
  BY DEF TypeOK, Calls
<1>2. [id |-> call[c].id, rev |-> call[c].rev, index |-> k] \in Attempt
  BY <1>1 DEF Attempt
<1>3. Suspend(c, "action")
  BY DEF Send
<1>. QED
  BY <1>2, <1>3, SuspendType DEF Send, TypeOK, Waits

\* What a task can ask for.
LEMMA RequestCases ==
  ASSUME TypeOK, NEW c \in Client,
         RequestObserve(c) \/ RequestExecute(c) \/ RequestOther(c)
  PROVE  \E q \in Calls : Request(c, q)
<1>1. CASE RequestObserve(c)
  <2>1. PICK s \in SUBSET Source :
          Request(c, [NoCall EXCEPT !.op = "observe", !.sources = s])
    BY <1>1 DEF RequestObserve
  <2>2. [NoCall EXCEPT !.op = "observe", !.sources = s] \in Calls
    BY DEF NoCall, Calls, NoRev
  <2>. QED
    BY <2>1, <2>2
<1>2. CASE RequestExecute(c)
  <2>1. PICK r \in 1..issued, n \in 0..(MaxBatch + 1) :
          \/ Request(c, [NoCall EXCEPT !.op = "execute", !.rev = r, !.len = n])
          \/ Request(c, [NoCall EXCEPT !.op = "execute", !.rev = r, !.len = n, !.bad = TRUE])
          \/ \E ref \in 1..issued :
               Request(c, [NoCall EXCEPT !.op = "execute", !.rev = r, !.len = n, !.ref = ref])
    BY <1>2 DEF RequestExecute
  <2>2. r \in Nat /\ n \in Nat
    BY BatchAssumption DEF TypeOK
  <2>3. [NoCall EXCEPT !.op = "execute", !.rev = r, !.len = n] \in Calls
    BY <2>2 DEF NoCall, Calls, NoRev
  <2>4. [NoCall EXCEPT !.op = "execute", !.rev = r, !.len = n, !.bad = TRUE] \in Calls
    BY <2>2 DEF NoCall, Calls, NoRev
  <2>5. ASSUME NEW ref \in 1..issued
        PROVE  [NoCall EXCEPT !.op = "execute", !.rev = r, !.len = n, !.ref = ref] \in Calls
    <3>1. ref \in Nat
      BY DEF TypeOK
    <3>. QED
      BY <2>2, <3>1 DEF NoCall, Calls, NoRev
  <2>. QED
    BY <2>1, <2>3, <2>4, <2>5
<1>3. CASE RequestOther(c)
  <2>1. PICK op \in {"invalidate", "recover", "close"} :
          Request(c, [NoCall EXCEPT !.op = op])
    BY <1>3 DEF RequestOther
  <2>2. [NoCall EXCEPT !.op = op] \in Calls
    BY DEF NoCall, Calls, NoRev
  <2>. QED
    BY <2>1, <2>2
<1>. QED
  BY <1>1, <1>2, <1>3

LEMMA TypeStep ==
  ASSUME TypeOK, AdmittedInv, [Next]_vars
  PROVE  TypeOK'
<1>. USE DEF Waits, Codes, Effects
<1>1. ASSUME NEW c \in Client, NEW q \in Calls, Request(c, q)
      PROVE  TypeOK'
  BY <1>1, RequestType

<1>2. ASSUME NEW c \in Client, RejectClosed(c)
      PROVE  TypeOK'
  BY <1>2, AnswerType, SuspendType, SendType DEF RejectClosed, Bookkeeping, TypeOK
<1>3. ASSUME NEW c \in Client, StartObserve(c)
      PROVE  TypeOK'
  BY <1>3, AnswerType, SuspendType, SendType DEF StartObserve, Bookkeeping, TypeOK, BeginCapture
<1>4. ASSUME NEW c \in Client, RejectExecute(c)
      PROVE  TypeOK'
  BY <1>4, AnswerType, SuspendType, SendType DEF RejectExecute, Bookkeeping, TypeOK, Preflight
<1>5. ASSUME NEW c \in Client, StartExecute(c)
      PROVE  TypeOK'
  BY <1>5, AnswerType, SuspendType, SendType DEF StartExecute, Bookkeeping, TypeOK
<1>6. ASSUME NEW c \in Client, Invalidate(c)
      PROVE  TypeOK'
  BY <1>6, AnswerType, SuspendType, SendType DEF Invalidate, Bookkeeping, TypeOK, Forget, NoRev
<1>7. ASSUME NEW c \in Client, StartRecover(c)
      PROVE  TypeOK'
  BY <1>7, AnswerType, SuspendType, SendType DEF StartRecover, Bookkeeping, TypeOK, Forget, NoRev
<1>8. ASSUME NEW c \in Client, StartClose(c)
      PROVE  TypeOK'
  <2>1. /\ lock' \in Client \cup {Free}
        /\ pc' \in [Client -> Waits]
        /\ call' \in [Client -> Calls]
        /\ result' \in [Client -> Results]
    BY <1>8, AnswerType, SuspendType DEF StartClose
  <2>2. closed' \in BOOLEAN
    BY <1>8 DEF StartClose, TypeOK
  <2>3. {current', observation'} \subseteq Nat
    BY <1>8 DEF StartClose, Forget, NoRev, TypeOK
  <2>. QED
    BY <1>8, <2>1, <2>2, <2>3 DEF StartClose, Bookkeeping, TypeOK
<1>9. ASSUME NEW c \in Client, ObserveConnected(c)
      PROVE  TypeOK'
  BY <1>9, AnswerType, SuspendType, SendType DEF ObserveConnected, Bookkeeping, TypeOK, BeginCapture
<1>10. ASSUME NEW c \in Client, ObserveNotConnected(c)
      PROVE  TypeOK'
  BY <1>10, AnswerType, SuspendType, SendType DEF ObserveNotConnected, Bookkeeping, TypeOK
<1>11. ASSUME NEW c \in Client, Capture(c)
      PROVE  TypeOK'
  BY <1>11, AnswerType, SuspendType, SendType DEF Capture, Bookkeeping, TypeOK, Traffic
<1>12. ASSUME NEW c \in Client, CaptureFailed(c)
      PROVE  TypeOK'
  BY <1>12, AnswerType, SuspendType, SendType DEF CaptureFailed, Bookkeeping, TypeOK, Traffic
<1>13. ASSUME NEW c \in Client, ExecuteConnected(c)
      PROVE  TypeOK'
  BY <1>13, AnswerType, SuspendType, SendType DEF ExecuteConnected, Bookkeeping, TypeOK
<1>14. ASSUME NEW c \in Client, ExecuteNotConnected(c)
      PROVE  TypeOK'
  BY <1>14, AnswerType, SuspendType, SendType DEF ExecuteNotConnected, Bookkeeping, TypeOK
<1>15. ASSUME NEW c \in Client, ActionDone(c)
      PROVE  TypeOK'
  BY <1>15, AnswerType, SuspendType, SendType DEF ActionDone, Bookkeeping, TypeOK, Forget, Traffic, NoRev
<1>16. ASSUME NEW c \in Client, ActionFailed(c)
      PROVE  TypeOK'
  <2>1. sent - 1 \in Nat
    BY <1>16 DEF ActionFailed, AdmittedInv, TypeOK
  <2>. QED
    BY <1>16, <2>1, AnswerType DEF ActionFailed, Bookkeeping, TypeOK, Forget, Traffic, NoRev
<1>17. ASSUME NEW c \in Client, Recreated(c)
      PROVE  TypeOK'
  BY <1>17, AnswerType, SuspendType, SendType DEF Recreated, Bookkeeping, TypeOK
<1>18. ASSUME NEW c \in Client, TransportClosed(c)
      PROVE  TypeOK'
  BY <1>18, AnswerType, SuspendType, SendType DEF TransportClosed, Bookkeeping, TypeOK
<1>19. ASSUME NEW c \in Client, CancelWaiter(c)
      PROVE  TypeOK'
  <2>1. [id |-> call[c].id, code |-> "cancelled", effect |-> "UNKNOWN", completed |-> 0]
          \in Results
    BY DEF TypeOK, Calls, Results
  <2>. QED
    BY <1>19, <2>1, NoCallType DEF CancelWaiter, TypeOK
<1>20. ASSUME NEW c \in Client, CancelHolder(c)
      PROVE  TypeOK'
  <2>1. /\ lock' \in Client \cup {Free}
        /\ pc' \in [Client -> Waits]
        /\ call' \in [Client -> Calls]
        /\ result' \in [Client -> Results]
    BY <1>20, AnswerType DEF CancelHolder
  <2>2. plumbing' \in {"down", "up", "closed"}
    BY <1>20 DEF CancelHolder, TypeOK
  <2>3. interrupted' \subseteq Nat
    BY <1>20 DEF CancelHolder, TypeOK, Calls
  <2>. QED
    BY <1>20, <2>1, <2>2, <2>3 DEF CancelHolder, TypeOK
<1>21. CASE PlumbingLost
  BY <1>21 DEF PlumbingLost, Bookkeeping, TypeOK
<1>22. CASE UNCHANGED vars
  BY <1>22 DEF vars, TypeOK
<1>. QED
  BY RequestCases, <1>1, <1>2, <1>3, <1>4, <1>5, <1>6, <1>7, <1>8, <1>9, <1>10, <1>11, <1>12, <1>13, <1>14, <1>15, <1>16, <1>17, <1>18, <1>19, <1>20, <1>21, <1>22 DEF Next, Operate, Resume

-----------------------------------------------------------------------------
(* The lock. *)

LEMMA LockStep ==
  ASSUME TypeOK, LockInv, [Next]_vars
  PROVE  LockInv'
<1>1. ASSUME NEW c \in Client, NEW q \in Calls, Request(c, q)
     PROVE  LockInv'
  BY <1>1, FreeAssumption DEF Request, Bookkeeping, TypeOK, LockInv, Inside, Waits
<1>2. ASSUME NEW c \in Client, RejectClosed(c)
     PROVE  LockInv'
  BY <1>2, FreeAssumption DEF RejectClosed, Granted, Answer, Bookkeeping, TypeOK, LockInv, Inside, Waits
<1>3. ASSUME NEW c \in Client, StartObserve(c)
     PROVE  LockInv'
  BY <1>3, FreeAssumption DEF StartObserve, Granted, Answer, Suspend, BeginCapture, Bookkeeping, TypeOK, LockInv, Inside, Waits
<1>4. ASSUME NEW c \in Client, RejectExecute(c)
     PROVE  LockInv'
  BY <1>4, FreeAssumption DEF RejectExecute, Granted, Answer, Preflight, Bookkeeping, TypeOK, LockInv, Inside, Waits
<1>5. ASSUME NEW c \in Client, StartExecute(c)
     PROVE  LockInv'
  BY <1>5, FreeAssumption DEF StartExecute, Granted, Suspend, Send, Preflight, Bookkeeping, TypeOK, LockInv, Inside, Waits
<1>6. ASSUME NEW c \in Client, Invalidate(c)
     PROVE  LockInv'
  BY <1>6, FreeAssumption DEF Invalidate, Granted, Answer, Forget, Bookkeeping, TypeOK, LockInv, Inside, Waits
<1>7. ASSUME NEW c \in Client, StartRecover(c)
     PROVE  LockInv'
  BY <1>7, FreeAssumption DEF StartRecover, Granted, Suspend, Forget, Bookkeeping, TypeOK, LockInv, Inside, Waits
<1>8. ASSUME NEW c \in Client, StartClose(c)
     PROVE  LockInv'
  BY <1>8, FreeAssumption DEF StartClose, Granted, Answer, Suspend, Forget, Bookkeeping, TypeOK, LockInv, Inside, Waits
<1>9. ASSUME NEW c \in Client, ObserveConnected(c)
     PROVE  LockInv'
  BY <1>9, FreeAssumption DEF ObserveConnected, Answer, Suspend, BeginCapture, Bookkeeping, TypeOK, LockInv, Inside, Waits
<1>10. ASSUME NEW c \in Client, ObserveNotConnected(c)
     PROVE  LockInv'
  BY <1>10, FreeAssumption DEF ObserveNotConnected, Answer, Bookkeeping, TypeOK, LockInv, Inside, Waits
<1>11. ASSUME NEW c \in Client, Capture(c)
     PROVE  LockInv'
  BY <1>11, FreeAssumption DEF Capture, Answer, Traffic, Bookkeeping, TypeOK, LockInv, Inside, Waits
<1>12. ASSUME NEW c \in Client, CaptureFailed(c)
     PROVE  LockInv'
  BY <1>12, FreeAssumption DEF CaptureFailed, Answer, Traffic, Bookkeeping, TypeOK, LockInv, Inside, Waits
<1>13. ASSUME NEW c \in Client, ExecuteConnected(c)
     PROVE  LockInv'
  BY <1>13, FreeAssumption DEF ExecuteConnected, Suspend, Send, Bookkeeping, TypeOK, LockInv, Inside, Waits
<1>14. ASSUME NEW c \in Client, ExecuteNotConnected(c)
     PROVE  LockInv'
  BY <1>14, FreeAssumption DEF ExecuteNotConnected, Answer, Bookkeeping, TypeOK, LockInv, Inside, Waits
<1>15. ASSUME NEW c \in Client, ActionDone(c)
     PROVE  LockInv'
  BY <1>15, FreeAssumption DEF ActionDone, Answer, Suspend, Send, Forget, Traffic, Bookkeeping, TypeOK, LockInv, Inside, Waits
<1>16. ASSUME NEW c \in Client, ActionFailed(c)
     PROVE  LockInv'
  BY <1>16, FreeAssumption DEF ActionFailed, Answer, Forget, Traffic, Bookkeeping, TypeOK, LockInv, Inside, Waits
<1>17. ASSUME NEW c \in Client, Recreated(c)
     PROVE  LockInv'
  BY <1>17, FreeAssumption DEF Recreated, Answer, Bookkeeping, TypeOK, LockInv, Inside, Waits
<1>18. ASSUME NEW c \in Client, TransportClosed(c)
     PROVE  LockInv'
  BY <1>18, FreeAssumption DEF TransportClosed, Answer, Bookkeeping, TypeOK, LockInv, Inside, Waits
<1>19. ASSUME NEW c \in Client, CancelWaiter(c)
     PROVE  LockInv'
  BY <1>19, FreeAssumption DEF CancelWaiter, Bookkeeping, TypeOK, LockInv, Inside, Waits
<1>20. ASSUME NEW c \in Client, CancelHolder(c)
     PROVE  LockInv'
  BY <1>20, FreeAssumption DEF CancelHolder, Answer, Bookkeeping, TypeOK, LockInv, Inside, Waits
<1>21. ASSUME PlumbingLost
     PROVE  LockInv'
  BY <1>21, FreeAssumption DEF PlumbingLost, Bookkeeping, TypeOK, LockInv, Inside, Waits
<1>22. CASE UNCHANGED vars
  BY <1>22 DEF vars, TypeOK, LockInv, Inside, Waits
<1>. QED
  BY RequestCases, <1>1, <1>2, <1>3, <1>4, <1>5, <1>6, <1>7, <1>8, <1>9, <1>10, <1>11, <1>12, <1>13, <1>14, <1>15, <1>16, <1>17, <1>18, <1>19, <1>20, <1>21, <1>22 DEF Next, Operate, Resume

-----------------------------------------------------------------------------
(* The numbering of the calls: one lemma for each way a step changes them. *)

LEMMA CallRequest ==
  ASSUME TypeOK, LockInv, CallInv, NEW c \in Client, NEW q \in Calls, Request(c, q)
  PROVE  CallInv'
<1>1. /\ pc' = [pc EXCEPT ![c] = "queued"]
      /\ pc[c] = "idle"
      /\ ops' = ops + 1
      /\ ops \in Nat
  BY DEF Request, TypeOK
<1>2. /\ call'[c].id = ops + 1
      /\ \A d \in Client \ {c} : call'[d] = call[d]
  BY DEF Request, TypeOK, Calls
<1>3. pc \in [Client -> Waits]
  BY DEF TypeOK
<1>4. \A d \in Client : pc'[d] # "idle" => call'[d].id \in 1..ops'
  BY <1>1, <1>2, <1>3 DEF CallInv, Pending
<1>5. \A d \in Client \ {c} : pc[d] # "idle" => call[d].id < call'[c].id
  BY <1>1, <1>2 DEF CallInv, Pending
<1>. QED
  BY <1>1, <1>2, <1>3, <1>4, <1>5 DEF CallInv, Pending, Inside, Waits

LEMMA CallAnswer ==
  ASSUME TypeOK, LockInv, CallInv, NEW c \in Client, NEW code, NEW effect, NEW completed,
         Answer(c, code, effect, completed), UNCHANGED ops
  PROVE  CallInv'
  BY DEF Answer, TypeOK, CallInv, Pending, Inside, Waits

LEMMA CallSuspend ==
  ASSUME TypeOK, LockInv, CallInv, NEW c \in Client, NEW wait \in Inside,
         Granted(c) \/ pc[c] \in Inside, Suspend(c, wait), UNCHANGED ops
  PROVE  CallInv'
<1>1. /\ pc' = [pc EXCEPT ![c] = wait]
      /\ UNCHANGED <<call, ops>>
      /\ pc \in [Client -> Waits]
      /\ pc[c] # "idle"
      /\ wait # "idle" /\ wait # "queued"
  BY DEF Suspend, TypeOK, Granted, Inside, Waits
<1>2. \A d \in Client : pc'[d] # "idle" <=> pc[d] # "idle"
  BY <1>1
<1>3. ASSUME NEW d \in Client, pc'[d] = "queued"
      PROVE  call[c].id < call[d].id
  <2>1. d # c /\ pc[d] = "queued"
    BY <1>1, <1>3
  <2>2. CASE pc[c] \in Inside
    BY <2>1, <2>2 DEF CallInv
  <2>3. CASE Granted(c)
    <3>1. call[c].id <= call[d].id /\ call[c].id # call[d].id
      BY <2>1, <2>3, <1>1 DEF Granted, CallInv, Pending
    <3>2. call[c].id \in Nat /\ call[d].id \in Nat
      BY DEF TypeOK, Calls
    <3>. QED
      BY <3>1, <3>2
  <2>. QED
    BY <2>2, <2>3
<1>4. ASSUME NEW e \in Client, NEW d \in Client, pc'[e] \in Inside, pc'[d] = "queued"
      PROVE  call[e].id < call[d].id
  <2>1. CASE e = c
    BY <1>3, <1>4, <2>1
  <2>2. CASE e # c
    BY <1>1, <1>4, <2>2 DEF CallInv
  <2>. QED
    BY <2>1, <2>2
<1>5. /\ \A d \in Client : pc'[d] # "idle" => call'[d].id \in 1..ops'
      /\ \A d \in Client : ~(pc'[d] # "idle") => call'[d] = NoCall
      /\ \A d, e \in Client : pc'[d] # "idle" /\ pc'[e] # "idle" /\ d # e =>
           call'[d].id # call'[e].id
  BY <1>1, <1>2 DEF CallInv, Pending
<1>. QED
  BY <1>1, <1>4, <1>5 DEF CallInv, Pending


LEMMA CallStep ==
  ASSUME TypeOK, LockInv, CallInv, [Next]_vars
  PROVE  CallInv'
<1>1. ASSUME NEW c \in Client, NEW q \in Calls, Request(c, q)
     PROVE  CallInv'
  BY <1>1, CallRequest, CallAnswer, CallSuspend DEF Request, Bookkeeping, Inside, Waits
<1>2. ASSUME NEW c \in Client, RejectClosed(c)
     PROVE  CallInv'
  BY <1>2, CallRequest, CallAnswer, CallSuspend DEF RejectClosed, Bookkeeping, Inside, Waits
<1>3. ASSUME NEW c \in Client, StartObserve(c)
     PROVE  CallInv'
  BY <1>3, CallRequest, CallAnswer, CallSuspend DEF StartObserve, BeginCapture, Bookkeeping, Inside, Waits
<1>4. ASSUME NEW c \in Client, RejectExecute(c)
     PROVE  CallInv'
  BY <1>4, CallRequest, CallAnswer, CallSuspend DEF RejectExecute, Preflight, Bookkeeping, Inside, Waits
<1>5. ASSUME NEW c \in Client, StartExecute(c)
     PROVE  CallInv'
  BY <1>5, CallRequest, CallAnswer, CallSuspend DEF StartExecute, Send, Preflight, Bookkeeping, Inside, Waits
<1>6. ASSUME NEW c \in Client, Invalidate(c)
     PROVE  CallInv'
  BY <1>6, CallRequest, CallAnswer, CallSuspend DEF Invalidate, Forget, Bookkeeping, Inside, Waits
<1>7. ASSUME NEW c \in Client, StartRecover(c)
     PROVE  CallInv'
  BY <1>7, CallRequest, CallAnswer, CallSuspend DEF StartRecover, Forget, Bookkeeping, Inside, Waits
<1>8. ASSUME NEW c \in Client, StartClose(c)
     PROVE  CallInv'
  BY <1>8, CallRequest, CallAnswer, CallSuspend DEF StartClose, Forget, Bookkeeping, Inside, Waits
<1>9. ASSUME NEW c \in Client, ObserveConnected(c)
     PROVE  CallInv'
  BY <1>9, CallRequest, CallAnswer, CallSuspend DEF ObserveConnected, BeginCapture, Bookkeeping, Inside, Waits
<1>10. ASSUME NEW c \in Client, ObserveNotConnected(c)
     PROVE  CallInv'
  BY <1>10, CallRequest, CallAnswer, CallSuspend DEF ObserveNotConnected, Bookkeeping, Inside, Waits
<1>11. ASSUME NEW c \in Client, Capture(c)
     PROVE  CallInv'
  BY <1>11, CallRequest, CallAnswer, CallSuspend DEF Capture, Traffic, Bookkeeping, Inside, Waits
<1>12. ASSUME NEW c \in Client, CaptureFailed(c)
     PROVE  CallInv'
  BY <1>12, CallRequest, CallAnswer, CallSuspend DEF CaptureFailed, Traffic, Bookkeeping, Inside, Waits
<1>13. ASSUME NEW c \in Client, ExecuteConnected(c)
     PROVE  CallInv'
  BY <1>13, CallRequest, CallAnswer, CallSuspend DEF ExecuteConnected, Send, Bookkeeping, Inside, Waits
<1>14. ASSUME NEW c \in Client, ExecuteNotConnected(c)
     PROVE  CallInv'
  BY <1>14, CallRequest, CallAnswer, CallSuspend DEF ExecuteNotConnected, Bookkeeping, Inside, Waits
<1>15. ASSUME NEW c \in Client, ActionDone(c)
     PROVE  CallInv'
  BY <1>15, CallRequest, CallAnswer, CallSuspend DEF ActionDone, Send, Forget, Traffic, Bookkeeping, Inside, Waits
<1>16. ASSUME NEW c \in Client, ActionFailed(c)
     PROVE  CallInv'
  BY <1>16, CallRequest, CallAnswer, CallSuspend DEF ActionFailed, Forget, Traffic, Bookkeeping, Inside, Waits
<1>17. ASSUME NEW c \in Client, Recreated(c)
     PROVE  CallInv'
  BY <1>17, CallRequest, CallAnswer, CallSuspend DEF Recreated, Bookkeeping, Inside, Waits
<1>18. ASSUME NEW c \in Client, TransportClosed(c)
     PROVE  CallInv'
  BY <1>18, CallRequest, CallAnswer, CallSuspend DEF TransportClosed, Bookkeeping, Inside, Waits
<1>19. ASSUME NEW c \in Client, CancelWaiter(c)
     PROVE  CallInv'
  BY <1>19 DEF CancelWaiter, TypeOK, CallInv, Pending, Inside, Waits
<1>20. ASSUME NEW c \in Client, CancelHolder(c)
     PROVE  CallInv'
  BY <1>20, CallRequest, CallAnswer, CallSuspend DEF CancelHolder, Bookkeeping, Inside, Waits
<1>21. ASSUME PlumbingLost
     PROVE  CallInv'
  BY <1>21 DEF PlumbingLost, Bookkeeping, CallInv, Pending
<1>22. CASE UNCHANGED vars
  BY <1>22 DEF vars, CallInv, Pending
<1>. QED
  BY RequestCases, <1>1, <1>2, <1>3, <1>4, <1>5, <1>6, <1>7, <1>8, <1>9, <1>10, <1>11, <1>12, <1>13, <1>14, <1>15, <1>16, <1>17, <1>18, <1>19, <1>20, <1>21, <1>22 DEF Next, Operate, Resume

-----------------------------------------------------------------------------
(* The revision under which a batch was admitted. *)

LEMMA AdmittedStep ==
  ASSUME TypeOK, LockInv, CallInv, AdmittedInv, [Next]_vars
  PROVE  AdmittedInv'
<1>1. ASSUME NEW c \in Client, NEW q \in Calls, Request(c, q)
     PROVE  AdmittedInv'
  BY <1>1, FreeAssumption DEF Request, Bookkeeping, TypeOK, LockInv, AdmittedInv, Inside, Waits, Calls, NoRev, NoCall
<1>2. ASSUME NEW c \in Client, RejectClosed(c)
     PROVE  AdmittedInv'
  BY <1>2, FreeAssumption DEF RejectClosed, Granted, Answer, Bookkeeping, TypeOK, LockInv, AdmittedInv, Inside, Waits, Calls, NoRev, NoCall
<1>3. ASSUME NEW c \in Client, StartObserve(c)
     PROVE  AdmittedInv'
  BY <1>3, FreeAssumption DEF StartObserve, Granted, Answer, Suspend, BeginCapture, Bookkeeping, TypeOK, LockInv, AdmittedInv, Inside, Waits, Calls, NoRev, NoCall
<1>4. ASSUME NEW c \in Client, RejectExecute(c)
     PROVE  AdmittedInv'
  BY <1>4, FreeAssumption DEF RejectExecute, Granted, Answer, Preflight, Bookkeeping, TypeOK, LockInv, AdmittedInv, Inside, Waits, Calls, NoRev, NoCall
<1>5. ASSUME NEW c \in Client, StartExecute(c)
     PROVE  AdmittedInv'
  BY <1>5, FreeAssumption DEF StartExecute, Granted, Suspend, Send, Preflight, Bookkeeping, TypeOK, LockInv, AdmittedInv, Inside, Waits, Calls, NoRev, NoCall
<1>6. ASSUME NEW c \in Client, Invalidate(c)
     PROVE  AdmittedInv'
  BY <1>6, FreeAssumption DEF Invalidate, Granted, Answer, Forget, Bookkeeping, TypeOK, LockInv, AdmittedInv, Inside, Waits, Calls, NoRev, NoCall
<1>7. ASSUME NEW c \in Client, StartRecover(c)
     PROVE  AdmittedInv'
  BY <1>7, FreeAssumption DEF StartRecover, Granted, Suspend, Forget, Bookkeeping, TypeOK, LockInv, AdmittedInv, Inside, Waits, Calls, NoRev, NoCall
<1>8. ASSUME NEW c \in Client, StartClose(c)
     PROVE  AdmittedInv'
  BY <1>8, FreeAssumption DEF StartClose, Granted, Answer, Suspend, Forget, Bookkeeping, TypeOK, LockInv, AdmittedInv, Inside, Waits, Calls, NoRev, NoCall
<1>9. ASSUME NEW c \in Client, ObserveConnected(c)
     PROVE  AdmittedInv'
  BY <1>9, FreeAssumption DEF ObserveConnected, Answer, Suspend, BeginCapture, Bookkeeping, TypeOK, LockInv, AdmittedInv, Inside, Waits, Calls, NoRev, NoCall
<1>10. ASSUME NEW c \in Client, ObserveNotConnected(c)
     PROVE  AdmittedInv'
  BY <1>10, FreeAssumption DEF ObserveNotConnected, Answer, Bookkeeping, TypeOK, LockInv, AdmittedInv, Inside, Waits, Calls, NoRev, NoCall
<1>11. ASSUME NEW c \in Client, Capture(c)
     PROVE  AdmittedInv'
  BY <1>11, FreeAssumption DEF Capture, Answer, Traffic, Bookkeeping, TypeOK, LockInv, AdmittedInv, Inside, Waits, Calls, NoRev, NoCall
<1>12. ASSUME NEW c \in Client, CaptureFailed(c)
     PROVE  AdmittedInv'
  BY <1>12, FreeAssumption DEF CaptureFailed, Answer, Traffic, Bookkeeping, TypeOK, LockInv, AdmittedInv, Inside, Waits, Calls, NoRev, NoCall
<1>13. ASSUME NEW c \in Client, ExecuteConnected(c)
     PROVE  AdmittedInv'
  BY <1>13, FreeAssumption DEF ExecuteConnected, Suspend, Send, Bookkeeping, TypeOK, LockInv, AdmittedInv, Inside, Waits, Calls, NoRev, NoCall
<1>14. ASSUME NEW c \in Client, ExecuteNotConnected(c)
     PROVE  AdmittedInv'
  BY <1>14, FreeAssumption DEF ExecuteNotConnected, Answer, Bookkeeping, TypeOK, LockInv, AdmittedInv, Inside, Waits, Calls, NoRev, NoCall
<1>15. ASSUME NEW c \in Client, ActionDone(c)
     PROVE  AdmittedInv'
  BY <1>15, FreeAssumption DEF ActionDone, Answer, Suspend, Send, Forget, Traffic, Bookkeeping, TypeOK, LockInv, AdmittedInv, Inside, Waits, Calls, NoRev, NoCall
<1>16. ASSUME NEW c \in Client, ActionFailed(c)
     PROVE  AdmittedInv'
  BY <1>16, FreeAssumption DEF ActionFailed, Answer, Forget, Traffic, Bookkeeping, TypeOK, LockInv, AdmittedInv, Inside, Waits, Calls, NoRev, NoCall
<1>17. ASSUME NEW c \in Client, Recreated(c)
     PROVE  AdmittedInv'
  BY <1>17, FreeAssumption DEF Recreated, Answer, Bookkeeping, TypeOK, LockInv, AdmittedInv, Inside, Waits, Calls, NoRev, NoCall
<1>18. ASSUME NEW c \in Client, TransportClosed(c)
     PROVE  AdmittedInv'
  BY <1>18, FreeAssumption DEF TransportClosed, Answer, Bookkeeping, TypeOK, LockInv, AdmittedInv, Inside, Waits, Calls, NoRev, NoCall
<1>19. ASSUME NEW c \in Client, CancelWaiter(c)
     PROVE  AdmittedInv'
  BY <1>19, FreeAssumption DEF CancelWaiter, Bookkeeping, TypeOK, LockInv, AdmittedInv, Inside, Waits, Calls, NoRev, NoCall
<1>20. ASSUME NEW c \in Client, CancelHolder(c)
     PROVE  AdmittedInv'
  BY <1>20, FreeAssumption DEF CancelHolder, Answer, Bookkeeping, TypeOK, LockInv, AdmittedInv, Inside, Waits, Calls, NoRev, NoCall
<1>21. ASSUME PlumbingLost
     PROVE  AdmittedInv'
  BY <1>21, FreeAssumption DEF PlumbingLost, Bookkeeping, TypeOK, LockInv, AdmittedInv, Inside, Waits, Calls, NoRev, NoCall
<1>22. CASE UNCHANGED vars
  BY <1>22 DEF vars, TypeOK, LockInv, AdmittedInv, Inside, Waits, Calls, NoRev, NoCall
<1>. QED
  BY RequestCases, <1>1, <1>2, <1>3, <1>4, <1>5, <1>6, <1>7, <1>8, <1>9, <1>10, <1>11, <1>12, <1>13, <1>14, <1>15, <1>16, <1>17, <1>18, <1>19, <1>20, <1>21, <1>22 DEF Next, Operate, Resume

LEMMA ClosedStep ==
  ASSUME TypeOK, LockInv, AdmittedInv, ClosedInv, [Next]_vars
  PROVE  ClosedInv'
<1>1. ASSUME NEW c \in Client, NEW q \in Calls, Request(c, q)
     PROVE  ClosedInv'
  BY <1>1, FreeAssumption DEF Request, Bookkeeping, TypeOK, LockInv, AdmittedInv, ClosedInv, Inside, Waits, NoRev
<1>2. ASSUME NEW c \in Client, RejectClosed(c)
     PROVE  ClosedInv'
  BY <1>2, FreeAssumption DEF RejectClosed, Granted, Answer, Bookkeeping, TypeOK, LockInv, AdmittedInv, ClosedInv, Inside, Waits, NoRev
<1>3. ASSUME NEW c \in Client, StartObserve(c)
     PROVE  ClosedInv'
  BY <1>3, FreeAssumption DEF StartObserve, Granted, Answer, Suspend, BeginCapture, Bookkeeping, TypeOK, LockInv, AdmittedInv, ClosedInv, Inside, Waits, NoRev
<1>4. ASSUME NEW c \in Client, RejectExecute(c)
     PROVE  ClosedInv'
  BY <1>4, FreeAssumption DEF RejectExecute, Granted, Answer, Preflight, Bookkeeping, TypeOK, LockInv, AdmittedInv, ClosedInv, Inside, Waits, NoRev
<1>5. ASSUME NEW c \in Client, StartExecute(c)
     PROVE  ClosedInv'
  BY <1>5, FreeAssumption DEF StartExecute, Granted, Suspend, Send, Preflight, Bookkeeping, TypeOK, LockInv, AdmittedInv, ClosedInv, Inside, Waits, NoRev
<1>6. ASSUME NEW c \in Client, Invalidate(c)
     PROVE  ClosedInv'
  BY <1>6, FreeAssumption DEF Invalidate, Granted, Answer, Forget, Bookkeeping, TypeOK, LockInv, AdmittedInv, ClosedInv, Inside, Waits, NoRev
<1>7. ASSUME NEW c \in Client, StartRecover(c)
     PROVE  ClosedInv'
  BY <1>7, FreeAssumption DEF StartRecover, Granted, Suspend, Forget, Bookkeeping, TypeOK, LockInv, AdmittedInv, ClosedInv, Inside, Waits, NoRev
<1>8. ASSUME NEW c \in Client, StartClose(c)
     PROVE  ClosedInv'
  BY <1>8, FreeAssumption DEF StartClose, Granted, Answer, Suspend, Forget, Bookkeeping, TypeOK, LockInv, AdmittedInv, ClosedInv, Inside, Waits, NoRev
<1>9. ASSUME NEW c \in Client, ObserveConnected(c)
     PROVE  ClosedInv'
  BY <1>9, FreeAssumption DEF ObserveConnected, Answer, Suspend, BeginCapture, Bookkeeping, TypeOK, LockInv, AdmittedInv, ClosedInv, Inside, Waits, NoRev
<1>10. ASSUME NEW c \in Client, ObserveNotConnected(c)
     PROVE  ClosedInv'
  BY <1>10, FreeAssumption DEF ObserveNotConnected, Answer, Bookkeeping, TypeOK, LockInv, AdmittedInv, ClosedInv, Inside, Waits, NoRev
<1>11. ASSUME NEW c \in Client, Capture(c)
     PROVE  ClosedInv'
  BY <1>11, FreeAssumption DEF Capture, Answer, Traffic, Bookkeeping, TypeOK, LockInv, AdmittedInv, ClosedInv, Inside, Waits, NoRev
<1>12. ASSUME NEW c \in Client, CaptureFailed(c)
     PROVE  ClosedInv'
  BY <1>12, FreeAssumption DEF CaptureFailed, Answer, Traffic, Bookkeeping, TypeOK, LockInv, AdmittedInv, ClosedInv, Inside, Waits, NoRev
<1>13. ASSUME NEW c \in Client, ExecuteConnected(c)
     PROVE  ClosedInv'
  BY <1>13, FreeAssumption DEF ExecuteConnected, Suspend, Send, Bookkeeping, TypeOK, LockInv, AdmittedInv, ClosedInv, Inside, Waits, NoRev
<1>14. ASSUME NEW c \in Client, ExecuteNotConnected(c)
     PROVE  ClosedInv'
  BY <1>14, FreeAssumption DEF ExecuteNotConnected, Answer, Bookkeeping, TypeOK, LockInv, AdmittedInv, ClosedInv, Inside, Waits, NoRev
<1>15. ASSUME NEW c \in Client, ActionDone(c)
     PROVE  ClosedInv'
  BY <1>15, FreeAssumption DEF ActionDone, Answer, Suspend, Send, Forget, Traffic, Bookkeeping, TypeOK, LockInv, AdmittedInv, ClosedInv, Inside, Waits, NoRev
<1>16. ASSUME NEW c \in Client, ActionFailed(c)
     PROVE  ClosedInv'
  BY <1>16, FreeAssumption DEF ActionFailed, Answer, Forget, Traffic, Bookkeeping, TypeOK, LockInv, AdmittedInv, ClosedInv, Inside, Waits, NoRev
<1>17. ASSUME NEW c \in Client, Recreated(c)
     PROVE  ClosedInv'
  BY <1>17, FreeAssumption DEF Recreated, Answer, Bookkeeping, TypeOK, LockInv, AdmittedInv, ClosedInv, Inside, Waits, NoRev
<1>18. ASSUME NEW c \in Client, TransportClosed(c)
     PROVE  ClosedInv'
  BY <1>18, FreeAssumption DEF TransportClosed, Answer, Bookkeeping, TypeOK, LockInv, AdmittedInv, ClosedInv, Inside, Waits, NoRev
<1>19. ASSUME NEW c \in Client, CancelWaiter(c)
     PROVE  ClosedInv'
  BY <1>19, FreeAssumption DEF CancelWaiter, Bookkeeping, TypeOK, LockInv, AdmittedInv, ClosedInv, Inside, Waits, NoRev
<1>20. ASSUME NEW c \in Client, CancelHolder(c)
     PROVE  ClosedInv'
  BY <1>20, FreeAssumption DEF CancelHolder, Answer, Bookkeeping, TypeOK, LockInv, AdmittedInv, ClosedInv, Inside, Waits, NoRev
<1>21. ASSUME PlumbingLost
     PROVE  ClosedInv'
  BY <1>21, FreeAssumption DEF PlumbingLost, Bookkeeping, TypeOK, LockInv, AdmittedInv, ClosedInv, Inside, Waits, NoRev
<1>22. CASE UNCHANGED vars
  BY <1>22 DEF vars, TypeOK, LockInv, AdmittedInv, ClosedInv, Inside, Waits, NoRev
<1>. QED
  BY RequestCases, <1>1, <1>2, <1>3, <1>4, <1>5, <1>6, <1>7, <1>8, <1>9, <1>10, <1>11, <1>12, <1>13, <1>14, <1>15, <1>16, <1>17, <1>18, <1>19, <1>20, <1>21, <1>22 DEF Next, Operate, Resume

-----------------------------------------------------------------------------
(* Which actions were sent, and by whom: a step that answers a call, one that
   suspends it without sending, and one that sends its next action. *)

\* Two calls are not past the lock together.
LEMMA OneInside ==
  ASSUME LockInv, NEW c \in Client, NEW d \in Client,
         Granted(c) \/ pc[c] \in Inside, pc[d] \in Inside
  PROVE  d = c
  BY FreeAssumption DEF LockInv, Granted

LEMMA GrantedWaits ==
  ASSUME NEW c \in Client, Granted(c)
  PROVE  pc[c] = "queued" /\ lock = Free
  BY DEF Granted

LEMMA SentAnswer ==
  ASSUME TypeOK, LockInv, CallInv, SentInv,
         NEW c \in Client, NEW code, NEW effect, NEW completed,
         Granted(c) \/ pc[c] \in Inside,
         Answer(c, code, effect, completed),
         UNCHANGED <<ops, attempts>>,
         \/ UNCHANGED issued
         \/ issued' = issued + 1,
         interrupted \subseteq interrupted',
         \/ current' = NoRev
         \/ current' = issued + 1
         \/ /\ current' = current
            /\ pc[c] = "action" => call[c].id \in interrupted'
  PROVE  SentInv'
<1>1. /\ pc' = [pc EXCEPT ![c] = "idle"]
      /\ call' = [call EXCEPT ![c] = NoCall]
      /\ pc \in [Client -> Waits] /\ call \in [Client -> Calls]
      /\ issued \in Nat
      /\ UNCHANGED <<ops, attempts>>
  BY DEF Answer, TypeOK
<1>2. \A d \in Client : pc'[d] # "idle" => d # c /\ pc'[d] = pc[d] /\ call'[d] = call[d]
  BY <1>1
<1>3. \A a \in attempts : a.id \in 1..ops /\ a.rev \in 1..issued
  BY DEF SentInv
<1>4. \A a \in attempts : a.id \in 1..ops' /\ a.rev \in 1..issued'
  BY <1>1, <1>3
<1>5. ASSUME NEW a \in attempts, a.rev = current'
      PROVE  \/ a.id \in interrupted'
             \/ \E d \in Client : pc'[d] = "action" /\ call'[d].id = a.id
  <2>1. current' = current /\ (pc[c] = "action" => call[c].id \in interrupted')
    BY <1>1, <1>3, <1>5 DEF NoRev
  <2>2. CASE a.id \in interrupted
    BY <2>2
  <2>3. CASE \E d \in Client : pc[d] = "action" /\ call[d].id = a.id
    <3>1. PICK d \in Client : pc[d] = "action" /\ call[d].id = a.id
      BY <2>3
    <3>2. CASE d = c
      BY <2>1, <3>1, <3>2
    <3>3. CASE d # c
      BY <1>1, <3>1, <3>3
    <3>. QED
      BY <3>2, <3>3
  <2>. QED
    BY <1>5, <2>1, <2>2, <2>3 DEF SentInv
<1>. QED
  BY <1>1, <1>2, <1>4, <1>5 DEF SentInv, Pending

LEMMA SentSuspend ==
  ASSUME TypeOK, LockInv, SentInv, NEW c \in Client, NEW wait \in Inside,
         Granted(c) \/ pc[c] \in Inside, pc[c] # "action",
         Suspend(c, wait), UNCHANGED <<ops, issued, attempts, interrupted>>,
         current' \in {NoRev, current}
  PROVE  SentInv'
<1>1. /\ pc' = [pc EXCEPT ![c] = wait]
      /\ pc \in [Client -> Waits]
      /\ pc[c] # "idle" /\ wait # "idle"
      /\ UNCHANGED <<call, ops, issued, attempts, interrupted>>
  BY DEF Suspend, TypeOK, Granted, Inside, Waits
<1>2. \A d \in Client : /\ pc'[d] # "idle" <=> pc[d] # "idle"
                        /\ pc[d] = "action" => pc'[d] = "action"
  BY <1>1
<1>3. \A a \in attempts : a.rev = current' => a.rev = current
  BY DEF SentInv, NoRev, TypeOK
<1>. QED
  BY <1>1, <1>2, <1>3 DEF SentInv, Pending

LEMMA SentSend ==
  ASSUME TypeOK, LockInv, CallInv, AdmittedInv', SentInv, LockInv', CallInv',
         NEW c \in Client, NEW k \in Nat,
         Granted(c) \/ pc[c] \in Inside,
         Send(c, k), UNCHANGED <<ops, issued, current, interrupted>>
  PROVE  SentInv'
<1>1. /\ pc' = [pc EXCEPT ![c] = "action"]
      /\ pc \in [Client -> Waits] /\ pc' \in [Client -> Waits]
      /\ pc[c] # "idle"
      /\ UNCHANGED <<call, ops, issued, current, interrupted>>
  BY DEF Send, Suspend, TypeOK, Granted, Inside, Waits
<1>2. call[c].rev = current /\ current \in 1..issued /\ call[c].id \in 1..ops
  BY <1>1 DEF AdmittedInv, CallInv, Pending, TypeOK, NoRev
<1>3. ASSUME NEW d \in Client, pc'[d] # "idle"
      PROVE  call[c].id <= call[d].id
  <2>1. call[c].id \in Nat
    BY <1>2
  <2>2. CASE pc'[d] = "queued"
    BY <1>1, <1>3, <2>2 DEF CallInv, Inside, Waits, Pending
  <2>3. CASE pc'[d] \in Inside
    <3>1. d = c
      BY <1>1, <2>3, FreeAssumption DEF LockInv, Inside, Waits
    <3>. QED
      BY <2>1, <3>1
  <2>. QED
    BY <1>1, <1>3, <2>2, <2>3 DEF Inside
<1>4. ASSUME NEW a \in attempts'
      PROVE  \/ a \in attempts
             \/ a = [id |-> call[c].id, rev |-> call[c].rev, index |-> k]
  BY DEF Send
<1>5. ASSUME NEW a \in attempts'
      PROVE  a.id \in 1..ops' /\ a.rev \in 1..issued'
  BY <1>1, <1>2, <1>4 DEF SentInv
<1>6. ASSUME NEW a \in attempts', NEW d \in Client, pc'[d] # "idle"
      PROVE  a.id <= call'[d].id
  BY <1>1, <1>3, <1>4, <1>6 DEF SentInv, Pending
<1>7. ASSUME NEW a \in attempts', NEW d \in Client, pc'[d] # "idle", a.id = call'[d].id
      PROVE  pc'[d] = "action"
  BY <1>1, <1>4, <1>7 DEF SentInv, CallInv, Pending
<1>8. ASSUME NEW a \in attempts', a.rev = current'
      PROVE  \/ a.id \in interrupted'
             \/ \E d \in Client : pc'[d] = "action" /\ call'[d].id = a.id
  BY <1>1, <1>4, <1>8 DEF SentInv
<1>. QED
  BY <1>5, <1>6, <1>7, <1>8 DEF SentInv, Pending


LEMMA SentStep ==
  ASSUME TypeOK, LockInv, CallInv, AdmittedInv, SentInv,
         LockInv', CallInv', AdmittedInv', [Next]_vars
  PROVE  SentInv'
<1>1. ASSUME NEW c \in Client, NEW q \in Calls, Request(c, q)
     PROVE  SentInv'
  <2>1. /\ pc' = [pc EXCEPT ![c] = "queued"]
        /\ pc[c] = "idle"
        /\ pc \in [Client -> Waits]
        /\ ops' = ops + 1 /\ ops \in Nat
        /\ call'[c].id = ops + 1
        /\ \A d \in Client \ {c} : call'[d] = call[d]
        /\ UNCHANGED <<attempts, issued, current, interrupted>>
    BY <1>1 DEF Request, TypeOK, Calls
  <2>. QED
    BY <2>1 DEF SentInv, Pending
<1>2. ASSUME NEW c \in Client, RejectClosed(c)
     PROVE  SentInv'
  BY <1>2, GrantedWaits, SentAnswer, SentSuspend, SentSend DEF RejectClosed, Bookkeeping, Inside, Waits
<1>3. ASSUME NEW c \in Client, StartObserve(c)
     PROVE  SentInv'
  BY <1>3, GrantedWaits, SentAnswer, SentSuspend, SentSend DEF StartObserve, BeginCapture, Bookkeeping, Inside, Waits
<1>4. ASSUME NEW c \in Client, RejectExecute(c)
     PROVE  SentInv'
  BY <1>4, GrantedWaits, SentAnswer, SentSuspend, SentSend DEF RejectExecute, Preflight, Bookkeeping, Inside, Waits
<1>5. ASSUME NEW c \in Client, StartExecute(c)
     PROVE  SentInv'
  BY <1>5, GrantedWaits, SentAnswer, SentSuspend, SentSend DEF StartExecute, Send, Preflight, Bookkeeping, Inside, Waits
<1>6. ASSUME NEW c \in Client, Invalidate(c)
     PROVE  SentInv'
  BY <1>6, GrantedWaits, SentAnswer, SentSuspend, SentSend DEF Invalidate, Forget, Bookkeeping, Inside, Waits
<1>7. ASSUME NEW c \in Client, StartRecover(c)
     PROVE  SentInv'
  BY <1>7, GrantedWaits, SentAnswer, SentSuspend, SentSend DEF StartRecover, Forget, Bookkeeping, Inside, Waits
<1>8. ASSUME NEW c \in Client, StartClose(c)
     PROVE  SentInv'
  BY <1>8, GrantedWaits, SentAnswer, SentSuspend, SentSend DEF StartClose, Forget, Bookkeeping, Inside, Waits
<1>9. ASSUME NEW c \in Client, ObserveConnected(c)
     PROVE  SentInv'
  BY <1>9, GrantedWaits, SentAnswer, SentSuspend, SentSend DEF ObserveConnected, BeginCapture, Bookkeeping, Inside, Waits
<1>10. ASSUME NEW c \in Client, ObserveNotConnected(c)
     PROVE  SentInv'
  BY <1>10, GrantedWaits, SentAnswer, SentSuspend, SentSend DEF ObserveNotConnected, Bookkeeping, Inside, Waits
<1>11. ASSUME NEW c \in Client, Capture(c)
     PROVE  SentInv'
  BY <1>11, GrantedWaits, SentAnswer, SentSuspend, SentSend DEF Capture, Traffic, Bookkeeping, Inside, Waits
<1>12. ASSUME NEW c \in Client, CaptureFailed(c)
     PROVE  SentInv'
  BY <1>12, GrantedWaits, SentAnswer, SentSuspend, SentSend DEF CaptureFailed, Traffic, Bookkeeping, Inside, Waits
<1>13. ASSUME NEW c \in Client, ExecuteConnected(c)
     PROVE  SentInv'
  BY <1>13, GrantedWaits, SentAnswer, SentSuspend, SentSend DEF ExecuteConnected, Send, Bookkeeping, Inside, Waits
<1>14. ASSUME NEW c \in Client, ExecuteNotConnected(c)
     PROVE  SentInv'
  BY <1>14, GrantedWaits, SentAnswer, SentSuspend, SentSend DEF ExecuteNotConnected, Bookkeeping, Inside, Waits
<1>15. ASSUME NEW c \in Client, ActionDone(c)
     PROVE  SentInv'
  <2>1. sent \in Nat
    BY DEF TypeOK
  <2>. QED
    BY <1>15, <2>1, SentAnswer, SentSend DEF ActionDone, Bookkeeping, Forget, Inside, Waits
<1>16. ASSUME NEW c \in Client, ActionFailed(c)
     PROVE  SentInv'
  BY <1>16, GrantedWaits, SentAnswer, SentSuspend, SentSend DEF ActionFailed, Forget, Traffic, Bookkeeping, Inside, Waits
<1>17. ASSUME NEW c \in Client, Recreated(c)
     PROVE  SentInv'
  BY <1>17, GrantedWaits, SentAnswer, SentSuspend, SentSend DEF Recreated, Bookkeeping, Inside, Waits
<1>18. ASSUME NEW c \in Client, TransportClosed(c)
     PROVE  SentInv'
  BY <1>18, GrantedWaits, SentAnswer, SentSuspend, SentSend DEF TransportClosed, Bookkeeping, Inside, Waits
<1>19. ASSUME NEW c \in Client, CancelWaiter(c)
     PROVE  SentInv'
  BY <1>19 DEF CancelWaiter, TypeOK, SentInv, Pending
<1>20. ASSUME NEW c \in Client, CancelHolder(c)
     PROVE  SentInv'
  <2>1. /\ Answer(c, "cancelled", "UNKNOWN", 0)
        /\ pc[c] \in Inside
        /\ UNCHANGED <<current, issued, ops, attempts>>
        /\ interrupted \subseteq interrupted'
        /\ pc[c] = "action" => call[c].id \in interrupted'
    BY <1>20 DEF CancelHolder
  <2>. QED
    BY <2>1, SentAnswer
<1>21. ASSUME PlumbingLost
     PROVE  SentInv'
  BY <1>21 DEF PlumbingLost, Bookkeeping, SentInv, Pending
<1>22. CASE UNCHANGED vars
  BY <1>22 DEF vars, SentInv, Pending
<1>. QED
  BY RequestCases, <1>1, <1>2, <1>3, <1>4, <1>5, <1>6, <1>7, <1>8, <1>9, <1>10, <1>11, <1>12, <1>13, <1>14, <1>15, <1>16, <1>17, <1>18, <1>19, <1>20, <1>21, <1>22 DEF Next, Operate, Resume

LEMMA OneBatchSend ==
  ASSUME TypeOK, LockInv, AdmittedInv', SentInv, SentInv', OneBatchPerRevision,
         NEW c \in Client, NEW k \in Nat,
         Granted(c) \/ pc[c] \in Inside,
         Send(c, k), UNCHANGED <<current, interrupted>>
  PROVE  OneBatchPerRevision'
<1>1. /\ pc' = [pc EXCEPT ![c] = "action"]
      /\ pc \in [Client -> Waits]
      /\ pc[c] # "idle"
      /\ UNCHANGED <<call, current, interrupted>>
  BY DEF Send, Suspend, TypeOK, Granted, Inside, Waits
<1>2. call[c].rev = current
  BY <1>1 DEF AdmittedInv
<1>3. ASSUME NEW a \in attempts'
      PROVE  \/ a \in attempts
             \/ a.id = call[c].id /\ a.rev = current
  BY <1>2 DEF Send
\* A batch sent earlier under the current revision is this one or interrupted.
<1>4. ASSUME NEW a \in attempts, a.rev = current, a.id # call[c].id
      PROVE  a.id \in interrupted
  <2>1. ASSUME NEW d \in Client, pc[d] = "action", call[d].id = a.id
        PROVE  FALSE
    BY <1>4, <2>1, OneInside DEF Inside, Waits
  <2>. QED
    BY <1>4, <2>1 DEF SentInv
\* No later call has sent anything yet.
<1>5. ASSUME NEW a \in attempts
      PROVE  a.id <= call[c].id
  BY <1>1 DEF SentInv, Pending
<1>6. ASSUME NEW a \in attempts', NEW b \in attempts', a.rev = b.rev, a.id < b.id
      PROVE  a.id \in interrupted
  <2>1. a.id \in Nat /\ b.id \in Nat /\ call[c].id \in Nat
    BY DEF SentInv, TypeOK, Calls
  <2>2. CASE a \in attempts /\ b \in attempts
    BY <1>6, <2>2 DEF OneBatchPerRevision
  <2>3. CASE a \in attempts /\ b.id = call[c].id /\ b.rev = current
    BY <1>4, <1>6, <2>1, <2>3
  <2>4. CASE a.id = call[c].id /\ b \in attempts
    BY <1>5, <1>6, <2>1, <2>4
  <2>5. CASE a.id = call[c].id /\ b.id = call[c].id
    BY <1>6, <2>1, <2>5
  <2>. QED
    BY <1>3, <2>2, <2>3, <2>4, <2>5
<1>. QED
  BY <1>1, <1>6 DEF OneBatchPerRevision

LEMMA OneBatchStep ==
  ASSUME TypeOK, LockInv, SentInv, OneBatchPerRevision,
         AdmittedInv', SentInv', [Next]_vars
  PROVE  OneBatchPerRevision'
<1>1. ASSUME NEW c \in Client, NEW q \in Calls, Request(c, q)
     PROVE  OneBatchPerRevision'
  BY <1>1 DEF Request, OneBatchPerRevision
<1>2. ASSUME NEW c \in Client, RejectClosed(c)
     PROVE  OneBatchPerRevision'
  BY <1>2, OneBatchSend DEF RejectClosed, Bookkeeping, OneBatchPerRevision, Inside, Waits
<1>3. ASSUME NEW c \in Client, StartObserve(c)
     PROVE  OneBatchPerRevision'
  BY <1>3, OneBatchSend DEF StartObserve, BeginCapture, Bookkeeping, OneBatchPerRevision, Inside, Waits
<1>4. ASSUME NEW c \in Client, RejectExecute(c)
     PROVE  OneBatchPerRevision'
  BY <1>4, OneBatchSend DEF RejectExecute, Preflight, Bookkeeping, OneBatchPerRevision, Inside, Waits
<1>5. ASSUME NEW c \in Client, StartExecute(c)
     PROVE  OneBatchPerRevision'
  BY <1>5, OneBatchSend DEF StartExecute, Send, Preflight, Bookkeeping, OneBatchPerRevision, Inside, Waits
<1>6. ASSUME NEW c \in Client, Invalidate(c)
     PROVE  OneBatchPerRevision'
  BY <1>6, OneBatchSend DEF Invalidate, Forget, Bookkeeping, OneBatchPerRevision, Inside, Waits
<1>7. ASSUME NEW c \in Client, StartRecover(c)
     PROVE  OneBatchPerRevision'
  BY <1>7, OneBatchSend DEF StartRecover, Forget, Bookkeeping, OneBatchPerRevision, Inside, Waits
<1>8. ASSUME NEW c \in Client, StartClose(c)
     PROVE  OneBatchPerRevision'
  BY <1>8, OneBatchSend DEF StartClose, Forget, Bookkeeping, OneBatchPerRevision, Inside, Waits
<1>9. ASSUME NEW c \in Client, ObserveConnected(c)
     PROVE  OneBatchPerRevision'
  BY <1>9, OneBatchSend DEF ObserveConnected, BeginCapture, Bookkeeping, OneBatchPerRevision, Inside, Waits
<1>10. ASSUME NEW c \in Client, ObserveNotConnected(c)
     PROVE  OneBatchPerRevision'
  BY <1>10, OneBatchSend DEF ObserveNotConnected, Bookkeeping, OneBatchPerRevision, Inside, Waits
<1>11. ASSUME NEW c \in Client, Capture(c)
     PROVE  OneBatchPerRevision'
  BY <1>11, OneBatchSend DEF Capture, Traffic, Bookkeeping, OneBatchPerRevision, Inside, Waits
<1>12. ASSUME NEW c \in Client, CaptureFailed(c)
     PROVE  OneBatchPerRevision'
  BY <1>12, OneBatchSend DEF CaptureFailed, Traffic, Bookkeeping, OneBatchPerRevision, Inside, Waits
<1>13. ASSUME NEW c \in Client, ExecuteConnected(c)
     PROVE  OneBatchPerRevision'
  BY <1>13, OneBatchSend DEF ExecuteConnected, Send, Bookkeeping, OneBatchPerRevision, Inside, Waits
<1>14. ASSUME NEW c \in Client, ExecuteNotConnected(c)
     PROVE  OneBatchPerRevision'
  BY <1>14, OneBatchSend DEF ExecuteNotConnected, Bookkeeping, OneBatchPerRevision, Inside, Waits
<1>15. ASSUME NEW c \in Client, ActionDone(c)
     PROVE  OneBatchPerRevision'
  <2>1. sent \in Nat
    BY DEF TypeOK
  <2>. QED
    BY <1>15, <2>1, OneBatchSend DEF ActionDone, Bookkeeping, OneBatchPerRevision, Inside, Waits
<1>16. ASSUME NEW c \in Client, ActionFailed(c)
     PROVE  OneBatchPerRevision'
  BY <1>16, OneBatchSend DEF ActionFailed, Forget, Traffic, Bookkeeping, OneBatchPerRevision, Inside, Waits
<1>17. ASSUME NEW c \in Client, Recreated(c)
     PROVE  OneBatchPerRevision'
  BY <1>17, OneBatchSend DEF Recreated, Bookkeeping, OneBatchPerRevision, Inside, Waits
<1>18. ASSUME NEW c \in Client, TransportClosed(c)
     PROVE  OneBatchPerRevision'
  BY <1>18, OneBatchSend DEF TransportClosed, Bookkeeping, OneBatchPerRevision, Inside, Waits
<1>19. ASSUME NEW c \in Client, CancelWaiter(c)
     PROVE  OneBatchPerRevision'
  BY <1>19 DEF CancelWaiter, OneBatchPerRevision
<1>20. ASSUME NEW c \in Client, CancelHolder(c)
     PROVE  OneBatchPerRevision'
  BY <1>20, OneBatchSend DEF CancelHolder, Bookkeeping, OneBatchPerRevision, Inside, Waits
<1>21. ASSUME PlumbingLost
     PROVE  OneBatchPerRevision'
  BY <1>21, OneBatchSend DEF PlumbingLost, Bookkeeping, OneBatchPerRevision, Inside, Waits
<1>22. CASE UNCHANGED vars
  BY <1>22 DEF vars, OneBatchPerRevision
<1>. QED
  BY RequestCases, <1>1, <1>2, <1>3, <1>4, <1>5, <1>6, <1>7, <1>8, <1>9, <1>10, <1>11, <1>12, <1>13, <1>14, <1>15, <1>16, <1>17, <1>18, <1>19, <1>20, <1>21, <1>22 DEF Next, Operate, Resume

-----------------------------------------------------------------------------
(* What the answers say. *)

LEMMA IndicesIff ==
  \A i, n : n \in Indices(i) <=> \E a \in attempts : a.id = i /\ a.index = n
  BY DEF Indices

\* Sending action k of call i adds k to the actions of i, and changes no other's.
LEMMA IndicesSend ==
  ASSUME NEW c \in Client, NEW k \in Nat, Send(c, k), NEW i
  PROVE  /\ i = call[c].id => Indices(i)' = Indices(i) \cup {k}
         /\ i # call[c].id => Indices(i)' = Indices(i)
<1>. DEFINE new == [id |-> call[c].id, rev |-> call[c].rev, index |-> k]
<1>1. attempts' = attempts \cup {new}
  BY DEF Send
<1>2. new.id = call[c].id /\ new.index = k
  OBVIOUS
<1>3. ASSUME NEW n
      PROVE  n \in Indices(i)' <=> \E a \in attempts \cup {new} : a.id = i /\ a.index = n
  BY <1>1 DEF Indices
<1>. HIDE DEF new
<1>4. ASSUME NEW n
      PROVE  n \in Indices(i)' <=> n \in Indices(i) \/ (i = call[c].id /\ n = k)
  BY <1>2, <1>3, IndicesIff
<1>. QED
  BY <1>4

LEMMA IndicesSame ==
  ASSUME attempts' = attempts, NEW i
  PROVE  Indices(i)' = Indices(i)
  BY DEF Indices

\* A call that has not reached the device has no actions there.
LEMMA IndicesNone ==
  ASSUME TypeOK, SentInv, NEW c \in Client, Pending(c), pc[c] # "action"
  PROVE  Indices(call[c].id) = {}
  BY IndicesIff DEF SentInv


LEMMA ReportAnswer ==
  ASSUME TypeOK, LockInv, CallInv, ReportInv, UNCHANGED <<ops, attempts>>,
         NEW c \in Client, NEW code, NEW effect, NEW completed,
         Granted(c) \/ pc[c] \in Inside,
         Answer(c, code, effect, completed),
         effect = "NONE" => Indices(call[c].id) = 0..completed \ {completed},
         code \in {"ACTION_FAILED", "EFFECT_UNKNOWN"} => Indices(call[c].id) = 0..completed
  PROVE  ReportInv'
<1>. DEFINE r == [id |-> call[c].id, code |-> code, effect |-> effect,
                  completed |-> completed]
<1>1. /\ pc' = [pc EXCEPT ![c] = "idle"]
      /\ call' = [call EXCEPT ![c] = NoCall]
      /\ result' = [result EXCEPT ![c] = r]
      /\ pc \in [Client -> Waits] /\ call \in [Client -> Calls]
      /\ result \in [Client -> Results]
      /\ UNCHANGED <<ops, attempts>>
  BY DEF Answer, TypeOK
<1>2. /\ r.id = call[c].id /\ r.code = code /\ r.effect = effect
      /\ r.completed = completed
  OBVIOUS
<1>3. pc[c] # "idle"
  BY GrantedWaits DEF Inside, Waits
<1>. HIDE DEF r
<1>4. \A i : Indices(i)' = Indices(i)
  BY <1>1, IndicesSame
<1>5. ASSUME NEW d \in Client
      PROVE  pc'[d] # "action"
  BY <1>1, OneInside DEF Inside, Waits
<1>6. \A d \in Client : result'[d] = IF d = c THEN r ELSE result[d]
  BY <1>1
<1>7. \A d \in Client : result'[d].id <= ops'
  BY <1>1, <1>2, <1>3, <1>6 DEF ReportInv, CallInv, Pending, TypeOK
<1>8. \A d, e \in Client : pc'[e] # "idle" => result'[d].id # call'[e].id
  BY <1>1, <1>2, <1>3, <1>6 DEF ReportInv, CallInv, Pending
<1>9. ASSUME NEW d \in Client
      PROVE  /\ result'[d].effect = "NONE" =>
                  Indices(result'[d].id) = 0..result'[d].completed \ {result'[d].completed}
             /\ result'[d].code \in {"ACTION_FAILED", "EFFECT_UNKNOWN"} =>
                  Indices(result'[d].id) = 0..result'[d].completed
  BY <1>2, <1>6 DEF ReportInv
<1>. QED
  BY <1>1, <1>4, <1>5, <1>7, <1>8, <1>9 DEF ReportInv, Pending, Indices

LEMMA ReportSuspend ==
  ASSUME TypeOK, LockInv, ReportInv, UNCHANGED <<ops, attempts>>,
         NEW c \in Client, NEW wait \in Inside \ {"action"},
         Granted(c) \/ pc[c] \in Inside,
         Suspend(c, wait)
  PROVE  ReportInv'
<1>1. /\ pc' = [pc EXCEPT ![c] = wait]
      /\ pc \in [Client -> Waits]
      /\ pc[c] # "idle"
      /\ UNCHANGED <<call, result, ops, attempts>>
  BY GrantedWaits DEF Suspend, TypeOK, Inside, Waits
<1>2. ASSUME NEW d \in Client
      PROVE  pc'[d] # "action"
  BY <1>1, OneInside DEF Inside, Waits
<1>3. \A d \in Client : pc'[d] # "idle" => pc[d] # "idle"
  BY <1>1
<1>. QED
  BY <1>1, <1>2, <1>3 DEF ReportInv, Pending, Indices

LEMMA ReportSend ==
  ASSUME TypeOK, LockInv, SentInv, ReportInv, UNCHANGED ops,
         NEW c \in Client, NEW k \in Nat,
         Granted(c) \/ pc[c] \in Inside,
         IF pc[c] = "action" THEN k = sent /\ sent # 0 ELSE k = 0,
         Send(c, k)
  PROVE  ReportInv'
<1>1. /\ pc' = [pc EXCEPT ![c] = "action"]
      /\ pc \in [Client -> Waits]
      /\ pc[c] # "idle"
      /\ sent' = k + 1
      /\ UNCHANGED <<call, result, ops>>
  BY GrantedWaits DEF Send, Suspend, TypeOK, Inside, Waits
<1>2. Indices(call[c].id) = 0..(k - 1)
  <2>1. CASE pc[c] = "action"
    BY <2>1 DEF ReportInv
  <2>2. CASE pc[c] # "action"
    BY <1>1, <2>2, IndicesNone DEF Pending
  <2>. QED
    BY <2>1, <2>2
<1>3. \A i : /\ i = call[c].id => Indices(i)' = Indices(i) \cup {k}
             /\ i # call[c].id => Indices(i)' = Indices(i)
  BY IndicesSend
<1>4. (Indices(call[c].id))' = 0..(sent' - 1)
  <2>1. (Indices(call[c].id))' = Indices(call[c].id) \cup {k}
    BY <1>1, <1>3 DEF Indices
  <2>2. 0..(k - 1) \cup {k} = 0..((k + 1) - 1)
    OBVIOUS
  <2>. QED
    BY <1>1, <1>2, <2>1, <2>2
<1>5. ASSUME NEW d \in Client, pc'[d] = "action"
      PROVE  d = c
  BY <1>1, <1>5, OneInside DEF Inside, Waits
<1>6. \A d \in Client : pc'[d] # "idle" => pc[d] # "idle"
  BY <1>1
<1>7. ASSUME NEW d \in Client
      PROVE  (Indices(result[d].id))' = Indices(result[d].id)
  <2>1. result[d].id # call[c].id
    BY <1>1 DEF ReportInv, Pending
  <2>. QED
    BY <1>1, <1>3, <2>1 DEF Indices
<1>8. \A d \in Client : pc'[d] = "action" => (Indices(call[d].id))' = 0..(sent' - 1)
  BY <1>4, <1>5
<1>9. \A d, e \in Client : pc'[e] # "idle" => result'[d].id # call'[e].id
  BY <1>1, <1>6 DEF ReportInv, Pending
<1>10. ASSUME NEW d \in Client
       PROVE  /\ result'[d].id <= ops'
              /\ result'[d].effect = "NONE" =>
                  (Indices(result[d].id))' = 0..result'[d].completed \ {result'[d].completed}
              /\ result'[d].code \in {"ACTION_FAILED", "EFFECT_UNKNOWN"} =>
                  (Indices(result[d].id))' = 0..result'[d].completed
  BY <1>1, <1>7 DEF ReportInv
<1>. QED
  BY <1>8, <1>9, <1>10 DEF ReportInv, Pending


LEMMA EmptyRange == 0..0 \ {0} = {}
  OBVIOUS

LEMMA ReportStep ==
  ASSUME TypeOK, LockInv, CallInv, AdmittedInv, SentInv, ReportInv, [Next]_vars
  PROVE  ReportInv'
<1>1. ASSUME NEW c \in Client, NEW q \in Calls, Request(c, q)
     PROVE  ReportInv'
  <2>1. /\ pc' = [pc EXCEPT ![c] = "queued"]
        /\ pc[c] = "idle"
        /\ pc \in [Client -> Waits]
        /\ ops' = ops + 1 /\ ops \in Nat
        /\ call'[c].id = ops + 1
        /\ \A d \in Client \ {c} : call'[d] = call[d]
        /\ result \in [Client -> Results]
        /\ result' = [result EXCEPT ![c] = NoResult]
        /\ UNCHANGED <<attempts, sent>>
    BY <1>1 DEF Request, TypeOK, Calls
  <2>2. /\ NoResult.id = 0 /\ NoResult.effect = "NONE" /\ NoResult.completed = 0
        /\ NoResult.code = "ok"
    BY DEF NoResult
  <2>3. Indices(0) = {}
    BY IndicesIff DEF SentInv
  <2>4. \A d \in Client : result'[d] = IF d = c THEN NoResult ELSE result[d]
    BY <2>1
  <2>5. \A i : Indices(i)' = Indices(i)
    BY <2>1, IndicesSame
  <2>6. \A d \in Client : result'[d].id <= ops'
    BY <2>1, <2>2, <2>4 DEF ReportInv, Results
  <2>7. ASSUME NEW d \in Client, NEW e \in Client, pc'[e] # "idle"
        PROVE  result'[d].id # call'[e].id
    <3>1. call'[e].id \in 1..(ops + 1) /\ (e # c => call[e].id \in 1..ops)
      BY <2>1, <2>7 DEF CallInv, Pending
    <3>2. result[d].id <= ops /\ result[d].id \in Nat
      BY <2>1 DEF ReportInv, Results
    <3>. QED
      BY <2>1, <2>2, <2>4, <2>7, <3>1, <3>2 DEF ReportInv, Pending
  <2>8. ASSUME NEW d \in Client
        PROVE  /\ result'[d].effect = "NONE" =>
                    Indices(result'[d].id) = 0..result'[d].completed \ {result'[d].completed}
               /\ result'[d].code \in {"ACTION_FAILED", "EFFECT_UNKNOWN"} =>
                    Indices(result'[d].id) = 0..result'[d].completed
    BY <2>2, <2>3, <2>4, EmptyRange DEF ReportInv
  <2>9. ASSUME NEW d \in Client, pc'[d] = "action"
        PROVE  Indices(call'[d].id) = 0..(sent' - 1)
    BY <2>1, <2>9 DEF ReportInv
  <2>. QED
    BY <2>1, <2>5, <2>6, <2>7, <2>8, <2>9 DEF ReportInv, Pending, Indices
<1>2. ASSUME NEW c \in Client, RejectClosed(c)
     PROVE  ReportInv'
  BY <1>2, EmptyRange, IndicesNone, GrantedWaits, ReportAnswer, ReportSuspend, ReportSend DEF RejectClosed, Bookkeeping, Pending, Inside, Waits
<1>3. ASSUME NEW c \in Client, StartObserve(c)
     PROVE  ReportInv'
  BY <1>3, EmptyRange, IndicesNone, GrantedWaits, ReportAnswer, ReportSuspend, ReportSend DEF StartObserve, BeginCapture, Bookkeeping, Pending, Inside, Waits
<1>4. ASSUME NEW c \in Client, RejectExecute(c)
     PROVE  ReportInv'
  BY <1>4, EmptyRange, IndicesNone, GrantedWaits, ReportAnswer, ReportSuspend, ReportSend DEF RejectExecute, Preflight, Bookkeeping, Pending, Inside, Waits
<1>5. ASSUME NEW c \in Client, StartExecute(c)
     PROVE  ReportInv'
  BY <1>5, EmptyRange, IndicesNone, GrantedWaits, ReportAnswer, ReportSuspend, ReportSend DEF StartExecute, Send, Preflight, Bookkeeping, Pending, Inside, Waits
<1>6. ASSUME NEW c \in Client, Invalidate(c)
     PROVE  ReportInv'
  BY <1>6, EmptyRange, IndicesNone, GrantedWaits, ReportAnswer, ReportSuspend, ReportSend DEF Invalidate, Forget, Bookkeeping, Pending, Inside, Waits
<1>7. ASSUME NEW c \in Client, StartRecover(c)
     PROVE  ReportInv'
  BY <1>7, EmptyRange, IndicesNone, GrantedWaits, ReportAnswer, ReportSuspend, ReportSend DEF StartRecover, Forget, Bookkeeping, Pending, Inside, Waits
<1>8. ASSUME NEW c \in Client, StartClose(c)
     PROVE  ReportInv'
  BY <1>8, EmptyRange, IndicesNone, GrantedWaits, ReportAnswer, ReportSuspend, ReportSend DEF StartClose, Forget, Bookkeeping, Pending, Inside, Waits
<1>9. ASSUME NEW c \in Client, ObserveConnected(c)
     PROVE  ReportInv'
  BY <1>9, EmptyRange, IndicesNone, GrantedWaits, ReportAnswer, ReportSuspend, ReportSend DEF ObserveConnected, BeginCapture, Bookkeeping, Pending, Inside, Waits
<1>10. ASSUME NEW c \in Client, ObserveNotConnected(c)
     PROVE  ReportInv'
  BY <1>10, EmptyRange, IndicesNone, GrantedWaits, ReportAnswer, ReportSuspend, ReportSend DEF ObserveNotConnected, Bookkeeping, Pending, Inside, Waits
<1>11. ASSUME NEW c \in Client, Capture(c)
     PROVE  ReportInv'
  BY <1>11, EmptyRange, IndicesNone, GrantedWaits, ReportAnswer, ReportSuspend, ReportSend DEF Capture, Traffic, Bookkeeping, Pending, Inside, Waits
<1>12. ASSUME NEW c \in Client, CaptureFailed(c)
     PROVE  ReportInv'
  BY <1>12, EmptyRange, IndicesNone, GrantedWaits, ReportAnswer, ReportSuspend, ReportSend DEF CaptureFailed, Traffic, Bookkeeping, Pending, Inside, Waits
<1>13. ASSUME NEW c \in Client, ExecuteConnected(c)
     PROVE  ReportInv'
  BY <1>13, EmptyRange, IndicesNone, GrantedWaits, ReportAnswer, ReportSuspend, ReportSend DEF ExecuteConnected, Send, Bookkeeping, Pending, Inside, Waits
<1>14. ASSUME NEW c \in Client, ExecuteNotConnected(c)
     PROVE  ReportInv'
  BY <1>14, EmptyRange, IndicesNone, GrantedWaits, ReportAnswer, ReportSuspend, ReportSend DEF ExecuteNotConnected, Bookkeeping, Pending, Inside, Waits
<1>15. ASSUME NEW c \in Client, ActionDone(c)
     PROVE  ReportInv'
  <2>1. /\ sent \in Nat /\ sent # 0
        /\ pc[c] = "action" /\ pc[c] \in Inside
        /\ Indices(call[c].id) = 0..(sent - 1)
        /\ UNCHANGED ops
    BY <1>15 DEF ActionDone, AdmittedInv, TypeOK, ReportInv, Bookkeeping, Inside, Waits
  <2>2. CASE Send(c, sent)
    BY <2>1, <2>2, ReportSend
  <2>3. CASE Answer(c, "ok", "NONE", sent) /\ UNCHANGED attempts
    <3>1. 0..(sent - 1) = 0..sent \ {sent}
      BY <2>1
    <3>. QED
      BY <2>1, <2>3, <3>1, ReportAnswer
  <2>. QED
    BY <1>15, <2>2, <2>3 DEF ActionDone
<1>16. ASSUME NEW c \in Client, ActionFailed(c)
     PROVE  ReportInv'
  <2>1. /\ sent \in Nat /\ sent # 0
        /\ pc[c] \in Inside
        /\ Indices(call[c].id) = 0..(sent - 1)
        /\ UNCHANGED <<ops, attempts>>
    BY <1>16 DEF ActionFailed, AdmittedInv, TypeOK, ReportInv, Bookkeeping, Inside, Waits
  <2>. QED
    BY <1>16, <2>1, ReportAnswer DEF ActionFailed
<1>17. ASSUME NEW c \in Client, Recreated(c)
     PROVE  ReportInv'
  BY <1>17, EmptyRange, IndicesNone, GrantedWaits, ReportAnswer, ReportSuspend, ReportSend DEF Recreated, Bookkeeping, Pending, Inside, Waits
<1>18. ASSUME NEW c \in Client, TransportClosed(c)
     PROVE  ReportInv'
  BY <1>18, EmptyRange, IndicesNone, GrantedWaits, ReportAnswer, ReportSuspend, ReportSend DEF TransportClosed, Bookkeeping, Pending, Inside, Waits
<1>19. ASSUME NEW c \in Client, CancelWaiter(c)
     PROVE  ReportInv'
  <2>1. /\ pc' = [pc EXCEPT ![c] = "idle"]
        /\ pc[c] = "queued"
        /\ call' = [call EXCEPT ![c] = NoCall]
        /\ pc \in [Client -> Waits] /\ call \in [Client -> Calls]
        /\ result \in [Client -> Results]
        /\ UNCHANGED <<ops, attempts, sent>>
    BY <1>19 DEF CancelWaiter, TypeOK
  <2>2. /\ result'[c].id = call[c].id /\ result'[c].code = "cancelled"
        /\ result'[c].effect = "UNKNOWN"
        /\ \A d \in Client \ {c} : result'[d] = result[d]
    BY <1>19, <2>1 DEF CancelWaiter
  <2>3. \A d \in Client : result'[d].id <= ops'
    BY <2>1, <2>2 DEF ReportInv, CallInv, Pending
  <2>4. \A d, e \in Client : pc'[e] # "idle" => result'[d].id # call'[e].id
    BY <2>1, <2>2 DEF ReportInv, CallInv, Pending
  <2>5. ASSUME NEW d \in Client
        PROVE  /\ result'[d].effect = "NONE" =>
                    Indices(result'[d].id) = 0..result'[d].completed \ {result'[d].completed}
               /\ result'[d].code \in {"ACTION_FAILED", "EFFECT_UNKNOWN"} =>
                    Indices(result'[d].id) = 0..result'[d].completed
    BY <2>1, <2>2 DEF ReportInv
  <2>6. ASSUME NEW d \in Client, pc'[d] = "action"
        PROVE  Indices(call'[d].id) = 0..(sent' - 1)
    BY <2>1, <2>6 DEF ReportInv
  <2>. QED
    BY <2>1, <2>3, <2>4, <2>5, <2>6 DEF ReportInv, Pending, Indices
<1>20. ASSUME NEW c \in Client, CancelHolder(c)
     PROVE  ReportInv'
  <2>1. /\ Answer(c, "cancelled", "UNKNOWN", 0)
        /\ pc[c] \in Inside
        /\ UNCHANGED <<ops, attempts>>
    BY <1>20 DEF CancelHolder
  <2>. QED
    BY <2>1, ReportAnswer
<1>21. ASSUME PlumbingLost
     PROVE  ReportInv'
  BY <1>21 DEF PlumbingLost, Bookkeeping, ReportInv, Pending, Indices
<1>22. CASE UNCHANGED vars
  BY <1>22 DEF vars, ReportInv, Pending, Indices
<1>. QED
  BY RequestCases, <1>1, <1>2, <1>3, <1>4, <1>5, <1>6, <1>7, <1>8, <1>9, <1>10, <1>11, <1>12, <1>13, <1>14, <1>15, <1>16, <1>17, <1>18, <1>19, <1>20, <1>21, <1>22 DEF Next, Operate, Resume

-----------------------------------------------------------------------------
(* The inductive invariant. *)

LEMMA InvInit == Init => IInv
<1>. SUFFICES ASSUME Init
              PROVE  IInv
  OBVIOUS
<1>1. NoResult \in Results /\ NoCall \in Calls
  BY NoCallType DEF NoResult, Results, Codes, Effects
<1>2. TypeOK
  <2>1. closed \in BOOLEAN /\ plumbing \in {"down", "up", "closed"}
    BY DEF Init
  <2>2. {current, observation, issued, sent, ops, cancels} \subseteq Nat
    BY DEF Init, NoRev
  <2>3. lastError \in Codes /\ lock \in Client \cup {Free}
    BY DEF Init, Codes
  <2>4. pc \in [Client -> Waits]
    BY DEF Init, Waits
  <2>5. call \in [Client -> Calls] /\ result \in [Client -> Results]
    BY <1>1 DEF Init
  <2>6. attempts \subseteq Attempt /\ interrupted \subseteq Nat
    BY DEF Init
  <2>. QED
    BY <2>1, <2>2, <2>3, <2>4, <2>5, <2>6 DEF TypeOK
<1>3. \A i : Indices(i) = {}
  BY DEF Init, Indices
<1>4. ReportInv
  BY <1>3, EmptyRange DEF Init, ReportInv, Pending, NoResult
<1>. QED
  BY <1>2, <1>4, FreeAssumption
  DEF Init, IInv, LockInv, CallInv, AdmittedInv, ClosedInv, SentInv,
      OneBatchPerRevision, Pending, Inside, Waits, NoRev

LEMMA InvStep == IInv /\ [Next]_vars => IInv'
<1>. SUFFICES ASSUME IInv, [Next]_vars
              PROVE  IInv'
  OBVIOUS
<1>1. TypeOK' /\ LockInv' /\ CallInv' /\ AdmittedInv'
  BY TypeStep, LockStep, CallStep, AdmittedStep DEF IInv
<1>2. ClosedInv'
  BY ClosedStep DEF IInv
<1>3. SentInv'
  BY <1>1, SentStep DEF IInv
<1>4. OneBatchPerRevision'
  BY <1>1, <1>3, OneBatchStep DEF IInv
<1>5. ReportInv'
  BY ReportStep DEF IInv
<1>. QED
  BY <1>1, <1>2, <1>3, <1>4, <1>5 DEF IInv

LEMMA Invariance == Spec => []IInv
  BY InvInit, InvStep, PTL DEF Spec

\* The fields of the Runtime, the suspended tasks and the answers keep their types.
THEOREM TypeCorrect == Spec => []TypeOK
<1>1. IInv => TypeOK
  BY DEF IInv
<1>. QED
  BY <1>1, Invariance, PTL

\* Whatever the interleaving of the callers, a revision admits a second batch only
\* if the first was cancelled while an action of its was with the device.
THEOREM OneBatch == Spec => []OneBatchPerRevision
<1>1. IInv => OneBatchPerRevision
  BY DEF IInv
<1>. QED
  BY <1>1, Invariance, PTL

\* What execute() answers is exactly what the device was sent: nothing for a
\* failure that may be retried, and nothing beyond the action that failed.
THEOREM ReportCorrect == Spec => []ReportMatchesDevice
<1>1. IInv => ReportMatchesDevice
  BY DEF IInv, ReportInv, ReportMatchesDevice
<1>. QED
  BY <1>1, Invariance, PTL

\* No action reaches the device once close() has begun.
THEOREM NothingAfterCloseCorrect == Spec => NothingAfterClose
<1>1. ASSUME IInv, [Next]_vars, closed
      PROVE  attempts' = attempts
  <2>. USE <1>1 DEF IInv, ClosedInv, Bookkeeping
  <2>1. ASSUME NEW c \in Client, ExecuteConnected(c) \/ ActionDone(c) \/ StartExecute(c)
        PROVE  FALSE
    BY <2>1 DEF ExecuteConnected, ActionDone, StartExecute
  <2>2. ASSUME NEW c \in Client, Operate(c) \/ Resume(c)
        PROVE  attempts' = attempts
    BY <2>1, <2>2 DEF Operate, Resume, RejectClosed, StartObserve, RejectExecute,
       Invalidate, StartRecover, StartClose, ObserveConnected, ObserveNotConnected,
       Capture, CaptureFailed, ExecuteNotConnected, ActionFailed, Recreated, TransportClosed
  <2>3. ASSUME NEW c \in Client, CancelWaiter(c) \/ CancelHolder(c)
        PROVE  attempts' = attempts
    BY <2>3 DEF CancelWaiter, CancelHolder
  <2>4. ASSUME NEW c \in Client, NEW q \in Calls, Request(c, q)
        PROVE  attempts' = attempts
    BY <2>4 DEF Request
  <2>5. CASE PlumbingLost
    BY <2>5 DEF PlumbingLost
  <2>6. CASE UNCHANGED vars
    BY <2>6 DEF vars
  <2>. QED
    BY <2>2, <2>3, <2>4, <2>5, <2>6, RequestCases DEF Next
<1>2. IInv /\ [Next]_vars => [closed => attempts' = attempts]_vars
  BY <1>1
<1>. QED
  BY <1>2, Invariance, PTL DEF Spec, NothingAfterClose

\* No batch starts while a call made before it still waits.
THEOREM InCallOrderCorrect == Spec => InCallOrder
<1>1. ASSUME IInv, [Next]_vars, NEW a \in attempts' \ attempts, NEW c \in Client,
             pc[c] = "queued"
      PROVE  a.id <= call[c].id
  <2>1. ASSUME NEW d \in Client, NEW k \in Nat, Send(d, k), Granted(d) \/ pc[d] \in Inside
        PROVE  a.id <= call[c].id
    <3>1. a.id = call[d].id
      BY <2>1 DEF Send
    <3>2. call[d].id \in Nat /\ call[c].id \in Nat
      BY <1>1 DEF IInv, TypeOK, Calls
    <3>3. call[d].id <= call[c].id
      BY <1>1, <2>1, <3>2 DEF Granted, IInv, CallInv
    <3>. QED
      BY <3>1, <3>3
  <2>2. sent \in Nat
    BY <1>1 DEF IInv, TypeOK
  <2>3. ASSUME NEW d \in Client, Operate(d) \/ Resume(d)
        PROVE  a.id <= call[c].id
    <3>1. CASE StartExecute(d)
      BY <1>1, <2>1, <3>1 DEF StartExecute
    <3>2. CASE ExecuteConnected(d)
      BY <1>1, <2>1, <3>2 DEF ExecuteConnected, Inside, Waits
    <3>3. CASE ActionDone(d)
      BY <1>1, <2>1, <2>2, <3>3 DEF ActionDone, Inside, Waits
    <3>4. CASE RejectClosed(d) \/ StartObserve(d) \/ RejectExecute(d) \/ Invalidate(d)
               \/ StartRecover(d) \/ StartClose(d)
      BY <1>1, <3>4 DEF RejectClosed, StartObserve, RejectExecute, Invalidate,
         StartRecover, StartClose
    <3>5. CASE ObserveConnected(d) \/ ObserveNotConnected(d) \/ Capture(d)
               \/ CaptureFailed(d) \/ ExecuteNotConnected(d)
      BY <1>1, <3>5 DEF ObserveConnected, ObserveNotConnected, Capture, CaptureFailed,
         ExecuteNotConnected
    <3>6. CASE ActionFailed(d) \/ Recreated(d) \/ TransportClosed(d)
      BY <1>1, <3>6 DEF ActionFailed, Recreated, TransportClosed
    <3>. QED
      BY <2>3, <3>1, <3>2, <3>3, <3>4, <3>5, <3>6 DEF Operate, Resume
  <2>4. ASSUME NEW d \in Client, CancelWaiter(d) \/ CancelHolder(d)
        PROVE  a.id <= call[c].id
    BY <1>1, <2>4 DEF CancelWaiter, CancelHolder
  <2>5. ASSUME NEW d \in Client, NEW q \in Calls, Request(d, q)
        PROVE  a.id <= call[c].id
    BY <1>1, <2>5 DEF Request
  <2>6. CASE PlumbingLost
    BY <1>1, <2>6 DEF PlumbingLost
  <2>7. CASE UNCHANGED vars
    BY <1>1, <2>7 DEF vars
  <2>. QED
    BY <1>1, <2>3, <2>4, <2>5, <2>6, <2>7, RequestCases DEF Next, IInv
<1>2. IInv /\ [Next]_vars =>
        [\A a \in attempts' \ attempts, c \in Client :
           pc[c] = "queued" => a.id <= call[c].id]_vars
  BY <1>1
<1>. QED
  BY <1>2, Invariance, PTL DEF Spec, InCallOrder

-----------------------------------------------------------------------------
(* The refinement of RevisionGate. *)

\* A batch at the device acts under the current revision; it is none of those that
\* were cancelled there.
SpentInv ==
  /\ interrupted \subseteq 1..ops
  /\ \A c \in Client : Pending(c) => call[c].id \notin interrupted
  /\ \A a \in attempts, c \in Client :
       pc[c] = "action" /\ a.id = call[c].id => a.rev = current

LEMMA SpentByBatch ==
  ASSUME IInv, SpentInv, NEW c \in Client, pc[c] = "action"
  PROVE  /\ current \in Spent
         /\ \A a \in attempts : a.id = call[c].id => a.rev = current
<1>1. 0 \in Indices(call[c].id)
  BY DEF IInv, ReportInv, AdmittedInv, TypeOK, Calls
<1>2. PICK a \in attempts : a.id = call[c].id
  BY <1>1 DEF Indices
<1>. QED
  BY <1>2 DEF SpentInv, Pending, Spent

\* The lane is empty while a task runs that is not at the device, and stays empty
\* unless the task goes there.
LEMMA LaneEmpty ==
  ASSUME IInv, NEW c \in Client, Granted(c) \/ pc[c] \in Inside \ {"action"}
  PROVE  ~Busy
  BY FreeAssumption DEF IInv, LockInv, Granted, Busy, Inside, Waits

LEMMA LaneOfTask ==
  ASSUME IInv, NEW c \in Client, NEW w \in Waits, pc' = [pc EXCEPT ![c] = w],
         ~Busy \/ pc[c] = "action"
  PROVE  Busy' <=> w = "action"
<1>1. \A d \in Client \ {c} : pc[d] # "action"
  BY DEF IInv, LockInv, Busy, Inside, Waits
<1>2. \A d \in Client : pc'[d] = IF d = c THEN w ELSE pc[d]
  BY DEF IInv, TypeOK
<1>. QED
  BY <1>1, <1>2 DEF Busy

Untouched == UNCHANGED <<closed, current, issued, attempts, interrupted>>

\* A step that leaves the lane as it was and what the gate knows untouched.
LEMMA GateStutter ==
  ASSUME Busy' <=> Busy, Untouched
  PROVE  UNCHANGED Gate!gateVars
  BY DEF Untouched, Gate!gateVars, Spent

\* A batch enters: the revision is a key that has not been spent.
LEMMA GateEnter ==
  ASSUME IInv, SpentInv, NEW c \in Client, Pending(c), ~Busy, Busy', Send(c, 0),
         call[c].rev = current, current # NoRev,
         UNCHANGED <<closed, current, issued, interrupted>>
  PROVE  Gate!Enter
<1>1. current \notin Spent
  BY DEF IInv, SentInv, Spent, Busy
<1>2. Spent' = Spent \cup {current}
  <2>1. PICK e : e.rev = current /\ e.id = call[c].id /\ attempts' = attempts \cup {e}
    BY DEF Send
  <2>2. e.id \notin interrupted
    BY <2>1 DEF SpentInv
  <2>. QED
    BY <2>1, <2>2 DEF Spent
<1>. QED
  BY <1>1, <1>2 DEF Gate!Enter, NoRev

\* A cancelled batch leaves its revision behind: what was sent under it was sent by
\* this batch or by one cancelled before.
LEMMA GateTearOut ==
  ASSUME IInv, SpentInv, NEW c \in Client, pc[c] = "action", CancelHolder(c)
  PROVE  Gate!TearOut
<1>1. Busy /\ current # NoRev
  BY DEF Busy, IInv, AdmittedInv
<1>2. ~Busy'
  BY LaneOfTask DEF CancelHolder, Answer, Waits
<1>3. attempts' = attempts /\ interrupted' = interrupted \cup {call[c].id}
  BY DEF CancelHolder
<1>4. \A a \in attempts : a.rev = current => a.id \in interrupted'
  <2>1. \A d \in Client : pc[d] = "action" => d = c
    BY DEF IInv, LockInv, Inside, Waits
  <2>. QED
    BY <1>3, <2>1 DEF IInv, SentInv
<1>5. \A a \in attempts : a.id = call[c].id => a.rev = current
  BY SpentByBatch
<1>6. Spent' = Spent \ {current}
  BY <1>3, <1>4, <1>5 DEF Spent
<1>. QED
  BY <1>1, <1>2, <1>6 DEF Gate!TearOut, CancelHolder, NoRev

LEMMA GateStep ==
  ASSUME IInv, SpentInv, [Next]_vars
  PROVE  [Gate!Next]_Gate!gateVars
<1>1. ASSUME NEW c \in Client, NEW q \in Calls, Request(c, q)
      PROVE  UNCHANGED Gate!gateVars
  <2>1. Busy' <=> Busy
    BY <1>1 DEF Request, Busy, IInv, TypeOK
  <2>. QED
    BY <1>1, <2>1, GateStutter DEF Request, Untouched
<1>2. ASSUME NEW c \in Client,
             RejectClosed(c) \/ RejectExecute(c) \/ StartObserve(c)
      PROVE  UNCHANGED Gate!gateVars
  <2>1. ~Busy
    BY <1>2, LaneEmpty DEF RejectClosed, RejectExecute, StartObserve
  <2>2. \E w \in Waits \ {"action"} : pc' = [pc EXCEPT ![c] = w]
    BY <1>2 DEF RejectClosed, RejectExecute, StartObserve, BeginCapture, Answer, Suspend, Waits
  <2>3. ~Busy'
    BY <2>1, <2>2, LaneOfTask
  <2>4. Untouched
    BY <1>2 DEF RejectClosed, RejectExecute, StartObserve, Untouched, Bookkeeping
  <2>. QED
    BY <2>1, <2>3, <2>4, GateStutter
<1>3. ASSUME NEW c \in Client,
             ObserveConnected(c) \/ ObserveNotConnected(c) \/ CaptureFailed(c)
               \/ ExecuteNotConnected(c)
      PROVE  UNCHANGED Gate!gateVars
  <2>1. ~Busy
    BY <1>3, LaneEmpty DEF ObserveConnected, ObserveNotConnected, CaptureFailed,
       ExecuteNotConnected, Inside, Waits
  <2>2. \E w \in Waits \ {"action"} : pc' = [pc EXCEPT ![c] = w]
    BY <1>3 DEF ObserveConnected, ObserveNotConnected, CaptureFailed,
       ExecuteNotConnected, BeginCapture, Answer, Suspend, Waits
  <2>3. ~Busy'
    BY <2>1, <2>2, LaneOfTask
  <2>4. Untouched
    BY <1>3 DEF ObserveConnected, ObserveNotConnected, CaptureFailed,
       ExecuteNotConnected, Untouched, Bookkeeping
  <2>. QED
    BY <2>1, <2>3, <2>4, GateStutter
<1>4. ASSUME NEW c \in Client, Recreated(c) \/ TransportClosed(c)
      PROVE  UNCHANGED Gate!gateVars
  <2>1. ~Busy
    BY <1>4, LaneEmpty DEF Recreated, TransportClosed, Inside, Waits
  <2>2. pc' = [pc EXCEPT ![c] = "idle"]
    BY <1>4 DEF Recreated, TransportClosed, Answer
  <2>3. ~Busy'
    BY <2>1, <2>2, LaneOfTask DEF Waits
  <2>4. Untouched
    BY <1>4 DEF Recreated, TransportClosed, Untouched, Bookkeeping
  <2>. QED
    BY <2>1, <2>3, <2>4, GateStutter
<1>5. ASSUME NEW c \in Client, Capture(c)
      PROVE  Gate!Make
  <2>1. ~Busy /\ ~closed
    BY <1>5, LaneEmpty DEF Capture, IInv, ClosedInv, Inside, Waits
  <2>2. pc' = [pc EXCEPT ![c] = "idle"]
    BY <1>5 DEF Capture, Answer
  <2>3. ~Busy'
    BY <2>1, <2>2, LaneOfTask DEF Waits
  <2>. QED
    BY <1>5, <2>1, <2>3 DEF Capture, Gate!Make, NoRev, Spent, Bookkeeping
<1>6. ASSUME NEW c \in Client, StartExecute(c)
      PROVE  Gate!Enter \/ UNCHANGED Gate!gateVars
  <2>1. ~Busy
    BY <1>6, LaneEmpty DEF StartExecute
  <2>2. call[c].rev = current /\ current # NoRev /\ Pending(c)
    BY <1>6 DEF StartExecute, Preflight, Granted, Pending
  <2>3. CASE Send(c, 0)
    <3>1. Busy'
      BY <2>1, <2>3, LaneOfTask DEF Send, Suspend, Waits
    <3>. QED
      BY <1>6, <2>1, <2>2, <2>3, <3>1, GateEnter DEF StartExecute, Bookkeeping
  <2>4. CASE Suspend(c, "execute_connect") /\ UNCHANGED <<sent, attempts>>
    <3>1. ~Busy'
      BY <2>1, <2>4, LaneOfTask DEF Suspend, Waits
    <3>. QED
      BY <1>6, <2>1, <2>4, <3>1, GateStutter DEF StartExecute, Bookkeeping, Untouched
  <2>. QED
    BY <1>6, <2>3, <2>4 DEF StartExecute
<1>7. ASSUME NEW c \in Client, ExecuteConnected(c)
      PROVE  Gate!Enter
  <2>1. ~Busy
    BY <1>7, LaneEmpty DEF ExecuteConnected, Inside, Waits
  <2>2. call[c].rev = current /\ current # NoRev /\ Pending(c)
    BY <1>7 DEF ExecuteConnected, IInv, AdmittedInv, Pending
  <2>3. Busy'
    BY <1>7, <2>1, LaneOfTask DEF ExecuteConnected, Send, Suspend, Waits
  <2>. QED
    BY <1>7, <2>1, <2>2, <2>3, GateEnter DEF ExecuteConnected, Bookkeeping
<1>8. ASSUME NEW c \in Client, ActionDone(c) \/ ActionFailed(c)
      PROVE  Gate!Leave \/ UNCHANGED Gate!gateVars
  <2>1. pc[c] = "action" /\ Busy
    BY <1>8 DEF ActionDone, ActionFailed, Busy
  <2>2. call[c].rev = current /\ current # NoRev
    BY <2>1 DEF IInv, AdmittedInv
  <2>3. CASE Send(c, sent) /\ UNCHANGED <<closed, current, issued, interrupted>>
    <3>1. Busy'
      BY <2>1, <2>3, LaneOfTask DEF Send, Suspend, Waits
    <3>2. Spent' = Spent
      <4>1. PICK e : e.rev = current /\ attempts' = attempts \cup {e}
        BY <2>2, <2>3 DEF Send
      <4>. QED
        BY <2>1, <2>3, <4>1, SpentByBatch DEF Spent
    <3>. QED
      BY <2>1, <2>3, <3>1, <3>2 DEF Gate!gateVars
  <2>4. CASE /\ pc' = [pc EXCEPT ![c] = "idle"]
             /\ current' = NoRev
             /\ UNCHANGED <<closed, issued, attempts, interrupted>>
    <3>1. ~Busy'
      BY <2>1, <2>4, LaneOfTask DEF Waits
    <3>. QED
      BY <2>1, <2>2, <2>4, <3>1 DEF Gate!Leave, NoRev, Spent
  <2>. QED
    BY <1>8, <2>3, <2>4 DEF ActionDone, ActionFailed, Answer, Forget, Bookkeeping
<1>9. ASSUME NEW c \in Client, Invalidate(c) \/ StartRecover(c)
      PROVE  Gate!Drop
  <2>1. ~Busy
    BY <1>9, LaneEmpty DEF Invalidate, StartRecover
  <2>2. \E w \in Waits \ {"action"} : pc' = [pc EXCEPT ![c] = w]
    BY <1>9 DEF Invalidate, StartRecover, Answer, Suspend, Waits
  <2>3. ~Busy'
    BY <2>1, <2>2, LaneOfTask
  <2>. QED
    BY <1>9, <2>1, <2>3
    DEF Invalidate, StartRecover, Forget, Bookkeeping, Gate!Drop, NoRev, Spent
<1>10. ASSUME NEW c \in Client, StartClose(c)
       PROVE  Gate!Shut \/ UNCHANGED Gate!gateVars
  <2>1. ~Busy
    BY <1>10, LaneEmpty DEF StartClose
  <2>2. \E w \in Waits \ {"action"} : pc' = [pc EXCEPT ![c] = w]
    BY <1>10 DEF StartClose, Answer, Suspend, Waits
  <2>3. ~Busy'
    BY <2>1, <2>2, LaneOfTask
  <2>4. CASE closed' /\ current' = NoRev /\ UNCHANGED <<issued, attempts, interrupted>>
    BY <2>1, <2>3, <2>4, <1>10 DEF Gate!Shut, NoRev, StartClose, Spent
  <2>5. CASE Untouched
    BY <2>1, <2>3, <2>5, GateStutter
  <2>. QED
    BY <1>10, <2>4, <2>5 DEF StartClose, Forget, Untouched, Bookkeeping
<1>11. ASSUME NEW c \in Client, CancelWaiter(c) \/ (CancelHolder(c) /\ pc[c] # "action")
       PROVE  UNCHANGED Gate!gateVars
  <2>1. pc[c] # "action" /\ pc' = [pc EXCEPT ![c] = "idle"]
    BY <1>11 DEF CancelWaiter, CancelHolder, Answer
  <2>2. Busy' <=> Busy
    BY <2>1 DEF Busy, IInv, TypeOK
  <2>3. Untouched
    BY <1>11 DEF CancelWaiter, CancelHolder, Untouched
  <2>. QED
    BY <2>2, <2>3, GateStutter
<1>12. CASE PlumbingLost
  BY <1>12, GateStutter DEF PlumbingLost, Bookkeeping, Busy, Untouched
<1>13. CASE UNCHANGED vars
  BY <1>13, GateStutter DEF vars, Busy, Untouched
<1>. QED
  BY RequestCases, <1>1, <1>2, <1>3, <1>4, <1>5, <1>6, <1>7, <1>8, <1>9, <1>10, <1>11,
     <1>12, <1>13, GateTearOut
  DEF Next, Operate, Resume, IInv, Gate!Next

\* A step of one task that sends nothing.
LEMMA SpentKept ==
  ASSUME IInv, SpentInv, NEW c \in Client, NEW w \in Waits,
         Granted(c) \/ pc[c] \in Inside, w # "action",
         pc' = [pc EXCEPT ![c] = w],
         \A d \in Client : call'[d] = call[d] \/ pc'[d] = "idle",
         UNCHANGED <<ops, attempts, interrupted>>
  PROVE  SpentInv'
<1>1. \A d \in Client : pc'[d] = IF d = c THEN w ELSE pc[d]
  BY DEF IInv, TypeOK
<1>2. \A d \in Client : pc'[d] # "action"
  BY <1>1, FreeAssumption DEF IInv, LockInv, Granted, Inside, Waits
<1>3. \A d \in Client : Pending(d)' => Pending(d) /\ call'[d] = call[d]
  BY <1>1, FreeAssumption DEF Pending, Granted, Inside
<1>. QED
  BY <1>2, <1>3 DEF SpentInv

\* A step that hands an action to the device.
LEMMA SpentSend ==
  ASSUME IInv, SpentInv, NEW c \in Client, NEW k, Pending(c), Send(c, k),
         \A d \in Client : pc[d] = "action" => d = c,
         call[c].rev = current, UNCHANGED <<ops, interrupted, current>>
  PROVE  SpentInv'
<1>1. PICK e : e.rev = current /\ e.id = call[c].id /\ attempts' = attempts \cup {e}
  BY DEF Send
<1>2. pc' = [pc EXCEPT ![c] = "action"] /\ call' = call
  BY DEF Send, Suspend
<1>3. \A d \in Client : pc'[d] = "action" => d = c
  BY <1>2 DEF IInv, TypeOK
<1>4. \A d \in Client : Pending(d)' => Pending(d)
  BY <1>2 DEF Pending, IInv, TypeOK
<1>5. \A a \in attempts : a.id = call[c].id => a.rev = current
  BY DEF SpentInv, IInv, SentInv
<1>. QED
  BY <1>1, <1>2, <1>3, <1>4, <1>5 DEF SpentInv

LEMMA SpentStep ==
  ASSUME IInv, SpentInv, [Next]_vars
  PROVE  SpentInv'
<1>1. ASSUME NEW c \in Client, NEW q \in Calls, Request(c, q)
      PROVE  SpentInv'
  <2>1. /\ pc' = [pc EXCEPT ![c] = "queued"] /\ ops' = ops + 1
        /\ call' = [call EXCEPT ![c] = [q EXCEPT !.id = ops + 1]]
        /\ UNCHANGED <<attempts, interrupted, current>>
    BY <1>1 DEF Request
  <2>2. call'[c].id = ops + 1 /\ \A d \in Client \ {c} : call'[d] = call[d] /\ pc'[d] = pc[d]
    BY <2>1 DEF IInv, TypeOK, Calls
  <2>3. ops \in Nat /\ ops + 1 \notin interrupted /\ interrupted \subseteq 1..(ops + 1)
    BY DEF IInv, TypeOK, SpentInv
  <2>4. pc'[c] = "queued"
    BY <2>1 DEF IInv, TypeOK
  <2>. QED
    BY <2>1, <2>2, <2>3, <2>4 DEF SpentInv, Pending
<1>2. ASSUME NEW c \in Client,
             RejectClosed(c) \/ RejectExecute(c) \/ StartObserve(c) \/ Invalidate(c)
               \/ StartRecover(c) \/ StartClose(c)
      PROVE  SpentInv'
  <2>1. Granted(c) /\ UNCHANGED <<ops, attempts, interrupted>>
    BY <1>2 DEF RejectClosed, RejectExecute, StartObserve, Invalidate, StartRecover,
       StartClose, Bookkeeping
  <2>2. PICK w \in Waits \ {"action"} :
          /\ pc' = [pc EXCEPT ![c] = w]
          /\ call' = call \/ (w = "idle" /\ call' = [call EXCEPT ![c] = NoCall])
    BY <1>2 DEF RejectClosed, RejectExecute, StartObserve, Invalidate, StartRecover,
       StartClose, BeginCapture, Answer, Suspend, Waits
  <2>3. \A d \in Client : call'[d] = call[d] \/ pc'[d] = "idle"
    BY <2>2 DEF IInv, TypeOK
  <2>. QED
    BY <2>1, <2>2, <2>3, SpentKept
<1>3. ASSUME NEW c \in Client,
             ObserveConnected(c) \/ ObserveNotConnected(c) \/ Capture(c) \/ CaptureFailed(c)
               \/ ExecuteNotConnected(c) \/ Recreated(c) \/ TransportClosed(c)
      PROVE  SpentInv'
  <2>1. pc[c] \in Inside /\ UNCHANGED <<ops, attempts, interrupted>>
    BY <1>3 DEF ObserveConnected, ObserveNotConnected, Capture, CaptureFailed,
       ExecuteNotConnected, Recreated, TransportClosed, Bookkeeping, Inside, Waits
  <2>2. PICK w \in Waits \ {"action"} :
          /\ pc' = [pc EXCEPT ![c] = w]
          /\ call' = call \/ (w = "idle" /\ call' = [call EXCEPT ![c] = NoCall])
    BY <1>3 DEF ObserveConnected, ObserveNotConnected, Capture, CaptureFailed,
       ExecuteNotConnected, Recreated, TransportClosed, BeginCapture, Answer, Suspend, Waits
  <2>3. \A d \in Client : call'[d] = call[d] \/ pc'[d] = "idle"
    BY <2>2 DEF IInv, TypeOK
  <2>. QED
    BY <2>1, <2>2, <2>3, SpentKept
<1>4. ASSUME NEW c \in Client, StartExecute(c) \/ ExecuteConnected(c)
      PROVE  SpentInv'
  <2>1. /\ Granted(c) \/ pc[c] \in Inside
        /\ ~Busy /\ Pending(c) /\ call[c].rev = current /\ UNCHANGED <<ops, interrupted, current>>
    BY <1>4, LaneEmpty DEF StartExecute, ExecuteConnected, Preflight, Granted, Pending,
       Inside, Waits, Bookkeeping, IInv, AdmittedInv
  <2>2. CASE Send(c, 0)
    BY <2>1, <2>2, SpentSend DEF Busy
  <2>3. CASE Suspend(c, "execute_connect") /\ UNCHANGED attempts
    <3>1. "execute_connect" \in Waits /\ pc' = [pc EXCEPT ![c] = "execute_connect"]
            /\ call' = call
      BY <2>3 DEF Suspend, Waits
    <3>. QED
      BY <2>1, <2>3, <3>1, SpentKept
  <2>. QED
    BY <1>4, <2>2, <2>3 DEF StartExecute, ExecuteConnected
<1>5. ASSUME NEW c \in Client, ActionDone(c) \/ ActionFailed(c)
      PROVE  SpentInv'
  <2>1. pc[c] = "action" /\ UNCHANGED <<ops, interrupted>>
    BY <1>5 DEF ActionDone, ActionFailed, Bookkeeping
  <2>2. \A d \in Client : pc[d] = "action" => d = c
    BY <2>1 DEF IInv, LockInv, Inside, Waits
  <2>3. CASE Send(c, sent) /\ UNCHANGED current
    BY <2>1, <2>2, <2>3, SpentSend DEF IInv, AdmittedInv, Pending
  <2>4. CASE /\ pc' = [pc EXCEPT ![c] = "idle"]
             /\ call' = [call EXCEPT ![c] = NoCall]
             /\ UNCHANGED attempts
    <3>1. \A d \in Client : call'[d] = call[d] \/ pc'[d] = "idle"
      BY <2>4 DEF IInv, TypeOK
    <3>. QED
      BY <2>1, <2>4, <3>1, SpentKept DEF Inside, Waits
  <2>. QED
    BY <1>5, <2>3, <2>4 DEF ActionDone, ActionFailed, Answer, Forget, Bookkeeping
<1>6. ASSUME NEW c \in Client, CancelWaiter(c) \/ CancelHolder(c)
      PROVE  SpentInv'
  <2>1. /\ pc' = [pc EXCEPT ![c] = "idle"] /\ call' = [call EXCEPT ![c] = NoCall]
        /\ Pending(c) /\ UNCHANGED <<ops, attempts, current>>
        /\ interrupted' \in {interrupted, interrupted \cup {call[c].id}}
    BY <1>6 DEF CancelWaiter, CancelHolder, Answer, Pending, Inside
  <2>2. \A d \in Client : pc'[d] = IF d = c THEN "idle" ELSE pc[d]
    BY <2>1 DEF IInv, TypeOK
  <2>3. \A d \in Client : Pending(d)' => /\ d # c /\ Pending(d) /\ pc'[d] = pc[d]
                                        /\ call'[d] = call[d] /\ call[d].id # call[c].id
    BY <2>1, <2>2 DEF Pending, IInv, CallInv, TypeOK
  <2>4. call[c].id \in 1..ops
    BY <2>1 DEF IInv, CallInv
  <2>5. \A d \in Client : pc'[d] = "action" => Pending(d)'
    BY DEF Pending
  <2>. QED
    BY <2>1, <2>3, <2>4, <2>5 DEF SpentInv
<1>7. CASE PlumbingLost
  BY <1>7 DEF PlumbingLost, Bookkeeping, SpentInv, Pending
<1>8. CASE UNCHANGED vars
  BY <1>8 DEF vars, SpentInv, Pending
<1>. QED
  BY RequestCases, <1>1, <1>2, <1>3, <1>4, <1>5, <1>6, <1>7, <1>8
  DEF Next, Operate, Resume, IInv

\* The Runtime implements the gate.
THEOREM GateImplemented == Spec => ImplementsGate
<1>1. Init => Gate!Init
  BY DEF Init, Gate!Init, Busy, NoRev, Spent
<1>2. Init => SpentInv
  BY DEF Init, SpentInv, Pending
<1>3. IInv /\ SpentInv /\ [Next]_vars => SpentInv'
  BY SpentStep
<1>4. IInv /\ SpentInv /\ [Next]_vars => [Gate!Next]_Gate!gateVars
  BY GateStep
<1>. QED
  BY <1>1, <1>2, <1>3, <1>4, Invariance, PTL DEF Spec, ImplementsGate, Gate!Spec

=============================================================================
