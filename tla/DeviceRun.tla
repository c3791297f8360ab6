----------------------------- MODULE DeviceRun -----------------------------
(***************************************************************************)
(* The device runs under scripts/.  In most of them one asyncio task       *)
(* (main) observes and decides; a worker thread runs the RunSession and,   *)
(* through _AsyncRuntimeSyncPort, hands each batch back to main's event    *)
(* loop and waits 90 seconds for it.  The others have one thread of        *)
(* control, which awaits the Runtime or calls it through a bridge, which   *)
(* waits 90 seconds or 30.  The Runtime admits one operation at a time.    *)
(*                                                                         *)
(* Main gives the loop back at every step, so the worker, the batch and a  *)
(* cancellation (Ctrl-C) come in between.                                  *)
(***************************************************************************)
EXTENDS DeviceScripts, FiniteSetsExt

CONSTANTS
  Scripts,    \* the scripts to run, a subset of DOMAIN Program
  MaxCancels  \* bound: cancellations of main

ASSUME BoundAssumption == MaxCancels \in Nat
ASSUME ScriptsAssumption == Scripts \subseteq DOMAIN Program

VARIABLES
  script,    \* the script that runs
  todo,      \* the steps main has yet to do
  main,      \* body, waiting, closing, releasing, joining, ended
  cancels,   \* cancellations so far
  worker,    \* what the worker does: idle, attempt, listening, close;
             \* in a script of one thread, main itself
  queue,     \* jobs submitted to it and not begun
  outcome,   \* what the last attempt came back with
  batch,     \* TRUE while a Runtime.execute() is scheduled or runs
  current,   \* main's revision is the Runtime's
  session,   \* none, open, closed, or failed: close() raised
  runtime,   \* open or closed
  status,    \* report["status"]
  persisted, \* the status in the report file, "none" before it is written
  raised,    \* main ends, or will end, with an exception
  doubt,     \* an attempt or a cheap check came back bad, nothing since showed
             \* the screen that was expected
  unaudited, \* main went on from a cheap check alone
  cut        \* history: a finally clause did not run to its end

mainVars   == <<script, todo, main, cancels, status, raised, doubt, unaudited>>
workerVars == <<worker, queue, outcome, session, persisted>>
vars       == <<mainVars, workerVars, batch, current, runtime, cut>>

-----------------------------------------------------------------------------
(***************************************************************************)
(* Main.                                                                   *)
(***************************************************************************)

\* Discovery, the Runtime and RunSession.start() have succeeded: main is in its try.
Init ==
  /\ script \in Scripts
  /\ todo = Program[script]
  /\ main = "body" /\ cancels = 0
  /\ worker = "idle" /\ queue = <<>> /\ outcome = "none" /\ batch = FALSE
  /\ current = FALSE
  /\ session = (IF Sessionless(script) THEN "none" ELSE "open") /\ runtime = "open"
  /\ status = "running" /\ persisted = "none"
  /\ raised = FALSE /\ doubt = FALSE /\ unaudited = FALSE /\ cut = FALSE

At(do) == main = "body" /\ todo # <<>> /\ Head(todo).do = do

\* The finally clause submits the closing of the session to the worker, if there is one.
Leave(s) ==
  /\ status' = s /\ todo' = <<>>
  /\ IF Sessionless(script)
       THEN main' = "releasing" /\ UNCHANGED queue
       ELSE main' = "closing" /\ queue' = Append(queue, "close")

\* An exception out of the body.
Raise == Leave("failed") /\ raised' = ~Catches(script)

\* The steps left from the cleanup on, and those behind the next mark.
FromCleanup == SubSeq(todo, Len(todo) - 1, Len(todo))
FromMark == SubSeq(todo, Min({i \in DOMAIN todo : todo[i].do = "mark"}), Len(todo))

GoOnWith(steps, s) ==
  todo' = steps /\ status' = s /\ UNCHANGED <<main, queue, raised>>

\* A step came out badly; nothing is thrown away but what it was for.
Otherwise(bad) ==
  CASE bad = "raise"    -> Raise
    [] bad = "cleanup"  -> GoOnWith(FromCleanup, "blocked")
    [] bad = "skip"     -> GoOnWith(FromMark, "hold")
    [] OTHER            -> Leave(bad) /\ UNCHANGED raised

GoOn == todo' = Tail(todo) /\ UNCHANGED <<main, queue, status, raised>>

\* An observation waits for the Runtime's lock; it opens a revision.
Observed == ~batch /\ current' = TRUE

LookDone ==
  /\ At("look") \/ At("recheck")
  /\ Observed /\ GoOn
  /\ UNCHANGED <<script, cancels, doubt, unaudited, worker, outcome, session, persisted,
                 batch, runtime, cut>>

\* The device is locked, or there is no revision.
LookBad ==
  /\ At("look") /\ Head(todo).bad \notin {"nothing", "again"}
  /\ Observed /\ Otherwise(Head(todo).bad)
  /\ UNCHANGED <<script, cancels, doubt, unaudited, worker, outcome, session, persisted,
                 batch, runtime, cut>>

\* An observation ends in an error or at its time limit; the R4 matrix repeats it once.
ObserveFails ==
  /\ \E do \in {"look", "see", "audit", "confirm", "settle", "recheck"} : At(do)
  /\ IF Head(todo).bad = "again" THEN GoOnWith(<<Observe>> \o Tail(todo), status) ELSE Raise
  /\ current' \in {current, FALSE}
  /\ UNCHANGED <<script, cancels, doubt, unaudited, worker, outcome, session, persisted,
                 batch, runtime, cut>>

\* The first observation behind an attempt is too late: recover() rebuilds the plumbing,
\* once, and the observation is repeated.
RecheckRecovers ==
  /\ At("recheck") /\ ~batch
  /\ current' = FALSE
  /\ todo' = <<Look("raise")>> \o Tail(todo)
  /\ UNCHANGED <<script, main, cancels, status, raised, doubt, unaudited, workerVars,
                 batch, runtime, cut>>

MustCorroborate == At("see") \/ (At("audit") /\ unaudited)

Corroborated ==
  /\ At("see") \/ At("audit")
  /\ Observed /\ GoOn
  /\ doubt' = FALSE /\ unaudited' = FALSE
  /\ UNCHANGED <<script, cancels, worker, outcome, session, persisted, batch, runtime, cut>>

\* Another screen than expected.
NotCorroborated ==
  /\ At("see") \/ At("audit")
  /\ Observed
  /\ IF MustCorroborate THEN Raise ELSE GoOn
  /\ UNCHANGED <<script, cancels, doubt, unaudited, worker, outcome, session, persisted,
                 batch, runtime, cut>>

\* The cleanup is judged: clean, and the home screen is there.
Confirmed ==
  /\ At("confirm") /\ Observed
  /\ outcome = "clean"
  /\ GoOn /\ doubt' = FALSE
  /\ UNCHANGED <<script, cancels, unaudited, worker, outcome, session, persisted, batch,
                 runtime, cut>>

NotConfirmed ==
  /\ At("confirm") /\ Observed
  /\ Raise
  /\ UNCHANGED <<script, cancels, doubt, unaudited, worker, outcome, session, persisted,
                 batch, runtime, cut>>

\* "completed" needs a clean tap and the reference geometry, otherwise it is "hold".
Settled ==
  /\ At("settle") /\ Observed
  /\ todo' = Tail(todo)
  /\ \/ outcome = "clean" /\ doubt' = FALSE /\ UNCHANGED status
     \/ status' = "hold" /\ UNCHANGED doubt
  /\ UNCHANGED <<script, main, cancels, queue, raised, unaudited, worker, outcome, session,
                 persisted, batch, runtime, cut>>

CheckPasses ==
  /\ At("check") \/ At("mark")
  /\ GoOn
  /\ UNCHANGED <<script, cancels, doubt, unaudited, worker, outcome, session, persisted,
                 batch, current, runtime, cut>>

CheckFails ==
  /\ At("check") /\ Otherwise(Head(todo).bad)
  /\ UNCHANGED <<script, cancels, doubt, unaudited, worker, outcome, session, persisted,
                 batch, current, runtime, cut>>

TouchDone ==
  /\ At("touch") /\ ~batch /\ GoOn
  /\ current' = (current /\ Head(todo).op = "drop")
  /\ UNCHANGED <<script, cancels, doubt, unaudited, workerVars, batch, runtime, cut>>

TouchFails ==
  /\ At("touch") /\ Raise
  /\ current' = FALSE
  /\ UNCHANGED <<script, cancels, doubt, unaudited, worker, outcome, session, persisted,
                 batch, runtime, cut>>

\* The Runtime accepts the last revision while it is current; a foreign one, an invalid
\* batch, and whatever a cancelled or expired coordinator is given, nobody accepts.
Accepted(op) == op = "last" /\ current /\ runtime = "open"

\* Otherwise it is refused, before the transport is called.
ProbeDone ==
  /\ At("probe") /\ ~batch
  /\ batch' = Accepted(Head(todo).op)
  /\ GoOnWith(Tail(todo), IF batch' THEN "hold" ELSE status)
  /\ UNCHANGED <<script, cancels, doubt, unaudited, worker, outcome, session, persisted,
                 current, runtime, cut>>

\* The cheap check satisfies the validator and the gate authorizes it: main goes on
\* without a full observation.  The validator probe always observes behind it.
CheapApplied ==
  /\ At("cheap") /\ GoOn
  /\ unaudited' = (Head(todo).bad # "recover")
  /\ UNCHANGED <<script, cancels, doubt, worker, outcome, session, persisted, batch,
                 current, runtime, cut>>

\* What follows a cheap check that failed, was refused or could not be journaled.
Fallback(bad) ==
  /\ doubt' = TRUE
  /\ \/ /\ bad = "see"
        /\ todo' = <<See>> \o Tail(todo) /\ UNCHANGED <<status, current>>
     \/ /\ bad = "home"
        /\ todo' = <<Look("raise"), Act("home", "fallback")>> /\ status' = "fallback"
        /\ UNCHANGED current
     \/ /\ bad = "recover" /\ ~batch
        /\ todo' = Tail(todo) /\ current' = FALSE /\ UNCHANGED status
  /\ UNCHANGED <<script, main, queue, raised, unaudited, worker, outcome, session,
                 persisted, batch, runtime, cut>>

CheapFails == At("cheap") /\ Fallback(Head(todo).bad) /\ UNCHANGED cancels

\* session.execute_skill() is submitted to the worker.
SubmitAttempt ==
  /\ At("act")
  /\ main' = "waiting"
  /\ queue' = Append(queue, "attempt") /\ outcome' = "none"
  /\ UNCHANGED <<script, todo, cancels, status, raised, doubt, unaudited, worker, session,
                 persisted, batch, current, runtime, cut>>

Answered == main = "waiting" /\ worker = "idle" /\ queue = <<>>

AttemptClean ==
  /\ Answered /\ outcome = "clean"
  /\ main' = "body" /\ todo' = Tail(todo)
  /\ UNCHANGED <<script, cancels, status, raised, doubt, unaudited, workerVars, batch,
                 current, runtime, cut>>

\* Judged later, or only reported.
Judged(bad) ==
  /\ todo' = (IF bad = "looked" THEN <<LookTwice>> ELSE <<>>) \o Tail(todo)
  /\ status' = IF bad = "judged" THEN status ELSE "hold"
  /\ UNCHANGED <<raised, queue>>

\* Mutant of AttemptUnclean: a script goes on behind an attempt that was not clean.
AttemptUncleanGoesOn ==
  /\ Answered /\ outcome = "unclean"
  /\ doubt' = TRUE
  /\ main' = "body" /\ Judged("judged")
  /\ UNCHANGED <<script, cancels, unaudited, worker, outcome, session, persisted, batch,
                 current, runtime, cut>>

\* Not succeeded, or an effect other than NONE.
AttemptUnclean ==
  /\ Answered /\ outcome = "unclean"
  /\ doubt' = TRUE
  /\ IF Head(todo).bad \in {"judged", "reported", "looked"}
       THEN main' = "body" /\ Judged(Head(todo).bad)
       ELSE Otherwise(Head(todo).bad)
  /\ UNCHANGED <<script, cancels, unaudited, worker, outcome, session, persisted, batch,
                 current, runtime, cut>>

\* execute_skill() raised.
AttemptRaised ==
  /\ Answered /\ outcome = "raised"
  /\ Raise /\ doubt' = TRUE
  /\ UNCHANGED <<script, cancels, unaudited, worker, outcome, session, persisted, batch,
                 current, runtime, cut>>

\* The body returns its report.
Return ==
  /\ main = "body" /\ todo = <<>>
  /\ Leave(IF status = "running" THEN "completed" ELSE status)
  /\ UNCHANGED <<script, cancels, raised, doubt, unaudited, worker, outcome, session,
                 persisted, batch, current, runtime, cut>>

\* The worker has answered; a close() that raised propagates.
SessionDone ==
  /\ main = "closing" /\ session # "open" /\ worker = "idle" /\ queue = <<>>
  /\ main' = "releasing" /\ raised' = (raised \/ session = "failed")
  /\ UNCHANGED <<script, todo, cancels, status, doubt, unaudited, workerVars, batch,
                 current, runtime, cut>>

\* The teardown raised; two scripts only report it.
ReleaseRaises ==
  raised' = (raised \/ script \notin {"domains", "matrix"}) /\ cut' = TRUE

\* Mutant of Release: close() does not wait for the batch that runs.
ReleaseUnlocked ==
  /\ main = "releasing"
  /\ runtime' = "closed" /\ current' = FALSE
  /\ \/ main' = "joining" /\ UNCHANGED <<raised, cut>>
     \/ main' = "ended" /\ ReleaseRaises
  /\ UNCHANGED <<script, todo, cancels, status, doubt, unaudited, workerVars, batch>>

\* await runtime.close() has the lock, behind a batch that still runs.
Release ==
  /\ main = "releasing" /\ ~batch
  /\ runtime' = "closed" /\ current' = FALSE
  /\ \/ main' = "joining" /\ UNCHANGED <<raised, cut>>
     \/ main' = "ended" /\ ReleaseRaises
  /\ UNCHANGED <<script, todo, cancels, status, doubt, unaudited, workerVars, batch>>

\* The bridge waits 90 seconds for it, or 30.
ReleaseGivesUp ==
  /\ main = "releasing" /\ Bridged(script)
  /\ main' = "ended" /\ ReleaseRaises
  /\ UNCHANGED <<script, todo, cancels, status, doubt, unaudited, workerVars, batch, current,
                 runtime>>

\* worker.shutdown(wait=True) or bridge.stop(); it keeps the loop.
Join ==
  /\ main = "joining" /\ worker = "idle" /\ queue = <<>>
  /\ main' = "ended"
  /\ UNCHANGED <<script, todo, cancels, status, raised, doubt, unaudited, workerVars,
                 batch, current, runtime, cut>>

\* CancelledError at main's await.  It is not an Exception, but the fallbacks of the
\* launch canary and of the validator probe catch BaseException.
CancelCheap ==
  /\ At("cheap") /\ Head(todo).bad \in {"home", "recover"}
  /\ Fallback(Head(todo).bad)

CancelBody ==
  /\ main = "body" /\ todo # <<>> /\ Head(todo).do # "act"
  /\ ~(At("cheap") /\ Head(todo).bad \in {"home", "recover"})
  /\ Leave("failed") /\ raised' = TRUE /\ current' \in {current, FALSE}
  /\ UNCHANGED <<script, doubt, unaudited, worker, outcome, session, persisted, batch,
                 runtime, cut>>

\* Main's own call ends with its cancellation; a worker goes on.
StopOwnCall == worker' = IF Direct(script) THEN "idle" ELSE worker

\* The future of a job that has not begun is cancelled with its await.
CancelWait ==
  /\ main = "waiting"
  /\ main' = (IF Sessionless(script) THEN "releasing" ELSE "closing")
  /\ queue' = (IF Sessionless(script) THEN <<>> ELSE <<"close">>)
  /\ status' = "failed" /\ todo' = <<>> /\ raised' = TRUE /\ doubt' = TRUE
  /\ StopOwnCall
  /\ UNCHANGED <<script, unaudited, outcome, session, persisted, batch, current, runtime, cut>>

CancelClosing ==
  /\ main = "closing" /\ main' = "releasing"
  /\ queue' = <<>> /\ raised' = TRUE
  /\ StopOwnCall
  /\ IF Direct(script)
       THEN session' = "failed" /\ UNCHANGED cut
       ELSE cut' = TRUE /\ UNCHANGED session
  /\ UNCHANGED <<script, todo, status, doubt, unaudited, outcome, persisted, batch, current,
                 runtime>>

CancelReleasing ==
  /\ main = "releasing" /\ main' = "ended"
  /\ raised' = TRUE /\ cut' = TRUE
  /\ UNCHANGED <<script, todo, status, doubt, unaudited, workerVars, batch, current, runtime>>

Cancel ==
  /\ cancels < MaxCancels /\ cancels' = cancels + 1
  /\ CancelCheap \/ CancelBody \/ CancelWait \/ CancelClosing \/ CancelReleasing

-----------------------------------------------------------------------------
(***************************************************************************)
(* The worker, and the batches it sends to the loop.                       *)
(***************************************************************************)

LoopRuns == main # "joining" /\ ~(main = "ended" /\ Bridged(script))

TakeJob ==
  /\ worker = "idle" /\ queue # <<>>
  /\ worker' = Head(queue) /\ queue' = Tail(queue)
  /\ UNCHANGED <<mainVars, outcome, session, persisted, batch, current, runtime, cut>>

\* The coordinator dispatches: run_coroutine_threadsafe(runtime.execute(...)).
SendBatch ==
  /\ worker = "attempt" /\ ~batch
  /\ batch' = TRUE /\ worker' = "listening"
  /\ UNCHANGED <<mainVars, queue, outcome, session, persisted, current, runtime, cut>>

\* Refused, or failed before anything was sent; or the journal raised.
AttemptEnds ==
  /\ worker = "attempt" /\ script # "matrix"
  /\ worker' = "idle" /\ outcome' \in {"unclean", "raised"}
  /\ UNCHANGED <<mainVars, queue, session, persisted, batch, current, runtime, cut>>

\* The Runtime answers; a closed one, or one whose revision has moved on, refuses.  A script
\* of one thread that no longer waits for it has cancelled it, which may leave the revision.
BatchEnds ==
  /\ batch /\ LoopRuns
  /\ batch' = FALSE
  /\ current' \in IF Direct(script) /\ worker # "listening" THEN {current, FALSE} ELSE {FALSE}
  /\ IF worker = "listening"
       THEN /\ worker' = "idle"
            /\ outcome' \in IF current /\ runtime = "open"
                              THEN {"clean", "unclean", "raised"} ELSE {"unclean"}
       ELSE UNCHANGED <<worker, outcome>>
  /\ UNCHANGED <<mainVars, queue, session, persisted, runtime, cut>>

\* future.result(timeout=...) gives up; the batch goes on.
GiveUp ==
  /\ worker = "listening" /\ (Direct(script) => Bridged(script))
  /\ worker' = "idle" /\ outcome' \in {"unclean", "raised"}
  /\ UNCHANGED <<mainVars, queue, session, persisted, batch, current, runtime, cut>>

\* Mutant of CloseSession: the status is not corrected behind a close that failed.
CloseSessionKeepsStatus(s) ==
  /\ session' = s
  /\ status' = status
  /\ persisted' = IF Persists(script) /\ (s = "closed" \/ PersistsAlways(script))
                    THEN status ELSE persisted

\* session.close(); then the report, by most scripts only if the close succeeded.
CloseSession(s) ==
  /\ session' = s
  /\ status' = IF s = "failed" /\ status = "completed" /\ PersistsAlways(script)
                 THEN "failed" ELSE status
  /\ persisted' = IF Persists(script) /\ (s = "closed" \/ PersistsAlways(script))
                    THEN status' ELSE persisted

SessionCloses ==
  /\ worker = "close" /\ worker' = "idle"
  /\ \E s \in {"closed", "failed"} : CloseSession(s)
  /\ UNCHANGED <<script, todo, main, cancels, raised, doubt, unaudited, queue, outcome,
                 batch, current, runtime, cut>>

Next ==
  \/ LookDone \/ LookBad \/ ObserveFails \/ RecheckRecovers
  \/ Corroborated \/ NotCorroborated \/ Confirmed \/ NotConfirmed \/ Settled
  \/ CheckPasses \/ CheckFails \/ TouchDone \/ TouchFails \/ ProbeDone \/ CheapApplied \/ CheapFails
  \/ SubmitAttempt \/ AttemptClean \/ AttemptUnclean \/ AttemptRaised \/ Return
  \/ SessionDone \/ Release \/ ReleaseGivesUp \/ Join \/ Cancel
  \/ TakeJob \/ SendBatch \/ AttemptEnds \/ BatchEnds \/ GiveUp \/ SessionCloses

Spec == Init /\ [][Next]_vars

-----------------------------------------------------------------------------
(***************************************************************************)
(* Properties.                                                             *)
(***************************************************************************)

\* An attempt is made under a revision observed since the last batch ended, never on the
\* word of a cheap check alone, and while an earlier attempt or check is in doubt only to
\* return to the home screen; the R4 matrix, which reports what failed and goes on, is the
\* exception.  About: the order of observing, judging and acting in the scripts, with
\* cancellations swallowed and batches that outlive their callers.
OnlyHomeInDoubt ==
  [][SubmitAttempt => /\ current /\ ~batch
                      /\ ~unaudited
                      /\ doubt => Head(todo).op = "home" \/ script = "matrix"]_vars

\* A mutation a script sends to see it refused never reaches the device.  About: the
\* revision that r4_device_matrix.py forgets before it sends the probe.
ProbesAreRefused == [][ProbeDone => ~batch']_vars

\* A report that says "completed" stands for a run whose session, if it had one, was closed
\* with all its evidence and whose last attempt was clean and seen.  About: the reports
\* written while the close may still fail, and the statuses set before the cleanup.
CompletedMeansClean ==
  persisted = "completed" \/ (main = "ended" /\ ~raised /\ status = "completed")
    => session \in {"none", "closed"} /\ ~doubt /\ ~unaudited

\* When main has gone through its finally clauses undisturbed, nothing of the run is left
\* running and the Runtime was closed behind its last batch.  About: a worker that still
\* waits for the loop, a batch that outlives its time limit, a cancellation while closing.
EndsQuiet ==
  main = "ended" /\ ~cut =>
    worker = "idle" /\ queue = <<>> /\ ~batch /\ session # "open" /\ runtime = "closed"
=============================================================================
