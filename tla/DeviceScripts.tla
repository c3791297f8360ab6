---------------------------- MODULE DeviceScripts ----------------------------
(***************************************************************************)
(* The device runs under scripts/ as data: each is the list of its steps   *)
(* against the device, its loops unrolled to Rounds.  DeviceRun runs them. *)
(* "bad" says what follows a step that does not come out as wanted.        *)
(***************************************************************************)
EXTENDS Naturals, Sequences

CONSTANT Rounds  \* bound: iterations of a script's loop

ASSUME RoundsAssumption == Rounds \in Nat \ {0}

Step(do, op, bad) == [do |-> do, op |-> op, bad |-> bad]

\* Runtime.observe(), bounded by most scripts; a locked device or no revision is bad.
Look(bad) == Step("look", "none", bad)
\* The same, judged by nothing; by the R4 matrix, which repeats a failed one.
Observe   == Look("nothing")
LookTwice == Look("again")
\* A full observation that has to show the expected screen.
See       == Step("see", "none", "raise")
\* The same, but the canary insists only behind a cheap check it went on from.
Audit     == Step("audit", "none", "raise")
\* The observation behind the cleanup, judged together with the attempt.
Confirm   == Step("confirm", "none", "raise")
\* Up to three observations behind a tap; the script only reports them.
Settle    == Step("settle", "none", "hold")
\* _post_action_observe_with_one_recovery().
Recheck   == Step("recheck", "none", "raise")
\* A decision on what was observed and recorded, without the device.
Check(bad)   == Step("check", "none", bad)
\* One attempt at a mutation: launch, tap, home, ...
Act(op, bad) == Step("act", op, bad)
\* The cheap causal check of a canary, or of the validator probe.
Cheap(bad)   == Step("cheap", "none", bad)
\* A mutation that must be refused before it reaches the device.
Probe(op) == Step("probe", op, "hold")
\* Where a script goes on when it has skipped some steps.
Mark == Step("mark", "none", "none")
\* Runtime.invalidate(); Runtime.recover(); the transport's session closed under it.
Touch(op) == Step("touch", op, "raise")

\* Rounds times the steps of a loop.
Times(steps) == [i \in 1 .. Rounds * Len(steps) |-> steps[((i - 1) % Len(steps)) + 1]]

-----------------------------------------------------------------------------
(***************************************************************************)
(* Scripts whose RunSession lives on a worker thread beside the event loop *)
(***************************************************************************)

\* phasec_limited_canary._run_canary()
LimitedCanary ==
  Times(<<Audit, Check("raise"), Act("home", "raise"), Cheap("see")>>) \o <<See>>

\* phasec_launch_application_canary._run_canary()
LaunchCanary ==
  <<Look("blocked"), Check("blocked"), Act("launch", "raise"), Cheap("home"), See,
    Act("home", "judged"), Confirm>>

\* phasec_foreground_validator_probe._run_probe()
ValidatorProbe ==
  Times(<<Look("raise"), Act("launch", "raise"), Cheap("recover"), Look("raise"),
          Act("home", "raise"), See>>)

\* phasec_mergeboss_entry_target_probe._run()
TargetProbe ==
  <<Look("raise"), Act("launch", "raise"), Check("raise"), Look("raise"),
    Act("home", "judged"), Confirm>>

\* phasec_mergeboss_route_probe._run()
RouteProbe ==
  <<Look("raise"), Act("launch", "raise"), Look("raise"),
    Check("cleanup"), Act("tap", "raise"), Look("raise"),
    Check("cleanup"), Act("tap", "raise"), Look("raise"),
    Act("home", "judged"), Confirm>>

\* phasec_mergeboss_board_probe._run(advance_visual_cta=True)
BoardProbe ==
  <<Look("raise"), Act("launch", "raise"), Look("raise"),
    Check("raise"), Act("tap", "raise"), Look("raise"),
    Check("raise"), Act("tap", "raise"), Look("raise"),
    Check("cleanup"), Act("tap", "judged"), Settle,
    Act("home", "judged"), Confirm>>

\* _collect_home_only_preflight()
HomePreflight == Times(<<Look("blocked"), Act("home", "stopped"), Look("raise")>>)

\* _collect_async_shadow_workload(), of two domains: the screen behind an attempt is the
\* one before the next.
Domain == Times(<<Look("blocked"), Act("launch", "stopped")>>) \o <<Look("raise")>>
ShadowWorkload == Domain \o Domain

\* _collect_representative_shadow_workload()
Representative ==
  Times(<<Look("raise"), Act("launch", "raise"), Recheck,
          Look("raise"), Act("home", "raise"), Recheck>>)

-----------------------------------------------------------------------------
(***************************************************************************)
(* Scripts of one thread of control                                        *)
(***************************************************************************)

\* phaseb_domain_shadow_workload.collect_shadow_workload()
BridgedWorkload == ShadowWorkload

\* r10_domain_workflow.run_workflow(): _run_domain() of two domains, stopped by the first
\* that fails.
OneDomain == <<Look("fail"), Act("launch", "fail"), Check("fail"), Look("fail")>>
DomainWorkflow == OneDomain \o OneDomain

\* r6_r7_device_matrix.run_matrix()
AgentMatrix ==
  <<Observe, Act("launch", "reported"), Observe, Act("home", "reported"), Observe,
    Probe("cancelled"), Probe("expired")>>

\* r4_device_matrix.run_device_matrix(), cell by cell
MatrixConnect ==
  <<LookTwice, Touch("drop"), LookTwice, Touch("recover"), LookTwice>>

MatrixRevisions ==
  <<LookTwice, LookTwice, LookTwice, Touch("invalidate"), LookTwice, Probe("earlier")>>

MatrixNavigates ==
  <<LookTwice, Act("home", "raise"), LookTwice, Act("launch", "raise"), LookTwice,
    Check("skip"), Act("tap", "raise"), LookTwice, LookTwice, Act("home", "raise"),
    LookTwice, Act("launch", "raise"), LookTwice, Mark>>

MatrixTypes ==
  <<Check("skip"), Act("tap", "raise"), LookTwice, Act("type", "looked"), LookTwice,
    Act("home", "raise"), Mark>>

MatrixGestures ==
  [i \in 1 .. 10 |-> IF i % 2 = 1 THEN LookTwice ELSE Act("gesture", "raise")]

\* Mutant of MatrixPreflight: the revision is still the current one.
MatrixPreflightCurrent ==
  <<LookTwice, Probe("last"), Probe("foreign"),
    LookTwice, Probe("invalid"), Probe("invalid")>>

MatrixPreflight ==
  <<LookTwice, Touch("invalidate"), Probe("last"), Probe("foreign"),
    LookTwice, Probe("invalid"), Probe("invalid")>>

MatrixRecovers ==
  <<LookTwice, Touch("drop"), LookTwice, Touch("drop"), Touch("recover"), LookTwice>>

DeviceMatrix ==
  MatrixConnect \o MatrixRevisions \o MatrixNavigates \o MatrixTypes \o MatrixGestures
    \o MatrixPreflight \o MatrixRecovers

-----------------------------------------------------------------------------
Program == [limited |-> LimitedCanary, launch |-> LaunchCanary, validator |-> ValidatorProbe,
            target |-> TargetProbe, route |-> RouteProbe, board |-> BoardProbe,
            preflight |-> HomePreflight, workload |-> ShadowWorkload,
            representative |-> Representative, bridged |-> BridgedWorkload,
            domains |-> DomainWorkflow, agent |-> AgentMatrix, matrix |-> DeviceMatrix]

\* One thread of control: it runs the attempts and the close itself.
Direct(s) == s \in {"bridged", "domains", "agent", "matrix"}
\* These call the Runtime through the call() of a _LoopBridge, which waits 90 seconds, or 30.
Bridged(s) == s \in {"bridged", "domains"}
\* No RunSession.
Sessionless(s) == s \in {"domains", "agent", "matrix"}
\* An Exception becomes an entry of the report.
Catches(s) == Sessionless(s)
\* The report is written to a file, by two scripts whether or not the close succeeded.
Persists(s) == s \in {"launch", "validator", "target", "route", "board"}
PersistsAlways(s) == s \in {"launch", "validator"}
=============================================================================
