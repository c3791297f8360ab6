----------------------------- MODULE Transport -----------------------------
(***************************************************************************)
(* IosTransport (ios_runtime/transport.py) and the Wi-Fi tunnel            *)
(* (ios_runtime/wifi_tunnel.py): who owns the tunnel, the runner of the    *)
(* WDA and the WDA session, through failures and cancellations.            *)
(*                                                                         *)
(* The four lifecycle methods hold one lock.  An action is the code from   *)
(* one await to the next; it may fail, or be cancelled, at each of them.   *)
(* The tunnel, the runner and the WDA are libraries: a tunnel that is      *)
(* opened or closed with success or an exception has let go of what it     *)
(* should, and one that is cancelled while it closes may have.             *)
(***************************************************************************)
EXTENDS Naturals, FiniteSets

CONSTANTS
  Client,      \* tasks that call the lifecycle methods
  Pinned,      \* a udid is given: USB only, no discovery
  Launches,    \* xctrunner_bundle_id is given
  MaxCalls,    \* bound: calls of the lifecycle methods
  MaxCancels   \* bound: cancellations

ASSUME ModeAssumption == Pinned \in BOOLEAN /\ Launches \in BOOLEAN
ASSUME BoundAssumption == MaxCalls \in Nat /\ MaxCancels \in Nat

Methods == {"connect", "recreate", "close_session", "close"}

\* Where a call is: outside, at the lock, or at an await under the lock.
Awaits == {"runner_down", "tunnel_down", "select", "browsed", "mux", "acquire", "sift", "link",
           "probe", "launch", "poll", "session"}

\* Of these, the two loops that close pairing services one by one.
Sifting == {"browsed", "sift"}

VARIABLES
  pc,         \* where each call is
  method,     \* what it is a call of
  closed,     \* _closed
  plumbing,   \* _tunnel, its lost rsd, _selection with _mux_device, _wda, _xctrunner_task
  open,       \* tunnels that hold resources
  active,     \* the process-global _active_tunnel
  runners,    \* runner tasks that have not ended
  probes,     \* pairing services that discovery or _acquire_provider() got are open, other
              \* than the tunnel's
  handles,    \* tunnel handles made so far
  tasks,      \* runner tasks made so far
  calls,      \* calls so far
  cancels,    \* cancellations so far
  straggled,  \* history: a connect() or recreate() got the lock behind a close()
  cut         \* history: a cancellation hit the wait for a runner, or a loop over services

taskVars     == <<pc, method, calls>>
resourceVars == <<open, active, runners, probes, handles, tasks>>
vars         == <<taskVars, closed, plumbing, resourceVars, cancels, straggled, cut>>

None == 0
Bare == [tunnel |-> None, lost |-> FALSE, selection |-> IF Pinned THEN "usb" ELSE "none",
         wda |-> "none", session |-> FALSE, runner |-> None]

TypeOK ==
  /\ pc \in [Client -> {"idle", "queued"} \cup Awaits]
  /\ method \in [Client -> Methods]
  /\ closed \in BOOLEAN
  /\ plumbing \in [tunnel : Nat, lost : BOOLEAN, selection : {"none", "usb", "muxed", "wifi"},
                   wda : {"none", "client", "reachable"}, session : BOOLEAN, runner : Nat]
  /\ open \subseteq 1..handles /\ active \in 0..handles /\ runners \subseteq 1..tasks
  /\ probes \in BOOLEAN
  /\ handles \in Nat /\ tasks \in Nat /\ calls \in Nat /\ cancels \in Nat
  /\ straggled \in BOOLEAN /\ cut \in BOOLEAN

Init ==
  /\ pc = [c \in Client |-> "idle"]
  /\ method = [c \in Client |-> "connect"]
  /\ closed = FALSE /\ plumbing = Bare
  /\ open = {} /\ active = None /\ runners = {} /\ probes = FALSE
  /\ handles = 0 /\ tasks = 0 /\ calls = 0 /\ cancels = 0
  /\ straggled = FALSE /\ cut = FALSE

\* Whoever is at an await has _lifecycle_lock.
Unlocked == \A c \in Client : pc[c] \notin Awaits

\* The call goes on to its next await, or returns, with the plumbing as it is then.
AwaitAt(c, stage, q) ==
  /\ pc' = [pc EXCEPT ![c] = stage]
  /\ plumbing' = q
  /\ UNCHANGED <<method, calls>>
Leave(c, q) ==
  /\ pc' = [pc EXCEPT ![c] = "idle"]
  /\ plumbing' = q
  /\ UNCHANGED <<method, calls>>

\* snapshot() and _is_ready().
Lost(q)  == q.tunnel # None /\ q.lost
Ready(q) == q.tunnel # None /\ ~q.lost /\ q.wda = "reachable" /\ q.session

(***************************************************************************)
(* _connect_locked(), behind its check for a lost tunnel.  A tunnel is     *)
(* opened only when none is tracked.                                       *)
(***************************************************************************)
OpensTunnel(q) == q.tunnel = None /\ q.selection \in {"muxed", "wifi"}
ConnectStage(q) ==
  CASE q.tunnel = None /\ q.selection = "none"  -> "select"
    [] q.tunnel = None /\ q.selection = "usb"   -> "mux"
    [] q.tunnel = None /\ q.selection = "muxed" -> "link"
    [] q.tunnel = None /\ q.selection = "wifi"  -> "acquire"
    [] q.tunnel # None /\ q.wda # "reachable"   -> "probe"
    [] OTHER                                    -> "session"

WithClient(q) == IF q.tunnel # None /\ q.wda = "none" THEN [q EXCEPT !.wda = "client"] ELSE q

Connect(c, q) ==
  IF Ready(q) THEN Leave(c, q) /\ UNCHANGED <<open, handles>>
  ELSE /\ AwaitAt(c, ConnectStage(q), WithClient(q))
       /\ IF ConnectStage(q) = "link"
          THEN handles' = handles + 1 /\ open' = open \cup {handles'}
          ELSE UNCHANGED <<open, handles>>

(***************************************************************************)
(* _teardown_locked(): the runner, then the tunnel, then the references.   *)
(***************************************************************************)
TornDown(c) ==
  IF method[c] = "close" THEN Leave(c, Bare) /\ closed' = TRUE
                         ELSE AwaitAt(c, ConnectStage(Bare), Bare) /\ UNCHANGED closed

CloseTunnel(c, q) ==
  IF q.tunnel # None THEN AwaitAt(c, "tunnel_down", q) /\ UNCHANGED closed
                     ELSE TornDown(c)

\* Mutant of TearDown: the runner is left alone.
TearDownTunnel(c) == CloseTunnel(c, plumbing)
TearDown(c) ==
  IF plumbing.runner # None THEN AwaitAt(c, "runner_down", plumbing) /\ UNCHANGED closed
                            ELSE CloseTunnel(c, plumbing)

RunnerDown(c) == CloseTunnel(c, [plumbing EXCEPT !.runner = None])

(***************************************************************************)
(* The four methods.                                                       *)
(***************************************************************************)
\* All but close() look at _closed, and then wait for the lock.
Call(c) ==
  /\ pc[c] = "idle" /\ calls < MaxCalls
  /\ \E m \in Methods :
       /\ m # "close" => ~closed
       /\ method' = [method EXCEPT ![c] = m]
  /\ pc' = [pc EXCEPT ![c] = "queued"]
  /\ calls' = calls + 1
  /\ UNCHANGED <<closed, plumbing, resourceVars, cancels, straggled, cut>>

Acquire(c) ==
  /\ pc[c] = "queued" /\ Unlocked
  /\ straggled' = (straggled \/ (closed /\ method[c] \in {"connect", "recreate"}))
  /\ CASE method[c] = "close_session" ->
            /\ Leave(c, [plumbing EXCEPT !.wda = "none", !.session = FALSE])
            /\ UNCHANGED <<closed, open, handles>>
       [] method[c] = "connect" /\ ~Lost(plumbing) ->
            Connect(c, plumbing) /\ UNCHANGED closed
       [] OTHER -> TearDown(c) /\ UNCHANGED <<open, handles>>
  /\ UNCHANGED <<active, runners, probes, tasks, cancels, cut>>

(***************************************************************************)
(* The awaits of the teardown.  The runner was told to end.                *)
(***************************************************************************)
RunnerEnded(c) ==
  /\ pc[c] = "runner_down"
  /\ runners' = runners \ {plumbing.runner}
  /\ RunnerDown(c)
  /\ UNCHANGED <<open, active, probes, handles, tasks, cancels, straggled, cut>>

\* The wait suppresses a cancellation of the call itself: the call goes on, and the
\* runner may still be at its end.
RunnerWaitCut(c) ==
  /\ pc[c] = "runner_down" /\ cancels < MaxCancels
  /\ cancels' = cancels + 1 /\ cut' = TRUE
  /\ RunnerDown(c)
  /\ UNCHANGED <<resourceVars, straggled>>

Released(t) ==
  /\ open' = open \ {t}
  /\ active' = IF active = t THEN None ELSE active

TunnelClosed(c) ==
  /\ pc[c] = "tunnel_down"
  /\ Released(plumbing.tunnel)
  /\ TornDown(c)
  /\ UNCHANGED <<runners, probes, handles, tasks, cancels, straggled, cut>>

\* Mutant of TunnelCloseCancelled: the references are dropped all the same.
TunnelCloseCancelledDrops(c) ==
  /\ pc[c] = "tunnel_down" /\ cancels < MaxCancels
  /\ cancels' = cancels + 1
  /\ Leave(c, Bare)
  /\ UNCHANGED <<closed, resourceVars, straggled, cut>>

\* suppress(Exception) lets a cancellation out: the tunnel stays tracked.
TunnelCloseCancelled(c) ==
  /\ pc[c] = "tunnel_down" /\ cancels < MaxCancels
  /\ cancels' = cancels + 1
  /\ \/ Leave(c, plumbing) /\ UNCHANGED <<open, active>>
     \/ /\ Leave(c, [plumbing EXCEPT !.lost = TRUE])
        /\ Released(plumbing.tunnel)
  /\ UNCHANGED <<closed, runners, probes, handles, tasks, straggled, cut>>

(***************************************************************************)
(* The awaits of connect().                                                *)
(***************************************************************************)
\* discovery._classify(): how many devices are seen at USB and over Wi-Fi, which is allowed.
Classified(usb, wifi) ==
  CASE usb = 1              -> "usb"
    [] usb = 0 /\ wifi = 1  -> "wifi"
    [] OTHER                -> "none"

\* discovery._enumerate(): behind the devices at USB, the pairing services of those in reach.
Browsed(c) ==
  /\ pc[c] = "select"
  /\ probes' = TRUE
  /\ AwaitAt(c, "browsed", plumbing)
  /\ UNCHANGED <<closed, open, active, runners, handles, tasks, cancels, straggled, cut>>

\* It closes them one by one.  _resolve_selection_locked() fails without exactly one target.
Selected(c) ==
  /\ pc[c] = "browsed"
  /\ probes' = cut
  /\ \E usb, wifi \in 0..2 :
       LET s == Classified(usb, wifi)
       IN /\ s # "none"
          /\ AwaitAt(c, ConnectStage([plumbing EXCEPT !.selection = s]),
                     [plumbing EXCEPT !.selection = s])
  /\ UNCHANGED <<closed, open, active, runners, handles, tasks, cancels, straggled, cut>>

MuxSelected(c) ==
  /\ pc[c] = "mux"
  /\ AwaitAt(c, "link", [plumbing EXCEPT !.selection = "muxed"])
  /\ handles' = handles + 1
  /\ open' = open \cup {handles'}
  /\ UNCHANGED <<closed, active, runners, probes, tasks, cancels, straggled, cut>>

\* _acquire_provider(): the services that are not the target's are closed one by one.
ServicesFound(c) ==
  /\ pc[c] = "acquire" /\ active = None
  /\ probes' = TRUE
  /\ AwaitAt(c, "sift", plumbing)
  /\ UNCHANGED <<closed, open, active, runners, handles, tasks, cancels, straggled, cut>>

ProviderKept(c) ==
  /\ pc[c] = "sift"
  /\ probes' = cut
  /\ AwaitAt(c, "link", plumbing)
  /\ handles' = handles + 1
  /\ open' = open \cup {handles'}
  /\ UNCHANGED <<closed, active, runners, tasks, cancels, straggled, cut>>

\* suppress(Exception) lets a cancellation out of either loop, and no one closes the services
\* that are left, nor the provider, which is not on the exit stack yet.
SiftCancelled(c) ==
  /\ pc[c] \in Sifting /\ cancels < MaxCancels
  /\ cancels' = cancels + 1 /\ cut' = TRUE
  /\ Leave(c, plumbing)
  /\ UNCHANGED <<closed, resourceVars, straggled>>

Linked(c) ==
  LET q == [plumbing EXCEPT !.tunnel = handles, !.lost = FALSE]
  IN /\ pc[c] = "link"
     /\ active = None
     /\ active' = handles
     /\ AwaitAt(c, "probe", WithClient(q))
     /\ UNCHANGED <<closed, open, runners, probes, handles, tasks, cancels, straggled, cut>>

\* get_status() answers, at once or behind the start of a runner.
Reached(c) ==
  LET q == [plumbing EXCEPT !.wda = "reachable"]
  IN /\ pc[c] \in {"probe", "poll"}
     /\ IF Ready(q) THEN Leave(c, q) ELSE AwaitAt(c, "session", q)
     /\ UNCHANGED <<closed, resourceVars, cancels, straggled, cut>>

\* It fails: the runner is started, unless one was before, be it dead.
Unreached(c) ==
  /\ pc[c] = "probe" /\ Launches
  /\ AwaitAt(c, IF plumbing.runner = None THEN "launch" ELSE "poll", plumbing)
  /\ UNCHANGED <<closed, resourceVars, cancels, straggled, cut>>

Launched(c) ==
  /\ pc[c] = "launch"
  /\ tasks' = tasks + 1
  /\ runners' = runners \cup {tasks'}
  /\ AwaitAt(c, "poll", [plumbing EXCEPT !.runner = tasks'])
  /\ UNCHANGED <<closed, open, active, probes, handles, cancels, straggled, cut>>

SessionStarted(c) ==
  /\ pc[c] = "session"
  /\ Leave(c, [plumbing EXCEPT !.session = TRUE])
  /\ UNCHANGED <<closed, resourceVars, cancels, straggled, cut>>

(***************************************************************************)
(* A failure or a cancellation at an await of connect(): the exit stack of *)
(* a tunnel that was being opened is closed, all else is left as it is.    *)
(***************************************************************************)
Abandoned(c) ==
  /\ Leave(c, plumbing)
  /\ open' = IF pc[c] = "link" THEN open \ {handles} ELSE open
  /\ UNCHANGED <<closed, active, runners, handles, tasks, straggled, cut>>

Fails(c) ==
  /\ pc[c] \in Awaits \ {"runner_down", "tunnel_down"}
  /\ pc[c] = "probe" => ~Launches
  /\ Abandoned(c)
  /\ probes' = IF pc[c] \in Sifting THEN cut ELSE probes
  /\ UNCHANGED cancels

Cancelled(c) ==
  /\ pc[c] \in Awaits \ ({"runner_down", "tunnel_down"} \cup Sifting)
  /\ cancels < MaxCancels
  /\ cancels' = cancels + 1
  /\ Abandoned(c)
  /\ UNCHANGED probes

CancelledInQueue(c) ==
  /\ pc[c] = "queued" /\ cancels < MaxCancels
  /\ cancels' = cancels + 1
  /\ Leave(c, plumbing)
  /\ UNCHANGED <<closed, resourceVars, straggled, cut>>

(***************************************************************************)
(* The world: the watcher of a tunnel tears it down, a runner ends by      *)
(* itself, and a session-scoped call meets a 404.                          *)
(***************************************************************************)
TunnelDies ==
  /\ plumbing.tunnel \in open /\ ~plumbing.lost
  /\ \A c \in Client : pc[c] # "tunnel_down"
  /\ plumbing' = [plumbing EXCEPT !.lost = TRUE]
  /\ Released(plumbing.tunnel)
  /\ UNCHANGED <<taskVars, closed, runners, probes, handles, tasks, cancels, straggled, cut>>

RunnerDies ==
  /\ \E r \in runners : runners' = runners \ {r}
  /\ UNCHANGED <<taskVars, closed, plumbing, open, active, probes, handles, tasks, cancels,
                 straggled, cut>>

SessionGone ==
  /\ plumbing.session
  /\ plumbing' = [plumbing EXCEPT !.session = FALSE]
  /\ UNCHANGED <<taskVars, closed, resourceVars, cancels, straggled, cut>>

\* _session() of the next primitive creates one anew, without the lock.
SessionRenewed ==
  /\ plumbing.wda = "reachable" /\ ~plumbing.session /\ ~closed
  /\ plumbing' = [plumbing EXCEPT !.session = TRUE]
  /\ UNCHANGED <<taskVars, closed, resourceVars, cancels, straggled, cut>>

Next ==
  \/ \E c \in Client :
       \/ Call(c) \/ Acquire(c)
       \/ RunnerEnded(c) \/ RunnerWaitCut(c)
       \/ TunnelClosed(c) \/ TunnelCloseCancelled(c)
       \/ Browsed(c) \/ Selected(c) \/ MuxSelected(c)
       \/ ServicesFound(c) \/ ProviderKept(c) \/ SiftCancelled(c)
       \/ Linked(c) \/ Reached(c) \/ Unreached(c) \/ Launched(c) \/ SessionStarted(c)
       \/ Fails(c) \/ Cancelled(c) \/ CancelledInQueue(c)
  \/ TunnelDies \/ RunnerDies \/ SessionGone \/ SessionRenewed

Spec == Init /\ [][Next]_vars

(***************************************************************************)
(* Properties.                                                             *)
(***************************************************************************)
\* Every resource has an owner: a tunnel that holds resources is the tracked one, or is
\* being opened by the call that has the lock while none is tracked; a runner is the
\* tracked one, and no pairing service is left open, unless a cancellation was suppressed
\* at the wait for a runner, or let out of one of the two loops that close services.
EveryResourceOwned ==
  /\ open \subseteq IF \E c \in Client : pc[c] = "link" THEN {handles} ELSE {plumbing.tunnel}
  /\ ~cut => runners \subseteq {plumbing.runner}
  /\ probes /\ ~cut => \E c \in Client : pc[c] \in Sifting

\* Once close() has returned, nothing is held and nothing is built again, unless a
\* connect() or recreate() that had passed its check was waiting for the lock.
NothingHeldWhenClosed ==
  closed /\ ~straggled => /\ plumbing = Bare
                          /\ open = {} /\ active = None
                          /\ runners = {} \/ cut
                          /\ ~probes \/ cut
=============================================================================
