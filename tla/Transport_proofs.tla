-------------------------- MODULE Transport_proofs --------------------------
(***************************************************************************)
(* Every resource of the transport has an owner, and nothing is held once  *)
(* close() has returned (Transport), for any number of tasks, calls and    *)
(* cancellations, with and without discovery and a runner.                 *)
(***************************************************************************)
EXTENDS Transport, TLAPS

Plumbing ==
  [tunnel : Nat, lost : BOOLEAN, selection : {"none", "usb", "muxed", "wifi"},
   wda : {"none", "client", "reachable"}, session : BOOLEAN, runner : Nat]

Stages == {"idle", "queued"} \cup Awaits

\* At these awaits no tunnel is tracked.
NoTunnelYet == {"select", "browsed", "mux", "acquire", "sift", "link"}

LockInv == \A c, d \in Client : pc[c] \in Awaits /\ pc[d] \in Awaits => c = d

StageInv ==
  \A c \in Client :
    /\ pc[c] \in {"tunnel_down", "launch"} => plumbing.runner = None
    /\ pc[c] \in NoTunnelYet => plumbing.tunnel = None

OwnInv == EveryResourceOwned /\ active \in {None, plumbing.tunnel}

\* When it is closed, and no one came late, there is no plumbing and no one builds any.
ClosedInv == closed /\ ~straggled => plumbing = Bare /\ Unlocked

IInv == TypeOK /\ LockInv /\ StageInv /\ OwnInv /\ ClosedInv

LEMMA BareType ==
  /\ Bare \in Plumbing /\ Bare.tunnel = None /\ Bare.runner = None
  /\ Bare.selection \in {"none", "usb"}
BY DEF Bare, Plumbing, None

LEMMA InitInv == Init => IInv
<1> SUFFICES ASSUME Init PROVE IInv
  OBVIOUS
<1>1. TypeOK
  <2>1. pc \in [Client -> {"idle", "queued"} \cup Awaits] /\ method \in [Client -> Methods]
    BY DEF Init, Methods
  <2>2. plumbing \in Plumbing
    BY BareType DEF Init
  <2>3. open \subseteq 1 .. handles /\ active \in 0 .. handles /\ runners \subseteq 1 .. tasks
    BY DEF Init, None
  <2>4. /\ handles \in Nat /\ tasks \in Nat /\ calls \in Nat /\ cancels \in Nat
        /\ closed \in BOOLEAN /\ probes \in BOOLEAN /\ straggled \in BOOLEAN /\ cut \in BOOLEAN
    BY DEF Init
  <2> QED
    BY <2>1, <2>2, <2>3, <2>4 DEF TypeOK, Plumbing
<1>2. LockInv /\ StageInv /\ OwnInv /\ ClosedInv
  BY BareType DEF Init, LockInv, StageInv, OwnInv, ClosedInv, EveryResourceOwned, Awaits,
                  NoTunnelYet, Unlocked
<1> QED
  BY <1>1, <1>2 DEF IInv

\* Nothing is held without plumbing.
LEMMA NothingHeld == IInv => NothingHeldWhenClosed
<1> SUFFICES ASSUME IInv, closed, ~straggled
             PROVE  /\ plumbing = Bare
                    /\ open = {} /\ active = None
                    /\ runners = {} \/ cut
                    /\ ~probes \/ cut
  BY DEF NothingHeldWhenClosed
<1>1. plumbing = Bare /\ Unlocked /\ plumbing.tunnel = None /\ plumbing.runner = None
  BY BareType DEF IInv, ClosedInv
<1>2. \A c \in Client : pc[c] # "link" /\ pc[c] \notin Sifting
  BY <1>1 DEF Unlocked, Awaits, Sifting
<1>3. open \subseteq {None} /\ open \subseteq 1 .. handles
  BY <1>1, <1>2 DEF IInv, OwnInv, EveryResourceOwned, TypeOK
<1>4. cut \/ (runners \subseteq {None} /\ runners \subseteq 1 .. tasks)
  BY <1>1 DEF IInv, OwnInv, EveryResourceOwned, TypeOK
<1>5. open = {} /\ (cut \/ runners = {})
  BY <1>3, <1>4 DEF None
<1>6. active = None /\ (~probes \/ cut)
  BY <1>1, <1>2 DEF IInv, OwnInv, EveryResourceOwned
<1> QED
  BY <1>1, <1>5, <1>6

\* A step of the task that has the lock, or has just taken it, to the stage st.
LEMMA Held ==
  ASSUME LockInv, NEW c \in Client, pc[c] \in Awaits \/ Unlocked,
         NEW st \in Stages, pc \in [Client -> Stages], pc' = [pc EXCEPT ![c] = st],
         TypeOK',
         st \in {"tunnel_down", "launch"} => plumbing'.runner = None,
         st \in NoTunnelYet => plumbing'.tunnel = None,
         open' \subseteq IF st = "link" THEN {handles'} ELSE {plumbing'.tunnel},
         ~cut' => runners' \subseteq {plumbing'.runner},
         probes' /\ ~cut' => st \in Sifting,
         active' \in {None, plumbing'.tunnel},
         closed' /\ ~straggled' => plumbing' = Bare /\ st \notin Awaits
  PROVE  IInv'
<1>1. \A d \in Client : d # c => pc'[d] \notin Awaits
  BY DEF LockInv, Unlocked
<1>2. pc'[c] = st
  OBVIOUS
<1>3. LockInv'
  BY <1>1 DEF LockInv
<1>4. StageInv'
  BY <1>1, <1>2 DEF StageInv, Awaits, NoTunnelYet
<1>5. OwnInv'
  <2>1. (\E d \in Client : pc'[d] = "link") <=> st = "link"
    BY <1>1, <1>2 DEF Awaits
  <2>2. st \in Sifting => \E d \in Client : pc'[d] \in Sifting
    BY <1>2
  <2> QED
    BY <2>1, <2>2 DEF OwnInv, EveryResourceOwned
<1>6. ClosedInv'
  BY <1>1, <1>2 DEF ClosedInv, Unlocked, Bare
<1> QED
  BY <1>3, <1>4, <1>5, <1>6 DEF IInv

\* What the invariant says of the one who has the lock.
LEMMA Holder ==
  ASSUME IInv, NEW c \in Client, pc[c] \in Awaits
  PROVE  /\ ~(closed /\ ~straggled)
         /\ \A d \in Client : d # c => pc[d] \notin Awaits
         /\ open \subseteq IF pc[c] = "link" THEN {handles} ELSE {plumbing.tunnel}
         /\ ~cut => runners \subseteq {plumbing.runner}
         /\ probes /\ ~cut => pc[c] \in Sifting
         /\ active \in {None, plumbing.tunnel}
         /\ pc[c] \in {"tunnel_down", "launch"} => plumbing.runner = None
         /\ pc[c] \in NoTunnelYet => plumbing.tunnel = None
<1>1. \A d \in Client : d # c => pc[d] \notin Awaits
  BY DEF IInv, LockInv
<1>2. ~(closed /\ ~straggled)
  BY DEF IInv, ClosedInv, Unlocked
<1>3. (\E d \in Client : pc[d] = "link") <=> pc[c] = "link"
  BY <1>1 DEF Awaits
<1>4. (\E d \in Client : pc[d] \in Sifting) <=> pc[c] \in Sifting
  BY <1>1 DEF Awaits, Sifting
<1> QED
  BY <1>1, <1>2, <1>3, <1>4 DEF IInv, OwnInv, EveryResourceOwned, StageInv

\* What it says when no one has it.
LEMMA Free ==
  ASSUME IInv, Unlocked
  PROVE  /\ open \subseteq {plumbing.tunnel}
         /\ ~cut => runners \subseteq {plumbing.runner}
         /\ ~probes \/ cut
         /\ active \in {None, plumbing.tunnel}
         /\ closed /\ ~straggled => plumbing = Bare
<1>1. \A c \in Client : pc[c] # "link" /\ pc[c] \notin Sifting
  BY DEF Unlocked, Awaits, Sifting
<1> QED
  BY <1>1 DEF IInv, OwnInv, EveryResourceOwned, ClosedInv

\* The stage connect() comes to.
LEMMA ConnectStages ==
  ASSUME NEW q \in Plumbing
  PROVE  /\ WithClient(q) \in Plumbing
         /\ WithClient(q).tunnel = q.tunnel /\ WithClient(q).runner = q.runner
         /\ ConnectStage(q) \in {"select", "mux", "link", "acquire", "probe", "session"}
         /\ ConnectStage(q) \in NoTunnelYet => q.tunnel = None
BY DEF WithClient, ConnectStage, Plumbing, NoTunnelYet

\* A tear-down that has let go of runner and tunnel: to connect(), or out.
LEMMA TornDownStep ==
  ASSUME NEW c \in Client, TornDown(c)
  PROVE  \E st \in {"idle", "select", "mux"} :
           /\ pc' = [pc EXCEPT ![c] = st] /\ plumbing' = Bare
           /\ UNCHANGED <<method, calls>>
           /\ closed' = closed \/ (closed' = TRUE /\ st = "idle")
<1>1. ConnectStage(Bare) \in {"select", "mux"}
  BY BareType DEF ConnectStage
<1> QED
  BY <1>1 DEF TornDown, Leave, AwaitAt

\* It goes on from the runner to the tunnel.
LEMMA CloseTunnelStep ==
  ASSUME NEW c \in Client, NEW q, CloseTunnel(c, q)
  PROVE  \E st \in {"idle", "select", "mux", "tunnel_down"} :
           /\ pc' = [pc EXCEPT ![c] = st]
           /\ UNCHANGED <<method, calls>>
           /\ \/ st = "tunnel_down" /\ plumbing' = q /\ q.tunnel # None /\ closed' = closed
              \/ st # "tunnel_down" /\ plumbing' = Bare /\ q.tunnel = None
           /\ closed' = closed \/ (closed' = TRUE /\ st = "idle")
<1>1. CASE q.tunnel # None
  BY <1>1 DEF CloseTunnel, AwaitAt
<1>2. CASE q.tunnel = None
  <2>1. TornDown(c)
    BY <1>2 DEF CloseTunnel
  <2> QED
    BY <1>2, <2>1, TornDownStep
<1> QED
  BY <1>1, <1>2

-----------------------------------------------------------------------------
(***************************************************************************)
(* The steps of the task that has the lock.                                *)
(***************************************************************************)
\* The types behind a step of a task.
LEMMA TypeStep ==
  ASSUME TypeOK, NEW c \in Client, NEW st \in Stages, pc' = [pc EXCEPT ![c] = st],
         plumbing' \in Plumbing, UNCHANGED <<method, calls>>,
         closed' \in BOOLEAN, probes' \in BOOLEAN, straggled' \in BOOLEAN, cut' \in BOOLEAN,
         cancels' \in {cancels, cancels + 1},
         handles' \in {handles, handles + 1}, tasks' \in {tasks, tasks + 1},
         open' \subseteq 1 .. handles', active' \in 0 .. handles', runners' \subseteq 1 .. tasks'
  PROVE  TypeOK'
BY DEF TypeOK, Plumbing, Stages

LEMMA Typed ==
  ASSUME TypeOK
  PROVE  /\ plumbing \in Plumbing /\ pc \in [Client -> Stages]
         /\ closed \in BOOLEAN /\ probes \in BOOLEAN /\ straggled \in BOOLEAN /\ cut \in BOOLEAN
         /\ handles \in Nat /\ tasks \in Nat /\ cancels \in Nat
         /\ open \subseteq 1 .. handles /\ active \in 0 .. handles /\ runners \subseteq 1 .. tasks
         /\ 1 .. handles \subseteq 1 .. handles + 1 /\ 0 .. handles \subseteq 0 .. handles + 1
         /\ 1 .. tasks \subseteq 1 .. tasks + 1
BY DEF TypeOK, Plumbing, Stages

LEMMA RunnerEndedKeeps == ASSUME NEW c \in Client PROVE IInv /\ RunnerEnded(c) => IInv'
<1> SUFFICES ASSUME IInv, RunnerEnded(c) PROVE IInv'
  OBVIOUS
<1> DEFINE q == [plumbing EXCEPT !.runner = None]
<1>1. pc[c] \in Awaits /\ pc[c] = "runner_down"
  BY DEF RunnerEnded, Awaits
<1>2. CloseTunnel(c, q) /\ q \in Plumbing /\ q.tunnel = plumbing.tunnel /\ q.runner = None
  BY Typed DEF RunnerEnded, RunnerDown, IInv, Plumbing, None
<1>3. PICK st \in {"idle", "select", "mux", "tunnel_down"} :
           /\ pc' = [pc EXCEPT ![c] = st]
           /\ UNCHANGED <<method, calls>>
           /\ \/ st = "tunnel_down" /\ plumbing' = q /\ q.tunnel # None /\ closed' = closed
              \/ st # "tunnel_down" /\ plumbing' = Bare /\ q.tunnel = None
           /\ closed' = closed \/ (closed' = TRUE /\ st = "idle")
  BY <1>2, CloseTunnelStep
<1>4. /\ plumbing' \in Plumbing /\ plumbing'.runner = None
      /\ plumbing'.tunnel = plumbing.tunnel
      /\ st \in Stages
  BY <1>2, <1>3, BareType DEF Stages, Awaits
<1>5. UNCHANGED <<open, active, probes, handles, tasks, cancels, straggled, cut>>
  BY DEF RunnerEnded
<1>6. runners' = runners \ {plumbing.runner}
  BY DEF RunnerEnded
<1>7. TypeOK'
  BY <1>3, <1>4, <1>5, <1>6, Typed, TypeStep DEF IInv
<1>8. closed' /\ ~straggled' => plumbing' = Bare /\ st \notin Awaits
  BY <1>1, <1>3, <1>5, Holder DEF Awaits
<1>9. /\ open' \subseteq IF st = "link" THEN {handles'} ELSE {plumbing'.tunnel}
      /\ ~cut' => runners' \subseteq {plumbing'.runner}
      /\ ~(probes' /\ ~cut')
      /\ active' \in {None, plumbing'.tunnel}
  BY <1>1, <1>3, <1>4, <1>5, <1>6, Holder DEF Sifting
<1>10. st \in NoTunnelYet => plumbing'.tunnel = None
  BY <1>2, <1>3, <1>4 DEF NoTunnelYet
<1>11. LockInv /\ pc \in [Client -> Stages]
  BY Typed DEF IInv
<1> QED
  BY <1>1, <1>3, <1>4, <1>7, <1>8, <1>9, <1>10, <1>11, Held

\* A step of the one who has the lock, to a stage that says nothing of its own; plumbing and
\* resources stay as they are, but for what is not a tunnel or a runner.
LEMMA Quiet ==
  ASSUME IInv, NEW c \in Client, pc[c] \in Awaits \ {"link"},
         pc[c] \notin Sifting, NEW st \in Stages \ {"link"}, pc' = [pc EXCEPT ![c] = st],
         st \in {"tunnel_down", "launch"} => plumbing.runner = None,
         st \in NoTunnelYet => plumbing.tunnel = None,
         plumbing' \in Plumbing,
         plumbing'.tunnel = plumbing.tunnel, plumbing'.runner = plumbing.runner,
         UNCHANGED <<method, calls, closed, resourceVars, straggled>>,
         cut' \in {cut, TRUE}, cancels' \in {cancels, cancels + 1}
  PROVE  IInv'
<1>1. UNCHANGED <<open, active, runners, probes, handles, tasks>>
  BY DEF resourceVars
<1>2. TypeOK'
  BY <1>1, Typed, TypeStep DEF IInv
<1>4. /\ pc[c] \in Awaits /\ LockInv /\ pc \in [Client -> Stages]
      /\ pc[c] # "link" /\ pc[c] \notin Sifting /\ st # "link"
  BY Typed DEF IInv
<1>3. /\ open' \subseteq IF st = "link" THEN {handles'} ELSE {plumbing'.tunnel}
      /\ ~cut' => runners' \subseteq {plumbing'.runner}
      /\ ~(probes' /\ ~cut')
      /\ active' \in {None, plumbing'.tunnel}
  <2>1. /\ open \subseteq {plumbing.tunnel} /\ ~(probes /\ ~cut)
        /\ ~cut => runners \subseteq {plumbing.runner}
        /\ active \in {None, plumbing.tunnel}
    BY <1>4, Holder
  <2> QED
    BY <1>1, <1>4, <2>1
<1>5. ~(closed' /\ ~straggled')
  BY <1>4, Holder
<1> QED
  BY <1>2, <1>3, <1>4, <1>5, Held

\* Such steps: the WDA answers or does not, there is a session.
LEMMA QuietKeeps ==
  ASSUME NEW c \in Client
  PROVE  IInv /\ (Reached(c) \/ Unreached(c) \/ SessionStarted(c)) => IInv'
<1> SUFFICES ASSUME IInv, Reached(c) \/ Unreached(c) \/ SessionStarted(c) PROVE IInv'
  OBVIOUS
<1>0. plumbing \in Plumbing
  BY Typed DEF IInv
<1>2. CASE Reached(c)
  <2> DEFINE q == [plumbing EXCEPT !.wda = "reachable"]
  <2>1. /\ q \in Plumbing /\ q.tunnel = plumbing.tunnel /\ q.runner = plumbing.runner
    BY <1>0 DEF Plumbing
  <2>2. /\ pc[c] \in {"probe", "poll"}
        /\ Leave(c, q) \/ AwaitAt(c, "session", q)
        /\ UNCHANGED <<closed, resourceVars, cancels, straggled, cut>>
    BY <1>2 DEF Reached
  <2>3. PICK st \in {"idle", "session"} : pc' = [pc EXCEPT ![c] = st]
    BY <2>2 DEF Leave, AwaitAt
  <2>4. plumbing' = q /\ UNCHANGED <<method, calls>>
    BY <2>2 DEF Leave, AwaitAt
  <2>5. /\ pc[c] \in Awaits \ {"link"} /\ pc[c] \notin Sifting /\ st \in Stages \ {"link"}
        /\ st \notin {"tunnel_down", "launch"} \cup NoTunnelYet
    BY <2>2, <2>3 DEF Awaits, Stages, NoTunnelYet, Sifting
  <2> QED
    BY <2>1, <2>2, <2>3, <2>4, <2>5, Quiet
<1>3. CASE Unreached(c)
  <2>1. PICK st \in {"launch", "poll"} :
          AwaitAt(c, st, plumbing) /\ (st = "launch" => plumbing.runner = None)
    BY <1>3 DEF Unreached
  <2>2. /\ pc[c] \in Awaits \ {"link"} /\ pc[c] \notin Sifting /\ st \in Stages \ {"link"}
        /\ st \notin {"tunnel_down"} \cup NoTunnelYet
    BY <1>3, <2>1 DEF Unreached, Awaits, Stages, NoTunnelYet, Sifting
  <2>3. UNCHANGED <<closed, resourceVars, cancels, straggled, cut>>
    BY <1>3 DEF Unreached
  <2>4. pc' = [pc EXCEPT ![c] = st] /\ plumbing' = plumbing /\ UNCHANGED <<method, calls>>
    BY <2>1 DEF AwaitAt
  <2> QED
    BY <1>0, <2>1, <2>2, <2>3, <2>4, Quiet
<1>4. CASE SessionStarted(c)
  <2> DEFINE q == [plumbing EXCEPT !.session = TRUE]
  <2>1. /\ q \in Plumbing /\ q.tunnel = plumbing.tunnel /\ q.runner = plumbing.runner
    BY <1>0 DEF Plumbing
  <2>2. /\ pc[c] = "session" /\ pc' = [pc EXCEPT ![c] = "idle"]
        /\ plumbing' = q /\ UNCHANGED <<method, calls>>
        /\ UNCHANGED <<closed, resourceVars, cancels, straggled, cut>>
    BY <1>4 DEF SessionStarted, Leave
  <2>3. /\ pc[c] \in Awaits \ {"link"} /\ pc[c] \notin Sifting /\ "idle" \in Stages \ {"link"}
        /\ "idle" \notin {"tunnel_down", "launch"} \cup NoTunnelYet
    BY <2>2 DEF Awaits, Stages, NoTunnelYet, Sifting
  <2> QED
    BY <2>1, <2>2, <2>3, Quiet
<1> QED
  BY <1>2, <1>3, <1>4

LEMMA RunnerWaitCutKeeps == ASSUME NEW c \in Client PROVE IInv /\ RunnerWaitCut(c) => IInv'
<1> SUFFICES ASSUME IInv, RunnerWaitCut(c) PROVE IInv'
  OBVIOUS
<1> DEFINE q == [plumbing EXCEPT !.runner = None]
<1>1. pc[c] \in Awaits /\ pc[c] = "runner_down"
  BY DEF RunnerWaitCut, Awaits
<1>2. CloseTunnel(c, q) /\ q \in Plumbing /\ q.tunnel = plumbing.tunnel /\ q.runner = None
  BY Typed DEF RunnerWaitCut, RunnerDown, IInv, Plumbing, None
<1>3. PICK st \in {"idle", "select", "mux", "tunnel_down"} :
           /\ pc' = [pc EXCEPT ![c] = st]
           /\ UNCHANGED <<method, calls>>
           /\ \/ st = "tunnel_down" /\ plumbing' = q /\ q.tunnel # None /\ closed' = closed
              \/ st # "tunnel_down" /\ plumbing' = Bare /\ q.tunnel = None
           /\ closed' = closed \/ (closed' = TRUE /\ st = "idle")
  BY <1>2, CloseTunnelStep
<1>4. /\ plumbing' \in Plumbing /\ plumbing'.runner = None
      /\ plumbing'.tunnel = plumbing.tunnel
      /\ st \in Stages
  BY <1>2, <1>3, BareType DEF Stages, Awaits
<1>5. /\ UNCHANGED <<open, active, runners, probes, handles, tasks, straggled>>
      /\ cancels' = cancels + 1 /\ cut' = TRUE
  BY DEF RunnerWaitCut, resourceVars
<1>6. TypeOK'
  BY <1>3, <1>4, <1>5, Typed, TypeStep DEF IInv
<1>7. closed' /\ ~straggled' => plumbing' = Bare /\ st \notin Awaits
  BY <1>1, <1>3, <1>5, Holder DEF Awaits
<1>8. /\ open' \subseteq IF st = "link" THEN {handles'} ELSE {plumbing'.tunnel}
      /\ active' \in {None, plumbing'.tunnel}
  BY <1>1, <1>3, <1>4, <1>5, Holder
<1>9. st \in NoTunnelYet => plumbing'.tunnel = None
  BY <1>2, <1>3, <1>4 DEF NoTunnelYet
<1>10. LockInv /\ pc \in [Client -> Stages]
  BY Typed DEF IInv
<1> QED
  BY <1>1, <1>3, <1>4, <1>5, <1>6, <1>7, <1>8, <1>9, <1>10, Held

LEMMA TunnelClosedKeeps == ASSUME NEW c \in Client PROVE IInv /\ TunnelClosed(c) => IInv'
<1> SUFFICES ASSUME IInv, TunnelClosed(c) PROVE IInv'
  OBVIOUS
<1>1. pc[c] \in Awaits /\ pc[c] = "tunnel_down"
  BY DEF TunnelClosed, Awaits
<1>2. PICK st \in {"idle", "select", "mux"} :
           /\ pc' = [pc EXCEPT ![c] = st] /\ plumbing' = Bare
           /\ UNCHANGED <<method, calls>>
           /\ closed' = closed \/ (closed' = TRUE /\ st = "idle")
  BY TornDownStep DEF TunnelClosed
<1>3. UNCHANGED <<runners, probes, handles, tasks, cancels, straggled, cut>>
  BY DEF TunnelClosed
<1>4. /\ open \subseteq {plumbing.tunnel} /\ active \in {None, plumbing.tunnel}
      /\ ~cut => runners \subseteq {None}
      /\ ~(probes /\ ~cut) /\ ~(closed /\ ~straggled)
  BY <1>1, Holder DEF Sifting
<1>5. open' = {} /\ active' = None
  BY <1>4 DEF TunnelClosed, Released
<1>6. plumbing' \in Plumbing /\ plumbing'.tunnel = None /\ plumbing'.runner = None
  BY <1>2, BareType
<1>7. st \in Stages /\ st \notin {"tunnel_down", "launch", "link"}
  BY DEF Stages, Awaits
<1>8. TypeOK'
  <2>1. open' \subseteq 1 .. handles' /\ active' \in 0 .. handles' /\ runners' \subseteq 1 .. tasks'
    BY <1>3, <1>5, Typed DEF IInv, None
  <2>2. closed' \in BOOLEAN /\ probes' \in BOOLEAN /\ straggled' \in BOOLEAN /\ cut' \in BOOLEAN
    BY <1>2, <1>3, Typed DEF IInv
  <2> QED
    BY <1>2, <1>3, <1>6, <1>7, <2>1, <2>2, TypeStep DEF IInv
<1>9. closed' /\ ~straggled' => plumbing' = Bare /\ st \notin Awaits
  BY <1>2, <1>3, <1>4 DEF Awaits
<1>10. LockInv /\ pc \in [Client -> Stages]
  BY Typed DEF IInv
<1> QED
  BY <1>1, <1>2, <1>3, <1>4, <1>5, <1>6, <1>7, <1>8, <1>9, <1>10, Held

LEMMA TunnelCloseCancelledKeeps ==
  ASSUME NEW c \in Client PROVE IInv /\ TunnelCloseCancelled(c) => IInv'
<1> SUFFICES ASSUME IInv, TunnelCloseCancelled(c) PROVE IInv'
  OBVIOUS
<1>1. pc[c] \in Awaits /\ pc[c] = "tunnel_down"
  BY DEF TunnelCloseCancelled, Awaits
<1>2. /\ pc' = [pc EXCEPT ![c] = "idle"] /\ UNCHANGED <<method, calls>>
      /\ plumbing' \in {plumbing, [plumbing EXCEPT !.lost = TRUE]}
  BY DEF TunnelCloseCancelled, Leave
<1>3. /\ UNCHANGED <<closed, runners, probes, handles, tasks, straggled, cut>>
      /\ cancels' = cancels + 1
  BY DEF TunnelCloseCancelled
<1>4. /\ open \subseteq {plumbing.tunnel} /\ active \in {None, plumbing.tunnel}
      /\ ~cut => runners \subseteq {plumbing.runner}
      /\ ~(probes /\ ~cut) /\ ~(closed /\ ~straggled)
  BY <1>1, Holder DEF Sifting
<1>5. open' \subseteq open /\ active' \in {None, active}
  BY DEF TunnelCloseCancelled, Released
<1>6. /\ plumbing' \in Plumbing
      /\ plumbing'.tunnel = plumbing.tunnel /\ plumbing'.runner = plumbing.runner
  BY <1>2, Typed DEF IInv, Plumbing
<1>7. "idle" \in Stages /\ "idle" \notin {"tunnel_down", "launch"} \cup NoTunnelYet
  BY DEF Stages, NoTunnelYet
<1>8. TypeOK'
  <2>1. open' \subseteq 1 .. handles' /\ active' \in 0 .. handles' /\ runners' \subseteq 1 .. tasks'
    BY <1>3, <1>5, Typed DEF IInv, None
  <2>2. closed' \in BOOLEAN /\ probes' \in BOOLEAN /\ straggled' \in BOOLEAN /\ cut' \in BOOLEAN
    BY <1>2, <1>3, Typed DEF IInv
  <2> QED
    BY <1>2, <1>3, <1>6, <1>7, <2>1, <2>2, TypeStep DEF IInv
<1>9. LockInv /\ pc \in [Client -> Stages]
  BY Typed DEF IInv
<1> QED
  BY <1>1, <1>2, <1>3, <1>4, <1>5, <1>6, <1>7, <1>8, <1>9, Held

LEMMA MuxSelectedKeeps == ASSUME NEW c \in Client PROVE IInv /\ MuxSelected(c) => IInv'
<1> SUFFICES ASSUME IInv, MuxSelected(c) PROVE IInv'
  OBVIOUS
<1>1. pc[c] \in Awaits /\ pc[c] = "mux" /\ "mux" \in NoTunnelYet
  BY DEF MuxSelected, Awaits, NoTunnelYet
<1>2. /\ pc' = [pc EXCEPT ![c] = "link"] /\ UNCHANGED <<method, calls>>
      /\ plumbing' = [plumbing EXCEPT !.selection = "muxed"]
  BY DEF MuxSelected, AwaitAt
<1>3. /\ UNCHANGED <<closed, active, runners, probes, tasks, cancels, straggled, cut>>
      /\ handles' = handles + 1 /\ open' = open \cup {handles'}
  BY DEF MuxSelected
<1>4. /\ open \subseteq {plumbing.tunnel} /\ active \in {None, plumbing.tunnel}
      /\ ~cut => runners \subseteq {plumbing.runner} /\ plumbing.tunnel = None
      /\ ~(probes /\ ~cut) /\ ~(closed /\ ~straggled)
      /\ plumbing.tunnel = None
  BY <1>1, Holder DEF Sifting
<1>5. open \subseteq 1 .. handles /\ handles \in Nat
  BY Typed DEF IInv
<1>6. open' = {handles'}
  BY <1>3, <1>4, <1>5 DEF None
<1>7. /\ plumbing' \in Plumbing
      /\ plumbing'.tunnel = plumbing.tunnel /\ plumbing'.runner = plumbing.runner
  BY <1>2, Typed DEF IInv, Plumbing
<1>8. "link" \in Stages
  BY DEF Stages, Awaits
<1>9. active' \in 0 .. handles' /\ open' \subseteq 1 .. handles' /\ runners' \subseteq 1 .. tasks'
  BY <1>3, <1>5, <1>6, Typed DEF IInv
<1>10. TypeOK'
  BY <1>2, <1>3, <1>7, <1>8, <1>9, Typed, TypeStep DEF IInv
<1>11. LockInv /\ pc \in [Client -> Stages]
  BY Typed DEF IInv
<1> QED
  BY <1>1, <1>2, <1>3, <1>4, <1>6, <1>7, <1>8, <1>10, <1>11, Held

\* Services are found: by discovery, or by the tunnel that is to be opened.
LEMMA ServicesFoundKeeps ==
  ASSUME NEW c \in Client PROVE IInv /\ (Browsed(c) \/ ServicesFound(c)) => IInv'
<1> SUFFICES ASSUME IInv, Browsed(c) \/ ServicesFound(c) PROVE IInv'
  OBVIOUS
<1>1. pc[c] \in Awaits /\ pc[c] \in NoTunnelYet
  BY DEF Browsed, ServicesFound, Awaits, NoTunnelYet
<1>2. PICK st \in Sifting :
        /\ pc' = [pc EXCEPT ![c] = st] /\ UNCHANGED <<method, calls>>
        /\ plumbing' = plumbing
  BY DEF Browsed, ServicesFound, AwaitAt, Sifting
<1>3. /\ UNCHANGED <<closed, open, active, runners, handles, tasks, cancels, straggled, cut>>
      /\ probes' = TRUE
  BY DEF Browsed, ServicesFound
<1>4. /\ open \subseteq IF pc[c] = "link" THEN {handles} ELSE {plumbing.tunnel}
      /\ active \in {None, plumbing.tunnel}
      /\ ~cut => runners \subseteq {plumbing.runner}
      /\ ~(closed /\ ~straggled) /\ plumbing.tunnel = None
  BY <1>1, Holder
<1>5. st \in Stages /\ st \notin {"tunnel_down", "launch", "link"} /\ pc[c] # "link"
  BY DEF Stages, Awaits, Sifting, Browsed, ServicesFound
<1>6. TypeOK'
  BY <1>2, <1>3, <1>5, Typed, TypeStep DEF IInv
<1>7. LockInv /\ pc \in [Client -> Stages]
  BY Typed DEF IInv
<1> QED
  BY <1>1, <1>2, <1>3, <1>4, <1>5, <1>6, <1>7, Held

\* Discovery has closed the services it found, and exactly one target is left.
LEMMA SelectedKeeps == ASSUME NEW c \in Client PROVE IInv /\ Selected(c) => IInv'
<1> SUFFICES ASSUME IInv, Selected(c) PROVE IInv'
  OBVIOUS
<1>1. PICK s \in {"usb", "wifi"} :
        AwaitAt(c, ConnectStage([plumbing EXCEPT !.selection = s]),
                [plumbing EXCEPT !.selection = s])
  BY DEF Selected, Classified
<1> DEFINE q == [plumbing EXCEPT !.selection = s]
<1>2. pc[c] \in Awaits /\ pc[c] = "browsed" /\ "browsed" \in NoTunnelYet
  BY DEF Selected, Awaits, NoTunnelYet
<1>3. /\ UNCHANGED <<closed, open, active, runners, handles, tasks, cancels, straggled, cut>>
      /\ probes' = cut
  BY DEF Selected
<1>4. /\ open \subseteq {plumbing.tunnel} /\ active \in {None, plumbing.tunnel}
      /\ ~cut => runners \subseteq {plumbing.runner}
      /\ ~(closed /\ ~straggled) /\ plumbing.tunnel = None
  BY <1>2, Holder
<1>5. /\ q \in Plumbing /\ q.tunnel = plumbing.tunnel /\ q.runner = plumbing.runner
      /\ q.selection = s
  BY Typed DEF IInv, Plumbing
<1>6. PICK st \in {"mux", "acquire"} : st = ConnectStage(q)
  <2> HIDE DEF q
  <2> QED
    BY <1>4, <1>5 DEF ConnectStage
<1>7. pc' = [pc EXCEPT ![c] = st] /\ plumbing' = q /\ UNCHANGED <<method, calls>>
  BY <1>1, <1>6 DEF AwaitAt
<1>8. st \in Stages /\ st \notin {"tunnel_down", "launch", "link"}
  BY DEF Stages, Awaits
<1>9. TypeOK'
  BY <1>3, <1>5, <1>7, <1>8, Typed, TypeStep DEF IInv
<1>10. LockInv /\ pc \in [Client -> Stages]
  BY Typed DEF IInv
<1> HIDE DEF q
<1> QED
  BY <1>2, <1>3, <1>4, <1>5, <1>7, <1>8, <1>9, <1>10, Held

LEMMA ProviderKeptKeeps == ASSUME NEW c \in Client PROVE IInv /\ ProviderKept(c) => IInv'
<1> SUFFICES ASSUME IInv, ProviderKept(c) PROVE IInv'
  OBVIOUS
<1>1. pc[c] \in Awaits /\ pc[c] = "sift" /\ "sift" \in NoTunnelYet
  BY DEF ProviderKept, Awaits, NoTunnelYet
<1>2. /\ pc' = [pc EXCEPT ![c] = "link"] /\ UNCHANGED <<method, calls>>
      /\ plumbing' = plumbing
  BY DEF ProviderKept, AwaitAt
<1>3. /\ UNCHANGED <<closed, active, runners, tasks, cancels, straggled, cut>>
      /\ handles' = handles + 1 /\ open' = open \cup {handles'} /\ probes' = cut
  BY DEF ProviderKept
<1>4. /\ open \subseteq {plumbing.tunnel} /\ active \in {None, plumbing.tunnel}
      /\ ~cut => runners \subseteq {plumbing.runner}
      /\ ~(closed /\ ~straggled)
      /\ plumbing.tunnel = None
  BY <1>1, Holder
<1>5. open \subseteq 1 .. handles /\ handles \in Nat
  BY Typed DEF IInv
<1>6. open' = {handles'}
  BY <1>3, <1>4, <1>5 DEF None
<1>7. "link" \in Stages
  BY DEF Stages, Awaits
<1>8. active' \in 0 .. handles' /\ open' \subseteq 1 .. handles' /\ runners' \subseteq 1 .. tasks'
  BY <1>3, <1>5, <1>6, Typed DEF IInv
<1>9. TypeOK'
  BY <1>2, <1>3, <1>7, <1>8, Typed, TypeStep DEF IInv
<1>10. LockInv /\ pc \in [Client -> Stages]
  BY Typed DEF IInv
<1> QED
  BY <1>1, <1>2, <1>3, <1>4, <1>6, <1>7, <1>9, <1>10, Held

LEMMA SiftCancelledKeeps == ASSUME NEW c \in Client PROVE IInv /\ SiftCancelled(c) => IInv'
<1> SUFFICES ASSUME IInv, SiftCancelled(c) PROVE IInv'
  OBVIOUS
<1>1. pc[c] \in Awaits /\ pc[c] # "link"
  BY DEF SiftCancelled, Awaits, Sifting
<1>2. /\ pc' = [pc EXCEPT ![c] = "idle"] /\ UNCHANGED <<method, calls>>
      /\ plumbing' = plumbing
  BY DEF SiftCancelled, Leave
<1>3. /\ UNCHANGED <<closed, open, active, runners, probes, handles, tasks, straggled>>
      /\ cancels' = cancels + 1 /\ cut' = TRUE
  BY DEF SiftCancelled, resourceVars
<1>4. /\ open \subseteq {plumbing.tunnel} /\ active \in {None, plumbing.tunnel}
      /\ ~(closed /\ ~straggled)
  BY <1>1, Holder
<1>5. "idle" \in Stages /\ "idle" \notin {"tunnel_down", "launch"} \cup NoTunnelYet
  BY DEF Stages, NoTunnelYet
<1>6. TypeOK'
  BY <1>2, <1>3, <1>5, Typed, TypeStep DEF IInv
<1>7. LockInv /\ pc \in [Client -> Stages]
  BY Typed DEF IInv
<1> QED
  BY <1>1, <1>2, <1>3, <1>4, <1>5, <1>6, <1>7, Held

LEMMA LinkedKeeps == ASSUME NEW c \in Client PROVE IInv /\ Linked(c) => IInv'
<1> SUFFICES ASSUME IInv, Linked(c) PROVE IInv'
  OBVIOUS
<1> DEFINE q == [plumbing EXCEPT !.tunnel = handles, !.lost = FALSE]
<1>1. pc[c] \in Awaits /\ pc[c] = "link"
  BY DEF Linked, Awaits
<1>2. /\ pc' = [pc EXCEPT ![c] = "probe"] /\ UNCHANGED <<method, calls>>
      /\ plumbing' = WithClient(q)
  BY DEF Linked, AwaitAt
<1>3. /\ UNCHANGED <<closed, open, runners, probes, handles, tasks, cancels, straggled, cut>>
      /\ active' = handles
  BY DEF Linked
<1>4. /\ open \subseteq {handles}
      /\ ~cut => runners \subseteq {plumbing.runner}
      /\ ~(probes /\ ~cut) /\ ~(closed /\ ~straggled)
  BY <1>1, Holder DEF Sifting
<1>5. q \in Plumbing /\ q.tunnel = handles /\ q.runner = plumbing.runner
  BY Typed DEF IInv, Plumbing
<1>6. plumbing' \in Plumbing /\ plumbing'.tunnel = handles /\ plumbing'.runner = plumbing.runner
  <2> HIDE DEF q
  <2> QED
    BY <1>2, <1>5, ConnectStages
<1>7. "probe" \in Stages /\ "probe" \notin {"tunnel_down", "launch", "link"} \cup NoTunnelYet
  BY DEF Stages, Awaits, NoTunnelYet
<1>8. active' \in 0 .. handles'
  BY <1>3, Typed DEF IInv
<1>9. TypeOK'
  BY <1>2, <1>3, <1>6, <1>7, <1>8, Typed, TypeStep DEF IInv
<1>10. LockInv /\ pc \in [Client -> Stages]
  BY Typed DEF IInv
<1> QED
  BY <1>1, <1>2, <1>3, <1>4, <1>6, <1>7, <1>9, <1>10, Held

LEMMA LaunchedKeeps == ASSUME NEW c \in Client PROVE IInv /\ Launched(c) => IInv'
<1> SUFFICES ASSUME IInv, Launched(c) PROVE IInv'
  OBVIOUS
<1>1. pc[c] \in Awaits /\ pc[c] = "launch"
  BY DEF Launched, Awaits
<1>2. /\ pc' = [pc EXCEPT ![c] = "poll"] /\ UNCHANGED <<method, calls>>
      /\ plumbing' = [plumbing EXCEPT !.runner = tasks']
  BY DEF Launched, AwaitAt
<1>3. /\ UNCHANGED <<closed, open, active, probes, handles, cancels, straggled, cut>>
      /\ tasks' = tasks + 1 /\ runners' = runners \cup {tasks'}
  BY DEF Launched
<1>4. /\ open \subseteq {plumbing.tunnel} /\ active \in {None, plumbing.tunnel}
      /\ ~cut => runners \subseteq {None}
      /\ ~(probes /\ ~cut) /\ ~(closed /\ ~straggled)
  BY <1>1, Holder DEF Sifting
<1>5. runners \subseteq 1 .. tasks /\ tasks \in Nat
  BY Typed DEF IInv
<1>6. ~cut => runners' = {tasks'}
  <2>1. ~cut => runners = {}
    BY <1>4, <1>5 DEF None
  <2> QED
    BY <1>3, <2>1
<1>7. /\ plumbing' \in Plumbing
      /\ plumbing'.tunnel = plumbing.tunnel /\ plumbing'.runner = tasks'
  BY <1>2, <1>3, <1>5, Typed DEF IInv, Plumbing
<1>8. "poll" \in Stages /\ "poll" \notin {"tunnel_down", "launch", "link"} \cup NoTunnelYet
  BY DEF Stages, Awaits, NoTunnelYet
<1>9. runners' \subseteq 1 .. tasks'
  BY <1>3, <1>5
<1>10. TypeOK'
  BY <1>2, <1>3, <1>7, <1>8, <1>9, Typed, TypeStep DEF IInv
<1>11. LockInv /\ pc \in [Client -> Stages]
  BY Typed DEF IInv
<1> QED
  BY <1>1, <1>2, <1>3, <1>4, <1>6, <1>7, <1>8, <1>10, <1>11, Held

\* A failure or a cancellation leaves everything but a tunnel that was being opened.
LEMMA AbandonedKeeps ==
  ASSUME NEW c \in Client
  PROVE  IInv /\ (Fails(c) \/ Cancelled(c)) => IInv'
<1> SUFFICES ASSUME IInv, Fails(c) \/ Cancelled(c) PROVE IInv'
  OBVIOUS
<1>1. pc[c] \in Awaits /\ Abandoned(c)
  BY DEF Fails, Cancelled
<1>2. /\ pc' = [pc EXCEPT ![c] = "idle"] /\ UNCHANGED <<method, calls>>
      /\ plumbing' = plumbing
      /\ UNCHANGED <<closed, active, runners, handles, tasks, straggled, cut>>
  BY <1>1 DEF Abandoned, Leave
<1>3. cancels' \in {cancels, cancels + 1}
  BY DEF Fails, Cancelled
<1>4. /\ active \in {None, plumbing.tunnel} /\ ~(closed /\ ~straggled)
      /\ ~cut => runners \subseteq {plumbing.runner}
      /\ probes /\ ~cut => pc[c] \in Sifting
  BY <1>1, Holder
<1>5. open' \subseteq {plumbing.tunnel} /\ open' \subseteq open
  <2>1. CASE pc[c] = "link"
    <3>1. open \subseteq {handles} /\ open' = open \ {handles}
      BY <1>1, <2>1, Holder DEF Abandoned
    <3> QED
      BY <3>1
  <2>2. CASE pc[c] # "link"
    <3>1. open \subseteq {plumbing.tunnel} /\ open' = open
      BY <1>1, <2>2, Holder DEF Abandoned
    <3> QED
      BY <3>1
  <2> QED
    BY <2>1, <2>2
<1>6. probes' \in BOOLEAN /\ ~(probes' /\ ~cut)
  <2>1. CASE Fails(c)
    BY <1>4, <2>1, Typed DEF Fails, IInv
  <2>2. CASE Cancelled(c)
    BY <1>4, <2>2, Typed DEF Cancelled, IInv
  <2> QED
    BY <2>1, <2>2
<1>7. "idle" \in Stages /\ "idle" \notin {"tunnel_down", "launch", "link"} \cup NoTunnelYet
  BY DEF Stages, NoTunnelYet
<1>8. TypeOK'
  BY <1>2, <1>3, <1>5, <1>6, <1>7, Typed, TypeStep DEF IInv
<1>9. LockInv /\ pc \in [Client -> Stages]
  BY Typed DEF IInv
<1> QED
  BY <1>1, <1>2, <1>4, <1>5, <1>6, <1>7, <1>8, <1>9, Held

-----------------------------------------------------------------------------
(***************************************************************************)
(* The lock is taken.                                                      *)
(***************************************************************************)
LEMMA AcquireKeeps == ASSUME NEW c \in Client PROVE IInv /\ Acquire(c) => IInv'
<1> SUFFICES ASSUME IInv, Acquire(c) PROVE IInv'
  OBVIOUS
<1>1. Unlocked /\ pc[c] = "queued" /\ UNCHANGED <<active, runners, probes, tasks, cancels, cut>>
  BY DEF Acquire
<1>2. /\ open \subseteq {plumbing.tunnel} /\ active \in {None, plumbing.tunnel}
      /\ ~cut => runners \subseteq {plumbing.runner}
      /\ ~(probes /\ ~cut)
      /\ closed /\ ~straggled => plumbing = Bare
  BY <1>1, Free
<1>3. /\ straggled' = (straggled \/ (closed /\ method[c] \in {"connect", "recreate"}))
      /\ method[c] \in Methods
  BY DEF Acquire, IInv, TypeOK
<1>4. LockInv /\ pc \in [Client -> Stages] /\ plumbing \in Plumbing /\ straggled' \in BOOLEAN
  BY <1>3, Typed DEF IInv
<1>5. CASE method[c] = "close_session"
  <2> DEFINE q == [plumbing EXCEPT !.wda = "none", !.session = FALSE]
  <2>1. /\ pc' = [pc EXCEPT ![c] = "idle"] /\ plumbing' = q /\ UNCHANGED <<method, calls>>
        /\ UNCHANGED <<closed, open, handles>>
    BY <1>5 DEF Acquire, Leave
  <2>2. q \in Plumbing /\ q.tunnel = plumbing.tunnel /\ q.runner = plumbing.runner
    BY <1>4 DEF Plumbing
  <2>3. plumbing = Bare => q = Bare
    <3>1. Bare.wda = "none" /\ Bare.session = FALSE
      BY DEF Bare
    <3> QED
      BY <3>1, BareType DEF Plumbing
  <2>4. /\ "idle" \in Stages
        /\ "idle" \notin {"tunnel_down", "launch", "link"} \cup NoTunnelYet \cup Awaits
    BY DEF Stages, NoTunnelYet, Awaits
  <2>5. TypeOK'
    BY <1>1, <1>4, <2>1, <2>2, <2>4, Typed, TypeStep DEF IInv
  <2>6. closed' /\ ~straggled' => plumbing' = Bare
    BY <1>2, <1>3, <2>1, <2>3
  <2> QED
    BY <1>1, <1>2, <1>4, <2>1, <2>2, <2>4, <2>5, <2>6, Held
<1>6. CASE method[c] = "connect" /\ ~Lost(plumbing)
  <2>1. Connect(c, plumbing) /\ UNCHANGED closed
    BY <1>6 DEF Acquire
  <2>2. ~(closed' /\ ~straggled')
    BY <1>3, <1>6, <2>1
  <2>3. CASE Ready(plumbing)
    <3>1. /\ pc' = [pc EXCEPT ![c] = "idle"] /\ plumbing' = plumbing
          /\ UNCHANGED <<method, calls, open, handles>>
      BY <2>1, <2>3 DEF Connect, Leave
    <3>2. "idle" \in Stages /\ "idle" \notin {"tunnel_down", "launch", "link"} \cup NoTunnelYet
      BY DEF Stages, NoTunnelYet
    <3>3. TypeOK'
      BY <1>1, <1>4, <2>1, <3>1, <3>2, Typed, TypeStep DEF IInv
    <3> QED
      BY <1>1, <1>2, <1>4, <2>2, <3>1, <3>2, <3>3, Held
  <2>4. CASE ~Ready(plumbing)
    <3> DEFINE st == ConnectStage(plumbing)
    <3>1. /\ pc' = [pc EXCEPT ![c] = st] /\ plumbing' = WithClient(plumbing)
          /\ UNCHANGED <<method, calls>>
          /\ IF st = "link" THEN handles' = handles + 1 /\ open' = open \cup {handles'}
                            ELSE UNCHANGED <<open, handles>>
      BY <2>1, <2>4 DEF Connect, AwaitAt
    <3>2. /\ plumbing' \in Plumbing
          /\ plumbing'.tunnel = plumbing.tunnel /\ plumbing'.runner = plumbing.runner
          /\ st \in {"select", "mux", "link", "acquire", "probe", "session"}
          /\ st \in NoTunnelYet => plumbing.tunnel = None
      BY <1>4, <3>1, ConnectStages
    <3> HIDE DEF st
    <3>3. st \in Stages /\ st \notin {"tunnel_down", "launch"}
      BY <3>2 DEF Stages, Awaits
    <3>4. /\ open' \subseteq IF st = "link" THEN {handles'} ELSE {plumbing'.tunnel}
          /\ open' \subseteq 1 .. handles' /\ active' \in 0 .. handles'
          /\ handles' \in {handles, handles + 1}
      <4>1. CASE st = "link"
        <5>1. plumbing.tunnel = None /\ open \subseteq 1 .. handles
          BY <3>2, <4>1, Typed DEF NoTunnelYet, IInv
        <5>2. open = {}
          BY <1>2, <5>1 DEF None
        <5> QED
          BY <1>1, <3>1, <4>1, <5>2, Typed DEF IInv
      <4>2. CASE st # "link"
        BY <1>1, <1>2, <3>1, <3>2, <4>2, Typed DEF IInv
      <4> QED
        BY <4>1, <4>2
    <3>5. TypeOK'
      BY <1>1, <1>4, <2>1, <3>1, <3>2, <3>3, <3>4, Typed, TypeStep DEF IInv
    <3> QED
      BY <1>1, <1>2, <1>4, <2>2, <3>1, <3>2, <3>3, <3>4, <3>5, Held
  <2> QED
    BY <2>3, <2>4
<1>7. CASE method[c] # "close_session" /\ ~(method[c] = "connect" /\ ~Lost(plumbing))
  <2>1. TearDown(c) /\ UNCHANGED <<open, handles>>
    BY <1>7 DEF Acquire
  <2>2. CASE plumbing.runner # None
    <3>1. /\ pc' = [pc EXCEPT ![c] = "runner_down"] /\ plumbing' = plumbing
          /\ UNCHANGED <<method, calls, closed>>
      BY <2>1, <2>2 DEF TearDown, AwaitAt
    <3>2. /\ "runner_down" \in Stages
          /\ "runner_down" \notin {"tunnel_down", "launch", "link"} \cup NoTunnelYet
      BY DEF Stages, NoTunnelYet, Awaits
    <3>3. TypeOK'
      BY <1>1, <1>4, <2>1, <3>1, <3>2, Typed, TypeStep DEF IInv
    <3>4. ~(closed' /\ ~straggled')
      BY <1>2, <1>3, <2>2, <3>1, BareType
    <3> QED
      BY <1>1, <1>2, <1>4, <2>1, <3>1, <3>2, <3>3, <3>4, Held
  <2>3. CASE plumbing.runner = None
    <3>1. CloseTunnel(c, plumbing)
      BY <2>1, <2>3 DEF TearDown
    <3>2. PICK st \in {"idle", "select", "mux", "tunnel_down"} :
           /\ pc' = [pc EXCEPT ![c] = st]
           /\ UNCHANGED <<method, calls>>
           /\ \/ st = "tunnel_down" /\ plumbing' = plumbing /\ plumbing.tunnel # None
                 /\ closed' = closed
              \/ st # "tunnel_down" /\ plumbing' = Bare /\ plumbing.tunnel = None
           /\ closed' = closed \/ (closed' = TRUE /\ st = "idle")
      BY <3>1, CloseTunnelStep
    <3>3. /\ plumbing' \in Plumbing /\ plumbing'.runner = None
          /\ plumbing'.tunnel = plumbing.tunnel /\ closed' \in BOOLEAN
          /\ st \in Stages /\ st \notin {"launch", "link"}
      BY <1>4, <2>3, <3>2, BareType, Typed DEF Stages, Awaits, IInv
    <3>4. TypeOK'
      BY <1>1, <1>4, <2>1, <3>2, <3>3, Typed, TypeStep DEF IInv
    <3>5. st \in NoTunnelYet => plumbing'.tunnel = None
      BY <3>2, <3>3 DEF NoTunnelYet
    <3>6. closed' /\ ~straggled' => plumbing' = Bare /\ st \notin Awaits
      <4> SUFFICES ASSUME closed', ~straggled' PROVE plumbing' = Bare /\ st \notin Awaits
        OBVIOUS
      <4>1. CASE closed
        <5>1. plumbing = Bare /\ plumbing.tunnel = None /\ method[c] \notin {"connect", "recreate"}
          BY <1>2, <1>3, <4>1, BareType
        <5>2. method[c] = "close"
          BY <1>3, <1>7, <5>1 DEF Methods
        <5>3. pc' = [pc EXCEPT ![c] = "idle"] /\ plumbing' = Bare
          BY <3>1, <5>1, <5>2 DEF CloseTunnel, TornDown, Leave
        <5>4. st = "idle"
          BY <1>4, <3>2, <5>3
        <5> QED
          BY <5>3, <5>4 DEF Awaits
      <4>2. CASE ~closed
        <5>1. st = "idle"
          BY <3>2, <4>2
        <5> QED
          BY <3>2, <5>1 DEF Awaits
      <4> QED
        BY <4>1, <4>2
    <3> QED
      BY <1>1, <1>2, <1>4, <2>1, <2>3, <3>2, <3>3, <3>4, <3>5, <3>6, Held
  <2> QED
    BY <2>2, <2>3
<1> QED
  BY <1>5, <1>6, <1>7

-----------------------------------------------------------------------------
(***************************************************************************)
(* The steps that hold no lock.                                            *)
(***************************************************************************)
\* A task that has no lock goes to another stage without one, or none moves; what the
\* tunnel and the runner are does not change.
LEMMA Outside ==
  ASSUME IInv, TypeOK',
         \A d \in Client : \/ pc'[d] = pc[d]
                           \/ pc[d] \notin Awaits /\ pc'[d] \notin Awaits,
         plumbing'.tunnel = plumbing.tunnel, plumbing'.runner = plumbing.runner,
         UNCHANGED <<closed, probes, handles, straggled, cut>>,
         open' \subseteq open, active' \in {None, active}, runners' \subseteq runners,
         closed /\ ~straggled => plumbing' = plumbing
  PROVE  IInv'
<1>1. \A d \in Client, st \in Awaits : pc'[d] = st <=> pc[d] = st
  OBVIOUS
<1>2. "tunnel_down" \in Awaits /\ "launch" \in Awaits /\ "link" \in Awaits
      /\ Sifting \subseteq Awaits /\ NoTunnelYet \subseteq Awaits
  BY DEF Awaits, NoTunnelYet, Sifting
<1>3. LockInv'
  BY <1>1 DEF IInv, LockInv
<1>4. StageInv'
  BY <1>1, <1>2 DEF IInv, StageInv
<1>5. OwnInv'
  <2>1. (\E d \in Client : pc'[d] = "link") <=> (\E d \in Client : pc[d] = "link")
    BY <1>1, <1>2
  <2>2. (\E d \in Client : pc'[d] \in Sifting) <=> (\E d \in Client : pc[d] \in Sifting)
    BY <1>1, <1>2
  <2> QED
    BY <2>1, <2>2 DEF IInv, OwnInv, EveryResourceOwned
<1>6. ClosedInv'
  BY <1>1 DEF IInv, ClosedInv, Unlocked, Bare
<1> QED
  BY <1>3, <1>4, <1>5, <1>6 DEF IInv

LEMMA OutsideKeeps ==
  ASSUME NEW c \in Client
  PROVE  IInv /\ (Call(c) \/ CancelledInQueue(c)) => IInv'
<1> SUFFICES ASSUME IInv, Call(c) \/ CancelledInQueue(c) PROVE IInv'
  OBVIOUS
<1>1. CASE Call(c)
  <2>1. /\ pc[c] = "idle" /\ pc' = [pc EXCEPT ![c] = "queued"]
        /\ UNCHANGED <<closed, plumbing, cancels, straggled, cut>> /\ calls' = calls + 1
        /\ UNCHANGED <<open, active, runners, probes, handles, tasks>>
    BY <1>1 DEF Call, resourceVars
  <2>2. method' \in [Client -> Methods]
    BY <1>1 DEF Call, IInv, TypeOK
  <2>3. pc' \in [Client -> {"idle", "queued"} \cup Awaits]
    BY <2>1 DEF IInv, TypeOK
  <2>4. TypeOK'
    BY <2>1, <2>2, <2>3 DEF IInv, TypeOK
  <2>5. \A d \in Client : \/ pc'[d] = pc[d]
                          \/ pc[d] \notin Awaits /\ pc'[d] \notin Awaits
    BY <2>1 DEF IInv, TypeOK, Awaits
  <2> QED
    BY <2>1, <2>4, <2>5, Outside
<1>2. CASE CancelledInQueue(c)
  <2>1. /\ pc[c] = "queued" /\ pc' = [pc EXCEPT ![c] = "idle"]
        /\ UNCHANGED <<method, calls, closed, plumbing, straggled, cut>> /\ cancels' = cancels + 1
        /\ UNCHANGED <<open, active, runners, probes, handles, tasks>>
    BY <1>2 DEF CancelledInQueue, Leave, resourceVars
  <2>2. pc' \in [Client -> {"idle", "queued"} \cup Awaits]
    BY <2>1 DEF IInv, TypeOK
  <2>3. TypeOK'
    BY <2>1, <2>2 DEF IInv, TypeOK
  <2>4. \A d \in Client : \/ pc'[d] = pc[d]
                          \/ pc[d] \notin Awaits /\ pc'[d] \notin Awaits
    BY <2>1 DEF IInv, TypeOK, Awaits
  <2> QED
    BY <2>1, <2>3, <2>4, Outside
<1> QED
  BY <1>1, <1>2

LEMMA WorldKeeps == IInv /\ (TunnelDies \/ RunnerDies \/ SessionGone \/ SessionRenewed) => IInv'
<1> SUFFICES ASSUME IInv, TunnelDies \/ RunnerDies \/ SessionGone \/ SessionRenewed
             PROVE  IInv'
  OBVIOUS
<1>0. plumbing \in Plumbing
  BY Typed DEF IInv
<1>1. CASE TunnelDies
  <2>1. /\ UNCHANGED <<pc, method, calls, closed, runners, probes, handles, tasks, cancels,
                       straggled, cut>>
        /\ plumbing' = [plumbing EXCEPT !.lost = TRUE] /\ plumbing.tunnel \in open
        /\ open' \subseteq open /\ active' \in {None, active}
    BY <1>1 DEF TunnelDies, Released, taskVars
  <2>2. /\ plumbing' \in Plumbing
        /\ plumbing'.tunnel = plumbing.tunnel /\ plumbing'.runner = plumbing.runner
    BY <1>0, <2>1 DEF Plumbing
  <2>3. active' \in 0 .. handles'
    BY <2>1, Typed DEF IInv, None
  <2>4. TypeOK'
    BY <2>1, <2>2, <2>3 DEF IInv, TypeOK, Plumbing
  <2>5. ~(closed /\ ~straggled)
    <3>1. plumbing.tunnel # None
      BY <2>1, Typed DEF IInv, None
    <3> QED
      BY <3>1, BareType DEF IInv, ClosedInv
  <2> QED
    BY <2>1, <2>2, <2>4, <2>5, Outside
<1>2. CASE RunnerDies
  <2>1. /\ UNCHANGED <<pc, method, calls, closed, plumbing, open, active, probes, handles, tasks,
                       cancels, straggled, cut>>
        /\ runners' \subseteq runners
    BY <1>2 DEF RunnerDies, taskVars
  <2>2. TypeOK'
    BY <2>1 DEF IInv, TypeOK
  <2> QED
    BY <2>1, <2>2, Outside
<1>3. CASE SessionGone \/ SessionRenewed
  <2>1. /\ UNCHANGED <<pc, method, calls, closed, cancels, straggled, cut>>
        /\ UNCHANGED <<open, active, runners, probes, handles, tasks>>
    BY <1>3 DEF SessionGone, SessionRenewed, taskVars, resourceVars
  <2>2. PICK up \in BOOLEAN : plumbing' = [plumbing EXCEPT !.session = up]
    BY <1>3 DEF SessionGone, SessionRenewed
  <2>3. /\ plumbing' \in Plumbing
        /\ plumbing'.tunnel = plumbing.tunnel /\ plumbing'.runner = plumbing.runner
    BY <1>0, <2>2 DEF Plumbing
  <2>4. TypeOK'
    BY <2>1, <2>3 DEF IInv, TypeOK, Plumbing
  <2>5. ~(closed /\ ~straggled)
    <3>1. CASE SessionGone
      <4>1. Bare.session = FALSE
        BY DEF Bare
      <4> QED
        BY <3>1, <4>1 DEF SessionGone, IInv, ClosedInv
    <3>2. CASE SessionRenewed
      BY <3>2 DEF SessionRenewed
    <3> QED
      BY <1>3, <3>1, <3>2
  <2> QED
    BY <2>1, <2>3, <2>4, <2>5, Outside
<1> QED
  BY <1>1, <1>2, <1>3

LEMMA IInvHolds == Spec => []IInv
<1>1. IInv /\ [Next]_vars => IInv'
  <2> SUFFICES ASSUME IInv, [Next]_vars PROVE IInv'
    OBVIOUS
  <2>1. ASSUME NEW c \in Client, Call(c) \/ CancelledInQueue(c) PROVE IInv'
    BY <2>1, OutsideKeeps
  <2>2. ASSUME NEW c \in Client, Acquire(c) PROVE IInv'
    BY <2>2, AcquireKeeps
  <2>3. ASSUME NEW c \in Client, RunnerEnded(c) \/ RunnerWaitCut(c) PROVE IInv'
    BY <2>3, RunnerEndedKeeps, RunnerWaitCutKeeps
  <2>4. ASSUME NEW c \in Client, TunnelClosed(c) \/ TunnelCloseCancelled(c) PROVE IInv'
    BY <2>4, TunnelClosedKeeps, TunnelCloseCancelledKeeps
  <2>5. ASSUME NEW c \in Client,
               Reached(c) \/ Unreached(c) \/ SessionStarted(c) PROVE IInv'
    BY <2>5, QuietKeeps
  <2>6. ASSUME NEW c \in Client,
               \/ Browsed(c) \/ Selected(c) \/ MuxSelected(c)
               \/ ServicesFound(c) \/ ProviderKept(c) \/ SiftCancelled(c)
        PROVE  IInv'
    BY <2>6, SelectedKeeps, MuxSelectedKeeps, ServicesFoundKeeps, ProviderKeptKeeps,
       SiftCancelledKeeps
  <2>7. ASSUME NEW c \in Client, Linked(c) \/ Launched(c) PROVE IInv'
    BY <2>7, LinkedKeeps, LaunchedKeeps
  <2>8. ASSUME NEW c \in Client, Fails(c) \/ Cancelled(c) PROVE IInv'
    BY <2>8, AbandonedKeeps
  <2>9. CASE TunnelDies \/ RunnerDies \/ SessionGone \/ SessionRenewed
    BY <2>9, WorldKeeps
  <2>10. CASE UNCHANGED vars
    BY <2>10 DEF vars, taskVars, resourceVars, IInv, TypeOK, LockInv, StageInv, OwnInv,
                 EveryResourceOwned, ClosedInv, Unlocked, Bare
  <2> QED
    BY <2>1, <2>2, <2>3, <2>4, <2>5, <2>6, <2>7, <2>8, <2>9, <2>10 DEF Next
<1> QED
  BY <1>1, InitInv, PTL DEF Spec

\* Every tunnel, runner and pairing service has an owner, through every failure and every
\* cancellation but those that are suppressed at the wait for a runner, or let out of one of
\* the two loops that close services.
THEOREM EveryResourceOwnedCorrect == Spec => []EveryResourceOwned
<1>1. IInv => EveryResourceOwned
  BY DEF IInv, OwnInv
<1> QED
  BY <1>1, IInvHolds, PTL

\* Behind close() nothing is held, unless a connect() or recreate() was at the lock.
THEOREM NothingHeldWhenClosedCorrect == Spec => []NothingHeldWhenClosed
<1> QED
  BY NothingHeld, IInvHolds, PTL

\* The plumbing, the resources and the positions of the calls keep their types.
THEOREM TypeCorrect == Spec => []TypeOK
<1>1. IInv => TypeOK
  BY DEF IInv
<1> QED
  BY <1>1, IInvHolds, PTL
=============================================================================
