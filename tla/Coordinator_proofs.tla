------------------------- MODULE Coordinator_proofs -------------------------
(***************************************************************************)
(* Proofs about Coordinator: for any number of coordinators, calls, owner  *)
(* names, specs in a batch, observations, cancellations, closes and        *)
(* crashes.                                                                *)
(***************************************************************************)
EXTENDS Coordinator, TLAPS

\* The event loop: a call that gives the loop back only at its awaits has it
\* everywhere else.
LoopInv ==
  \A t \in Lane :
    pc[t] \in {"admitted", "planned", "sent", "answered"} \/ ~Async(t) => cpu = t

\* A close() catches calls at their awaits only, and catches all of its coordinator.
EvictedInv ==
  /\ \A t \in evicted : /\ Async(t)
                        /\ pc[t] \in {"waiting", "device", "invalidating", "answered", "done"}
  /\ \A t \in Lane : closed[coord[t]] => t \in evicted

\* The name of a call in the lane holds the lease and is listed once, by its
\* coordinator, unless a close() has undermined that name.
LeaseInv ==
  /\ \A t \in Lane : lease = owner[t] \/ Undermined(t)
  /\ \A k \in Coord, o \in Owner :
       \/ \E e \in evicted : owner[e] = o
       \/ held[k][o] = IF \E t \in Lane : coord[t] = k /\ owner[t] = o THEN 1 ELSE 0

Reached(t, i) == \E a \in touched : a.call = t /\ a.step = i
Completed(t, i) == \E a \in acked : a.call = t /\ a.step = i

Ends == {Row("succeeded", "NONE"), Row("failed", "NONE"), Row("failed", "PARTIAL"),
         Row("unknown", "UNKNOWN")}

\* The rows of a call follow its progress: none ahead of it,
Ahead(t) ==
  \A i \in 1..MaxBatch :
    i > step[t] \/ (i = step[t] /\ pc[t] \in {"new", "admitted"}) =>
      ledger[t][i] = Absent /\ ~Reached(t, i)

\* behind it only ends a batch may go on from,
Behind(t) ==
  \A i \in 1..MaxBatch :
    i < step[t] => ledger[t][i] \in {Row("succeeded", "NONE"), Row("failed", "NONE")}

\* and at its step the intent of the attempt, until the end is recorded.
AtStep(t) ==
  /\ step[t] \in 1..form[t].len
  /\ pc[t] \in {"planned", "sent", "waiting"} => ~Reached(t, step[t])
  /\ pc[t] = "planned" => ledger[t][step[t]] = Row("planned", "NONE")
  /\ pc[t] \in {"sent", "waiting", "device", "answered", "invalidating"} =>
       \/ ledger[t][step[t]] = Row("sent", "UNKNOWN")
       \/ t \in evicted /\ ledger[t][step[t]] = Row("unknown", "UNKNOWN")
  /\ pc[t] = "device" => Attempted(t) \in touched
  /\ pc[t] = "answered" =>
       /\ answer[t] \in Ends
       /\ answer[t].state = "succeeded" => Completed(t, step[t])
       /\ answer[t] = Row("failed", "NONE") => ~Reached(t, step[t])

Progress(t) == Ahead(t) /\ Behind(t) /\ AtStep(t)

RowInv == \A t \in Call : Progress(t)

\* An attempt made under the current revision is still with the device, or its
\* invalidation is still to come, or was not waited for.
CurrentInv ==
  /\ current <= issued
  /\ \A t \in Call : pc[t] \in {"planned", "sent", "waiting"} => rev[t] \in 1..issued
  /\ \A a \in touched : a.rev \in 1..issued
  /\ \A a \in touched :
       a.rev = current => \/ a.call \in abandoned
                          \/ pc[a.call] = "device"
                          \/ pc[a.call] = "invalidating" /\ a.call \in inval

IInv ==
  /\ TypeOK
  /\ LoopInv
  /\ EvictedInv
  /\ LeaseInv
  /\ OneOwner
  /\ RowInv
  /\ LedgerHonest
  /\ CurrentInv
  /\ OneMutationPerRevision

-----------------------------------------------------------------------------
(* Types. *)

Rows == [state : RowStates, effect : Effects]

\* The rows the code writes are rows of the ledger.
LEMMA RowTypes ==
  /\ Absent \in Rows
  /\ Row("planned", "NONE") \in Rows
  /\ Row("sent", "UNKNOWN") \in Rows
  /\ Ends \subseteq Rows
  /\ Row("succeeded", "NONE") \in Rows
  /\ Row("failed", "NONE") \in Rows
  /\ Row("failed", "PARTIAL") \in Rows
  /\ Row("unknown", "UNKNOWN") \in Rows
  BY DEF Absent, Row, Rows, RowStates, Effects, Ends

\* Recovery writes rows.
LEMMA RecoveredType ==
  ASSUME NEW row \in Rows
  PROVE  Recovered(row) \in Rows
  BY RowTypes DEF Recovered

\* A write keeps the type of the ledger.
LEMMA WriteType ==
  ASSUME TypeOK, NEW t \in Call, NEW row \in Rows, Write(t, row)
  PROVE  ledger' \in [Call -> [1..MaxBatch -> Rows]]
  BY DEF Write, TypeOK, Rows

\* The end of a call keeps the types of the leases, the calls and the loop.
LEMMA LeaveType ==
  ASSUME TypeOK, NEW t \in Call, Leave(t)
  PROVE  /\ lease' \in Owner \cup {Free}
         /\ held' \in [Coord -> [Owner -> Nat]]
         /\ pc' \in [Call -> Stages]
         /\ cpu' \in Call \cup {Nobody}
<1>1. owner[t] \in Owner /\ coord[t] \in Coord
  BY DEF TypeOK
<1>2. held' \in [Coord -> [Owner -> Nat]]
  <2>1. CASE t \in evicted \/ held[coord[t]][owner[t]] = 0
    BY <2>1 DEF Leave, TypeOK
  <2>2. CASE ~(t \in evicted \/ held[coord[t]][owner[t]] = 0)
    <3>1. held[coord[t]][owner[t]] - 1 \in Nat
      BY <1>1, <2>2 DEF TypeOK
    <3>. QED
      BY <1>1, <2>2, <3>1 DEF Leave, TypeOK
  <2>. QED
    BY <2>1, <2>2
<1>. QED
  BY <1>2 DEF Leave, TypeOK, Stages

\* So does an answer.
LEMMA AnsweredType ==
  ASSUME TypeOK, NEW t \in Call, NEW row \in Rows, Answered(t, row)
  PROVE  /\ answer' \in [Call -> Rows]
         /\ pc' \in [Call -> Stages]
         /\ cpu' \in Call \cup {Nobody}
  BY DEF Answered, TypeOK, Stages, Rows

\* The initial state has its types.
LEMMA TypeInit ==
  ASSUME Init
  PROVE  TypeOK
<1>. USE BoundsAssumption, FormsAssumption DEF Init
<1>1. ledger \in [Call -> [1..MaxBatch -> Rows]] /\ answer \in [Call -> Rows]
  BY RowTypes
<1>2. step \in [Call -> 1..MaxBatch]
  <2>1. ASSUME NEW t \in Call PROVE 1 \in 1..MaxBatch
    BY DEF Form
  <2>. QED
    BY <2>1
<1>. QED
  BY <1>1, <1>2 DEF TypeOK, Stages, Rows

\* Every step keeps the types.
LEMMA TypeStep ==
  ASSUME TypeOK, RowInv, [Next]_vars
  PROVE  TypeOK'
<1>. USE FormsAssumption, BoundsAssumption DEF Rows
<1>1. ASSUME NEW t \in Call, Admit(t) PROVE TypeOK'
  BY <1>1
  DEF Admit, Stages, TypeOK, leaseVars, flags, callVars, runtimeVars, bounds, history
<1>2. ASSUME NEW t \in Call, Reject(t) PROVE TypeOK'
  BY <1>2
  DEF Reject, Stages, TypeOK, leaseVars, flags, callVars, runtimeVars, bounds, history
<1>3. ASSUME NEW t \in Call, Plan(t) PROVE TypeOK'
  <2>1. rev' \in [Call -> Nat]
    BY <1>3 DEF Plan, TypeOK
  <2>2. ledger' \in [Call -> [1..MaxBatch -> Rows]]
    BY <1>3, WriteType, RowTypes DEF Plan
  <2>. QED
    BY <1>3, <2>1, <2>2
    DEF Plan, Stages, TypeOK, leaseVars, flags, callVars, runtimeVars, bounds, history
<1>4. ASSUME NEW t \in Call, Mark(t) PROVE TypeOK'
  BY <1>4, WriteType, RowTypes
  DEF Mark, Stages, TypeOK, leaseVars, flags, callVars, runtimeVars, bounds, history
<1>5. ASSUME NEW t \in Call, GuardRaises(t) PROVE TypeOK'
  BY <1>5, LeaveType
  DEF GuardRaises, TypeOK, leaseVars, flags, callVars, runtimeVars, bounds, history
<1>6. ASSUME NEW t \in Call, Dispatch(t) PROVE TypeOK'
  BY <1>6, AnsweredType, RowTypes
  DEF Dispatch, Stages, TypeOK, leaseVars, flags, callVars, runtimeVars, bounds, history
<1>7. ASSUME NEW t \in Call, Record(t) PROVE TypeOK'
  <2>1. answer[t] \in Rows
    BY DEF TypeOK, Rows
  <2>2. ledger' \in [Call -> [1..MaxBatch -> Rows]]
    BY <1>7, <2>1, WriteType DEF Record
  <2>3. exe' \in [Call -> {"none", "running"} \cup RowStates]
    BY <1>7, <2>1 DEF Record, TypeOK, Rows
  <2>4. CASE Leave(t) /\ UNCHANGED step
    BY <1>7, <2>2, <2>3, <2>4, LeaveType
    DEF Record, Rows, TypeOK, leaseVars, flags, callVars, runtimeVars, bounds, history
  <2>5. CASE GoesOn(t) /\ step' = [step EXCEPT ![t] = @ + 1]
             /\ pc' = [pc EXCEPT ![t] = "admitted"] /\ UNCHANGED <<leaseVars, cpu>>
    <3>1. form[t].len \in 1..MaxBatch
      BY DEF TypeOK, Form
    <3>2. step[t] + 1 \in 1..MaxBatch
      BY <2>5, <3>1 DEF GoesOn, TypeOK
    <3>3. step' \in [Call -> 1..MaxBatch] /\ pc' \in [Call -> Stages]
      BY <2>5, <3>2 DEF TypeOK, Stages
    <3>4. lease' = lease /\ held' = held /\ cpu' = cpu
      BY <2>5 DEF leaseVars
    <3>. QED
      BY <1>7, <2>2, <2>3, <3>3, <3>4
      DEF Record, TypeOK, flags, callVars, runtimeVars, bounds, history
  <2>. QED
    BY <1>7, <2>4, <2>5 DEF Record
<1>8. ASSUME NEW t \in Call, RunInvalidate(t) PROVE TypeOK'
  BY <1>8
  DEF RunInvalidate, TypeOK, leaseVars, flags, callVars, runtimeVars, bounds, history
<1>9. ASSUME NEW t \in Call, Invalidated(t) PROVE TypeOK'
  BY <1>9, AnsweredType, RowTypes
  DEF Invalidated, TypeOK, leaseVars, flags, callVars, runtimeVars, bounds, history
<1>10. ASSUME NEW t \in Call, Refuse(t) PROVE TypeOK'
  BY <1>10, AnsweredType, RowTypes
  DEF Refuse, TypeOK, leaseVars, flags, callVars, runtimeVars, bounds, history
<1>11. ASSUME NEW t \in Call, Touch(t) PROVE TypeOK'
  <2>1. Attempted(t) \in [call : Call, step : 1..MaxBatch, rev : Nat]
    BY DEF Attempted, TypeOK
  <2>2. touched' \subseteq [call : Call, step : 1..MaxBatch, rev : Nat]
    BY <1>11, <2>1 DEF Touch, TypeOK
  <2>3. acked' \subseteq touched'
    BY <1>11 DEF Touch, TypeOK
  <2>4. pc' \in [Call -> Stages] /\ evicted' \subseteq Call /\ abandoned' \subseteq Call
    BY <1>11 DEF Touch, TypeOK, Stages
  <2>5. UNCHANGED <<lease, held, closed, cancelled, ledger, form, coord, owner, step, rev, late,
                    answer, exe, cpu, current, issued, inval, other, cancels, stops>>
    BY <1>11 DEF Touch, leaseVars, flags, callVars, runtimeVars, bounds
  <2>. QED
    BY <2>2, <2>3, <2>4, <2>5 DEF TypeOK
<1>12. ASSUME NEW t \in Call, Reply(t) PROVE TypeOK'
  <2>1. acked' \subseteq touched'
    BY <1>12 DEF Reply, RowInv, Progress, AtStep, TypeOK
  <2>. QED
    BY <1>12, <2>1, AnsweredType, RowTypes
    DEF Reply, TypeOK, leaseVars, flags, callVars, bounds
<1>13. ASSUME NEW t \in Call, PortGivesUp(t) PROVE TypeOK'
  BY <1>13, LeaveType
  DEF PortGivesUp, TypeOK, leaseVars, flags, callVars, runtimeVars, bounds, history
<1>14. ASSUME NEW t \in Call, Interrupt(t) PROVE TypeOK'
  BY <1>14
  DEF Interrupt, Stages, TypeOK, leaseVars, flags, callVars, runtimeVars, bounds, history
<1>15. ASSUME NEW t \in Call, CancelAgain(t) PROVE TypeOK'
  <2>1. cancels' \in Nat /\ abandoned' \subseteq Call
    BY <1>15 DEF CancelAgain, TypeOK
  <2>. QED
    BY <1>15, <2>1, LeaveType
    DEF CancelAgain, TypeOK, flags, callVars, runtimeVars
<1>16. ASSUME NEW t \in Call, Time(t) PROVE TypeOK'
  BY <1>16
  DEF Time, TypeOK, leaseVars, flags, callVars, runtimeVars, bounds, history
<1>17. ASSUME NEW k \in Coord, Cancel(k) PROVE TypeOK'
  <2>1. cancels' \in Nat /\ cancelled' \in [Coord -> BOOLEAN]
    BY <1>17 DEF Cancel, TypeOK
  <2>. QED
    BY <1>17, <2>1 DEF Cancel, TypeOK, leaseVars, callVars, runtimeVars, history
<1>18. ASSUME NEW k \in Coord, Close(k) PROVE TypeOK'
  BY <1>18
  DEF Close, Lane, TypeOK, leaseVars, flags, callVars, runtimeVars, bounds, history
<1>19. ASSUME NEW k \in Coord, Reopen(k) PROVE TypeOK'
  BY <1>19, RecoveredType
  DEF Reopen, TypeOK, leaseVars, flags, callVars, runtimeVars, bounds, history
<1>20. CASE OtherStarts \/ Observed \/ OtherEnds
  <2>1. /\ current' \in Nat /\ issued' \in Nat
        /\ other' \in {"none", "observe", "recover"}
    BY <1>20 DEF OtherStarts, Observed, OtherEnds, TypeOK
  <2>2. UNCHANGED <<leaseVars, flags, ledger, callVars, pc, step, rev, late, answer, exe, cpu,
                    inval, bounds, history>>
    BY <1>20 DEF OtherStarts, Observed, OtherEnds
  <2>. QED
    BY <2>1, <2>2 DEF TypeOK, leaseVars, flags, callVars, bounds, history
<1>21. CASE Crash
  BY <1>21, RecoveredType
  DEF Crash, Stages, TypeOK, leaseVars, flags, callVars, runtimeVars, bounds, history
<1>22. CASE UNCHANGED vars
  BY <1>22 DEF vars, TypeOK, leaseVars, flags, callVars, runtimeVars, bounds, history
<1>. QED
  BY <1>1, <1>2, <1>3, <1>4, <1>5, <1>6, <1>7, <1>8, <1>9, <1>10, <1>11, <1>12, <1>13,
     <1>14, <1>15, <1>16, <1>17, <1>18, <1>19, <1>20, <1>21, <1>22
  DEF Next, Proceed, Device

-----------------------------------------------------------------------------
(* The loop and the lane. *)

\* A call keeps the loop between its awaits.
LEMMA LoopStep ==
  ASSUME TypeOK, LoopInv, [Next]_vars
  PROVE  LoopInv'
<1>0. pc \in [Call -> Stages]
  BY DEF TypeOK
<1>1. ASSUME NEW t \in Call, Admit(t) PROVE LoopInv'
  BY <1>1, <1>0, NamesAssumption DEF Admit, callVars, Lane, LoopInv, Async
<1>2. ASSUME NEW t \in Call, Reject(t) PROVE LoopInv'
  BY <1>2, <1>0, NamesAssumption DEF Reject, callVars, Lane, LoopInv, Async
<1>3. ASSUME NEW t \in Call, Plan(t) PROVE LoopInv'
  BY <1>3, <1>0, NamesAssumption DEF Plan, callVars, Lane, LoopInv, Async
<1>4. ASSUME NEW t \in Call, Mark(t) PROVE LoopInv'
  BY <1>4, <1>0, NamesAssumption DEF Mark, callVars, Lane, LoopInv, Async
<1>5. ASSUME NEW t \in Call, GuardRaises(t) PROVE LoopInv'
  BY <1>5, <1>0, NamesAssumption DEF GuardRaises, Leave, callVars, Lane, LoopInv, Async
<1>6. ASSUME NEW t \in Call, Dispatch(t) PROVE LoopInv'
  BY <1>6, <1>0, NamesAssumption DEF Dispatch, callVars, Answered, Lane, LoopInv, Async
<1>7. ASSUME NEW t \in Call, Record(t) PROVE LoopInv'
  BY <1>7, <1>0, NamesAssumption DEF Record, Leave, callVars, Lane, LoopInv, Async
<1>8. ASSUME NEW t \in Call, RunInvalidate(t) PROVE LoopInv'
  BY <1>8, <1>0, NamesAssumption DEF RunInvalidate, callVars, Lane, LoopInv, Async
<1>9. ASSUME NEW t \in Call, Invalidated(t) PROVE LoopInv'
  BY <1>9, <1>0, NamesAssumption
  DEF Invalidated, callVars, Answered, Lane, LoopInv, Async
<1>10. ASSUME NEW t \in Call, Refuse(t) PROVE LoopInv'
  BY <1>10, <1>0, NamesAssumption
  DEF Refuse, callVars, Answered, Lane, CanRun, LoopInv, Async
<1>11. ASSUME NEW t \in Call, Touch(t) PROVE LoopInv'
  BY <1>11, <1>0, NamesAssumption DEF Touch, callVars, Lane, CanRun, LoopInv, Async
<1>12. ASSUME NEW t \in Call, Reply(t) PROVE LoopInv'
  BY <1>12, <1>0, NamesAssumption
  DEF Reply, callVars, Answered, Lane, CanRun, LoopInv, Async
<1>13. ASSUME NEW t \in Call, PortGivesUp(t) PROVE LoopInv'
  BY <1>13, <1>0, NamesAssumption DEF PortGivesUp, Leave, callVars, Lane, LoopInv, Async
<1>14. ASSUME NEW t \in Call, Interrupt(t) PROVE LoopInv'
  BY <1>14, <1>0, NamesAssumption DEF Interrupt, callVars, Lane, LoopInv, Async
<1>15. ASSUME NEW t \in Call, CancelAgain(t) PROVE LoopInv'
  BY <1>15, <1>0, NamesAssumption DEF CancelAgain, Leave, callVars, Lane, LoopInv, Async
<1>16. ASSUME NEW t \in Call, Time(t) PROVE LoopInv'
  BY <1>16, <1>0, NamesAssumption DEF Time, callVars, Lane, LoopInv, Async
<1>17. ASSUME NEW k \in Coord, Cancel(k) PROVE LoopInv'
  BY <1>17, <1>0, NamesAssumption DEF Cancel, callVars, Lane, LoopInv, Async
<1>18. ASSUME NEW k \in Coord, Close(k) PROVE LoopInv'
  BY <1>18, <1>0, NamesAssumption DEF Close, callVars, Lane, LoopInv, Async
<1>19. ASSUME NEW k \in Coord, Reopen(k) PROVE LoopInv'
  BY <1>19, <1>0, NamesAssumption DEF Reopen, callVars, Lane, LoopInv, Async
<1>20. CASE OtherStarts \/ Observed \/ OtherEnds
  BY <1>20, <1>0, NamesAssumption
  DEF OtherStarts, Observed, OtherEnds, callVars, Lane, LoopInv, Async
<1>21. CASE Crash
  BY <1>21, <1>0, NamesAssumption DEF Crash, callVars, Lane, LoopInv, Async
<1>22. CASE UNCHANGED vars
  BY <1>22, <1>0, NamesAssumption DEF vars, callVars, Lane, LoopInv, Async
<1>. QED
  BY <1>1, <1>2, <1>3, <1>4, <1>5, <1>6, <1>7, <1>8, <1>9, <1>10, <1>11, <1>12, <1>13,
     <1>14, <1>15, <1>16, <1>17, <1>18, <1>19, <1>20, <1>21, <1>22
  DEF Next, Proceed, Device

\* A call whose coordinator was closed is at its last spec.
LEMMA EvictedStops ==
  ASSUME TypeOK, EvictedInv, NEW t \in evicted
  PROVE  ~GoesOn(t)
<1>1. form[t] \in Forms /\ step[t] \in 1..MaxBatch
  BY DEF TypeOK
<1>2. form[t].mode # "batch"
  BY DEF EvictedInv, Async
<1>3. form[t].len = 1
  BY <1>1, <1>2, FormsAssumption
<1>. QED
  BY <1>1, <1>3 DEF GoesOn

\* A close() finds the calls of its coordinator at their awaits, and no call
\* enters a closed one.
LEMMA EvictedStep ==
  ASSUME TypeOK, LoopInv, EvictedInv, [Next]_vars
  PROVE  EvictedInv'
<1>0. /\ pc \in [Call -> Stages] /\ coord \in [Call -> Coord]
      /\ evicted \subseteq Call /\ closed \in [Coord -> BOOLEAN]
  BY DEF TypeOK
<1>1. ASSUME NEW t \in Call, Admit(t) PROVE EvictedInv'
  BY <1>1, <1>0, NamesAssumption
  DEF Admit, flags, callVars, history, Lane, LoopInv, EvictedInv, Async
<1>2. ASSUME NEW t \in Call, Reject(t) PROVE EvictedInv'
  BY <1>2, <1>0, NamesAssumption
  DEF Reject, flags, callVars, history, Lane, LoopInv, EvictedInv, Async
<1>3. ASSUME NEW t \in Call, Plan(t) PROVE EvictedInv'
  BY <1>3, <1>0, NamesAssumption
  DEF Plan, flags, callVars, history, Lane, LoopInv, EvictedInv, Async
<1>4. ASSUME NEW t \in Call, Mark(t) PROVE EvictedInv'
  BY <1>4, <1>0, NamesAssumption
  DEF Mark, flags, callVars, history, Lane, LoopInv, EvictedInv, Async
<1>5. ASSUME NEW t \in Call, GuardRaises(t) PROVE EvictedInv'
  BY <1>5, <1>0, NamesAssumption
  DEF GuardRaises, Leave, flags, callVars, history, Lane, LoopInv, EvictedInv, Async
<1>6. ASSUME NEW t \in Call, Dispatch(t) PROVE EvictedInv'
  BY <1>6, <1>0, NamesAssumption
  DEF Dispatch, flags, callVars, history, Answered, Lane, LoopInv, EvictedInv, Async
<1>7. ASSUME NEW t \in Call, Record(t) PROVE EvictedInv'
  BY <1>7, <1>0, EvictedStops
  DEF Record, Leave, Lane, EvictedInv, Async, flags, callVars, history
<1>8. ASSUME NEW t \in Call, RunInvalidate(t) PROVE EvictedInv'
  BY <1>8, <1>0, NamesAssumption
  DEF RunInvalidate, flags, callVars, history, Lane, LoopInv, EvictedInv, Async
<1>9. ASSUME NEW t \in Call, Invalidated(t) PROVE EvictedInv'
  BY <1>9, <1>0, NamesAssumption
  DEF Invalidated, flags, callVars, history, Answered, Lane, LoopInv, EvictedInv, Async
<1>10. ASSUME NEW t \in Call, Refuse(t) PROVE EvictedInv'
  BY <1>10, <1>0, NamesAssumption
  DEF Refuse, flags, callVars, history, Answered, Lane, CanRun, LoopInv, EvictedInv,
      Async
<1>11. ASSUME NEW t \in Call, Touch(t) PROVE EvictedInv'
  BY <1>11, <1>0, NamesAssumption
  DEF Touch, flags, callVars, Lane, CanRun, LoopInv, EvictedInv, Async
<1>12. ASSUME NEW t \in Call, Reply(t) PROVE EvictedInv'
  BY <1>12, <1>0, NamesAssumption
  DEF Reply, flags, callVars, Answered, Lane, CanRun, LoopInv, EvictedInv, Async
<1>13. ASSUME NEW t \in Call, PortGivesUp(t) PROVE EvictedInv'
  BY <1>13, <1>0, NamesAssumption
  DEF PortGivesUp, Leave, flags, callVars, history, Lane, LoopInv, EvictedInv, Async
<1>14. ASSUME NEW t \in Call, Interrupt(t) PROVE EvictedInv'
  BY <1>14, <1>0, NamesAssumption
  DEF Interrupt, flags, callVars, history, Lane, LoopInv, EvictedInv, Async
<1>15. ASSUME NEW t \in Call, CancelAgain(t) PROVE EvictedInv'
  BY <1>15, <1>0, NamesAssumption
  DEF CancelAgain, Leave, flags, callVars, Lane, LoopInv, EvictedInv, Async
<1>16. ASSUME NEW t \in Call, Time(t) PROVE EvictedInv'
  BY <1>16, <1>0, NamesAssumption
  DEF Time, flags, callVars, history, Lane, LoopInv, EvictedInv, Async
<1>17. ASSUME NEW k \in Coord, Cancel(k) PROVE EvictedInv'
  BY <1>17, <1>0, NamesAssumption
  DEF Cancel, callVars, history, Lane, LoopInv, EvictedInv, Async
<1>18. ASSUME NEW k \in Coord, Close(k) PROVE EvictedInv'
  <2>1. ASSUME NEW t \in Lane, coord[t] = k
        PROVE  Async(t) /\ pc[t] \in {"waiting", "device", "invalidating"}
    <3>1. cpu = Nobody /\ t \in Call /\ pc[t] \in Stages
      BY <1>18, <1>0 DEF Close, Lane
    <3>. QED
      BY <2>1, <3>1, NamesAssumption DEF LoopInv, Lane, Stages
  <2>2. pc' = pc /\ form' = form /\ coord' = coord
    BY <1>18 DEF Close, callVars
  <2>3. /\ evicted' = evicted \cup {t \in Lane : coord[t] = k}
        /\ closed' = [closed EXCEPT ![k] = TRUE]
    BY <1>18 DEF Close
  <2>4. \A t \in evicted' :
          /\ Async(t)'
          /\ pc'[t] \in {"waiting", "device", "invalidating", "answered", "done"}
    BY <2>1, <2>2, <2>3 DEF EvictedInv, Async
  <2>5. \A t \in Lane' : closed'[coord'[t]] => t \in evicted'
    BY <1>0, <2>2, <2>3 DEF EvictedInv, Lane
  <2>. QED
    BY <2>4, <2>5 DEF EvictedInv
<1>19. ASSUME NEW k \in Coord, Reopen(k) PROVE EvictedInv'
  BY <1>19, <1>0, NamesAssumption
  DEF Reopen, callVars, history, Lane, LoopInv, EvictedInv, Async
<1>20. CASE OtherStarts \/ Observed \/ OtherEnds
  BY <1>20, <1>0, NamesAssumption
  DEF OtherStarts, Observed, OtherEnds, flags, callVars, history, Lane, LoopInv, EvictedInv, Async
<1>21. CASE Crash
  BY <1>21, <1>0, NamesAssumption
  DEF Crash, callVars, history, Lane, LoopInv, EvictedInv, Async
<1>22. CASE UNCHANGED vars
  BY <1>22, <1>0, NamesAssumption
  DEF vars, flags, callVars, history, Lane, LoopInv, EvictedInv, Async
<1>. QED
  BY <1>1, <1>2, <1>3, <1>4, <1>5, <1>6, <1>7, <1>8, <1>9, <1>10, <1>11, <1>12, <1>13,
     <1>14, <1>15, <1>16, <1>17, <1>18, <1>19, <1>20, <1>21, <1>22
  DEF Next, Proceed, Device

\* Steps that do not touch the lane.
LEMMA LeaseSame ==
  ASSUME LeaseInv, OneOwner, Lane' = Lane,
         UNCHANGED <<lease, held, coord, owner, evicted>>
  PROVE  LeaseInv' /\ OneOwner'
  BY DEF LeaseInv, OneOwner, Undermined

\* The end of a call in the lane.
LEMMA LeaseLeave ==
  ASSUME TypeOK, EvictedInv, LeaseInv, OneOwner, NEW t \in Lane, Leave(t),
         UNCHANGED <<coord, owner, evicted>>
  PROVE  LeaseInv' /\ OneOwner'
<1>0. /\ pc \in [Call -> Stages] /\ coord \in [Call -> Coord] /\ owner \in [Call -> Owner]
      /\ held \in [Coord -> [Owner -> Nat]] /\ evicted \subseteq Call /\ t \in Call
  BY DEF TypeOK, Lane
<1>1. Lane' = Lane \ {t}
  BY <1>0 DEF Leave, Lane
<1>2. \A u : Undermined(u)' = Undermined(u)
  BY DEF Undermined
<1>3. OneOwner'
  BY <1>1, <1>2 DEF OneOwner
<1>4. ASSUME NEW u \in Lane' PROVE lease' = owner'[u] \/ Undermined(u)'
  BY <1>1, <1>2 DEF LeaseInv, OneOwner, Leave, Undermined
<1>5. ASSUME NEW k \in Coord, NEW o \in Owner
      PROVE  \/ \E e \in evicted' : owner'[e] = o
             \/ held'[k][o] = IF \E u \in Lane' : coord'[u] = k /\ owner'[u] = o THEN 1 ELSE 0
  <2>1. CASE \E e \in evicted : owner[e] = o
    BY <2>1
  <2>2. CASE ~(\E e \in evicted : owner[e] = o) /\ o = owner[t]
    <3>1. \A u \in Lane : u # t => owner[u] # o
      BY <2>2 DEF OneOwner, Undermined
    <3>2. t \notin evicted
      BY <2>2
    <3>3. held[k][o] = IF \E u \in Lane : coord[u] = k /\ owner[u] = o THEN 1 ELSE 0
      BY <2>2 DEF LeaseInv
    <3>4. held'[k][o] = 0
      <4>1. CASE k = coord[t]
        <5>1. held[k][o] = 1
          BY <2>2, <3>3, <4>1
        <5>. QED
          BY <1>0, <2>2, <3>2, <4>1, <5>1 DEF Leave
      <4>2. CASE k # coord[t]
        <5>1. held[k][o] = 0
          BY <2>2, <3>1, <3>3, <4>2
        <5>. QED
          BY <1>0, <2>2, <4>2, <5>1 DEF Leave
      <4>. QED
        BY <4>1, <4>2
    <3>. QED
      BY <1>1, <3>1, <3>4
  <2>3. CASE ~(\E e \in evicted : owner[e] = o) /\ o # owner[t]
    <3>1. held'[k][o] = held[k][o]
      BY <1>0, <2>3 DEF Leave
    <3>. QED
      BY <1>1, <2>3, <3>1 DEF LeaseInv
  <2>. QED
    BY <2>1, <2>2, <2>3
<1>. QED
  BY <1>3, <1>4, <1>5 DEF LeaseInv

\* The lane belongs to the holder of the lease.
LEMMA LeaseStep ==
  ASSUME TypeOK, LoopInv, EvictedInv, LeaseInv, OneOwner, [Next]_vars
  PROVE  LeaseInv' /\ OneOwner'
<1>0. pc \in [Call -> Stages] /\ coord \in [Call -> Coord] /\ owner \in [Call -> Owner]
      /\ held \in [Coord -> [Owner -> Nat]] /\ evicted \subseteq Call
  BY DEF TypeOK
<1>1. ASSUME NEW t \in Call, Admit(t) PROVE LeaseInv' /\ OneOwner'
  <2>1. Lane' = Lane \cup {t} /\ t \notin Lane /\ lease = Free /\ lease' = owner[t]
    BY <1>1, <1>0 DEF Admit, Lane
  <2>2. UNCHANGED <<coord, owner, evicted>>
    BY <1>1 DEF Admit, callVars, history
  <2>3. \A u \in Lane : Undermined(u)
    BY <1>0, <2>1, NamesAssumption DEF LeaseInv, Lane
  <2>4. OneOwner'
    BY <2>1, <2>2, <2>3 DEF OneOwner, Undermined
  <2>5. \A u \in Lane' : lease' = owner'[u] \/ Undermined(u)'
    BY <2>1, <2>2, <2>3 DEF Undermined
  <2>6. ASSUME NEW k \in Coord, NEW o \in Owner, ~(\E e \in evicted' : owner'[e] = o)
        PROVE  held'[k][o] = IF \E u \in Lane' : coord'[u] = k /\ owner'[u] = o THEN 1 ELSE 0
    <3>1. ~(\E u \in Lane : owner[u] = o)
      BY <2>2, <2>3, <2>6 DEF Undermined
    <3>2. held[k][o] = 0
      BY <2>2, <2>6, <3>1 DEF LeaseInv
    <3>3. held'[k][o] = IF k = coord[t] /\ o = owner[t] THEN held[k][o] + 1 ELSE held[k][o]
      BY <1>1, <1>0 DEF Admit
    <3>. QED
      BY <2>1, <2>2, <3>1, <3>2, <3>3
  <2>. QED
    BY <2>4, <2>5, <2>6 DEF LeaseInv
<1>2. ASSUME NEW t \in Call, Reject(t) PROVE LeaseInv' /\ OneOwner'
  <2>1. Lane' = Lane
    BY <1>2, <1>0 DEF Reject, Lane
  <2>. QED
    BY <1>2, <2>1, LeaseSame DEF Reject, leaseVars, callVars, history
<1>3. ASSUME NEW t \in Call, Plan(t) PROVE LeaseInv' /\ OneOwner'
  <2>1. Lane' = Lane
    BY <1>3, <1>0 DEF Plan, Lane
  <2>. QED
    BY <1>3, <2>1, LeaseSame DEF Plan, leaseVars, callVars, history
<1>4. ASSUME NEW t \in Call, Mark(t) PROVE LeaseInv' /\ OneOwner'
  <2>1. Lane' = Lane
    BY <1>4, <1>0 DEF Mark, Lane
  <2>. QED
    BY <1>4, <2>1, LeaseSame DEF Mark, leaseVars, callVars, history
<1>5. ASSUME NEW t \in Call, GuardRaises(t) PROVE LeaseInv' /\ OneOwner'
  BY <1>5, LeaseLeave DEF GuardRaises, Lane, callVars, history
<1>6. ASSUME NEW t \in Call, Dispatch(t) PROVE LeaseInv' /\ OneOwner'
  <2>1. Lane' = Lane
    BY <1>6, <1>0 DEF Dispatch, Lane, Answered
  <2>. QED
    BY <1>6, <2>1, LeaseSame DEF Dispatch, leaseVars, callVars, history
<1>7. ASSUME NEW t \in Call, Record(t) PROVE LeaseInv' /\ OneOwner'
  <2>1. t \in Lane
    BY <1>7 DEF Record, Lane
  <2>2. CASE Leave(t)
    BY <1>7, <2>1, <2>2, LeaseLeave DEF Record, callVars, history
  <2>3. CASE pc' = [pc EXCEPT ![t] = "admitted"] /\ UNCHANGED <<leaseVars, cpu>>
    <3>1. Lane' = Lane
      BY <1>7, <1>0, <2>3 DEF Record, Lane
    <3>. QED
      BY <1>7, <2>3, <3>1, LeaseSame DEF Record, leaseVars, callVars, history
  <2>. QED
    BY <1>7, <2>2, <2>3 DEF Record
<1>8. ASSUME NEW t \in Call, RunInvalidate(t) PROVE LeaseInv' /\ OneOwner'
  <2>1. Lane' = Lane
    BY <1>8, <1>0 DEF RunInvalidate, Lane
  <2>. QED
    BY <1>8, <2>1, LeaseSame DEF RunInvalidate, leaseVars, callVars, history
<1>9. ASSUME NEW t \in Call, Invalidated(t) PROVE LeaseInv' /\ OneOwner'
  <2>1. Lane' = Lane
    BY <1>9, <1>0 DEF Invalidated, Lane, Answered
  <2>. QED
    BY <1>9, <2>1, LeaseSame DEF Invalidated, leaseVars, callVars, history
<1>10. ASSUME NEW t \in Call, Refuse(t) PROVE LeaseInv' /\ OneOwner'
  <2>1. Lane' = Lane
    BY <1>10, <1>0 DEF Refuse, Lane, Answered
  <2>. QED
    BY <1>10, <2>1, LeaseSame DEF Refuse, leaseVars, callVars, history
<1>11. ASSUME NEW t \in Call, Touch(t) PROVE LeaseInv' /\ OneOwner'
  <2>1. Lane' = Lane
    BY <1>11, <1>0 DEF Touch, Lane
  <2>. QED
    BY <1>11, <2>1, LeaseSame DEF Touch, leaseVars, callVars
<1>12. ASSUME NEW t \in Call, Reply(t) PROVE LeaseInv' /\ OneOwner'
  <2>1. Lane' = Lane
    BY <1>12, <1>0 DEF Reply, Lane, Answered
  <2>. QED
    BY <1>12, <2>1, LeaseSame DEF Reply, leaseVars, callVars
<1>13. ASSUME NEW t \in Call, PortGivesUp(t) PROVE LeaseInv' /\ OneOwner'
  BY <1>13, LeaseLeave DEF PortGivesUp, Lane, callVars, history
<1>14. ASSUME NEW t \in Call, Interrupt(t) PROVE LeaseInv' /\ OneOwner'
  <2>1. Lane' = Lane
    BY <1>14, <1>0 DEF Interrupt, Lane
  <2>. QED
    BY <1>14, <2>1, LeaseSame DEF Interrupt, leaseVars, callVars, history
<1>15. ASSUME NEW t \in Call, CancelAgain(t) PROVE LeaseInv' /\ OneOwner'
  BY <1>15, LeaseLeave DEF CancelAgain, Lane, callVars
<1>16. ASSUME NEW t \in Call, Time(t) PROVE LeaseInv' /\ OneOwner'
  <2>1. Lane' = Lane
    BY <1>16, <1>0 DEF Time, Lane
  <2>. QED
    BY <1>16, <2>1, LeaseSame DEF Time, leaseVars, callVars, history
<1>17. ASSUME NEW k \in Coord, Cancel(k) PROVE LeaseInv' /\ OneOwner'
  <2>1. Lane' = Lane
    BY <1>17, <1>0 DEF Cancel, Lane
  <2>. QED
    BY <1>17, <2>1, LeaseSame DEF Cancel, leaseVars, callVars, history
<1>18. ASSUME NEW k \in Coord, Close(k) PROVE LeaseInv' /\ OneOwner'
  <2>1. /\ Lane' = Lane /\ UNCHANGED <<coord, owner>>
        /\ evicted' = evicted \cup {t \in Lane : coord[t] = k}
        /\ lease' = IF \E o \in Owner : o = lease /\ held[k][o] > 0 THEN Free ELSE lease
        /\ held' = [held EXCEPT ![k] = [o \in Owner |-> 0]]
    BY <1>18 DEF Close, Lane, callVars
  <2>2. \A t : Undermined(t) => Undermined(t)'
    BY <2>1 DEF Undermined
  <2>3. OneOwner'
    BY <2>1, <2>2 DEF OneOwner
  <2>4. ASSUME NEW t \in Lane, ~Undermined(t)' PROVE lease' = owner[t]
    <3>1. lease = owner[t] /\ owner[t] \in Owner /\ ~Undermined(t)
      BY <1>0, <2>2, <2>4 DEF LeaseInv, Lane
    <3>2. \A u \in Lane : coord[u] = k => owner[u] # owner[t]
      BY <2>1, <2>4 DEF Undermined
    <3>3. held[k][owner[t]] = 0
      BY <3>1, <3>2 DEF LeaseInv, Undermined
    <3>. QED
      BY <2>1, <3>1, <3>3
  <2>5. ASSUME NEW j \in Coord, NEW o \in Owner, ~(\E e \in evicted' : owner'[e] = o)
        PROVE  held'[j][o] = IF \E u \in Lane' : coord'[u] = j /\ owner'[u] = o THEN 1 ELSE 0
    <3>1. CASE j = k
      BY <1>0, <2>1, <2>5, <3>1
    <3>2. CASE j # k
      BY <1>0, <2>1, <2>5, <3>2 DEF LeaseInv
    <3>. QED
      BY <3>1, <3>2
  <2>. QED
    BY <2>1, <2>3, <2>4, <2>5 DEF LeaseInv
<1>19. ASSUME NEW k \in Coord, Reopen(k) PROVE LeaseInv' /\ OneOwner'
  <2>1. Lane' = Lane
    BY <1>19, <1>0 DEF Reopen, Lane
  <2>. QED
    BY <1>19, <2>1, LeaseSame DEF Reopen, leaseVars, callVars, history
<1>20. CASE OtherStarts \/ Observed \/ OtherEnds
  <2>1. Lane' = Lane
    BY <1>20, <1>0 DEF OtherStarts, Observed, OtherEnds, Lane
  <2>. QED
    BY <1>20, <2>1, LeaseSame DEF OtherStarts, Observed, OtherEnds, leaseVars, callVars, history
<1>21. CASE Crash
  <2>1. /\ Lane' = {} /\ held' = [k \in Coord |-> [o \in Owner |-> 0]]
    BY <1>21, <1>0 DEF Crash, Lane
  <2>. QED
    BY <2>1 DEF LeaseInv, OneOwner
<1>22. CASE UNCHANGED vars
  <2>1. Lane' = Lane
    BY <1>22, <1>0 DEF vars, Lane
  <2>. QED
    BY <1>22, <2>1, LeaseSame DEF vars, leaseVars, callVars, history
<1>. QED
  BY <1>1, <1>2, <1>3, <1>4, <1>5, <1>6, <1>7, <1>8, <1>9, <1>10, <1>11, <1>12, <1>13,
     <1>14, <1>15, <1>16, <1>17, <1>18, <1>19, <1>20, <1>21, <1>22
  DEF Next, Proceed, Device

-----------------------------------------------------------------------------
(* The rows. *)

HonestRow(t, i) ==
  /\ ledger[t][i].state = "succeeded" => Completed(t, i)
  /\ ledger[t][i].state = "failed" /\ ledger[t][i].effect = "NONE" => ~Reached(t, i)
  /\ Reached(t, i) => ledger[t][i].state \notin {"absent", "planned"}

\* LedgerHonest row by row.
LEMMA HonestRows ==
  LedgerHonest <=> \A t \in Call, i \in 1..MaxBatch : HonestRow(t, i)
  BY DEF LedgerHonest, HonestRow, Reached, Completed

\* A call is as it was when nothing of its own changed; it may have been evicted.
LEMMA CallSame ==
  ASSUME NEW t \in Call, Progress(t), \A i \in 1..MaxBatch : HonestRow(t, i),
         pc'[t] = pc[t], step'[t] = step[t], rev'[t] = rev[t], form'[t] = form[t],
         answer'[t] = answer[t], ledger'[t] = ledger[t],
         t \in evicted => t \in evicted',
         \A a : a.call = t => /\ a \in touched' <=> a \in touched
                              /\ a \in acked' <=> a \in acked
  PROVE  Progress(t)' /\ \A i \in 1..MaxBatch : HonestRow(t, i)'
<1>1. \A i : (Reached(t, i)' <=> Reached(t, i)) /\ (Completed(t, i)' <=> Completed(t, i))
  BY DEF Reached, Completed
<1>2. Attempted(t)' = Attempted(t) /\ Attempted(t).call = t
  BY DEF Attempted
<1>3. Attempted(t) \in touched => Attempted(t) \in touched'
  BY <1>2
<1>4. Progress(t)'
  BY <1>1, <1>2, <1>3 DEF Progress, Ahead, Behind, AtStep
<1>5. \A i \in 1..MaxBatch : HonestRow(t, i)'
  BY <1>1 DEF HonestRow
<1>. QED
  BY <1>4, <1>5

\* What recovery does to the rows of a call.
LEMMA RecoveredRow ==
  /\ Recovered(Absent) = Absent
  /\ \A row \in Ends : Recovered(row) = row
  /\ Recovered(Row("sent", "UNKNOWN")) = Row("unknown", "UNKNOWN")
  /\ Recovered(Row("unknown", "UNKNOWN")) = Row("unknown", "UNKNOWN")
  /\ \A row \in Rows : Recovered(row) = row \/ Recovered(row) = Row("unknown", "UNKNOWN")
  /\ \A row \in Rows : Recovered(row).state # "planned"
  BY DEF Recovered, Row, Absent, Ends, Incomplete, Rows

\* Steps the device is not part of.
LEMMA ReachSame ==
  ASSUME UNCHANGED <<touched, acked>>
  PROVE  \A u, i : (Reached(u, i)' <=> Reached(u, i)) /\ (Completed(u, i)' <=> Completed(u, i))
  BY DEF Reached, Completed

\* Rows that are not written.
LEMMA HonestSame ==
  ASSUME LedgerHonest, NEW t \in Call, ledger'[t] = ledger[t], UNCHANGED <<touched, acked>>
  PROVE  \A i \in 1..MaxBatch : HonestRow(t, i)'
  BY HonestRows, ReachSame DEF HonestRow

\* A row that is written.
LEMMA HonestWrite ==
  ASSUME LedgerHonest, NEW t \in Call, NEW row, Write(t, row), UNCHANGED <<touched, acked>>,
         ledger \in [Call -> [1..MaxBatch -> Rows]], step \in [Call -> 1..MaxBatch],
         row.state = "succeeded" => Completed(t, step[t]),
         row.state = "failed" /\ row.effect = "NONE" => ~Reached(t, step[t]),
         Reached(t, step[t]) => row.state \notin {"absent", "planned"}
  PROVE  \A i \in 1..MaxBatch : HonestRow(t, i)'
<1>1. ASSUME NEW i \in 1..MaxBatch PROVE HonestRow(t, i)'
  <2>1. ledger'[t][i] = IF t \notin evicted /\ i = step[t] THEN row ELSE ledger[t][i]
    BY DEF Write
  <2>. QED
    BY <2>1, HonestRows, ReachSame DEF HonestRow
<1>. QED
  BY <1>1

\* What a write does.
LEMMA Written ==
  ASSUME MaxBatch \in Nat, NEW t \in Call, NEW row, Write(t, row),
         ledger \in [Call -> [1..MaxBatch -> Rows]], step \in [Call -> 1..MaxBatch]
  PROVE  /\ \A i \in 1..MaxBatch :
              ledger'[t][i] = IF t \notin evicted /\ i = step[t] THEN row ELSE ledger[t][i]
         /\ \A u \in Call : u # t => ledger'[u] = ledger[u]
  BY DEF Write

\* A write leaves the rows before and behind its own alone.
LEMMA WriteAround ==
  ASSUME MaxBatch \in Nat, step \in [Call -> 1..MaxBatch], NEW t \in Call, NEW row,
         Ahead(t), Behind(t), step' = step, UNCHANGED <<touched, acked>>,
         pc'[t] \notin {"new", "admitted"},
         \A i \in 1..MaxBatch :
           ledger'[t][i] = IF t \notin evicted /\ i = step[t] THEN row ELSE ledger[t][i]
  PROVE  Ahead(t)' /\ Behind(t)'
<1>1. ASSUME NEW i \in 1..MaxBatch, i > step[t]
      PROVE  ledger'[t][i] = Absent /\ ~Reached(t, i)'
  <2>1. ledger'[t][i] = ledger[t][i]
    BY <1>1
  <2>2. ledger[t][i] = Absent /\ ~Reached(t, i)
    BY <1>1 DEF Ahead
  <2>. QED
    BY <2>1, <2>2, ReachSame
<1>2. ASSUME NEW i \in 1..MaxBatch, i < step[t]
      PROVE  ledger'[t][i] \in {Row("succeeded", "NONE"), Row("failed", "NONE")}
  <2>1. ledger'[t][i] = ledger[t][i]
    BY <1>2
  <2>. QED
    BY <1>2, <2>1 DEF Behind
<1>3. Ahead(t)'
  BY <1>1 DEF Ahead
<1>4. Behind(t)'
  BY <1>2 DEF Behind
<1>. QED
  BY <1>3, <1>4

\* What a step leaves alone of the calls it is not about.
Others(t) ==
  \A u \in Call \ {t} :
    /\ pc'[u] = pc[u] /\ step'[u] = step[u] /\ rev'[u] = rev[u] /\ answer'[u] = answer[u]
    /\ ledger'[u] = ledger[u]
    /\ \A a : a.call = u => /\ a \in touched' <=> a \in touched
                            /\ a \in acked' <=> a \in acked

\* A step of one call leaves the others as they are.
LEMMA OneCall ==
  ASSUME RowInv, LedgerHonest, UNCHANGED <<form, evicted>>, NEW t \in Call, Others(t),
         Progress(t)', \A i \in 1..MaxBatch : HonestRow(t, i)'
  PROVE  RowInv' /\ LedgerHonest'
<1>1. ASSUME NEW u \in Call, u # t
      PROVE  Progress(u)' /\ \A i \in 1..MaxBatch : HonestRow(u, i)'
  BY <1>1, CallSame, HonestRows DEF RowInv, Others
<1>2. RowInv'
  BY <1>1 DEF RowInv
<1>3. \A u \in Call, i \in 1..MaxBatch : HonestRow(u, i)'
  BY <1>1
<1>. QED
  BY <1>2, <1>3 DEF LedgerHonest, HonestRow, Reached, Completed

\* Steps no row and no attempt depends on.
LEMMA AllSame ==
  ASSUME RowInv, LedgerHonest, evicted \subseteq evicted',
         UNCHANGED <<pc, step, rev, form, answer, ledger, touched, acked>>
  PROVE  RowInv' /\ LedgerHonest'
<1>1. ASSUME NEW u \in Call
      PROVE  Progress(u)' /\ \A i \in 1..MaxBatch : HonestRow(u, i)'
  BY CallSame, HonestRows DEF RowInv
<1>. QED
  BY <1>1 DEF RowInv, LedgerHonest, HonestRow, Reached, Completed

\* The rows follow the calls, and stay honest.
LEMMA RowStep ==
  ASSUME TypeOK, LoopInv, EvictedInv, RowInv, LedgerHonest, [Next]_vars
  PROVE  RowInv' /\ LedgerHonest'
<1>0. /\ pc \in [Call -> Stages] /\ step \in [Call -> 1..MaxBatch]
      /\ rev \in [Call -> Nat] /\ answer \in [Call -> Rows]
      /\ ledger \in [Call -> [1..MaxBatch -> Rows]]
      /\ MaxBatch \in Nat
  BY BoundsAssumption DEF TypeOK, Rows
<1>1. ASSUME NEW t \in Call, Admit(t) PROVE RowInv' /\ LedgerHonest'
  <2>1. UNCHANGED <<form, evicted>> /\ Others(t)
    BY <1>1, <1>0 DEF Admit, Others, callVars, history
  <2>0. Progress(t) /\ form' = form /\ evicted' = evicted
    BY <1>1 DEF Admit, RowInv, callVars, history
  <2>2. Progress(t)'
    BY <1>1, <1>0, <2>0, ReachSame
    DEF Admit, RowInv, Progress, Ahead, Behind, AtStep, callVars, history
  <2>3. \A i \in 1..MaxBatch : HonestRow(t, i)'
    BY <1>1, <1>0, HonestSame DEF Admit, history
  <2>. QED
    BY <2>1, <2>2, <2>3, OneCall
<1>2. ASSUME NEW t \in Call, Reject(t) PROVE RowInv' /\ LedgerHonest'
  <2>1. UNCHANGED <<form, evicted>> /\ Others(t)
    BY <1>2, <1>0 DEF Reject, Others, callVars, history
  <2>0. Progress(t) /\ form' = form /\ evicted' = evicted
    BY <1>2 DEF Reject, RowInv, callVars, history
  <2>2. Progress(t)'
    BY <1>2, <1>0, <2>0, ReachSame
    DEF Reject, RowInv, Progress, Ahead, Behind, AtStep, callVars, history
  <2>3. \A i \in 1..MaxBatch : HonestRow(t, i)'
    BY <1>2, <1>0, HonestSame DEF Reject, history
  <2>. QED
    BY <2>1, <2>2, <2>3, OneCall
<1>3. ASSUME NEW t \in Call, Plan(t) PROVE RowInv' /\ LedgerHonest'
  <2>1. UNCHANGED <<form, evicted>> /\ Others(t)
    BY <1>3, <1>0 DEF Plan, Others, Write, callVars, history
  <2>2. Progress(t)
    BY DEF RowInv
  <2>3. Progress(t)'
    <3>1. t \notin evicted /\ pc[t] = "admitted" /\ pc'[t] = "planned"
          /\ UNCHANGED <<step, answer, touched, acked>>
      BY <1>3, <1>0 DEF Plan, EvictedInv, history
    <3>2. \A i \in 1..MaxBatch :
            ledger'[t][i] = IF i = step[t] THEN Row("planned", "NONE") ELSE ledger[t][i]
      <4>1. Write(t, Row("planned", "NONE"))
        BY <1>3 DEF Plan
      <4>. QED
        BY <1>0, <3>1, <4>1 DEF Write
    <3>3. \A i : Reached(t, i)' <=> Reached(t, i)
      BY <3>1, ReachSame
    <3>4. Ahead(t)' /\ Behind(t)'
      BY <1>0, <2>2, <3>1, <3>2, WriteAround DEF Progress
    <3>6. AtStep(t)'
      BY <1>0, <2>1, <2>2, <3>1, <3>2, <3>3 DEF Progress, Ahead, AtStep
    <3>. QED
      BY <3>4, <3>6 DEF Progress
  <2>4. \A i \in 1..MaxBatch : HonestRow(t, i)'
    BY <1>3, <1>0, <2>2, HonestWrite
    DEF Plan, Progress, Ahead, Behind, AtStep, Row, history
  <2>. QED
    BY <2>1, <2>3, <2>4, OneCall
<1>4. ASSUME NEW t \in Call, Mark(t) PROVE RowInv' /\ LedgerHonest'
  <2>1. UNCHANGED <<form, evicted>> /\ Others(t)
    BY <1>4, <1>0 DEF Mark, Others, Write, callVars, history
  <2>2. Progress(t)
    BY DEF RowInv
  <2>3. Progress(t)'
    <3>1. t \notin evicted /\ pc[t] = "planned" /\ pc'[t] = "sent"
           /\ UNCHANGED <<step, answer, touched, acked>>
      BY <1>4, <1>0 DEF Mark, EvictedInv, history
    <3>2. \A i \in 1..MaxBatch :
            ledger'[t][i] = IF i = step[t] THEN Row("sent", "UNKNOWN") ELSE ledger[t][i]
      <4>1. Write(t, Row("sent", "UNKNOWN"))
        BY <1>4 DEF Mark
      <4>. QED
        BY <1>0, <3>1, <4>1 DEF Write
    <3>3. \A i : Reached(t, i)' <=> Reached(t, i)
      BY <3>1, ReachSame
    <3>4. Ahead(t)' /\ Behind(t)'
      BY <1>0, <2>2, <3>1, <3>2, WriteAround DEF Progress
    <3>6. AtStep(t)'
      BY <1>0, <2>1, <2>2, <3>1, <3>2, <3>3 DEF Progress, Ahead, AtStep
    <3>. QED
      BY <3>4, <3>6 DEF Progress
  <2>4. \A i \in 1..MaxBatch : HonestRow(t, i)'
    BY <1>4, <1>0, <2>2, HonestWrite
    DEF Mark, Progress, Ahead, Behind, AtStep, Row, history
  <2>. QED
    BY <2>1, <2>3, <2>4, OneCall
<1>5. ASSUME NEW t \in Call, GuardRaises(t) PROVE RowInv' /\ LedgerHonest'
  <2>1. UNCHANGED <<form, evicted>> /\ Others(t)
    BY <1>5, <1>0 DEF GuardRaises, Others, Leave, callVars, history
  <2>0. Progress(t) /\ form' = form /\ evicted' = evicted
    BY <1>5 DEF GuardRaises, RowInv, callVars, history
  <2>2. Progress(t)'
    BY <1>5, <1>0, <2>0, ReachSame
    DEF GuardRaises, RowInv, Progress, Ahead, Behind, AtStep, Leave, callVars, history
  <2>3. \A i \in 1..MaxBatch : HonestRow(t, i)'
    BY <1>5, <1>0, HonestSame DEF GuardRaises, history
  <2>. QED
    BY <2>1, <2>2, <2>3, OneCall
<1>6. ASSUME NEW t \in Call, Dispatch(t) PROVE RowInv' /\ LedgerHonest'
  <2>1. UNCHANGED <<form, evicted>> /\ Others(t)
    BY <1>6, <1>0 DEF Dispatch, Others, Answered, Row, Ends, callVars, history
  <2>0. Progress(t) /\ form' = form /\ evicted' = evicted
    BY <1>6 DEF Dispatch, RowInv, callVars, history
  <2>2. Progress(t)'
    BY <1>6, <1>0, <2>0, ReachSame
    DEF Dispatch, RowInv, Progress, Ahead, Behind, AtStep, Answered, Row, Ends,
        callVars, history
  <2>3. \A i \in 1..MaxBatch : HonestRow(t, i)'
    BY <1>6, <1>0, HonestSame DEF Dispatch, history
  <2>. QED
    BY <2>1, <2>2, <2>3, OneCall
<1>7. ASSUME NEW t \in Call, Record(t) PROVE RowInv' /\ LedgerHonest'
  <2>1. UNCHANGED <<form, evicted>> /\ Others(t)
    BY <1>7, <1>0 DEF Record, Others, Leave, Write, callVars, history
  <2>2. Progress(t)
    BY DEF RowInv
  <2>3. Progress(t)'
    <3>1. pc[t] = "answered" /\ UNCHANGED <<rev, answer, touched, acked>>
      BY <1>7 DEF Record, history
    <3>2. \A i \in 1..MaxBatch :
            ledger'[t][i] = IF t \notin evicted /\ i = step[t] THEN answer[t] ELSE ledger[t][i]
      BY <1>7, <1>0, Written DEF Record
    <3>3. CASE Leave(t) /\ step' = step
      <4>1. pc'[t] = "done"
        BY <1>0, <3>3 DEF Leave
      <4>2. Ahead(t)' /\ Behind(t)'
        BY <1>0, <2>2, <3>1, <3>2, <3>3, <4>1, WriteAround DEF Progress
      <4>4. AtStep(t)'
        BY <1>0, <2>1, <2>2, <3>1, <3>2, <3>3, <4>1, ReachSame
        DEF Progress, AtStep, Ahead
      <4>. QED
        BY <4>2, <4>4 DEF Progress
    <3>4. CASE /\ GoesOn(t)
               /\ step' = [step EXCEPT ![t] = step[t] + 1]
               /\ pc' = [pc EXCEPT ![t] = "admitted"]
      <4>1. t \notin evicted /\ step[t] < form[t].len
        BY <3>4, EvictedStops DEF GoesOn
      <4>2. answer[t] \in {Row("succeeded", "NONE"), Row("failed", "NONE")}
        BY <2>2, <3>1, <3>4 DEF Progress, Ahead, Behind, AtStep, GoesOn, Ends, Row
      <4>3. step'[t] = step[t] + 1 /\ pc'[t] = "admitted" /\ form[t].len \in Nat
        BY <1>0, <3>4, FormsAssumption DEF TypeOK, Form
      <4>4. ASSUME NEW i \in 1..MaxBatch, i >= step'[t]
            PROVE  ledger'[t][i] = Absent /\ ~Reached(t, i)'
        <5>1. i > step[t] /\ i # step[t]
          BY <1>0, <4>3, <4>4
        <5>2. ledger'[t][i] = ledger[t][i]
          BY <3>2, <5>1
        <5>3. ledger[t][i] = Absent /\ ~Reached(t, i)
          BY <2>2, <5>1 DEF Progress, Ahead
        <5>. QED
          BY <3>1, <5>2, <5>3, ReachSame
      <4>5. ASSUME NEW i \in 1..MaxBatch, i < step'[t]
            PROVE  ledger'[t][i] \in {Row("succeeded", "NONE"), Row("failed", "NONE")}
        <5>1. i < step[t] \/ i = step[t]
          BY <1>0, <4>3, <4>5
        <5>. QED
          BY <2>2, <3>2, <4>1, <4>2, <5>1 DEF Progress, Behind
      <4>7. Ahead(t)' /\ Behind(t)'
        <5>1. step'[t] \in Nat /\ \A i \in 1..MaxBatch : i \in Nat
          BY <1>0, <4>3
        <5>2. Ahead(t)'
          BY <4>4, <5>1 DEF Ahead
        <5>3. Behind(t)'
          BY <4>5 DEF Behind
        <5>. QED
          BY <5>2, <5>3
      <4>6. AtStep(t)'
        BY <1>0, <2>1, <2>2, <3>1, <3>2, <4>1, <4>2, <4>3, ReachSame
        DEF Progress, AtStep, Ahead
      <4>. QED
        BY <4>6, <4>7 DEF Progress
    <3>. QED
      BY <1>7, <3>3, <3>4 DEF Record
  <2>4. \A i \in 1..MaxBatch : HonestRow(t, i)'
    BY <1>7, <1>0, <2>2, HonestWrite
    DEF Record, Progress, Ahead, Behind, AtStep, Ends, Row, history
  <2>. QED
    BY <2>1, <2>3, <2>4, OneCall
<1>8. ASSUME NEW t \in Call, RunInvalidate(t) PROVE RowInv' /\ LedgerHonest'
  <2>1. /\ UNCHANGED <<pc, step, rev, form, answer, ledger, touched, acked>>
        /\ evicted \subseteq evicted'
    BY <1>8 DEF RunInvalidate, callVars, history
  <2>. QED
    BY <2>1, AllSame
<1>9. ASSUME NEW t \in Call, Invalidated(t) PROVE RowInv' /\ LedgerHonest'
  <2>1. UNCHANGED <<form, evicted>> /\ Others(t)
    BY <1>9, <1>0 DEF Invalidated, Others, Answered, Row, Ends, callVars, history
  <2>0. Progress(t) /\ form' = form /\ evicted' = evicted
    BY <1>9 DEF Invalidated, RowInv, callVars, history
  <2>2. Progress(t)'
    BY <1>9, <1>0, <2>0, ReachSame
    DEF Invalidated, RowInv, Progress, Ahead, Behind, AtStep, Answered, Row, Ends,
        callVars, history
  <2>3. \A i \in 1..MaxBatch : HonestRow(t, i)'
    BY <1>9, <1>0, HonestSame DEF Invalidated, history
  <2>. QED
    BY <2>1, <2>2, <2>3, OneCall
<1>10. ASSUME NEW t \in Call, Refuse(t) PROVE RowInv' /\ LedgerHonest'
  <2>1. UNCHANGED <<form, evicted>> /\ Others(t)
    BY <1>10, <1>0 DEF Refuse, Others, Answered, Row, Ends, callVars, history
  <2>0. Progress(t) /\ form' = form /\ evicted' = evicted
    BY <1>10 DEF Refuse, RowInv, callVars, history
  <2>2. Progress(t)'
    BY <1>10, <1>0, <2>0, ReachSame
    DEF Refuse, RowInv, Progress, Ahead, Behind, AtStep, Answered, Row, Ends, callVars,
        history
  <2>3. \A i \in 1..MaxBatch : HonestRow(t, i)'
    BY <1>10, <1>0, HonestSame DEF Refuse, history
  <2>. QED
    BY <2>1, <2>2, <2>3, OneCall
<1>11. ASSUME NEW t \in Call, Touch(t) PROVE RowInv' /\ LedgerHonest'
  <2>1. UNCHANGED <<form, evicted>> /\ Others(t)
    BY <1>11, <1>0 DEF Touch, Others, Attempted, callVars
  <2>2. Progress(t)
    BY DEF RowInv
  <2>3. Progress(t)'
    <3>1. pc[t] = "waiting" /\ pc'[t] = "device" /\ UNCHANGED <<step, rev, answer, ledger, acked>>
          /\ touched' = touched \cup {Attempted(t)}
      BY <1>11, <1>0 DEF Touch
    <3>2. \A i : i # step[t] => (Reached(t, i)' <=> Reached(t, i))
      BY <3>1 DEF Reached, Attempted
    <3>3. Attempted(t)' \in touched'
      BY <3>1 DEF Attempted
    <3>. QED
      BY <1>0, <2>1, <2>2, <3>1, <3>2, <3>3 DEF Progress, Ahead, Behind, AtStep
  <2>4. \A i \in 1..MaxBatch : HonestRow(t, i)'
    <3>1. /\ pc[t] = "waiting" /\ UNCHANGED <<ledger, acked>>
          /\ touched' = touched \cup {Attempted(t)}
      BY <1>11, <1>0 DEF Touch
    <3>2. \A i : /\ Completed(t, i)' <=> Completed(t, i)
                 /\ i # step[t] => (Reached(t, i)' <=> Reached(t, i))
      BY <3>1 DEF Reached, Completed, Attempted
    <3>3. ledger[t][step[t]].state \in {"sent", "unknown"}
      BY <2>2, <3>1 DEF Progress, Ahead, Behind, AtStep, Row
    <3>. QED
      BY <1>0, <3>1, <3>2, <3>3, HonestRows DEF HonestRow
  <2>. QED
    BY <2>1, <2>3, <2>4, OneCall
<1>12. ASSUME NEW t \in Call, Reply(t) PROVE RowInv' /\ LedgerHonest'
  <2>0. \/ /\ Answered(t, Row("succeeded", "NONE"))
           /\ acked' = acked \cup {Attempted(t)}
        \/ /\ Answered(t, Row("failed", "PARTIAL")) \/ Answered(t, Row("unknown", "UNKNOWN"))
           /\ acked' = acked
    BY <1>12 DEF Reply
  <2>1. UNCHANGED <<form, evicted>> /\ Others(t)
    BY <1>12, <1>0, <2>0 DEF Reply, Others, Answered, Attempted, callVars
  <2>2. Progress(t)
    BY DEF RowInv
  <2>3. Progress(t)'
    <3>1. pc[t] = "device" /\ pc'[t] = "answered" /\ UNCHANGED <<step, rev, ledger, touched>>
      BY <1>12, <1>0, <2>0 DEF Reply, Answered
    <3>2. \A i : Reached(t, i)' <=> Reached(t, i)
      BY <3>1 DEF Reached
    <3>3. /\ answer'[t] \in Ends \ {Row("failed", "NONE")}
          /\ answer'[t].state = "succeeded" => Completed(t, step[t])'
      <4>1. CASE Answered(t, Row("succeeded", "NONE")) /\ acked' = acked \cup {Attempted(t)}
        <5>1. answer'[t] = Row("succeeded", "NONE")
          BY <1>0, <4>1 DEF Answered
        <5>2. Completed(t, step[t])'
          <6>1. Attempted(t) \in acked' /\ Attempted(t).call = t /\ Attempted(t).step = step'[t]
            BY <3>1, <4>1 DEF Attempted
          <6>. QED
            BY <6>1 DEF Completed
        <5>. QED
          BY <5>1, <5>2 DEF Ends, Row
      <4>2. CASE Answered(t, Row("failed", "PARTIAL")) \/ Answered(t, Row("unknown", "UNKNOWN"))
        BY <1>0, <4>2 DEF Answered, Ends, Row
      <4>. QED
        BY <2>0, <4>1, <4>2
    <3>. QED
      BY <1>0, <2>1, <2>2, <3>1, <3>2, <3>3 DEF Progress, Ahead, Behind, AtStep
  <2>4. \A i \in 1..MaxBatch : HonestRow(t, i)'
    <3>1. UNCHANGED <<ledger, touched>> /\ acked \subseteq acked'
      BY <1>12, <2>0 DEF Reply
    <3>2. \A i : (Reached(t, i)' <=> Reached(t, i)) /\ (Completed(t, i) => Completed(t, i)')
      BY <3>1 DEF Reached, Completed
    <3>. QED
      BY <3>1, <3>2, HonestRows DEF HonestRow
  <2>. QED
    BY <2>1, <2>3, <2>4, OneCall
<1>13. ASSUME NEW t \in Call, PortGivesUp(t) PROVE RowInv' /\ LedgerHonest'
  <2>1. UNCHANGED <<form, evicted>> /\ Others(t)
    BY <1>13, <1>0 DEF PortGivesUp, Others, Leave, callVars, history
  <2>0. Progress(t) /\ form' = form /\ evicted' = evicted
    BY <1>13 DEF PortGivesUp, RowInv, callVars, history
  <2>2. Progress(t)'
    BY <1>13, <1>0, <2>0, ReachSame
    DEF PortGivesUp, RowInv, Progress, Ahead, Behind, AtStep, Leave, callVars, history
  <2>3. \A i \in 1..MaxBatch : HonestRow(t, i)'
    BY <1>13, <1>0, HonestSame DEF PortGivesUp, history
  <2>. QED
    BY <2>1, <2>2, <2>3, OneCall
<1>14. ASSUME NEW t \in Call, Interrupt(t) PROVE RowInv' /\ LedgerHonest'
  <2>1. UNCHANGED <<form, evicted>> /\ Others(t)
    BY <1>14, <1>0 DEF Interrupt, Others, callVars, history
  <2>0. Progress(t) /\ form' = form /\ evicted' = evicted
    BY <1>14 DEF Interrupt, RowInv, callVars, history
  <2>2. Progress(t)'
    BY <1>14, <1>0, <2>0, ReachSame
    DEF Interrupt, RowInv, Progress, Ahead, Behind, AtStep, callVars, history
  <2>3. \A i \in 1..MaxBatch : HonestRow(t, i)'
    BY <1>14, <1>0, HonestSame DEF Interrupt, history
  <2>. QED
    BY <2>1, <2>2, <2>3, OneCall
<1>15. ASSUME NEW t \in Call, CancelAgain(t) PROVE RowInv' /\ LedgerHonest'
  <2>1. UNCHANGED <<form, evicted>> /\ Others(t)
    BY <1>15, <1>0 DEF CancelAgain, Others, Leave, callVars
  <2>0. Progress(t) /\ form' = form /\ evicted' = evicted
    BY <1>15 DEF CancelAgain, RowInv, callVars
  <2>2. Progress(t)'
    BY <1>15, <1>0, <2>0, ReachSame
    DEF CancelAgain, RowInv, Progress, Ahead, Behind, AtStep, Leave, callVars
  <2>3. \A i \in 1..MaxBatch : HonestRow(t, i)'
    BY <1>15, <1>0, HonestSame DEF CancelAgain
  <2>. QED
    BY <2>1, <2>2, <2>3, OneCall
<1>16. ASSUME NEW t \in Call, Time(t) PROVE RowInv' /\ LedgerHonest'
  <2>1. /\ UNCHANGED <<pc, step, rev, form, answer, ledger, touched, acked>>
        /\ evicted \subseteq evicted'
    BY <1>16 DEF Time, callVars, history
  <2>. QED
    BY <2>1, AllSame
<1>17. ASSUME NEW k \in Coord, Cancel(k) PROVE RowInv' /\ LedgerHonest'
  <2>1. /\ UNCHANGED <<pc, step, rev, form, answer, ledger, touched, acked>>
        /\ evicted \subseteq evicted'
    BY <1>17 DEF Cancel, callVars, history
  <2>. QED
    BY <2>1, AllSame
<1>18. ASSUME NEW k \in Coord, Close(k) PROVE RowInv' /\ LedgerHonest'
  <2>1. /\ UNCHANGED <<pc, step, rev, form, answer, ledger, touched, acked>>
        /\ evicted \subseteq evicted'
    BY <1>18 DEF Close, callVars
  <2>. QED
    BY <2>1, AllSame
<1>19. ASSUME NEW k \in Coord, Reopen(k) PROVE RowInv' /\ LedgerHonest'
  <2>1. /\ UNCHANGED <<form, step, rev, answer, touched, acked, evicted>>
        /\ \A u \in Call, i \in 1..MaxBatch :
             ledger'[u][i] = IF coord[u] = k THEN Recovered(ledger[u][i]) ELSE ledger[u][i]
    BY <1>19, <1>0 DEF Reopen, callVars, history
  <2>2. ASSUME NEW u \in Call PROVE Progress(u)'
    <3>1. /\ Progress(u)
          /\ \A i \in 1..MaxBatch :
               /\ ledger[u][i] = Absent => ledger'[u][i] = Absent
               /\ ledger[u][i] \in Ends => ledger'[u][i] = ledger[u][i]
               /\ ledger[u][i] = Row("sent", "UNKNOWN") =>
                    ledger'[u][i] \in {Row("sent", "UNKNOWN"), Row("unknown", "UNKNOWN")}
      BY <2>1, RecoveredRow DEF RowInv
    <3>2. {Row("succeeded", "NONE"), Row("failed", "NONE"), Row("unknown", "UNKNOWN")}
            \subseteq Ends
      BY DEF Ends
    <3>3. pc' = pc /\ ((pc[u] \notin {"new", "done"} /\ coord[u] = k) => u \in evicted)
      BY <1>19 DEF Reopen, EvictedInv, Lane
    <3>4. u \in evicted => pc[u] \in {"waiting", "device", "invalidating", "answered", "done"}
      BY DEF EvictedInv
    <3>5. ~(coord[u] = k) => \A i \in 1..MaxBatch : ledger'[u][i] = ledger[u][i]
      BY <2>1
    <3>6. Attempted(u)' = Attempted(u)
      BY <2>1 DEF Attempted
    <3>. QED
      BY <1>0, <2>1, <3>1, <3>2, <3>3, <3>4, <3>5, <3>6, ReachSame
      DEF Progress, Ahead, Behind, AtStep
  <2>3. ASSUME NEW u \in Call, NEW i \in 1..MaxBatch PROVE HonestRow(u, i)'
    <3>1. ledger'[u][i] = ledger[u][i] \/ ledger'[u][i] = Row("unknown", "UNKNOWN")
      BY <1>0, <2>1, RecoveredRow
    <3>. QED
      BY <2>1, <3>1, HonestRows, ReachSame DEF HonestRow, Row
  <2>. QED
    BY <2>2, <2>3 DEF RowInv, LedgerHonest, HonestRow, Reached, Completed
<1>20. CASE OtherStarts \/ Observed \/ OtherEnds
  <2>1. /\ UNCHANGED <<pc, step, rev, form, answer, ledger, touched, acked>>
        /\ evicted \subseteq evicted'
    BY <1>20 DEF OtherStarts, Observed, OtherEnds, callVars, history
  <2>. QED
    BY <2>1, AllSame
<1>21. CASE Crash
  <2>1. /\ UNCHANGED <<form, step, rev, answer, touched, acked, evicted>>
        /\ \A u \in Call, i \in 1..MaxBatch : ledger'[u][i] = Recovered(ledger[u][i])
    BY <1>21, <1>0 DEF Crash, callVars, history
  <2>2. ASSUME NEW u \in Call PROVE Progress(u)'
    <3>1. /\ Progress(u)
          /\ \A i \in 1..MaxBatch :
               /\ ledger[u][i] = Absent => ledger'[u][i] = Absent
               /\ ledger[u][i] \in Ends => ledger'[u][i] = ledger[u][i]
               /\ ledger[u][i] = Row("sent", "UNKNOWN") =>
                    ledger'[u][i] \in {Row("sent", "UNKNOWN"), Row("unknown", "UNKNOWN")}
      BY <2>1, RecoveredRow DEF RowInv
    <3>2. {Row("succeeded", "NONE"), Row("failed", "NONE"), Row("unknown", "UNKNOWN")}
            \subseteq Ends
      BY DEF Ends
    <3>3. pc'[u] = "done" \/ (pc'[u] = "new" /\ pc[u] = "new")
      <4>0. pc' = [t \in Call |-> IF t \in Lane THEN "done" ELSE pc[t]]
        BY <1>21 DEF Crash
      <4>1. CASE u \in Lane
        BY <4>0, <4>1
      <4>2. CASE u \notin Lane
        <5>1. pc[u] \in {"new", "done"}
          BY <4>2 DEF Lane
        <5>. QED
          BY <4>0, <4>2, <5>1
      <4>. QED
        BY <4>1, <4>2
    <3>. QED
      BY <1>0, <2>1, <3>1, <3>2, <3>3, ReachSame DEF Progress, Ahead, Behind, AtStep
  <2>3. ASSUME NEW u \in Call, NEW i \in 1..MaxBatch PROVE HonestRow(u, i)'
    <3>1. ledger'[u][i] = ledger[u][i] \/ ledger'[u][i] = Row("unknown", "UNKNOWN")
      BY <1>0, <2>1, RecoveredRow
    <3>. QED
      BY <2>1, <3>1, HonestRows, ReachSame DEF HonestRow, Row
  <2>. QED
    BY <2>2, <2>3 DEF RowInv, LedgerHonest, HonestRow, Reached, Completed
<1>22. CASE UNCHANGED vars
  <2>1. /\ UNCHANGED <<pc, step, rev, form, answer, ledger, touched, acked>>
        /\ evicted \subseteq evicted'
    BY <1>22 DEF vars, callVars, history
  <2>. QED
    BY <2>1, AllSame
<1>. QED
  BY <1>1, <1>2, <1>3, <1>4, <1>5, <1>6, <1>7, <1>8, <1>9, <1>10, <1>11, <1>12, <1>13,
     <1>14, <1>15, <1>16, <1>17, <1>18, <1>19, <1>20, <1>21, <1>22
  DEF Next, Proceed, Device

-----------------------------------------------------------------------------
(* The revision. *)

\* Steps that do not reach the device.
LEMMA MutationSame ==
  ASSUME OneMutationPerRevision, UNCHANGED <<touched, owner>>,
         evicted \subseteq evicted', abandoned \subseteq abandoned'
  PROVE  OneMutationPerRevision'
<1>1. \A t : Undermined(t) => Undermined(t)'
  BY DEF Undermined
<1>. QED
  BY <1>1 DEF OneMutationPerRevision

\* The Runtime is not involved, and nobody leaves it.
LEMMA CurrentSame ==
  ASSUME CurrentInv, UNCHANGED <<current, issued, touched, inval>>,
         abandoned \subseteq abandoned',
         \A t \in Call : pc'[t] \in {"planned", "sent", "waiting"} => rev'[t] \in 1..issued,
         \A t \in Call : pc[t] = "device" => pc'[t] = "device",
         \A t \in Call : pc[t] = "invalidating" /\ t \in inval =>
                           pc'[t] = "invalidating" \/ t \in abandoned',
         touched \subseteq [call : Call, step : 1..MaxBatch, rev : Nat]
  PROVE  CurrentInv'
<1>1. \A a \in touched : a.call \in Call
  OBVIOUS
<1>. QED
  BY <1>1 DEF CurrentInv

\* The Runtime forgets its revision.
LEMMA CurrentDropped ==
  ASSUME CurrentInv, current' = 0, UNCHANGED <<issued, touched>>, issued \in Nat,
         \A t \in Call : pc'[t] \in {"planned", "sent", "waiting"} => rev'[t] \in 1..issued
  PROVE  CurrentInv'
  BY DEF CurrentInv

\* The attempts under the current revision are known, so it carries no second one.
LEMMA CurrentStep ==
  ASSUME TypeOK, LoopInv, OneOwner, CurrentInv, OneMutationPerRevision, [Next]_vars
  PROVE  CurrentInv' /\ OneMutationPerRevision'
<1>0. /\ pc \in [Call -> Stages] /\ rev \in [Call -> Nat] /\ step \in [Call -> 1..MaxBatch]
      /\ touched \subseteq [call : Call, step : 1..MaxBatch, rev : Nat]
      /\ current \in Nat /\ issued \in Nat
  BY DEF TypeOK
<1>1. ASSUME NEW t \in Call, Admit(t) PROVE CurrentInv' /\ OneMutationPerRevision'
  <2>1. OneMutationPerRevision'
    BY <1>1, MutationSame DEF Admit, callVars, history
  <2>2. CurrentInv'
    BY <1>1, <1>0, CurrentSame DEF Admit, CurrentInv, runtimeVars, history
  <2>. QED
    BY <2>1, <2>2
<1>2. ASSUME NEW t \in Call, Reject(t) PROVE CurrentInv' /\ OneMutationPerRevision'
  <2>1. OneMutationPerRevision'
    BY <1>2, MutationSame DEF Reject, callVars, history
  <2>2. CurrentInv'
    BY <1>2, <1>0, CurrentSame DEF Reject, CurrentInv, runtimeVars, history
  <2>. QED
    BY <2>1, <2>2
<1>3. ASSUME NEW t \in Call, Plan(t) PROVE CurrentInv' /\ OneMutationPerRevision'
  <2>1. OneMutationPerRevision'
    BY <1>3, MutationSame DEF Plan, callVars, history
  <2>2. PICK r \in 1..issued : rev' = [rev EXCEPT ![t] = r]
    BY <1>3 DEF Plan
  <2>3. CurrentInv'
    BY <1>3, <1>0, <2>2, CurrentSame DEF Plan, CurrentInv, runtimeVars, history
  <2>. QED
    BY <2>1, <2>3
<1>4. ASSUME NEW t \in Call, Mark(t) PROVE CurrentInv' /\ OneMutationPerRevision'
  <2>1. OneMutationPerRevision'
    BY <1>4, MutationSame DEF Mark, callVars, history
  <2>2. CurrentInv'
    BY <1>4, <1>0, CurrentSame DEF Mark, CurrentInv, runtimeVars, history
  <2>. QED
    BY <2>1, <2>2
<1>5. ASSUME NEW t \in Call, GuardRaises(t) PROVE CurrentInv' /\ OneMutationPerRevision'
  <2>1. OneMutationPerRevision'
    BY <1>5, MutationSame DEF GuardRaises, callVars, history
  <2>2. CurrentInv'
    BY <1>5, <1>0, CurrentSame DEF GuardRaises, CurrentInv, Leave, runtimeVars, history
  <2>. QED
    BY <2>1, <2>2
<1>6. ASSUME NEW t \in Call, Dispatch(t) PROVE CurrentInv' /\ OneMutationPerRevision'
  <2>1. OneMutationPerRevision'
    BY <1>6, MutationSame DEF Dispatch, callVars, history
  <2>2. CurrentInv'
    BY <1>6, <1>0, CurrentSame DEF Dispatch, CurrentInv, Answered, runtimeVars, history
  <2>. QED
    BY <2>1, <2>2
<1>7. ASSUME NEW t \in Call, Record(t) PROVE CurrentInv' /\ OneMutationPerRevision'
  <2>1. OneMutationPerRevision'
    BY <1>7, MutationSame DEF Record, callVars, history
  <2>2. CurrentInv'
    BY <1>7, <1>0, CurrentSame DEF Record, CurrentInv, Leave, runtimeVars, history
  <2>. QED
    BY <2>1, <2>2
<1>8. ASSUME NEW t \in Call, RunInvalidate(t) PROVE CurrentInv' /\ OneMutationPerRevision'
  <2>1. OneMutationPerRevision'
    BY <1>8, MutationSame DEF RunInvalidate, callVars, history
  <2>2. CurrentInv'
    BY <1>8, <1>0, CurrentDropped DEF RunInvalidate, CurrentInv, history
  <2>. QED
    BY <2>1, <2>2
<1>9. ASSUME NEW t \in Call, Invalidated(t) PROVE CurrentInv' /\ OneMutationPerRevision'
  <2>1. OneMutationPerRevision'
    BY <1>9, MutationSame DEF Invalidated, callVars, history
  <2>2. CurrentInv'
    BY <1>9, <1>0, CurrentSame
    DEF Invalidated, CurrentInv, Answered, runtimeVars, history
  <2>. QED
    BY <2>1, <2>2
<1>10. ASSUME NEW t \in Call, Refuse(t) PROVE CurrentInv' /\ OneMutationPerRevision'
  <2>1. OneMutationPerRevision'
    BY <1>10, MutationSame DEF Refuse, callVars, history
  <2>2. CurrentInv'
    BY <1>10, <1>0, CurrentSame DEF Refuse, CurrentInv, Answered, runtimeVars, history
  <2>. QED
    BY <2>1, <2>2
<1>11. ASSUME NEW t \in Call, Touch(t) PROVE CurrentInv' /\ OneMutationPerRevision'
  <2>1. /\ pc[t] = "waiting" /\ pc' = [pc EXCEPT ![t] = "device"] /\ DeviceFree
        /\ rev[t] = current
        /\ touched' = touched \cup {Attempted(t)}
        /\ UNCHANGED <<owner, rev, current, issued, inval, evicted, abandoned>>
    BY <1>11 DEF Touch, callVars, runtimeVars
  <2>2. Attempted(t).call = t /\ Attempted(t).rev = current /\ current \in 1..issued
    BY <2>1 DEF Attempted, CurrentInv
  <2>3. ASSUME NEW a \in touched, a.rev = current
        PROVE  a.call \in abandoned \/ Undermined(t) \/ Undermined(a.call)
    <3>1. a.call \in Call /\ pc[a.call] # "device"
      BY <1>0, <2>1 DEF DeviceFree
    <3>2. a.call \in abandoned \/ pc[a.call] = "invalidating"
      BY <2>3, <3>1 DEF CurrentInv
    <3>3. pc[a.call] = "invalidating" => a.call \in Lane /\ t \in Lane /\ a.call # t
      BY <2>1, <3>1 DEF Lane
    <3>. QED
      BY <3>2, <3>3 DEF OneOwner
  <2>4. \A u : Undermined(u)' = Undermined(u)
    BY <2>1 DEF Undermined
  <2>5. OneMutationPerRevision'
    BY <2>1, <2>2, <2>3, <2>4 DEF OneMutationPerRevision
  <2>6. \A a \in touched' : a.rev \in 1..issued'
    BY <2>1, <2>2 DEF CurrentInv
  <2>7. ASSUME NEW a \in touched', a.rev = current'
        PROVE  \/ a.call \in abandoned'
               \/ pc'[a.call] = "device"
               \/ pc'[a.call] = "invalidating" /\ a.call \in inval'
    <3>1. CASE a = Attempted(t)
      BY <1>0, <2>1, <2>2, <3>1
    <3>2. CASE a \in touched
      BY <1>0, <2>1, <2>7, <3>2 DEF CurrentInv
    <3>. QED
      BY <2>1, <3>1, <3>2
  <2>8. \A u \in Call : pc'[u] \in {"planned", "sent", "waiting"} => rev'[u] \in 1..issued'
    BY <1>0, <2>1 DEF CurrentInv
  <2>. QED
    BY <2>1, <2>5, <2>6, <2>7, <2>8 DEF CurrentInv
<1>12. ASSUME NEW t \in Call, Reply(t) PROVE CurrentInv' /\ OneMutationPerRevision'
  <2>1. OneMutationPerRevision'
    BY <1>12, MutationSame DEF Reply, callVars
  <2>2. CurrentInv'
    BY <1>12, <1>0, CurrentDropped DEF Reply, CurrentInv, Answered
  <2>. QED
    BY <2>1, <2>2
<1>13. ASSUME NEW t \in Call, PortGivesUp(t) PROVE CurrentInv' /\ OneMutationPerRevision'
  <2>1. OneMutationPerRevision'
    BY <1>13, MutationSame DEF PortGivesUp, callVars, history
  <2>2. CurrentInv'
    BY <1>13, <1>0, CurrentSame DEF PortGivesUp, CurrentInv, Leave, runtimeVars, history
  <2>. QED
    BY <2>1, <2>2
<1>14. ASSUME NEW t \in Call, Interrupt(t) PROVE CurrentInv' /\ OneMutationPerRevision'
  <2>1. OneMutationPerRevision'
    BY <1>14, MutationSame DEF Interrupt, callVars, history
  <2>2. CurrentInv'
    BY <1>14, <1>0 DEF Interrupt, CurrentInv, history
  <2>. QED
    BY <2>1, <2>2
<1>15. ASSUME NEW t \in Call, CancelAgain(t) PROVE CurrentInv' /\ OneMutationPerRevision'
  <2>1. OneMutationPerRevision'
    BY <1>15, MutationSame DEF CancelAgain, callVars
  <2>2. CurrentInv'
    BY <1>15, <1>0, CurrentSame DEF CancelAgain, CurrentInv, Leave, runtimeVars
  <2>. QED
    BY <2>1, <2>2
<1>16. ASSUME NEW t \in Call, Time(t) PROVE CurrentInv' /\ OneMutationPerRevision'
  <2>1. OneMutationPerRevision'
    BY <1>16, MutationSame DEF Time, callVars, history
  <2>2. CurrentInv'
    BY <1>16, <1>0, CurrentSame DEF Time, CurrentInv, runtimeVars, history
  <2>. QED
    BY <2>1, <2>2
<1>17. ASSUME NEW k \in Coord, Cancel(k) PROVE CurrentInv' /\ OneMutationPerRevision'
  <2>1. OneMutationPerRevision'
    BY <1>17, MutationSame DEF Cancel, callVars, history
  <2>2. CurrentInv'
    BY <1>17, <1>0, CurrentSame DEF Cancel, CurrentInv, runtimeVars, history
  <2>. QED
    BY <2>1, <2>2
<1>18. ASSUME NEW k \in Coord, Close(k) PROVE CurrentInv' /\ OneMutationPerRevision'
  <2>1. OneMutationPerRevision'
    BY <1>18, MutationSame DEF Close, callVars
  <2>2. CurrentInv'
    BY <1>18, <1>0, CurrentSame DEF Close, CurrentInv, runtimeVars
  <2>. QED
    BY <2>1, <2>2
<1>19. ASSUME NEW k \in Coord, Reopen(k) PROVE CurrentInv' /\ OneMutationPerRevision'
  <2>1. OneMutationPerRevision'
    BY <1>19, MutationSame DEF Reopen, callVars, history
  <2>2. CurrentInv'
    BY <1>19, <1>0, CurrentSame DEF Reopen, CurrentInv, runtimeVars, history
  <2>. QED
    BY <2>1, <2>2
<1>20. CASE OtherStarts
  <2>1. OneMutationPerRevision'
    BY <1>20, MutationSame DEF OtherStarts, callVars, history
  <2>2. /\ current' \in {current, 0} /\ issued' = issued
        /\ UNCHANGED <<pc, rev, touched, inval, abandoned>>
    BY <1>20 DEF OtherStarts, history
  <2>3. \A t \in Call : pc'[t] \in {"planned", "sent", "waiting"} => rev'[t] \in 1..issued
    BY <2>2 DEF CurrentInv
  <2>4. ASSUME current' = current PROVE CurrentInv'
    BY <1>0, <2>2, <2>3, <2>4, CurrentSame
  <2>5. ASSUME current' = 0 PROVE CurrentInv'
    BY <1>0, <2>2, <2>3, <2>5, CurrentDropped
  <2>. QED
    BY <2>1, <2>2, <2>4, <2>5
<1>23. CASE OtherEnds
  <2>1. OneMutationPerRevision'
    BY <1>23, MutationSame DEF OtherEnds, callVars, history
  <2>2. CurrentInv'
    BY <1>23, <1>0, CurrentSame DEF OtherEnds, CurrentInv, history
  <2>. QED
    BY <2>1, <2>2
<1>24. CASE Observed
  <2>1. OneMutationPerRevision'
    BY <1>24, MutationSame DEF Observed, callVars, history
  <2>2. /\ current' = issued + 1 /\ issued' = issued + 1
        /\ UNCHANGED <<pc, rev, touched>>
    BY <1>24 DEF Observed, history
  <2>3. \A a \in touched : a.rev \in 1..(issued + 1) /\ a.rev # issued + 1
    BY <1>0 DEF CurrentInv
  <2>4. \A t \in Call : pc'[t] \in {"planned", "sent", "waiting"} => rev'[t] \in 1..(issued + 1)
    BY <1>0, <2>2 DEF CurrentInv
  <2>. QED
    BY <1>0, <2>1, <2>2, <2>3, <2>4 DEF CurrentInv
<1>21. CASE Crash
  <2>1. OneMutationPerRevision'
    BY <1>21, MutationSame DEF Crash, callVars, history
  <2>2. pc' = [t \in Call |-> IF t \in Lane THEN "done" ELSE pc[t]]
    BY <1>21 DEF Crash
  <2>3. \A t \in Call : pc'[t] \in {"new", "done"}
    BY <1>0, <2>2 DEF Lane
  <2>4. CurrentInv'
    BY <1>21, <1>0, <2>3, CurrentDropped DEF Crash, history
  <2>. QED
    BY <2>1, <2>4
<1>22. CASE UNCHANGED vars
  <2>1. OneMutationPerRevision'
    BY <1>22, MutationSame DEF vars, callVars, history
  <2>2. CurrentInv'
    BY <1>22, <1>0, CurrentSame DEF vars, CurrentInv, runtimeVars, history
  <2>. QED
    BY <2>1, <2>2
<1>. QED
  BY <1>1, <1>2, <1>3, <1>4, <1>5, <1>6, <1>7, <1>8, <1>9, <1>10, <1>11, <1>12, <1>13,
     <1>14, <1>15, <1>16, <1>17, <1>18, <1>19, <1>20, <1>21, <1>22, <1>23,
     <1>24
  DEF Next, Proceed, Device

-----------------------------------------------------------------------------

(* What did end stays as it is. *)

EndsStay ==
  \A t \in Call, i \in 1..MaxBatch :
    ledger[t][i].state \notin Incomplete \cup {"absent"} => ledger'[t][i] = ledger[t][i]

\* A write over a row that has no end.
LEMMA EndsWrite ==
  ASSUME TypeOK, NEW t \in Call, NEW row, Write(t, row),
         t \in evicted \/ ledger[t][step[t]].state \in Incomplete \cup {"absent"}
  PROVE  EndsStay
<1>1. /\ MaxBatch \in Nat /\ step \in [Call -> 1..MaxBatch]
      /\ ledger \in [Call -> [1..MaxBatch -> Rows]]
  BY BoundsAssumption DEF TypeOK, Rows
<1>. QED
  BY <1>1, Written DEF EndsStay

\* No step rewrites an end.
LEMMA EndsStep ==
  ASSUME TypeOK, EvictedInv, RowInv, [Next]_vars
  PROVE  EndsStay
<1>0. /\ step \in [Call -> 1..MaxBatch] /\ ledger \in [Call -> [1..MaxBatch -> Rows]]
  BY DEF TypeOK, Rows
<1>1. ASSUME NEW t \in Call, Plan(t) PROVE EndsStay
  <2>1. ledger[t][step[t]] = Absent
    BY <1>0, <1>1 DEF Plan, RowInv, Progress, Ahead
  <2>2. Write(t, Row("planned", "NONE"))
    BY <1>1 DEF Plan
  <2>. QED
    BY <2>1, <2>2, EndsWrite DEF Absent, Row
<1>2. ASSUME NEW t \in Call, Mark(t) PROVE EndsStay
  <2>1. ledger[t][step[t]] = Row("planned", "NONE")
    BY <1>2 DEF Mark, RowInv, Progress, AtStep
  <2>2. Write(t, Row("sent", "UNKNOWN"))
    BY <1>2 DEF Mark
  <2>. QED
    BY <2>1, <2>2, EndsWrite DEF Incomplete, Row
<1>3. ASSUME NEW t \in Call, Record(t) PROVE EndsStay
  <2>1. t \in evicted \/ ledger[t][step[t]] = Row("sent", "UNKNOWN")
    BY <1>3 DEF Record, RowInv, Progress, AtStep
  <2>2. Write(t, answer[t])
    BY <1>3 DEF Record
  <2>. QED
    BY <2>1, <2>2, EndsWrite DEF Incomplete, Row
<1>4. ASSUME NEW k \in Coord, Reopen(k) PROVE EndsStay
  BY <1>4 DEF Reopen, Recovered, EndsStay
<1>5. CASE Crash
  BY <1>5 DEF Crash, Recovered, EndsStay
<1>6. CASE UNCHANGED ledger
  BY <1>6 DEF EndsStay
<1>7. ASSUME NEW t \in Call,
             \/ Admit(t)
             \/ Reject(t)
             \/ GuardRaises(t)
             \/ Dispatch(t)
             \/ RunInvalidate(t)
             \/ Invalidated(t)
             \/ Refuse(t)
             \/ Touch(t)
             \/ Reply(t)
             \/ PortGivesUp(t)
             \/ Interrupt(t)
             \/ CancelAgain(t)
             \/ Time(t)
      PROVE  UNCHANGED ledger
  BY <1>7
  DEF Admit, Reject, GuardRaises, Dispatch, RunInvalidate, Invalidated, Refuse, Touch,
      Reply, PortGivesUp, Interrupt, CancelAgain, Time
<1>8. ASSUME NEW k \in Coord, Cancel(k) \/ Close(k) PROVE UNCHANGED ledger
  BY <1>8 DEF Cancel, Close
<1>9. ASSUME OtherStarts \/ Observed \/ OtherEnds \/ UNCHANGED vars PROVE UNCHANGED ledger
  BY <1>9 DEF OtherStarts, Observed, OtherEnds, vars
<1>. QED
  BY <1>1, <1>2, <1>3, <1>4, <1>5, <1>6, <1>7, <1>8, <1>9 DEF Next, Proceed, Device

-----------------------------------------------------------------------------
(* The theorems. *)

\* The invariant holds initially.
LEMMA InvInit ==
  ASSUME Init
  PROVE  IInv
<1>. USE DEF Init
<1>1. Lane = {} /\ \A t, i : ~Reached(t, i)
  BY DEF Lane, Reached
<1>2. LoopInv /\ EvictedInv /\ OneOwner
  BY <1>1 DEF LoopInv, EvictedInv, OneOwner
<1>3. LeaseInv
  BY <1>1 DEF LeaseInv
<1>4. RowInv /\ LedgerHonest
  <2>1. ASSUME NEW t \in Call PROVE Progress(t)
    <3>1. form[t].len \in Nat /\ 1 <= form[t].len
      BY FormsAssumption, BoundsAssumption DEF Form
    <3>. QED
      BY <1>1, <3>1, BoundsAssumption DEF Progress, Ahead, Behind, AtStep
  <2>2. \A t \in Call, i \in 1..MaxBatch : HonestRow(t, i)
    BY <1>1 DEF HonestRow, Absent, Row
  <2>. QED
    BY <2>1, <2>2, HonestRows DEF RowInv
<1>5. CurrentInv /\ OneMutationPerRevision
  BY DEF CurrentInv, OneMutationPerRevision
<1>. QED
  BY <1>2, <1>3, <1>4, <1>5, TypeInit DEF IInv

\* Every step keeps it.
LEMMA InvStep ==
  ASSUME IInv, [Next]_vars
  PROVE  IInv'
  BY TypeStep, LoopStep, EvictedStep, LeaseStep, RowStep, CurrentStep DEF IInv

\* It holds for ever.
LEMMA Invariant == Spec => []IInv
  BY InvInit, InvStep, PTL DEF Spec

\* The fields of the coordinators, the rows of their ledgers and the positions of the
\* calls keep their types.
THEOREM TypeCorrect == Spec => []TypeOK
<1>1. IInv => TypeOK
  BY DEF IInv
<1>. QED
  BY <1>1, Invariant, PTL

\* Two calls are past the lease only behind a close() that took the lease from a
\* running call.
THEOREM OneOwnerCorrect == Spec => []OneOwner
<1>1. IInv => OneOwner
  BY DEF IInv
<1>. QED
  BY <1>1, Invariant, PTL

\* The ledger claims success only for what the device completed, no effect only for
\* what never reached it, and has the intent of whatever did.
THEOREM LedgerHonestCorrect == Spec => []LedgerHonest
<1>1. IInv => LedgerHonest
  BY DEF IInv
<1>. QED
  BY <1>1, Invariant, PTL

\* A revision carries one mutation to the device, unless an invalidation was not
\* waited for or a lease was undermined.
THEOREM OneMutationCorrect == Spec => []OneMutationPerRevision
<1>1. IInv => OneMutationPerRevision
  BY DEF IInv
<1>. QED
  BY <1>1, Invariant, PTL

\* Behind an attempt that may have had an effect without succeeding, a batch planned
\* nothing.
THEOREM BatchStops == Spec => []BatchStopsAtEffect
<1>1. IInv => BatchStopsAtEffect
  <2>1. ASSUME IInv, NEW t \in Call, NEW i \in 1..MaxBatch, NEW j \in 1..MaxBatch,
               i < j, ledger[t][j] # Absent
        PROVE  ledger[t][i] \in {Row("succeeded", "NONE"), Row("failed", "NONE")}
    <3>1. Ahead(t) /\ Behind(t) /\ step[t] \in 1..MaxBatch /\ MaxBatch \in Nat
      BY <2>1, BoundsAssumption DEF IInv, RowInv, Progress, TypeOK
    <3>2. j <= step[t]
      BY <2>1, <3>1 DEF Ahead
    <3>3. i < step[t]
      BY <2>1, <3>1, <3>2
    <3>. QED
      BY <3>1, <3>3 DEF Behind
  <2>. QED
    BY <2>1 DEF BatchStopsAtEffect
<1>. QED
  BY <1>1, Invariant, PTL

\* A row that says how an attempt ended is never written again, by a call, a close(),
\* a recovery or a crash.
THEOREM EndsFinal == Spec => EndsAreFinal
<1>1. IInv /\ [Next]_vars => [EndsStay]_vars
  BY EndsStep DEF IInv
<1>2. Spec => [][EndsStay]_vars
  BY <1>1, Invariant, PTL DEF Spec
<1>. QED
  BY <1>2 DEF EndsAreFinal, EndsStay

=============================================================================
