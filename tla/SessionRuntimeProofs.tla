------------------------ MODULE SessionRuntimeProofs ------------------------
(***************************************************************************)
(* Safety of SessionRuntime for every set of works and agents, every bound *)
(* and every kind of interference the specification has.                   *)
(*                                                                         *)
(* Type correctness comes first: what the arms of Projection.Apply return, *)
(* then one lemma per actor, one step per action.  On top of TypeOK there  *)
(* are three inductive invariants:                                         *)
(*   StartupInv    before the loop runs there is nothing to interfere;     *)
(*   GoroutineInv  what a goroutine of a given pc knows about its work's   *)
(*                 record in the ledger, and what r.launched remembers;    *)
(*   LeaderInv     who leads, and whether the session has been answered,   *)
(*                 while the driver, the loop and a turn stand where they  *)
(*                 stand.                                                  *)
(* The action properties follow from them step by step.                    *)
(***************************************************************************)
EXTENDS SessionRuntime, TLAPS

-----------------------------------------------------------------------------
(* The arms of Projection.Apply return a projection again, of which they    *)
(* change one work record or one part of the session's own state.           *)

\* q agrees with p on everything but the work records.
SameSession(p, q) ==
    /\ q.leader = p.leader /\ q.turns = p.turns
    /\ q.instructions = p.instructions /\ q.terminal = p.terminal
    /\ q.failed = p.failed /\ q.cancelled = p.cancelled
    /\ q.answers = p.answers /\ q.row = p.row

\* Replacing a work's record changes that record only, and gives a projection
\* if the new record is one.
LEMMA SetWorkResult ==
    ASSUME NEW p \in ProjectionState, NEW w \in Work, NEW r
    PROVE  /\ SetWork(p, w, r).work[w] = r
           /\ \A v \in Work \ {w} : SetWork(p, w, r).work[v] = p.work[v]
           /\ SameSession(p, SetWork(p, w, r))
           /\ r \in WorkRecord => SetWork(p, w, r) \in ProjectionState
BY DEF SetWork, ProjectionState, SameSession

\* An event about known work replaces its record.
LEMMA UpdateWorkResult ==
    ASSUME NEW p \in ProjectionState, NEW w \in Work, NEW r, Known(p, w)
    PROVE  /\ UpdateWork(p, w, r).work[w] = r
           /\ \A v \in Work \ {w} : UpdateWork(p, w, r).work[v] = p.work[v]
           /\ SameSession(p, UpdateWork(p, w, r))
           /\ r \in WorkRecord => UpdateWork(p, w, r) \in ProjectionState
BY SetWorkResult DEF UpdateWork

\* DelegationStarted and PeerTurnStarted.
LEMMA StartedResult ==
    ASSUME NEW p \in ProjectionState, NEW w \in Work, Known(p, w), NEW n
    PROVE  /\ ApplyStarted(p, w, n).work[w].status = "running"
           /\ ApplyStarted(p, w, n).work[w].attempt = n
           /\ ~ApplyStarted(p, w, n).work[w].interrupted
           /\ ApplyStarted(p, w, n).work[w].result = p.work[w].result
           /\ ApplyStarted(p, w, n).work[w].deps = p.work[w].deps
           /\ \A v \in Work \ {w} : ApplyStarted(p, w, n).work[v] = p.work[v]
           /\ SameSession(p, ApplyStarted(p, w, n))
           /\ n \in Nat => ApplyStarted(p, w, n) \in ProjectionState
<1> DEFINE r == [p.work[w] EXCEPT !.status = "running", !.attempt = n,
                                    !.interrupted = FALSE]
<1>1. p.work[w] \in WorkRecord
  BY DEF ProjectionState
<1>2. n \in Nat => r \in WorkRecord
  BY <1>1 DEF WorkRecord, WorkStatus
<1>3. ApplyStarted(p, w, n) = UpdateWork(p, w, r)
  BY DEF ApplyStarted
<1>4. /\ r.status = "running" /\ r.attempt = n /\ ~r.interrupted
      /\ r.result = p.work[w].result /\ r.deps = p.work[w].deps
  BY <1>1 DEF WorkRecord
<1> HIDE DEF r
<1> QED BY <1>2, <1>3, <1>4, UpdateWorkResult

\* DelegationCompleted and PeerTurnCompleted.
LEMMA CompletedResult ==
    ASSUME NEW p \in ProjectionState, NEW w \in Work, Known(p, w), NEW n
    PROVE  /\ ApplyCompleted(p, w, n).work[w].status = "completed"
           /\ ApplyCompleted(p, w, n).work[w].attempt = n
           /\ ~ApplyCompleted(p, w, n).work[w].interrupted
           /\ ApplyCompleted(p, w, n).work[w].result
           /\ ApplyCompleted(p, w, n).work[w].deps = p.work[w].deps
           /\ \A v \in Work \ {w} : ApplyCompleted(p, w, n).work[v] = p.work[v]
           /\ SameSession(p, ApplyCompleted(p, w, n))
           /\ n \in Nat => ApplyCompleted(p, w, n) \in ProjectionState
<1> DEFINE r == [p.work[w] EXCEPT !.status = "completed", !.attempt = n,
                                    !.interrupted = FALSE, !.result = TRUE]
<1>1. p.work[w] \in WorkRecord
  BY DEF ProjectionState
<1>2. n \in Nat => r \in WorkRecord
  BY <1>1 DEF WorkRecord, WorkStatus
<1>3. ApplyCompleted(p, w, n) = UpdateWork(p, w, r)
  BY DEF ApplyCompleted
<1>4. /\ r.status = "completed" /\ r.attempt = n /\ ~r.interrupted
      /\ r.result /\ r.deps = p.work[w].deps
  BY <1>1 DEF WorkRecord
<1> HIDE DEF r
<1> QED BY <1>2, <1>3, <1>4, UpdateWorkResult

\* DelegationFailed and PeerTurnFailed.
LEMMA FailedResult ==
    ASSUME NEW p \in ProjectionState, NEW w \in Work, Known(p, w), NEW n,
           NEW i
    PROVE  /\ ApplyFailed(p, w, n, i).work[w].status = "failed"
           /\ ApplyFailed(p, w, n, i).work[w].attempt = n
           /\ ApplyFailed(p, w, n, i).work[w].interrupted = i
           /\ ApplyFailed(p, w, n, i).work[w].result = p.work[w].result
           /\ ApplyFailed(p, w, n, i).work[w].deps = p.work[w].deps
           /\ \A v \in Work \ {w} : ApplyFailed(p, w, n, i).work[v] = p.work[v]
           /\ SameSession(p, ApplyFailed(p, w, n, i))
           /\ n \in Nat /\ i \in BOOLEAN => ApplyFailed(p, w, n, i) \in ProjectionState
<1> DEFINE r == [p.work[w] EXCEPT !.status = "failed", !.attempt = n,
                                    !.interrupted = i]
<1>1. p.work[w] \in WorkRecord
  BY DEF ProjectionState
<1>2. n \in Nat /\ i \in BOOLEAN => r \in WorkRecord
  BY <1>1 DEF WorkRecord, WorkStatus
<1>3. ApplyFailed(p, w, n, i) = UpdateWork(p, w, r)
  BY DEF ApplyFailed
<1>4. /\ r.status = "failed" /\ r.attempt = n /\ r.interrupted = i
      /\ r.result = p.work[w].result /\ r.deps = p.work[w].deps
  BY <1>1 DEF WorkRecord
<1> HIDE DEF r
<1> QED BY <1>2, <1>3, <1>4, UpdateWorkResult

\* DelegationCancelled and PeerTurnCancelled.
LEMMA CancelledResult ==
    ASSUME NEW p \in ProjectionState, NEW w \in Work, Known(p, w)
    PROVE  /\ ApplyCancelled(p, w).work[w].status = "cancelled"
           /\ ApplyCancelled(p, w).work[w].attempt = p.work[w].attempt
           /\ ~ApplyCancelled(p, w).work[w].interrupted
           /\ ApplyCancelled(p, w).work[w].result = p.work[w].result
           /\ ApplyCancelled(p, w).work[w].deps = p.work[w].deps
           /\ \A v \in Work \ {w} : ApplyCancelled(p, w).work[v] = p.work[v]
           /\ SameSession(p, ApplyCancelled(p, w))
           /\ ApplyCancelled(p, w) \in ProjectionState
<1> DEFINE r == [p.work[w] EXCEPT !.status = "cancelled",
                                    !.interrupted = FALSE]
<1>1. p.work[w] \in WorkRecord
  BY DEF ProjectionState
<1>2. r \in WorkRecord
  BY <1>1 DEF WorkRecord, WorkStatus
<1>3. ApplyCancelled(p, w) = UpdateWork(p, w, r)
  BY DEF ApplyCancelled
<1>4. /\ r.status = "cancelled" /\ r.attempt = p.work[w].attempt /\ ~r.interrupted
      /\ r.result = p.work[w].result /\ r.deps = p.work[w].deps
  BY <1>1 DEF WorkRecord
<1> HIDE DEF r
<1> QED BY <1>2, <1>3, <1>4, UpdateWorkResult

\* DelegationCreated and PeerTurnCreated overwrite whatever the id stood for.
LEMMA CreatedResult ==
    ASSUME NEW p \in ProjectionState, NEW w \in Work, NEW deps
    PROVE  /\ ApplyCreated(p, w, deps).work[w].status = "pending"
           /\ ApplyCreated(p, w, deps).work[w].attempt = 0
           /\ ~ApplyCreated(p, w, deps).work[w].interrupted
           /\ ~ApplyCreated(p, w, deps).work[w].result
           /\ ApplyCreated(p, w, deps).work[w].deps = deps
           /\ \A v \in Work \ {w} : ApplyCreated(p, w, deps).work[v] = p.work[v]
           /\ SameSession(p, ApplyCreated(p, w, deps))
           /\ deps \subseteq Work => ApplyCreated(p, w, deps) \in ProjectionState
<1> DEFINE r == [AbsentWork EXCEPT !.status = "pending", !.deps = deps]
<1>1. AbsentWork \in WorkRecord
  BY DEF AbsentWork, WorkRecord, WorkStatus
<1>2. deps \subseteq Work => r \in WorkRecord
  BY <1>1 DEF WorkRecord, WorkStatus
<1>3. ApplyCreated(p, w, deps) = SetWork(p, w, r)
  BY DEF ApplyCreated
<1>4. /\ r.status = "pending" /\ r.attempt = 0 /\ ~r.interrupted
      /\ ~r.result /\ r.deps = deps
  BY <1>1 DEF AbsentWork
<1> HIDE DEF r
<1> QED BY <1>2, <1>3, <1>4, SetWorkResult

\* Events about an unknown work change nothing.
LEMMA UnknownIgnored ==
    ASSUME NEW p, NEW w, ~Known(p, w), NEW n, NEW i
    PROVE  /\ ApplyStarted(p, w, n) = p
           /\ ApplyCompleted(p, w, n) = p
           /\ ApplyFailed(p, w, n, i) = p
           /\ ApplyCancelled(p, w) = p
BY DEF ApplyStarted, ApplyCompleted, ApplyFailed, ApplyCancelled, UpdateWork

\* The events of the session itself keep it well formed and leave every work
\* record alone.
LEMMA SessionEventTypes ==
    ASSUME NEW p \in ProjectionState, NEW a \in Agent, NEW n \in Nat
    PROVE  /\ ApplyLeadership(p, a) \in ProjectionState
           /\ ApplyTurnStarted(p, n) \in ProjectionState
           /\ ApplyInstruction(p) \in ProjectionState
           /\ ApplyFinalCompleted(p) \in ProjectionState
           /\ ApplySessionFailed(p) \in ProjectionState
           /\ ApplySessionCancelled(p) \in ProjectionState
           /\ ApplyLeadership(p, a).work = p.work
           /\ ApplyTurnStarted(p, n).work = p.work
           /\ ApplyInstruction(p).work = p.work
           /\ ApplyFinalCompleted(p).work = p.work
           /\ ApplySessionFailed(p).work = p.work
           /\ ApplySessionCancelled(p).work = p.work
<1> USE DEF ProjectionState
<1>1. ApplyLeadership(p, a) \in ProjectionState
      /\ ApplyLeadership(p, a).work = p.work
  BY DEF ApplyLeadership
<1>2. ApplyTurnStarted(p, n) \in ProjectionState
      /\ ApplyTurnStarted(p, n).work = p.work
  BY DEF ApplyTurnStarted
<1>3. ApplyInstruction(p) \in ProjectionState
      /\ ApplyInstruction(p).work = p.work
  BY DEF ApplyInstruction
<1>4. ApplyFinalCompleted(p) \in ProjectionState
      /\ ApplyFinalCompleted(p).work = p.work
  <2>1. p.answers + 1 \in Nat
    OBVIOUS
  <2> QED BY <2>1 DEF ApplyFinalCompleted, RowStatus
<1>5. ApplySessionFailed(p) \in ProjectionState
      /\ ApplySessionFailed(p).work = p.work
  BY DEF ApplySessionFailed, RowStatus
<1>6. ApplySessionCancelled(p) \in ProjectionState
      /\ ApplySessionCancelled(p).work = p.work
  BY DEF ApplySessionCancelled, RowStatus
<1> QED BY <1>1, <1>2, <1>3, <1>4, <1>5, <1>6

\* A new session's projection is well formed.
LEMMA EmptyProjectionType == EmptyProjection \in ProjectionState
BY DEF EmptyProjection, ProjectionState, AbsentWork, WorkRecord, WorkStatus,
       RowStatus

-----------------------------------------------------------------------------
(* The session's actors.                                                    *)

\* What a work event leaves of the ledger is well formed, known work or not.
LEMMA WorkEventTypes ==
    ASSUME NEW p \in ProjectionState, NEW w \in Work, NEW n \in Nat,
           NEW i \in BOOLEAN
    PROVE  /\ ApplyStarted(p, w, n) \in ProjectionState
           /\ ApplyCompleted(p, w, n) \in ProjectionState
           /\ ApplyFailed(p, w, n, i) \in ProjectionState
           /\ ApplyCancelled(p, w) \in ProjectionState
<1>1. CASE Known(p, w)
  BY <1>1, StartedResult, CompletedResult, FailedResult, CancelledResult
<1>2. CASE ~Known(p, w)
  BY <1>2, UnknownIgnored
<1> QED BY <1>1, <1>2

\* The attempt a work's record holds is a number.
LEMMA AttemptType ==
    ASSUME NEW p \in ProjectionState, NEW w \in Work
    PROVE  p.work[w] \in WorkRecord /\ p.work[w].attempt \in Nat
           /\ p.work[w].deps \subseteq Work
BY DEF ProjectionState, WorkRecord

\* A goroutine that moves keeps its type.
LEMMA GotoType ==
    ASSUME NEW w \in Work, NEW pc \in TaskPc, task \in [Work -> Task], Goto(w, pc)
    PROVE  task' \in [Work -> Task]
BY DEF Goto, Task

\* scheduleReady launches goroutines of the right type.
LEMMA ScheduleType ==
    ASSUME NEW tasks \in [Work -> Task], ledger \in ProjectionState,
           launched \subseteq (Work \X Nat), ScheduleReady(tasks)
    PROVE  task' \in [Work -> Task] /\ launched' \subseteq (Work \X Nat)
<1>1. \A w \in Work : ledger.work[w].attempt + 1 \in Nat
  BY AttemptType
<1>2. \A w \in Work : [pc |-> "launched", attempt |-> ledger.work[w].attempt + 1,
                       cancelled |-> FALSE] \in Task
  BY <1>1 DEF Task, TaskPc
<1>3. task' \in [Work -> Task]
  <2> DEFINE first(w) == [pc |-> "launched",
                          attempt |-> ledger.work[w].attempt + 1,
                          cancelled |-> FALSE]
             start == {w \in Work : Ready(ledger, w)
                          /\ <<w, ledger.work[w].attempt + 1>> \notin launched}
  <2>1. task' = [w \in Work |-> IF w \in start THEN first(w) ELSE tasks[w]]
    BY DEF ScheduleReady
  <2>2. \A w \in Work : first(w) \in Task
    BY <1>2
  <2> HIDE DEF first, start
  <2> QED BY <2>1, <2>2
<1>4. launched' \subseteq (Work \X Nat)
  <2> DEFINE start == {w \in Work : Ready(ledger, w)
                          /\ <<w, ledger.work[w].attempt + 1>> \notin launched}
             added == {<<w, ledger.work[w].attempt + 1>> : w \in start}
  <2>1. launched' = launched \cup added
    BY DEF ScheduleReady
  <2>2. ASSUME NEW x \in added PROVE x \in Work \X Nat
    <3>1. PICK w \in start : x = <<w, ledger.work[w].attempt + 1>>
      OBVIOUS
    <3>2. w \in Work /\ ledger.work[w].attempt + 1 \in Nat
      BY <1>1
    <3> HIDE DEF start, added
    <3> QED BY <3>1, <3>2
  <2> HIDE DEF added
  <2> QED BY <2>1, <2>2
<1> QED BY <1>3, <1>4

\* Every driver action keeps the types.
LEMMA DriverTypes ==
    ASSUME TypeOK, DriverStep \/ DriverFault
    PROVE  TypeOK'
<1> USE DEF TypeOK, vars, runVars, loopVars, queueVars, workVars, flagVars, userVars, budgetVars
<1>0. ASSUME Return, ledger' \in ProjectionState
      PROVE  TypeOK'
  BY <1>0 DEF Return, DriverPc
<1>1. CASE DriverEnter
  BY <1>1 DEF DriverEnter, DriverPc
<1>2. CASE DriverFindsTerminal
  BY <1>0, <1>2 DEF DriverFindsTerminal
<1>3. CASE DriverElect
  <2>1. ledger' \in ProjectionState
    BY <1>3, SessionEventTypes, RuntimeAssumption DEF DriverElect
  <2> QED BY <1>3, <2>1 DEF DriverElect, DriverPc
<1>4. CASE \E w \in Work : DriverMark(w)
  <2>1. PICK w \in Work : DriverMark(w)
    BY <1>4
  <2>2. ledger' \in ProjectionState
    BY <2>1, AttemptType, WorkEventTypes DEF DriverMark
  <2> QED BY <2>1, <2>2 DEF DriverMark
<1>5. CASE DriverMarked
  BY <1>5 DEF DriverMarked, DriverPc
<1>6. CASE DriverLaunch
  BY <1>6 DEF DriverLaunch, DriverPc, LeaderPc
<1>7. CASE DriverSchedule
  BY <1>7, ScheduleType DEF DriverSchedule, DriverPc
<1>8. CASE DriverAbandon
  BY <1>8 DEF DriverAbandon, DriverPc, Stopping
<1>9. CASE DriverGiveUp
  <2>1. CASE Return
    BY <1>0, <1>9, <2>1 DEF DriverGiveUp
  <2>2. CASE ~Return
    BY <1>9, <2>2 DEF DriverGiveUp, DriverPc
  <2> QED BY <2>1, <2>2
<1>10. CASE DriverWait
  <2>1. task' \in [Work -> Task]
    BY <1>10 DEF DriverWait, Task
  <2> QED BY <1>10, <2>1 DEF DriverWait, DriverPc
<1>11. CASE DriverClassify
  <2>1. CASE Return
    BY <1>0, <1>11, <2>1 DEF DriverClassify
  <2>2. CASE ~Return
    BY <1>11, <2>2 DEF DriverClassify, DriverPc
  <2> QED BY <2>1, <2>2
<1>12. CASE DriverFail
  <2>1. CASE Return
    BY <1>0, <1>12, <2>1 DEF DriverFail
  <2>2. CASE ~Return
    BY <1>12, <2>2 DEF DriverFail, DriverPc
  <2> QED BY <2>1, <2>2
<1>13. CASE DriverRecord
  <2>1. ledger' \in ProjectionState
    BY <1>13, SessionEventTypes, RuntimeAssumption DEF DriverRecord
  <2> QED BY <1>0, <1>13, <2>1 DEF DriverRecord
<1>14. CASE DriverFault
  <2>1. faults' \in Nat
    BY <1>14 DEF DriverFault
  <2>2. driver' \in DriverPc /\ ctxDone' \in BOOLEAN /\ stopping' \in Stopping
    BY <1>14 DEF DriverFault, DriverPc, Stopping
  <2>3. unrecorded' \in BOOLEAN
    BY <1>14 DEF DriverFault
  <2> QED BY <1>14, <2>1, <2>2, <2>3 DEF DriverFault
<1>15. CASE DriverGiveUpRecord
  <2>1. ledger' \in ProjectionState
    BY <1>15, SessionEventTypes, RuntimeAssumption DEF DriverGiveUpRecord
  <2> QED BY <1>0, <1>15, <2>1 DEF DriverGiveUpRecord
<1> HIDE DEF TypeOK, vars, runVars, loopVars, queueVars, workVars, flagVars,
            userVars, budgetVars
<1> QED BY <1>1, <1>2, <1>3, <1>4, <1>5, <1>6, <1>7, <1>8, <1>9, <1>10, <1>11,
          <1>12, <1>13, <1>14, <1>15 DEF DriverStep

\* Prerequisites for some of the delegations.
PartialDeps == UNION {[c -> SUBSET Work] : c \in SUBSET (Work \ Consultation)}

\* The model's choice, its arguments ranging over their types.
LEMMA LeaderChoices ==
    ASSUME LeaderChoice
    PROVE  \/ LeaderAnswer \/ LeaderModelFails \/ LeaderAborted
           \/ \E create, cancel \in SUBSET Work, handoff \in Agent \cup {NoAgent},
                 deps \in PartialDeps : LeaderDecide(cancel, create, deps, handoff)
<1>1. CASE \E create, cancel \in SUBSET Work :
             \E deps \in [create \ Consultation -> SUBSET (Work \ Consultation)] :
                LeaderDecide(cancel, create, deps, NoAgent)
  <2>1. PICK create, cancel \in SUBSET Work :
             \E deps \in [create \ Consultation -> SUBSET (Work \ Consultation)] :
                LeaderDecide(cancel, create, deps, NoAgent)
    BY <1>1
  <2>2. PICK deps \in [create \ Consultation -> SUBSET (Work \ Consultation)] :
                LeaderDecide(cancel, create, deps, NoAgent)
    BY <2>1
  <2>3. deps \in [create \ Consultation -> SUBSET Work]
    OBVIOUS
  <2>4. deps \in PartialDeps
    BY <2>3 DEF PartialDeps
  <2> QED BY <2>2, <2>4
<1>2. CASE \E cancel \in SUBSET Work, handoff \in Agent :
             LeaderDecide(cancel, {}, <<>>, handoff)
  <2>1. <<>> \in PartialDeps
    <3>1. <<>> \in [{} -> SUBSET Work]
      OBVIOUS
    <3> QED BY <3>1 DEF PartialDeps
  <2> QED BY <1>2, <2>1
<1> QED BY <1>1, <1>2 DEF LeaderChoice

\* What remains of an outcome keeps its type.
LEMMA NoPlanType == NoPlan \in Plan
BY DEF NoPlan, NoDeps, Plan

\* So does an outcome of which a cancellation has been dealt with.
LEMMA PlanUpdateType ==
    ASSUME plan \in Plan, NEW cancel \in SUBSET Work, NEW doing \in SUBSET Work
    PROVE  /\ [plan EXCEPT !.cancel = cancel] \in Plan
           /\ [plan EXCEPT !.doing = doing] \in Plan
           /\ [plan EXCEPT !.cancel = cancel, !.doing = doing] \in Plan
BY DEF Plan

\* The answering outcome is an outcome.
LEMMA AnswerPlanType ==
    ASSUME NEW cancel \in SUBSET Work
    PROVE  /\ [NoPlan EXCEPT !.answer = TRUE] \in Plan
           /\ [NoPlan EXCEPT !.answer = TRUE, !.cancel = cancel] \in Plan
BY NoPlanType DEF Plan

\* Every step of the turn loop and the leader keeps the types.
LEMMA LeaderTypes ==
    ASSUME TypeOK, LeaderStep \/ LeaderChoice \/ LeaderFault
    PROVE  TypeOK'
<1> USE DEF TypeOK, vars, runVars, loopVars, queueVars, workVars, flagVars, userVars, budgetVars
<1>1. CASE TurnBegin
  <2>1. /\ ledger.turns + 1 \in Nat /\ ledger.leader \in Agent \cup {NoAgent}
        /\ ledger.instructions \in Nat
    BY DEF ProjectionState
  <2>2. ledger' \in ProjectionState
    BY <1>1, <2>1, SessionEventTypes, RuntimeAssumption DEF TurnBegin
  <2>3. snap' \in Snap
    BY <1>1, <2>1 DEF TurnBegin, Snap, HasWork
  <2> QED BY <1>1, <2>2, <2>3 DEF TurnBegin, LeaderPc
<1>2. CASE LoopExit
  BY <1>2 DEF LoopExit, LeaderPc, ExitReason
<1>3. CASE \E w \in Work : LeaderCancelCheck(w)
  <2>1. PICK w \in Work : LeaderCancelCheck(w)
    BY <1>3
  <2>2. /\ plan.cancel \ {w} \in SUBSET Work
        /\ {w} \in SUBSET Work
    BY DEF Plan
  <2>3. /\ [plan EXCEPT !.cancel = plan.cancel \ {w}] \in Plan
        /\ [plan EXCEPT !.cancel = plan.cancel \ {w}, !.doing = {w}] \in Plan
    BY <2>2, PlanUpdateType
  <2>4. plan' \in Plan /\ leaderPc' \in LeaderPc
    BY <2>1, <2>3 DEF LeaderCancelCheck, LeaderPc
  <2> QED BY <2>1, <2>4 DEF LeaderCancelCheck
<1>4. CASE \E w \in Work : LeaderCancelAppend(w)
  <2>1. PICK w \in Work : LeaderCancelAppend(w)
    BY <1>4
  <2>2. ledger' \in ProjectionState
    BY <2>1, WorkEventTypes DEF LeaderCancelAppend
  <2> QED BY <2>1, <2>2 DEF LeaderCancelAppend, LeaderPc
<1>5. CASE \E w \in Work : LeaderCancelSignal(w)
  <2>1. PICK w \in Work : LeaderCancelSignal(w)
    BY <1>5
  <2>2. task' \in [Work -> Task]
    BY <2>1 DEF LeaderCancelSignal, Task
  <2>3. plan' \in Plan
    BY <2>1 DEF LeaderCancelSignal, Plan
  <2> QED BY <2>1, <2>2, <2>3 DEF LeaderCancelSignal, LeaderPc
<1>6. CASE \E w \in Work : LeaderCreate(w)
  <2>1. PICK w \in Work : LeaderCreate(w)
    BY <1>6
  <2>2. plan' \in Plan /\ plan.deps[w] \subseteq Work
    BY <2>1 DEF LeaderCreate, Plan
  <2>3. ledger' \in ProjectionState
    BY <2>1, <2>2, CreatedResult DEF LeaderCreate
  <2> QED BY <2>1, <2>2, <2>3 DEF LeaderCreate
<1>7. CASE LeaderHandoff
  <2>1. plan.handoff \in Agent
    BY <1>7 DEF LeaderHandoff, Plan
  <2>2. ledger' \in ProjectionState
    BY <1>7, <2>1, SessionEventTypes DEF LeaderHandoff
  <2> QED BY <1>7, <2>2, NoPlanType DEF LeaderHandoff, TurnEnd, LeaderPc, Pushed,
                                     PushAccepted
<1>8. CASE LeaderSchedule
  BY <1>8, ScheduleType, NoPlanType DEF LeaderSchedule, TurnEnd, LeaderPc, Pushed,
             PushAccepted
<1>9. CASE LeaderFinal
  <2>1. ledger' \in ProjectionState
    BY <1>9, SessionEventTypes, RuntimeAssumption DEF LeaderFinal
  <2> QED BY <1>9, <2>1, NoPlanType DEF LeaderFinal, LeaderPc
<1>10. CASE LeaderStop
  BY <1>10 DEF LeaderStop, LeaderPc, Stopping
<1>11. CASE LeaderInterrupted
  BY <1>11, NoPlanType DEF LeaderInterrupted, TurnError, LeaderPc, ExitReason
<1>12. CASE LeaderAnswer
  <2>1. plan' \in Plan
    BY <1>12, NoPlanType DEF LeaderAnswer, Plan
  <2> QED BY <1>12, <2>1 DEF LeaderAnswer, LeaderPc
<1>13. CASE LeaderModelFails
  BY <1>13, NoPlanType DEF LeaderModelFails, TurnError, LeaderPc, ExitReason
<1>14. CASE LeaderAborted
  BY <1>14, NoPlanType DEF LeaderAborted, TurnError, LeaderPc, ExitReason
<1>15. CASE \E create, cancel \in SUBSET Work, handoff \in Agent \cup {NoAgent},
               deps \in PartialDeps : LeaderDecide(cancel, create, deps, handoff)
  <2>1. PICK create \in SUBSET Work, cancel \in SUBSET Work,
             handoff \in Agent \cup {NoAgent}, deps \in PartialDeps :
               LeaderDecide(cancel, create, deps, handoff)
    BY <1>15
  <2>2. [w \in Work |-> IF w \in DOMAIN deps THEN deps[w] ELSE {}]
          \in [Work -> SUBSET Work]
    BY DEF PartialDeps
  <2>3. plan' \in Plan
    BY <2>1, <2>2, NoPlanType DEF LeaderDecide, Plan
  <2> QED BY <2>1, <2>3 DEF LeaderDecide, LeaderPc
<1>16. CASE LeaderFault
  <2>1. /\ faults' \in Nat
        /\ leaderPc' \in LeaderPc /\ exit' \in ExitReason
        /\ finalizing' \in BOOLEAN
    <3>1. faults' \in Nat
      BY <1>16 DEF LeaderFault
    <3>2. leaderPc' \in LeaderPc
      BY <1>16 DEF LeaderFault, TurnError, LeaderPc
    <3>3. exit' \in ExitReason
      BY <1>16 DEF LeaderFault, TurnError, ExitReason
    <3>4. finalizing' \in BOOLEAN
      BY <1>16 DEF LeaderFault, TurnError
    <3> QED BY <3>1, <3>2, <3>3, <3>4
  <2>2. plan' \in Plan
    <3>1. CASE plan' = NoPlan
      BY <3>1, NoPlanType
    <3>2. CASE plan' = [NoPlan EXCEPT !.answer = TRUE]
      BY <3>2, AnswerPlanType
    <3>3. CASE \E w \in plan.cancel : plan' = [plan EXCEPT !.cancel = @ \ {w}]
      <4>1. PICK w \in plan.cancel :
                   plan' = [plan EXCEPT !.cancel = plan.cancel \ {w}]
        BY <3>3
      <4>2. plan.cancel \ {w} \in SUBSET Work
        BY DEF Plan
      <4> QED BY <4>1, <4>2, PlanUpdateType
    <3>4. CASE plan' = [plan EXCEPT !.doing = {}]
      BY <3>4, PlanUpdateType
    <3> QED BY <1>16, <3>1, <3>2, <3>3, <3>4 DEF LeaderFault, TurnError
  <2>3. UNCHANGED <<ledger, runVars, snap, queueVars, workVars, ctxDone,
                    userCancelled, userVars, restarts, unrecorded>>
    BY <1>16 DEF LeaderFault, TurnError
  <2> QED BY <2>1, <2>2, <2>3
<1> QED BY <1>1, <1>2, <1>3, <1>4, <1>5, <1>6, <1>7, <1>8, <1>9, <1>10, <1>11,
          <1>12, <1>13, <1>14, <1>15, <1>16, LeaderChoices DEF LeaderStep

\* Every step of a goroutine keeps the types.
LEMMA WorkerTypes ==
    ASSUME TypeOK, \E w \in Work : WorkerStep(w) \/ WorkerFault(w)
    PROVE  TypeOK'
<1> USE DEF TypeOK, vars, runVars, loopVars, queueVars, workVars, flagVars, userVars, budgetVars
<1>1. CASE \E w \in Work : WorkerCheck(w)
  <2>1. PICK w \in Work : WorkerCheck(w)
    BY <1>1
  <2>2. task' \in [Work -> Task]
    BY <2>1, GotoType DEF WorkerCheck, LocalStep, TaskPc
  <2> QED BY <2>1, <2>2 DEF WorkerCheck, LocalStep
<1>2. CASE \E w \in Work : WorkerRegister(w)
  <2>1. PICK w \in Work : WorkerRegister(w)
    BY <1>2
  <2>2. task' \in [Work -> Task]
    BY <2>1, GotoType DEF WorkerRegister, LocalStep, TaskPc
  <2> QED BY <2>1, <2>2 DEF WorkerRegister, LocalStep
<1>3. CASE \E w \in Work : WorkerStart(w)
  <2>1. PICK w \in Work : WorkerStart(w)
    BY <1>3
  <2>2. task' \in [Work -> Task]
    BY <2>1, GotoType DEF WorkerStart, TaskPc
  <2>3. task[w].attempt \in Nat
    BY DEF Task
  <2>4. ledger' \in ProjectionState
    BY <2>1, <2>3, WorkEventTypes DEF WorkerStart
  <2> QED BY <2>1, <2>2, <2>4 DEF WorkerStart
<1>4. CASE \E w \in Work : WorkerStartRefused(w)
  <2>1. PICK w \in Work : WorkerStartRefused(w)
    BY <1>4
  <2>2. task' \in [Work -> Task]
    BY <2>1, GotoType DEF WorkerStartRefused, LocalStep, TaskPc
  <2> QED BY <2>1, <2>2 DEF WorkerStartRefused, LocalStep
<1>5. CASE \E w \in Work : WorkerReturn(w)
  <2>1. PICK w \in Work : WorkerReturn(w)
    BY <1>5
  <2>2. task' \in [Work -> Task]
    BY <2>1, GotoType DEF WorkerReturn, LocalStep, TaskPc
  <2> QED BY <2>1, <2>2 DEF WorkerReturn, LocalStep
<1>6. CASE \E w \in Work : WorkerComplete(w)
  <2>1. PICK w \in Work : WorkerComplete(w)
    BY <1>6
  <2>2. task' \in [Work -> Task]
    BY <2>1, GotoType DEF WorkerComplete, TaskPc
  <2>3. task[w].attempt \in Nat
    BY DEF Task
  <2>4. ledger' \in ProjectionState
    BY <2>1, <2>3, WorkEventTypes DEF WorkerComplete
  <2> QED BY <2>1, <2>2, <2>4 DEF WorkerComplete
<1>7. CASE \E w \in Work : WorkerCompleteRefused(w)
  <2>1. PICK w \in Work : WorkerCompleteRefused(w)
    BY <1>7
  <2>2. task' \in [Work -> Task]
    BY <2>1, GotoType DEF WorkerCompleteRefused, LocalStep, TaskPc
  <2> QED BY <2>1, <2>2 DEF WorkerCompleteRefused, LocalStep
<1>8. CASE \E w \in Work : WorkerFailCheck(w)
  <2>1. PICK w \in Work : WorkerFailCheck(w)
    BY <1>8
  <2>2. task' \in [Work -> Task]
    BY <2>1, GotoType DEF WorkerFailCheck, LocalStep, TaskPc
  <2> QED BY <2>1, <2>2 DEF WorkerFailCheck, LocalStep
<1>9. CASE \E w \in Work : WorkerFail(w)
  <2>1. PICK w \in Work : WorkerFail(w)
    BY <1>9
  <2>2. task' \in [Work -> Task]
    BY <2>1, GotoType DEF WorkerFail, TaskPc
  <2>3. task[w].attempt \in Nat
    BY DEF Task
  <2>4. ledger' \in ProjectionState
    BY <2>1, <2>3, WorkEventTypes DEF WorkerFail
  <2> QED BY <2>1, <2>2, <2>4 DEF WorkerFail
<1>10. CASE \E w \in Work : WorkerReport(w)
  <2>1. PICK w \in Work : WorkerReport(w)
    BY <1>10
  <2>2. [task EXCEPT ![w].pc = "done"] \in [Work -> Task]
    BY DEF Task, TaskPc
  <2>3. /\ task' \in [Work -> Task]
        /\ launched' \subseteq (Work \X Nat)
    BY <2>1, <2>2, ScheduleType DEF WorkerReport, Goto
  <2> QED BY <2>1, <2>3 DEF WorkerReport, Pushed, PushAccepted
<1>11. CASE \E w \in Work : WorkerFaultRead(w)
  <2>1. PICK w \in Work : WorkerFaultRead(w)
    BY <1>11
  <2>2. task' \in [Work -> Task]
    BY <2>1, GotoType DEF WorkerFaultRead, LocalStep, TaskPc
  <2> QED BY <2>1, <2>2 DEF WorkerFaultRead, LocalStep
<1>12. CASE \E w \in Work : WorkerFaultRecord(w)
  <2>1. PICK w \in Work : WorkerFaultRecord(w)
    BY <1>12
  <2>2. task' \in [Work -> Task]
    BY <2>1, GotoType DEF WorkerFaultRecord, TaskPc
  <2>3. ledger' \in ProjectionState
    BY <2>1, SessionEventTypes, RuntimeAssumption DEF WorkerFaultRecord
  <2> QED BY <2>1, <2>2, <2>3 DEF WorkerFaultRecord
<1>13. CASE \E w \in Work : WorkerHalt(w)
  <2>1. PICK w \in Work : WorkerHalt(w)
    BY <1>13
  <2>2. task' \in [Work -> Task]
    BY <2>1, GotoType DEF WorkerHalt, TaskPc
  <2> QED BY <2>1, <2>2 DEF WorkerHalt, Stopping
<1>14. CASE \E w \in Work : WorkerFault(w)
  <2>1. PICK w \in Work : WorkerFault(w)
    BY <1>14
  <2>2. \E pc \in TaskPc : Goto(w, pc)
    BY <2>1 DEF WorkerFault, TaskPc
  <2>3. task' \in [Work -> Task]
    BY <2>2, GotoType
  <2>4. faults' \in Nat
    BY <2>1 DEF WorkerFault
  <2>5. signalled' \in BOOLEAN
    BY <2>1, Zenon DEF WorkerFault, Pushed, PushAccepted
  <2>6. unrecorded' \in BOOLEAN
    BY <2>1, Zenon DEF WorkerFault
  <2> QED BY <2>1, <2>3, <2>4, <2>5, <2>6 DEF WorkerFault
<1> QED BY <1>1, <1>2, <1>3, <1>4, <1>5, <1>6, <1>7, <1>8, <1>9, <1>10, <1>11,
          <1>12, <1>13, <1>14 DEF WorkerStep

\* Every step of the user, another process or the outside world keeps the
\* types.
LEMMA UserTypes ==
    ASSUME TypeOK, UserStep
    PROVE  TypeOK'
<1> USE DEF TypeOK, vars, runVars, loopVars, queueVars, workVars, flagVars, userVars, budgetVars
<1>1. CASE SteerCheck
  BY <1>1 DEF SteerCheck
<1>2. CASE SteerAppend
  <2>1. ledger' \in ProjectionState
    BY <1>2, SessionEventTypes, RuntimeAssumption DEF SteerAppend
  <2>2. faults' \in Nat
    BY <1>2 DEF SteerAppend
  <2> QED BY <1>2, <2>1, <2>2 DEF SteerAppend
<1>3. CASE SteerPush
  <2>1. ledger.instructions \in Nat
    BY DEF ProjectionState
  <2> QED BY <1>3, <2>1 DEF SteerPush, Pushed, PushAccepted
<1>4. CASE CancelFlag
  BY <1>4 DEF CancelFlag
<1>5. CASE CancelAppend
  <2>1. ledger' \in ProjectionState
    BY <1>5, SessionEventTypes, RuntimeAssumption DEF CancelAppend
  <2>2. faults' \in Nat
    BY <1>5 DEF CancelAppend
  <2>3. unrecorded' \in BOOLEAN
    BY <1>5, Zenon DEF CancelAppend
  <2> QED BY <1>5, <2>1, <2>2, <2>3 DEF CancelAppend
<1>6. CASE CancelContext
  BY <1>6 DEF CancelContext
<1>7. CASE OutsideCheck
  BY <1>7 DEF OutsideCheck
<1>8. CASE OutsideAppend
  <2>1. ledger' \in ProjectionState
    BY <1>8, SessionEventTypes, RuntimeAssumption DEF OutsideAppend
  <2>2. faults' \in Nat
    BY <1>8 DEF OutsideAppend
  <2> QED BY <1>8, <2>1, <2>2 DEF OutsideAppend
<1>9. CASE Shutdown
  BY <1>9 DEF Shutdown
<1>10. CASE Crash
  <2>1. NoSnap \in Snap /\ NoTask \in [Work -> Task] /\ restarts + 1 \in Nat
    BY DEF NoSnap, Snap, NoTask, Task, TaskPc
  <2> QED BY <1>10, <2>1, NoPlanType DEF Crash, DriverPc, LeaderPc, ExitReason,
                                     Stopping
<1>11. CASE Resume
  BY <1>11 DEF Resume, DriverPc
<1> QED BY <1>1, <1>2, <1>3, <1>4, <1>5, <1>6, <1>7, <1>8, <1>9, <1>10, <1>11
    DEF UserStep

\* Every variable keeps its type: the events leave a projection that
\* Projection.Apply could have built, and every actor stands at a line of its
\* code.
THEOREM TypeCorrect == Spec => []TypeOK
<1>1. Init => TypeOK
  <2> SUFFICES ASSUME Init PROVE TypeOK
    OBVIOUS
  <2>1. ledger \in ProjectionState
    BY EmptyProjectionType DEF Init
  <2>2. snap \in Snap /\ plan \in Plan
    BY NoPlanType DEF Init, NoSnap, Snap
  <2>3. task \in [Work -> Task] /\ launched \subseteq (Work \X Nat)
    BY DEF Init, NoTask, Task, TaskPc
  <2> QED BY <2>1, <2>2, <2>3 DEF Init, TypeOK, DriverPc, LeaderPc, ExitReason,
                                  Stopping
<1>2. TypeOK /\ [Next]_vars => TypeOK'
  <2> SUFFICES ASSUME TypeOK, [Next]_vars PROVE TypeOK'
    OBVIOUS
  <2>1. CASE Next
    BY <2>1, DriverTypes, LeaderTypes, WorkerTypes, UserTypes DEF Next
  <2>2. CASE UNCHANGED vars
    BY <2>2 DEF TypeOK, vars, runVars, loopVars, queueVars, workVars, flagVars,
                userVars, budgetVars
  <2> QED BY <2>1, <2>2
<1> QED BY <1>1, <1>2, PTL DEF Spec

-----------------------------------------------------------------------------
(* The inductive invariants.                                               *)

\* The driver has not started the turn loop.
BeforeLoop == {"enter", "elect", "mark", "launch", "down"}

\* Before the loop runs there is neither a leader's turn nor a goroutine.
StartupInv ==
    driver \in BeforeLoop =>
        leaderPc = "off" /\ plan = NoPlan /\ \A w \in Work : task[w].pc = "none"

\* The goroutine has not appended its Started event yet.
BeforeStart == {"launched", "admitted", "registered"}

\* It has, and no store call of it has failed since.
AfterStart == {"running", "succeeded", "broken", "aborted", "failing",
               "reporting", "notifying"}

\* What scheduleReady requires of a work's own record.
Launchable(r) == r.status = "pending" \/ (r.status = "failed" /\ r.interrupted)

\* Unknown work has no record and no goroutine, completed work has a result
\* and work that may still run has none.
RecordOK(w) ==
    /\ ~Known(ledger, w) => ledger.work[w] = AbsentWork /\ task[w].pc = "none"
    /\ ledger.work[w].status = "completed" => ledger.work[w].result
    /\ Launchable(ledger.work[w]) \/ ledger.work[w].status = "running"
          => ~ledger.work[w].result

\* A goroutine that has not started its attempt carries the next number and
\* its work may be started, unless it has been cancelled meanwhile.
BeforeStartOK(w) ==
    task[w].pc \in BeforeStart =>
        /\ task[w].attempt = ledger.work[w].attempt + 1
        /\ Launchable(ledger.work[w]) \/ ledger.work[w].status = "cancelled"
        /\ ~ledger.work[w].result

\* A goroutine that has started its attempt carries the latest number, and
\* scheduleReady passes its work over.
AfterStartOK(w) ==
    task[w].pc \in AfterStart =>
        /\ task[w].attempt = ledger.work[w].attempt
        /\ ~Launchable(ledger.work[w])

\* Every live goroutine, one on its way out after a failed store call
\* included, is one or the other, and r.launched holds its attempt.
LaunchedOK(w) ==
    Live(w) =>
        /\ \/ task[w].attempt = ledger.work[w].attempt + 1
           \/ ~Launchable(ledger.work[w])
        /\ <<w, task[w].attempt>> \in launched

WorkOK(w) == RecordOK(w) /\ BeforeStartOK(w) /\ AfterStartOK(w) /\ LaunchedOK(w)

\* The prerequisites of a goroutine that has not started have their results.
PrerequisitesInv ==
    \A w \in Work : task[w].pc \in BeforeStart =>
        \A d \in ledger.work[w].deps : ledger.work[d].result

\* What the leader is about to create does not exist.
PlanInv == \A w \in plan.create : ~Known(ledger, w)

GoroutineInv == (\A w \in Work : WorkOK(w)) /\ PrerequisitesInv /\ PlanInv

\* The leader is unknown only until the driver has elected one, acts under its
\* own name and hands off to its peers.
LeadershipInv ==
    /\ driver = "elect" => ledger.leader = NoAgent
    /\ driver \in {"mark", "launch"} \/ leaderPc # "off" => ledger.leader \in Agent
    /\ InTurn => snap.leader = ledger.leader
    /\ plan.handoff # NoAgent =>
          /\ leaderPc \in {"cancel", "cancelAppend", "cancelSignal"}
          /\ plan.handoff \in Peers[ledger.leader]

\* A run that may still answer has not answered, and a session whose row says
\* running has not ended.
AnswerInv ==
    /\ ledger.answers <= 1
    /\ ledger.answers > 0 => ledger.terminal
    /\ driver \in {"elect", "mark", "launch"} => ledger.answers = 0
    /\ leaderPc \notin {"off", "stop", "stopped"} => ledger.answers = 0

LeaderInv == LeadershipInv /\ AnswerInv

-----------------------------------------------------------------------------
(* Before the loop runs.                                                   *)

\* A leader's step needs a loop, and leaves the driver alone.
LEMMA LeaderNeedsLoop ==
    ASSUME LeaderStep \/ LeaderChoice \/ LeaderFault
    PROVE  leaderPc # "off" /\ driver' = driver
<1> USE DEF runVars
<1>1. CASE LeaderStep
  <2>1. CASE TurnBegin \/ LoopExit
    BY <2>1 DEF TurnBegin, LoopExit
  <2>2. CASE \E w \in Work : \/ LeaderCancelCheck(w) \/ LeaderCancelAppend(w)
                             \/ LeaderCancelSignal(w) \/ LeaderCreate(w)
    BY <2>2 DEF LeaderCancelCheck, LeaderCancelAppend, LeaderCancelSignal,
                LeaderCreate
  <2>3. CASE LeaderHandoff \/ LeaderSchedule \/ LeaderFinal
    BY <2>3 DEF LeaderHandoff, LeaderSchedule, LeaderFinal, Settled
  <2>4. CASE LeaderStop \/ LeaderInterrupted
    BY <2>4 DEF LeaderStop, LeaderInterrupted, TurnError
  <2> QED BY <1>1, <2>1, <2>2, <2>3, <2>4 DEF LeaderStep
<1>2. CASE LeaderChoice
  <2>1. leaderPc = "model"
    BY <1>2 DEF LeaderChoice
  <2>2. driver' = driver
    BY <1>2, LeaderChoices DEF LeaderAnswer, LeaderModelFails, LeaderAborted,
                               TurnError, LeaderDecide
  <2> QED BY <2>1, <2>2
<1>3. CASE LeaderFault
  <2>1. leaderPc # "off"
    BY <1>3 DEF LeaderFault, TurnError
  <2>2. driver' = driver
    BY <1>3 DEF LeaderFault, TurnError
  <2> QED BY <2>1, <2>2
<1> QED BY <1>1, <1>2, <1>3

\* A goroutine's step is a step of a live goroutine, and leaves the driver, the
\* loop and the leader's outcome alone.
LEMMA WorkerFrame ==
    ASSUME NEW w \in Work, WorkerStep(w) \/ WorkerFault(w)
    PROVE  Live(w) /\ UNCHANGED <<runVars, loopVars>>
BY DEF WorkerStep, WorkerFault, WorkerCheck, WorkerRegister, WorkerStart,
       WorkerStartRefused, WorkerReturn, WorkerComplete, WorkerCompleteRefused,
       WorkerFailCheck, WorkerFail, WorkerReport, WorkerFaultRead,
       WorkerFaultRecord, WorkerHalt, LocalStep, Live

\* execute reads, elects and recovers alone.
THEOREM StartupCorrect == Spec => []StartupInv
<1>1. Init => StartupInv
  BY DEF Init, StartupInv, BeforeLoop, NoTask
<1>2. TypeOK /\ StartupInv /\ [Next]_vars => StartupInv'
  <2> SUFFICES ASSUME TypeOK, StartupInv, [Next]_vars PROVE StartupInv'
    OBVIOUS
  <2> USE DEF StartupInv, BeforeLoop, runVars, loopVars, workVars
  <2>1. CASE DriverStep \/ DriverFault
    <3>1. CASE DriverEnter \/ DriverElect \/ DriverMarked
      BY <3>1 DEF DriverEnter, DriverElect, DriverMarked
    <3>2. CASE \E w \in Work : DriverMark(w)
      BY <3>2 DEF DriverMark
    <3>3. CASE \/ DriverLaunch \/ DriverSchedule \/ DriverAbandon \/ DriverWait
               \/ DriverFindsTerminal \/ DriverGiveUp \/ DriverGiveUpRecord
               \/ DriverClassify
               \/ DriverFail \/ DriverRecord \/ DriverFault
      <4>1. driver' \notin BeforeLoop
        BY <3>3 DEF DriverLaunch, DriverSchedule, DriverAbandon, DriverWait,
                    DriverFindsTerminal, DriverGiveUp, DriverGiveUpRecord,
                    DriverClassify,
                    DriverFail, DriverRecord, DriverFault, Return
      <4> QED BY <4>1
    <3> QED BY <2>1, <3>1, <3>2, <3>3 DEF DriverStep
  <2>2. CASE LeaderStep \/ LeaderChoice \/ LeaderFault
    BY <2>2, LeaderNeedsLoop
  <2>3. CASE \E w \in Work : WorkerStep(w) \/ WorkerFault(w)
    BY <2>3, WorkerFrame DEF Live
  <2>4. CASE UserStep
    <3>1. CASE Crash
      BY <3>1 DEF Crash, NoTask
    <3>2. CASE Resume
      BY <3>2 DEF Resume
    <3>3. CASE UserStep /\ ~Crash /\ ~Resume
      <4>1. UNCHANGED <<driver, loopVars, workVars>>
        BY <3>3 DEF UserStep, SteerCheck, SteerAppend, SteerPush, CancelFlag,
                    CancelAppend, CancelContext, OutsideCheck, OutsideAppend,
                    Shutdown
      <4> QED BY <4>1
    <3> QED BY <2>4, <3>1, <3>2, <3>3
  <2>5. CASE UNCHANGED vars
    BY <2>5 DEF vars
  <2> QED BY <2>1, <2>2, <2>3, <2>4, <2>5 DEF Next
<1> QED BY <1>1, <1>2, TypeCorrect, PTL DEF Spec

-----------------------------------------------------------------------------
(* Goroutines and the ledger.                                              *)

\* A step that touches no work record, no goroutine's place and creates no plan
\* keeps the invariant.
LEMMA QuietStep ==
    ASSUME GoroutineInv, ledger'.work = ledger.work,
           \A w \in Work : /\ task'[w].pc = task[w].pc
                           /\ task'[w].attempt = task[w].attempt,
           launched' = launched, plan'.create \subseteq plan.create
    PROVE  GoroutineInv'
BY DEF GoroutineInv, WorkOK, RecordOK, BeforeStartOK, AfterStartOK, LaunchedOK,
       PrerequisitesInv, PlanInv, Known, Live

\* A step about one work keeps the invariant if it leaves that work in order,
\* keeps its prerequisites and does not lose its result.
LEMMA OneWorkStep ==
    ASSUME TypeOK, GoroutineInv, NEW w \in Work, WorkOK(w)',
           \A v \in Work \ {w} : /\ ledger'.work[v] = ledger.work[v]
                                 /\ task'[v] = task[v],
           launched' = launched,
           ledger.work[w].result => ledger'.work[w].result,
           task'[w].pc \in BeforeStart =>
               /\ task[w].pc \in BeforeStart
               /\ ledger'.work[w].deps = ledger.work[w].deps,
           plan'.create \subseteq plan.create,
           Known(ledger', w) => Known(ledger, w) \/ w \notin plan'.create
    PROVE  GoroutineInv'
<1>1. ASSUME NEW v \in Work \ {w} PROVE WorkOK(v)'
  BY <1>1 DEF GoroutineInv, WorkOK, RecordOK, BeforeStartOK, AfterStartOK,
              LaunchedOK, Known, Live
<1>2. \A v \in Work : ledger.work[v].deps \subseteq Work
  BY AttemptType DEF TypeOK
<1>3. PrerequisitesInv'
  <2> SUFFICES ASSUME NEW v \in Work, task'[v].pc \in BeforeStart,
                      NEW d \in ledger'.work[v].deps
               PROVE  ledger'.work[d].result
    BY DEF PrerequisitesInv
  <2>1. task[v].pc \in BeforeStart /\ d \in ledger.work[v].deps
    OBVIOUS
  <2>2. ledger.work[d].result /\ d \in Work
    BY <2>1, <1>2 DEF GoroutineInv, PrerequisitesInv
  <2> QED BY <2>2
<1>4. PlanInv'
  <2>1. plan.create \subseteq Work
    BY DEF TypeOK, Plan
  <2> QED BY <2>1 DEF GoroutineInv, PlanInv, Known
<1> QED BY <1>1, <1>3, <1>4 DEF GoroutineInv

\* A goroutine that moves on with no event, without going back before its
\* start or its end, keeps the invariant.
LEMMA MoveStep ==
    ASSUME TypeOK, GoroutineInv, NEW w \in Work, NEW pc \in TaskPc \ {"none"},
           Goto(w, pc), Live(w), pc \in BeforeStart => task[w].pc \in BeforeStart,
           pc \in AfterStart => task[w].pc \in AfterStart,
           UNCHANGED <<ledger, launched, plan>>
    PROVE  GoroutineInv'
<1>1. /\ task'[w].pc = pc /\ task'[w].attempt = task[w].attempt
      /\ \A v \in Work \ {w} : task'[v] = task[v]
  BY DEF Goto, TypeOK, Task
<1>2. WorkOK(w)'
  BY <1>1 DEF GoroutineInv, WorkOK, RecordOK, BeforeStartOK, AfterStartOK,
              LaunchedOK, Known, Live
<1> QED BY <1>1, <1>2, OneWorkStep

\* scheduleReady, run by a goroutine that ends or by nobody in particular, keeps
\* the invariant, and leaves every live goroutine alone.
LEMMA ScheduleStep ==
    ASSUME TypeOK, GoroutineInv, NEW tasks \in [Work -> Task],
           ScheduleReady(tasks), UNCHANGED ledger,
           plan'.create \subseteq plan.create,
           \A w \in Work : \/ tasks[w] = task[w]
                           \/ /\ Live(w) /\ tasks[w].pc = "done"
                              /\ ~Launchable(ledger.work[w])
    PROVE  /\ GoroutineInv'
           /\ \A w \in Work : Live(w) => task'[w] = tasks[w]
<1> DEFINE next(w) == ledger.work[w].attempt + 1
           start == {w \in Work : Ready(ledger, w) /\ <<w, next(w)>> \notin launched}
<1>1. /\ \A w \in start : /\ task'[w].pc = "launched" /\ task'[w].attempt = next(w)
                          /\ <<w, next(w)>> \in launched'
      /\ \A w \in Work \ start : task'[w] = tasks[w]
      /\ launched \subseteq launched'
  BY DEF ScheduleReady
<1>2. \A w \in start : Launchable(ledger.work[w]) /\ Known(ledger, w)
  BY DEF Ready, Launchable, Known
<1>3. \A w \in Work : Live(w) => w \notin start
  BY <1>2 DEF GoroutineInv, WorkOK, LaunchedOK
<1>4. ASSUME NEW w \in start PROVE WorkOK(w)'
  <2>1. ~ledger.work[w].result /\ ledger.work[w].status # "completed"
    BY <1>2 DEF GoroutineInv, WorkOK, RecordOK, Launchable
  <2> QED BY <1>1, <1>2, <2>1
          DEF WorkOK, RecordOK, BeforeStartOK, AfterStartOK, LaunchedOK, Known,
              Live, BeforeStart, AfterStart
<1>5. ASSUME NEW w \in Work \ start PROVE WorkOK(w)'
  <2>1. WorkOK(w) /\ task'[w] = tasks[w]
    BY <1>1 DEF GoroutineInv
  <2>2. CASE tasks[w] = task[w]
    BY <1>1, <2>1, <2>2 DEF WorkOK, RecordOK, BeforeStartOK, AfterStartOK,
                            LaunchedOK, Known, Live
  <2>3. CASE Live(w) /\ tasks[w].pc = "done"
    BY <2>1, <2>3 DEF WorkOK, RecordOK, BeforeStartOK, AfterStartOK,
                      LaunchedOK, Known, Live, BeforeStart, AfterStart
  <2> QED BY <2>2, <2>3
<1>6. PrerequisitesInv'
  <2> SUFFICES ASSUME NEW w \in Work, task'[w].pc \in BeforeStart,
                      NEW d \in ledger.work[w].deps
               PROVE  ledger.work[d].result
    BY DEF PrerequisitesInv
  <2>1. CASE w \in start
    <3>1. ledger.work[d].status = "completed" /\ d \in Work
      BY <2>1, AttemptType DEF Ready, DependenciesCompleted, TypeOK
    <3> QED BY <3>1 DEF GoroutineInv, WorkOK, RecordOK
  <2>2. CASE w \notin start
    <3>1. task[w].pc \in BeforeStart
      BY <1>1, <2>2 DEF BeforeStart
    <3> QED BY <3>1 DEF GoroutineInv, PrerequisitesInv
  <2> QED BY <2>1, <2>2
<1>7. PlanInv'
  BY DEF GoroutineInv, PlanInv, Known
<1> QED BY <1>1, <1>3, <1>4, <1>5, <1>6, <1>7 DEF GoroutineInv

\* The driver keeps the invariant: it marks interrupted work when no goroutine
\* is about.
LEMMA DriverKeepsGoroutineInv ==
    ASSUME TypeOK, StartupInv, GoroutineInv, DriverStep \/ DriverFault
    PROVE  GoroutineInv'
<1> USE DEF runVars, loopVars, workVars
<1>1. CASE \E w \in Work : DriverMark(w)
  <2>1. PICK w \in Work : DriverMark(w)
    BY <1>1
  <2>2. Known(ledger, w) /\ ledger.work[w].attempt \in Nat /\ task[w].pc = "none"
    BY <2>1, AttemptType DEF DriverMark, Known, TypeOK, StartupInv, BeforeLoop
  <2>3. /\ ledger'.work[w].status = "failed"
        /\ ledger'.work[w].result = ledger.work[w].result
        /\ \A v \in Work \ {w} : ledger'.work[v] = ledger.work[v]
    <3>1. ledger \in ProjectionState
      BY DEF TypeOK
    <3>2. PICK i : ledger' = ApplyFailed(ledger, w, ledger.work[w].attempt, i)
      BY <2>1, Zenon DEF DriverMark
    <3> QED BY <2>2, <3>1, <3>2, FailedResult
  <2>4. ~ledger.work[w].result
    BY <2>1 DEF DriverMark, GoroutineInv, WorkOK, RecordOK
  <2>5. UNCHANGED <<task, launched, plan>>
    BY <2>1 DEF DriverMark
  <2>6. WorkOK(w)'
    BY <2>2, <2>3, <2>4, <2>5
       DEF WorkOK, RecordOK, BeforeStartOK, AfterStartOK, LaunchedOK, Known,
           Live, BeforeStart, AfterStart
  <2> QED BY <2>2, <2>3, <2>4, <2>5, <2>6, OneWorkStep DEF BeforeStart
<1>2. CASE DriverSchedule
  BY <1>2, ScheduleStep DEF DriverSchedule, TypeOK
<1>3. CASE \/ DriverEnter \/ DriverFindsTerminal \/ DriverElect \/ DriverMarked
           \/ DriverLaunch \/ DriverAbandon \/ DriverGiveUp
           \/ DriverGiveUpRecord \/ DriverWait
           \/ DriverClassify \/ DriverFail \/ DriverRecord \/ DriverFault
  <2>1. ledger'.work = ledger.work
    BY <1>3, SessionEventTypes, RuntimeAssumption
       DEF DriverEnter, DriverFindsTerminal, DriverElect, DriverMarked,
           DriverLaunch, DriverAbandon, DriverGiveUp, DriverGiveUpRecord,
           DriverWait,
           DriverClassify, DriverFail, DriverRecord, DriverFault, Return, TypeOK
  <2>2. launched' = launched /\ plan' = plan
    BY <1>3
       DEF DriverEnter, DriverFindsTerminal, DriverElect, DriverMarked,
           DriverLaunch, DriverAbandon, DriverGiveUp, DriverGiveUpRecord,
           DriverWait,
           DriverClassify, DriverFail, DriverRecord, DriverFault, Return
  <2>3. \A w \in Work : task'[w].pc = task[w].pc /\ task'[w].attempt = task[w].attempt
    <3>1. CASE DriverWait
      BY <3>1 DEF DriverWait, TypeOK, Task
    <3>2. CASE ~DriverWait
      BY <1>3, <3>2
         DEF DriverEnter, DriverFindsTerminal, DriverElect, DriverMarked,
             DriverLaunch, DriverAbandon, DriverGiveUp, DriverGiveUpRecord,
             DriverClassify,
             DriverFail, DriverRecord, DriverFault, Return
    <3> QED BY <3>1, <3>2
  <2> QED BY <2>1, <2>2, <2>3, QuietStep
<1> QED BY <1>1, <1>2, <1>3 DEF DriverStep

\* The leader keeps the invariant: what it cancels is not launched again, what
\* it creates is new.
LEMMA LeaderKeepsGoroutineInv ==
    ASSUME TypeOK, GoroutineInv, LeaderStep \/ LeaderChoice \/ LeaderFault
    PROVE  GoroutineInv'
<1> USE DEF runVars, loopVars, workVars
<1>1. CASE \E w \in Work : LeaderCancelAppend(w)
  <2>1. PICK w \in Work : LeaderCancelAppend(w)
    BY <1>1
  <2>2. UNCHANGED <<task, launched, plan>>
    BY <2>1 DEF LeaderCancelAppend
  <2>3. CASE ~Known(ledger, w)
    BY <2>1, <2>2, <2>3, UnknownIgnored, QuietStep DEF LeaderCancelAppend
  <2>4. CASE Known(ledger, w)
    <3>1. /\ ledger'.work[w].status = "cancelled"
          /\ ledger'.work[w].attempt = ledger.work[w].attempt
          /\ ledger'.work[w].result = ledger.work[w].result
          /\ ledger'.work[w].deps = ledger.work[w].deps
          /\ \A v \in Work \ {w} : ledger'.work[v] = ledger.work[v]
      BY <2>1, <2>4, CancelledResult DEF LeaderCancelAppend, TypeOK
    <3>2. WorkOK(w)
      BY DEF GoroutineInv
    <3>3. WorkOK(w)'
      BY <2>2, <3>1, <3>2
         DEF WorkOK, RecordOK, BeforeStartOK, AfterStartOK, LaunchedOK, Known,
             Live, Launchable
    <3> QED BY <2>2, <2>4, <3>1, <3>3, OneWorkStep
  <2> QED BY <2>3, <2>4
<1>2. CASE \E w \in Work : LeaderCreate(w)
  <2>1. PICK w \in Work : LeaderCreate(w)
    BY <1>2
  <2>2. /\ w \in plan.create /\ plan.deps[w] \in SUBSET Work
        /\ plan'.create = plan.create \ {w} /\ UNCHANGED <<task, launched>>
    BY <2>1 DEF LeaderCreate, TypeOK, Plan
  <2>3. task[w].pc = "none"
    BY <2>2 DEF GoroutineInv, WorkOK, RecordOK, PlanInv
  <2>4. ledger.work[w] = AbsentWork
    BY <2>2 DEF GoroutineInv, WorkOK, RecordOK, PlanInv
  <2>5. /\ ledger'.work[w].status = "pending" /\ ~ledger'.work[w].result
        /\ \A v \in Work \ {w} : ledger'.work[v] = ledger.work[v]
    <3>1. ledger \in ProjectionState
      BY DEF TypeOK
    <3>2. ledger' = ApplyCreated(ledger, w, plan.deps[w])
      BY <2>1 DEF LeaderCreate
    <3> QED BY <2>2, <3>1, <3>2, CreatedResult
  <2>6. WorkOK(w)'
    BY <2>2, <2>3, <2>5
       DEF WorkOK, RecordOK, BeforeStartOK, AfterStartOK, LaunchedOK, Known,
           Live, BeforeStart, AfterStart
  <2> QED BY <2>2, <2>3, <2>4, <2>5, <2>6, OneWorkStep
          DEF BeforeStart, AbsentWork
<1>3. CASE LeaderSchedule
  <2>1. plan'.create = {}
    BY <1>3 DEF LeaderSchedule, TurnEnd, NoPlan
  <2> QED BY <1>3, <2>1, ScheduleStep DEF LeaderSchedule, TypeOK
<1>4. CASE \E create, cancel \in SUBSET Work, handoff \in Agent \cup {NoAgent},
              deps \in PartialDeps : LeaderDecide(cancel, create, deps, handoff)
  <2>1. PICK create, cancel \in SUBSET Work, handoff \in Agent \cup {NoAgent},
             deps \in PartialDeps : LeaderDecide(cancel, create, deps, handoff)
    BY <1>4
  <2>2. plan'.create = create
    BY <2>1 DEF LeaderDecide, NoPlan
  <2>3. UNCHANGED <<ledger, task, launched>>
    BY <2>1 DEF LeaderDecide
  <2>4. PlanInv'
    BY <2>1, <2>2, <2>3 DEF PlanInv, LeaderDecide, FreshWork
  <2> QED BY <2>3, <2>4
          DEF GoroutineInv, WorkOK, RecordOK, BeforeStartOK, AfterStartOK,
              LaunchedOK, PrerequisitesInv, Known, Live
<1>5. CASE \/ TurnBegin \/ LoopExit \/ LeaderHandoff \/ LeaderFinal \/ LeaderStop
           \/ LeaderInterrupted \/ LeaderAnswer \/ LeaderModelFails
           \/ LeaderAborted \/ LeaderFault
           \/ \E w \in Work : LeaderCancelCheck(w) \/ LeaderCancelSignal(w)
  <2>1. ledger'.work = ledger.work
    <3>1. CASE TurnBegin
      BY <3>1 DEF TurnBegin, ApplyTurnStarted, TypeOK, ProjectionState
    <3>2. CASE LeaderHandoff
      BY <3>2 DEF LeaderHandoff, ApplyLeadership, TypeOK, ProjectionState
    <3>3. CASE LeaderFinal
      BY <3>3 DEF LeaderFinal, ApplyFinalCompleted, TypeOK, ProjectionState
    <3>4. CASE ~(TurnBegin \/ LeaderHandoff \/ LeaderFinal)
      BY <1>5, <3>4
         DEF LoopExit, LeaderStop, LeaderInterrupted, LeaderAnswer,
             LeaderModelFails, LeaderAborted, LeaderFault, LeaderCancelCheck,
             LeaderCancelSignal, TurnError
    <3> QED BY <3>1, <3>2, <3>3, <3>4
  <2>2. /\ launched' = launched
        /\ \A w \in Work : /\ task'[w].pc = task[w].pc
                           /\ task'[w].attempt = task[w].attempt
    <3>1. CASE \E w \in Work : LeaderCancelSignal(w)
      BY <3>1 DEF LeaderCancelSignal, TypeOK, Task
    <3>2. CASE ~\E w \in Work : LeaderCancelSignal(w)
      BY <1>5, <3>2
         DEF TurnBegin, LoopExit, LeaderHandoff, LeaderFinal, LeaderStop,
             LeaderInterrupted, LeaderAnswer, LeaderModelFails, LeaderAborted,
             LeaderFault, LeaderCancelCheck, TurnError, TurnEnd
    <3> QED BY <3>1, <3>2
  <2>3. plan'.create \subseteq plan.create
    <3>1. CASE \/ TurnBegin \/ LoopExit \/ LeaderStop
      BY <3>1 DEF TurnBegin, LoopExit, LeaderStop
    <3>2. CASE \/ LeaderHandoff \/ LeaderFinal \/ LeaderInterrupted
               \/ LeaderModelFails \/ LeaderAborted
      BY <3>2 DEF LeaderHandoff, LeaderFinal, LeaderInterrupted,
                  LeaderModelFails, LeaderAborted, TurnError, TurnEnd, NoPlan
    <3>3. CASE LeaderAnswer
      BY <3>3 DEF LeaderAnswer, NoPlan
    <3>4. CASE LeaderFault
      <4>1. \/ plan' = NoPlan \/ plan' = [NoPlan EXCEPT !.answer = TRUE]
            \/ \E w \in plan.cancel : plan' = [plan EXCEPT !.cancel = @ \ {w}]
            \/ plan' = [plan EXCEPT !.doing = {}]
        BY <3>4 DEF LeaderFault, TurnError
      <4> QED BY <4>1 DEF NoPlan, TypeOK, Plan
    <3>5. CASE \E w \in Work : LeaderCancelCheck(w) \/ LeaderCancelSignal(w)
      BY <3>5 DEF LeaderCancelCheck, LeaderCancelSignal, TypeOK, Plan
    <3> QED BY <1>5, <3>1, <3>2, <3>3, <3>4, <3>5
  <2> QED BY <2>1, <2>2, <2>3, QuietStep
<1> QED BY <1>1, <1>2, <1>3, <1>4, <1>5, LeaderChoices DEF LeaderStep

\* A goroutine keeps the invariant: its events carry the attempt it was launched
\* with.
LEMMA WorkerKeepsGoroutineInv ==
    ASSUME TypeOK, GoroutineInv, NEW w \in Work, WorkerStep(w) \/ WorkerFault(w)
    PROVE  GoroutineInv'
<1> USE DEF runVars, loopVars, queueVars, workVars
<1>1. /\ Live(w) /\ Known(ledger, w) /\ WorkOK(w) /\ plan' = plan
      /\ ledger \in ProjectionState
  BY WorkerFrame DEF GoroutineInv, WorkOK, RecordOK, Live, TypeOK
<1>2. ASSUME NEW pc \in TaskPc, Goto(w, pc)
      PROVE  /\ task'[w].pc = pc /\ task'[w].attempt = task[w].attempt
             /\ \A v \in Work \ {w} : task'[v] = task[v]
  BY <1>2 DEF Goto, TypeOK, Task
<1>3. CASE WorkerStart(w)
  <2>1. /\ task[w].pc = "registered" /\ Goto(w, "running") /\ "running" \in TaskPc
        /\ ledger' = ApplyStarted(ledger, w, task[w].attempt)
        /\ launched' = launched
    BY <1>3 DEF WorkerStart, TaskPc
  <2>2. /\ ledger'.work[w].status = "running"
        /\ ledger'.work[w].attempt = task[w].attempt
        /\ ledger'.work[w].result = ledger.work[w].result
        /\ ledger'.work[w].deps = ledger.work[w].deps
        /\ \A v \in Work \ {w} : ledger'.work[v] = ledger.work[v]
    BY <1>1, <2>1, StartedResult
  <2>3. WorkOK(w)'
    BY <1>1, <1>2, <2>1, <2>2
       DEF WorkOK, RecordOK, BeforeStartOK, AfterStartOK, LaunchedOK, Known,
           Live, BeforeStart, AfterStart, Launchable
  <2> QED BY <1>1, <1>2, <2>1, <2>2, <2>3, OneWorkStep DEF BeforeStart
<1>4. CASE WorkerComplete(w)
  <2>1. /\ task[w].pc = "succeeded" /\ Goto(w, "reporting")
        /\ "reporting" \in TaskPc
        /\ ledger' = ApplyCompleted(ledger, w, task[w].attempt)
        /\ launched' = launched
    BY <1>4 DEF WorkerComplete, TaskPc
  <2>2. /\ ledger'.work[w].status = "completed"
        /\ ledger'.work[w].attempt = task[w].attempt
        /\ ledger'.work[w].result
        /\ ledger'.work[w].deps = ledger.work[w].deps
        /\ \A v \in Work \ {w} : ledger'.work[v] = ledger.work[v]
    BY <1>1, <2>1, CompletedResult
  <2>3. WorkOK(w)'
    BY <1>1, <1>2, <2>1, <2>2
       DEF WorkOK, RecordOK, BeforeStartOK, AfterStartOK, LaunchedOK, Known,
           Live, BeforeStart, AfterStart, Launchable
  <2> QED BY <1>1, <1>2, <2>1, <2>2, <2>3, OneWorkStep DEF BeforeStart
<1>5. CASE WorkerFail(w)
  <2>1. /\ task[w].pc = "failing" /\ Goto(w, "notifying")
        /\ "notifying" \in TaskPc /\ launched' = launched
    BY <1>5 DEF WorkerFail, TaskPc
  <2>2. PICK i : ~i /\ ledger' = ApplyFailed(ledger, w, task[w].attempt, i)
    BY <1>5, Zenon DEF WorkerFail
  <2>3. /\ ledger'.work[w].status = "failed"
        /\ ledger'.work[w].interrupted = i
        /\ ledger'.work[w].attempt = task[w].attempt
        /\ ledger'.work[w].result = ledger.work[w].result
        /\ ledger'.work[w].deps = ledger.work[w].deps
        /\ \A v \in Work \ {w} : ledger'.work[v] = ledger.work[v]
    BY <1>1, <2>2, FailedResult
  <2>4. ~Launchable(ledger'.work[w])
    BY <2>2, <2>3 DEF Launchable
  <2>5. WorkOK(w)'
    BY <1>1, <1>2, <2>1, <2>3, <2>4
       DEF WorkOK, RecordOK, BeforeStartOK, AfterStartOK, LaunchedOK, Known,
           Live, BeforeStart, AfterStart
  <2> QED BY <1>1, <1>2, <2>1, <2>3, <2>5, OneWorkStep DEF BeforeStart
<1>6. CASE WorkerReport(w)
  <2>1. task[w].pc \in AfterStart /\ UNCHANGED ledger
    BY <1>6 DEF WorkerReport, AfterStart
  <2>2. CASE launched' = launched /\ Goto(w, "done")
    BY <1>1, <2>1, <2>2, MoveStep DEF BeforeStart, AfterStart, TaskPc
  <2>3. CASE ScheduleReady([task EXCEPT ![w].pc = "done"])
    <3> DEFINE tasks == [task EXCEPT ![w].pc = "done"]
    <3>1. /\ tasks \in [Work -> Task] /\ tasks[w].pc = "done"
          /\ \A v \in Work \ {w} : tasks[v] = task[v]
      BY DEF TypeOK, Task, TaskPc
    <3>2. ~Launchable(ledger.work[w])
      BY <1>1, <2>1 DEF WorkOK, AfterStartOK
    <3> HIDE DEF tasks
    <3>3. ScheduleReady(tasks)
      BY <2>3 DEF tasks
    <3> QED BY <1>1, <2>1, <3>1, <3>2, <3>3, ScheduleStep
  <2> QED BY <1>6, <2>2, <2>3 DEF WorkerReport
<1>7. CASE WorkerFaultRecord(w)
  <2>1. /\ task[w].pc = "recording" /\ Goto(w, "halting") /\ "halting" \in TaskPc
        /\ launched' = launched
        /\ ledger'.work = ledger.work
    BY <1>1, <1>7 DEF WorkerFaultRecord, TaskPc, ApplySessionFailed,
                      ProjectionState
  <2>2. WorkOK(w)'
    BY <1>1, <1>2, <2>1
       DEF WorkOK, RecordOK, BeforeStartOK, AfterStartOK, LaunchedOK, Known,
           Live, BeforeStart, AfterStart
  <2> QED BY <1>1, <1>2, <2>1, <2>2, OneWorkStep DEF BeforeStart, Known
<1>8. CASE \/ WorkerCheck(w) \/ WorkerRegister(w) \/ WorkerStartRefused(w)
           \/ WorkerReturn(w) \/ WorkerCompleteRefused(w) \/ WorkerFailCheck(w)
           \/ WorkerFaultRead(w) \/ WorkerHalt(w) \/ WorkerFault(w)
  <2>1. UNCHANGED <<ledger, launched>>
    BY <1>8 DEF WorkerCheck, WorkerRegister, WorkerStartRefused, WorkerReturn,
                WorkerCompleteRefused, WorkerFailCheck, WorkerFaultRead,
                WorkerHalt, WorkerFault, LocalStep
  <2>2. PICK pc \in TaskPc \ {"none"} :
             /\ Goto(w, pc)
             /\ pc \in BeforeStart => task[w].pc \in BeforeStart
             /\ pc \in AfterStart => task[w].pc \in AfterStart
    BY <1>8 DEF WorkerCheck, WorkerRegister, WorkerStartRefused, WorkerReturn,
                WorkerCompleteRefused, WorkerFailCheck, WorkerFaultRead,
                WorkerHalt, WorkerFault, LocalStep, TaskPc, BeforeStart,
                AfterStart
  <2> QED BY <1>1, <2>1, <2>2, MoveStep
<1> QED BY <1>3, <1>4, <1>5, <1>6, <1>7, <1>8 DEF WorkerStep

\* The user and the outside world keep the invariant.
LEMMA UserKeepsGoroutineInv ==
    ASSUME TypeOK, GoroutineInv, UserStep
    PROVE  GoroutineInv'
<1> USE DEF loopVars, workVars
<1>1. CASE Crash
  <2>1. /\ ledger' = ledger /\ task' = NoTask /\ plan'.create = {}
    BY <1>1 DEF Crash, NoPlan
  <2> QED BY <2>1
          DEF GoroutineInv, WorkOK, RecordOK, BeforeStartOK, AfterStartOK,
              LaunchedOK, PrerequisitesInv, PlanInv, Known, Live, NoTask,
              BeforeStart, AfterStart
<1>2. CASE UserStep /\ ~Crash
  <2>1. ledger'.work = ledger.work
    BY <1>2 DEF UserStep, SteerCheck, SteerAppend, SteerPush, CancelFlag,
                CancelAppend, CancelContext, OutsideCheck, OutsideAppend,
                Shutdown, Resume, ApplyInstruction, ApplySessionCancelled,
                TypeOK, ProjectionState
  <2>2. UNCHANGED <<task, launched, plan>>
    BY <1>2 DEF UserStep, SteerCheck, SteerAppend, SteerPush, CancelFlag,
                CancelAppend, CancelContext, OutsideCheck, OutsideAppend,
                Shutdown, Resume
  <2> QED BY <2>1, <2>2, QuietStep
<1> QED BY <1>1, <1>2

\* Whatever interferes, a goroutine that has not started its attempt carries the
\* next attempt number of work that may run, one that has started carries the
\* latest, and r.launched knows them all.
THEOREM GoroutinesCorrect == Spec => []GoroutineInv
<1>1. Init => GoroutineInv
  <2> SUFFICES ASSUME Init PROVE GoroutineInv
    OBVIOUS
  <2>1. \A w \in Work : ledger.work[w] = AbsentWork /\ task[w].pc = "none"
    BY DEF Init, EmptyProjection, NoTask
  <2>2. plan.create = {}
    BY DEF Init, NoPlan
  <2> QED BY <2>1, <2>2
          DEF GoroutineInv, WorkOK, RecordOK, BeforeStartOK, AfterStartOK,
              LaunchedOK, PrerequisitesInv, PlanInv, Known, Live, AbsentWork,
              BeforeStart, AfterStart, Launchable
<1>2. TypeOK /\ StartupInv /\ GoroutineInv /\ [Next]_vars => GoroutineInv'
  <2> SUFFICES ASSUME TypeOK, StartupInv, GoroutineInv, [Next]_vars
               PROVE  GoroutineInv'
    OBVIOUS
  <2>1. CASE Next
    BY <2>1, DriverKeepsGoroutineInv, LeaderKeepsGoroutineInv,
       WorkerKeepsGoroutineInv, UserKeepsGoroutineInv DEF Next
  <2>2. CASE UNCHANGED vars
    BY <2>2, QuietStep DEF vars, loopVars, workVars
  <2> QED BY <2>1, <2>2
<1> QED BY <1>1, <1>2, TypeCorrect, StartupCorrect, PTL DEF Spec

-----------------------------------------------------------------------------
(* What a step may do to a work's record, and the action properties.       *)

\* The events of a work: created, started by its goroutine, or settled.
Created(w) ==
    /\ ~Known(ledger, w)
    /\ ledger'.work[w].status = "pending" /\ ledger'.work[w].attempt = 0

Started(w) ==
    /\ task[w].pc = "registered" /\ ledger'.work[w].status = "running"
    /\ ledger'.work[w].attempt = task[w].attempt

Settles(w) ==
    /\ ledger'.work[w].status \in {"completed", "failed", "cancelled"}
    /\ ledger'.work[w].attempt = ledger.work[w].attempt

\* Every step leaves a work's record alone or is one of its events.
LEMMA WorkSteps ==
    ASSUME TypeOK, StartupInv, GoroutineInv, [Next]_vars, NEW w \in Work
    PROVE  \/ ledger'.work[w] = ledger.work[w]
           \/ Created(w) \/ Started(w) \/ Settles(w)
<1>1. ledger \in ProjectionState /\ task[w] \in Task
  BY DEF TypeOK
<1>2. CASE DriverStep \/ DriverFault
  <2>1. ASSUME NEW v \in Work, DriverMark(v)
        PROVE  ledger'.work[w] = ledger.work[w] \/ Settles(w)
    <3>1. Known(ledger, v)
      BY <2>1 DEF DriverMark, Known
    <3>2. PICK i : ledger' = ApplyFailed(ledger, v, ledger.work[v].attempt, i)
      BY <2>1, Zenon DEF DriverMark
    <3> QED BY <1>1, <3>1, <3>2, FailedResult DEF Settles
  <2>2. CASE ~\E v \in Work : DriverMark(v)
    BY <1>1, <1>2, <2>2
       DEF DriverStep, DriverEnter, DriverFindsTerminal, DriverElect,
           DriverMarked, DriverLaunch, DriverSchedule, DriverAbandon,
           DriverGiveUp, DriverGiveUpRecord,
           DriverWait, DriverClassify, DriverFail, DriverRecord,
           DriverFault, Return, ApplyLeadership, ApplySessionFailed,
           ProjectionState
  <2> QED BY <2>1, <2>2
<1>3. CASE LeaderStep \/ LeaderChoice \/ LeaderFault
  <2>1. ASSUME NEW v \in Work, LeaderCancelAppend(v)
        PROVE  ledger'.work[w] = ledger.work[w] \/ Settles(w)
    <3>1. ledger' = ApplyCancelled(ledger, v)
      BY <2>1 DEF LeaderCancelAppend
    <3> QED BY <1>1, <3>1, CancelledResult, UnknownIgnored DEF Settles
  <2>2. ASSUME NEW v \in Work, LeaderCreate(v)
        PROVE  ledger'.work[w] = ledger.work[w] \/ Created(w)
    <3>1. ledger' = ApplyCreated(ledger, v, plan.deps[v]) /\ ~Known(ledger, v)
      BY <2>2 DEF LeaderCreate, GoroutineInv, PlanInv
    <3> QED BY <1>1, <3>1, CreatedResult DEF Created
  <2>3. CASE /\ LeaderStep
             /\ ~\E v \in Work : LeaderCancelAppend(v) \/ LeaderCreate(v)
    BY <1>1, <2>3
       DEF LeaderStep, TurnBegin, LoopExit, LeaderCancelCheck,
           LeaderCancelSignal, LeaderHandoff, LeaderSchedule, LeaderFinal,
           LeaderStop, LeaderInterrupted, TurnError, ApplyTurnStarted,
           ApplyLeadership, ApplyFinalCompleted, ProjectionState
  <2>4. CASE LeaderChoice \/ LeaderFault
    BY <2>4, LeaderChoices
       DEF LeaderAnswer, LeaderModelFails, LeaderAborted, LeaderDecide,
           LeaderFault, TurnError
  <2> QED BY <1>3, <2>1, <2>2, <2>3, <2>4
<1>4. ASSUME NEW v \in Work, WorkerStep(v) \/ WorkerFault(v)
      PROVE  ledger'.work[w] = ledger.work[w] \/ Started(w) \/ Settles(w)
  <2>1. Known(ledger, v) /\ WorkOK(v)
    BY <1>4, WorkerFrame DEF GoroutineInv, WorkOK, RecordOK, Live
  <2>2. CASE WorkerStart(v)
    <3>1. /\ ledger' = ApplyStarted(ledger, v, task[v].attempt)
          /\ task[v].pc = "registered"
      BY <2>2 DEF WorkerStart
    <3> QED BY <1>1, <2>1, <3>1, StartedResult DEF Started
  <2>3. CASE WorkerComplete(v)
    <3>1. /\ ledger' = ApplyCompleted(ledger, v, task[v].attempt)
          /\ task[v].attempt = ledger.work[v].attempt
      BY <2>1, <2>3 DEF WorkerComplete, WorkOK, AfterStartOK, AfterStart
    <3> QED BY <1>1, <2>1, <3>1, CompletedResult DEF Settles
  <2>4. CASE WorkerFail(v)
    <3>1. task[v].attempt = ledger.work[v].attempt
      BY <2>1, <2>4 DEF WorkerFail, WorkOK, AfterStartOK, AfterStart
    <3>2. PICK i : ledger' = ApplyFailed(ledger, v, task[v].attempt, i)
      BY <2>4, Zenon DEF WorkerFail
    <3> QED BY <1>1, <2>1, <3>1, <3>2, FailedResult DEF Settles
  <2>5. CASE ~WorkerStart(v) /\ ~WorkerComplete(v) /\ ~WorkerFail(v)
    BY <1>1, <1>4, <2>5
       DEF WorkerStep, WorkerFault, WorkerCheck, WorkerRegister,
           WorkerStartRefused, WorkerReturn, WorkerCompleteRefused,
           WorkerFailCheck, WorkerReport, WorkerFaultRead, WorkerFaultRecord,
           WorkerHalt, LocalStep, ApplySessionFailed, ProjectionState
  <2> QED BY <2>2, <2>3, <2>4, <2>5
<1>5. CASE UserStep
  BY <1>1, <1>5
     DEF UserStep, SteerCheck, SteerAppend, SteerPush, CancelFlag, CancelAppend,
         CancelContext, OutsideCheck, OutsideAppend,
         Shutdown, Crash, Resume,
         ApplyInstruction, ApplySessionCancelled, ProjectionState
<1>6. CASE UNCHANGED vars
  BY <1>6 DEF vars
<1> QED BY <1>2, <1>3, <1>4, <1>5, <1>6 DEF Next

\* No attempt number goes back or is started twice, whatever crashes, resumes and
\* cancellations come between the schedule and the Started event.
THEOREM AttemptsIncreaseCorrect == Spec => AttemptsIncrease
<1> DEFINE Step == \A w \in Work :
             LET was == ledger.work[w]  is == ledger'.work[w]
             IN  /\ is.attempt >= was.attempt
                 /\ is.status = "running" /\ is # was
                       => is.attempt = was.attempt + 1
<1>1. TypeOK /\ StartupInv /\ GoroutineInv /\ [Next]_vars => Step
  <2> SUFFICES ASSUME TypeOK, StartupInv, GoroutineInv, [Next]_vars,
                      NEW w \in Work
               PROVE  /\ ledger'.work[w].attempt >= ledger.work[w].attempt
                      /\ (/\ ledger'.work[w].status = "running"
                          /\ ledger'.work[w] # ledger.work[w])
                         => ledger'.work[w].attempt = ledger.work[w].attempt + 1
    OBVIOUS
  <2>1. ledger.work[w].attempt \in Nat /\ WorkOK(w)
    BY AttemptType DEF TypeOK, GoroutineInv
  <2>2. CASE ledger'.work[w] = ledger.work[w]
    BY <2>1, <2>2
  <2>3. CASE Created(w)
    BY <2>1, <2>3 DEF Created, WorkOK, RecordOK, AbsentWork
  <2>4. CASE Started(w)
    BY <2>1, <2>4 DEF Started, WorkOK, BeforeStartOK, BeforeStart
  <2>5. CASE Settles(w)
    BY <2>1, <2>5 DEF Settles
  <2> QED BY <2>2, <2>3, <2>4, <2>5, WorkSteps
<1> HIDE DEF Step
<1>2. Spec => [][Step]_vars
  BY <1>1, TypeCorrect, StartupCorrect, GoroutinesCorrect, PTL DEF Spec
<1> QED BY <1>2 DEF Step, AttemptsIncrease

\* Work starts only with the results of its prerequisites in the ledger.
THEOREM StartsAfterPrerequisitesCorrect == Spec => StartsAfterPrerequisites
<1> DEFINE Step == \A w \in Work :
             ledger'.work[w].status = "running" /\ ledger.work[w].status # "running"
               => \A d \in ledger.work[w].deps : ledger.work[d].result
<1>1. TypeOK /\ StartupInv /\ GoroutineInv /\ [Next]_vars => Step
  <2> SUFFICES ASSUME TypeOK, StartupInv, GoroutineInv, [Next]_vars,
                      NEW w \in Work, ledger'.work[w].status = "running",
                      ledger.work[w].status # "running"
               PROVE  \A d \in ledger.work[w].deps : ledger.work[d].result
    OBVIOUS
  <2>1. Started(w)
    BY WorkSteps DEF Created, Settles
  <2> QED BY <2>1 DEF Started, GoroutineInv, PrerequisitesInv, BeforeStart
<1> HIDE DEF Step
<1>2. Spec => [][Step]_vars
  BY <1>1, TypeCorrect, StartupCorrect, GoroutinesCorrect, PTL DEF Spec
<1> QED BY <1>2 DEF Step, StartsAfterPrerequisites

\* Work that failed for a reason of its own never starts again.
THEOREM FailureNotRepeatedCorrect == Spec => FailureNotRepeated
<1> DEFINE Step == \A w \in Work :
             ledger.work[w].status = "failed" /\ ~ledger.work[w].interrupted
               => ledger'.work[w].status # "running"
<1>1. TypeOK /\ StartupInv /\ GoroutineInv /\ [Next]_vars => Step
  <2> SUFFICES ASSUME TypeOK, StartupInv, GoroutineInv, [Next]_vars,
                      NEW w \in Work, ledger.work[w].status = "failed",
                      ~ledger.work[w].interrupted
               PROVE  ledger'.work[w].status # "running"
    OBVIOUS
  <2>1. ~Started(w)
    BY DEF Started, GoroutineInv, WorkOK, BeforeStartOK, BeforeStart, Launchable
  <2> QED BY <2>1, WorkSteps DEF Created, Settles
<1> HIDE DEF Step
<1>2. Spec => [][Step]_vars
  BY <1>1, TypeCorrect, StartupCorrect, GoroutinesCorrect, PTL DEF Spec
<1> QED BY <1>2 DEF Step, FailureNotRepeated

\* Work with a result in the ledger never runs again.
THEOREM ResultNotRecomputedCorrect == Spec => ResultNotRecomputed
<1> DEFINE Step == \A w \in Work :
             ledger.work[w].result => ledger'.work[w].status # "running"
<1>1. TypeOK /\ StartupInv /\ GoroutineInv /\ [Next]_vars => Step
  <2> SUFFICES ASSUME TypeOK, StartupInv, GoroutineInv, [Next]_vars,
                      NEW w \in Work, ledger.work[w].result
               PROVE  ledger'.work[w].status # "running"
    OBVIOUS
  <2>1. ~Started(w) /\ ledger.work[w].status # "running"
    BY DEF Started, GoroutineInv, WorkOK, RecordOK, BeforeStartOK, BeforeStart
  <2> QED BY <2>1, WorkSteps DEF Created, Settles
<1> HIDE DEF Step
<1>2. Spec => [][Step]_vars
  BY <1>1, TypeCorrect, StartupCorrect, GoroutinesCorrect, PTL DEF Spec
<1> QED BY <1>2 DEF Step, ResultNotRecomputed

\* scheduleReady never starts a second goroutine for work that has one.
THEOREM OneGoroutineCorrect == Spec => OneGoroutinePerWork
<1> DEFINE Step == \A w \in Work :
             (Live(w) /\ task'[w].pc = "launched") => task[w].pc = "launched"
<1>1. TypeOK /\ StartupInv /\ GoroutineInv /\ [Next]_vars => Step
  <2> SUFFICES ASSUME TypeOK, StartupInv, GoroutineInv, [Next]_vars,
                      NEW w \in Work, Live(w), task'[w].pc = "launched"
               PROVE  task[w].pc = "launched"
    OBVIOUS
  <2>1. task \in [Work -> Task] /\ driver \notin BeforeLoop
    BY DEF TypeOK, StartupInv, Live
  <2>2. CASE DriverStep \/ DriverFault
    <3>1. CASE DriverSchedule
      <4>1. task'[w] = task[w]
        BY <2>1, <3>1, ScheduleStep DEF DriverSchedule, loopVars
      <4> QED BY <4>1
    <3>2. CASE DriverWait
      BY <2>1, <3>2 DEF DriverWait, Task
    <3>3. CASE ~DriverSchedule /\ ~DriverWait
      BY <2>2, <3>3
         DEF DriverStep, DriverEnter, DriverFindsTerminal, DriverElect,
             DriverMark, DriverMarked, DriverLaunch, DriverAbandon,
             DriverGiveUp, DriverGiveUpRecord,
             DriverClassify, DriverFail, DriverRecord,
             DriverFault, Return, workVars
    <3> QED BY <3>1, <3>2, <3>3
  <2>3. CASE LeaderStep \/ LeaderChoice \/ LeaderFault
    <3>1. CASE LeaderSchedule
      <4>1. plan'.create = {}
        BY <3>1 DEF LeaderSchedule, TurnEnd, NoPlan
      <4>2. task'[w] = task[w]
        BY <2>1, <3>1, <4>1, ScheduleStep DEF LeaderSchedule
      <4> QED BY <4>2
    <3>2. CASE \E v \in Work : LeaderCancelSignal(v)
      BY <2>1, <3>2 DEF LeaderCancelSignal, Task
    <3>3. CASE LeaderStep /\ ~LeaderSchedule /\ ~\E v \in Work : LeaderCancelSignal(v)
      BY <3>3
         DEF LeaderStep, TurnBegin, LoopExit, LeaderCancelCheck,
             LeaderCancelAppend, LeaderCreate, LeaderHandoff, LeaderFinal,
             LeaderStop, LeaderInterrupted, TurnError, workVars
    <3>4. CASE LeaderChoice \/ LeaderFault
      BY <3>4, LeaderChoices
         DEF LeaderAnswer, LeaderModelFails, LeaderAborted, LeaderDecide,
             LeaderFault, TurnError, workVars
    <3> QED BY <2>3, <3>1, <3>2, <3>3, <3>4
  <2>4. ASSUME NEW v \in Work, WorkerStep(v) \/ WorkerFault(v)
        PROVE  task[w].pc = "launched"
    <3>1. CASE \E pc \in TaskPc \ {"launched"} : Goto(v, pc)
      BY <2>1, <3>1 DEF Goto, Task
    <3>2. CASE WorkerReport(v) /\ ScheduleReady([task EXCEPT ![v].pc = "done"])
      <4> DEFINE tasks == [task EXCEPT ![v].pc = "done"]
      <4>1. /\ tasks \in [Work -> Task] /\ tasks[v].pc = "done"
            /\ \A u \in Work \ {v} : tasks[u] = task[u]
        BY <2>1 DEF Task, TaskPc
      <4>2. Live(v) /\ ~Launchable(ledger.work[v])
        BY <3>2 DEF WorkerReport, Live, GoroutineInv, WorkOK, AfterStartOK,
                    AfterStart
      <4> HIDE DEF tasks
      <4>3. ScheduleReady(tasks) /\ UNCHANGED <<ledger, plan>>
        BY <3>2 DEF tasks, WorkerReport, loopVars
      <4>4. task'[w] = tasks[w]
        BY <4>1, <4>2, <4>3, ScheduleStep
      <4> QED BY <4>1, <4>4
    <3> QED BY <2>4, <3>1, <3>2
            DEF WorkerStep, WorkerFault, WorkerCheck, WorkerRegister,
                WorkerStart, WorkerStartRefused, WorkerReturn, WorkerComplete,
                WorkerCompleteRefused, WorkerFailCheck, WorkerFail,
                WorkerReport, WorkerFaultRead, WorkerFaultRecord, WorkerHalt,
                LocalStep, TaskPc
  <2>5. CASE UserStep
    BY <2>5 DEF UserStep, SteerCheck, SteerAppend, SteerPush, CancelFlag,
                CancelAppend, CancelContext, OutsideCheck, OutsideAppend,
                Shutdown, Crash, Resume, NoTask, workVars
  <2>6. CASE UNCHANGED vars
    BY <2>6 DEF vars, workVars
  <2> QED BY <2>2, <2>3, <2>4, <2>5, <2>6 DEF Next
<1> HIDE DEF Step
<1>2. Spec => [][Step]_vars
  BY <1>1, TypeCorrect, StartupCorrect, GoroutinesCorrect, PTL DEF Spec
<1> QED BY <1>2 DEF Step, OneGoroutinePerWork

-----------------------------------------------------------------------------
(* Leadership and the answer.                                              *)

\* Events about works leave the session's own state alone.
LEMMA WorkEventsKeepSession ==
    ASSUME NEW p \in ProjectionState, NEW w \in Work, NEW n, NEW i, NEW deps
    PROVE  /\ SameSession(p, ApplyCreated(p, w, deps))
           /\ SameSession(p, ApplyStarted(p, w, n))
           /\ SameSession(p, ApplyCompleted(p, w, n))
           /\ SameSession(p, ApplyFailed(p, w, n, i))
           /\ SameSession(p, ApplyCancelled(p, w))
<1>1. CASE Known(p, w)
  BY <1>1, CreatedResult, StartedResult, CompletedResult, FailedResult,
     CancelledResult
<1>2. CASE ~Known(p, w)
  <2>1. SameSession(p, p)
    BY DEF SameSession
  <2> QED BY <1>2, <2>1, CreatedResult, UnknownIgnored
<1> QED BY <1>1, <1>2

\* Only an election and a hand-off move the leadership, only the final answer
\* counts as one, and an ended session stays ended.
LEMMA SessionSteps ==
    ASSUME TypeOK, [Next]_vars
    PROVE  /\ ledger'.leader = ledger.leader \/ DriverElect \/ LeaderHandoff
           /\ ledger'.answers = ledger.answers \/ LeaderFinal
           /\ ledger.terminal => ledger'.terminal
<1>1. ledger \in ProjectionState
  BY DEF TypeOK
<1>2. CASE SameSession(ledger, ledger')
  BY <1>2 DEF SameSession
<1>3. CASE DriverStep \/ DriverFault
  <2>1. CASE \E w \in Work : DriverMark(w)
    <3>1. PICK w \in Work : DriverMark(w)
      BY <2>1
    <3>2. PICK n, i : ledger' = ApplyFailed(ledger, w, n, i)
      BY <3>1, Zenon DEF DriverMark
    <3> QED BY <1>1, <1>2, <3>2, WorkEventsKeepSession
  <2>2. CASE ~\E w \in Work : DriverMark(w)
    BY <1>1, <1>3, <2>2
       DEF DriverStep, DriverEnter, DriverFindsTerminal, DriverMarked,
           DriverElect, DriverLaunch, DriverSchedule, DriverAbandon,
           DriverGiveUp, DriverGiveUpRecord,
           DriverWait, DriverClassify, DriverFail, DriverRecord,
           DriverFault, Return, ApplySessionFailed, ApplyLeadership,
           ProjectionState
  <2> QED BY <2>1, <2>2
<1>4. CASE LeaderStep \/ LeaderChoice \/ LeaderFault
  <2>1. CASE \E w \in Work : LeaderCancelAppend(w)
    <3>1. PICK w \in Work : ledger' = ApplyCancelled(ledger, w)
      BY <2>1 DEF LeaderCancelAppend
    <3> QED BY <1>1, <1>2, <3>1, WorkEventsKeepSession
  <2>2. CASE \E w \in Work : LeaderCreate(w)
    <3>1. PICK w \in Work : ledger' = ApplyCreated(ledger, w, plan.deps[w])
      BY <2>2 DEF LeaderCreate
    <3> QED BY <1>1, <1>2, <3>1, WorkEventsKeepSession
  <2>3. CASE /\ LeaderStep
             /\ ~\E w \in Work : LeaderCancelAppend(w) \/ LeaderCreate(w)
    BY <1>1, <2>3
       DEF LeaderStep, TurnBegin, LoopExit, LeaderCancelCheck,
           LeaderCancelSignal, LeaderHandoff, LeaderSchedule, LeaderFinal,
           LeaderStop, LeaderInterrupted, TurnError, ApplyTurnStarted,
           ApplyLeadership, ApplyFinalCompleted, ProjectionState
  <2>4. CASE LeaderChoice \/ LeaderFault
    BY <2>4, LeaderChoices
       DEF LeaderAnswer, LeaderModelFails, LeaderAborted, LeaderDecide,
           LeaderFault, TurnError
  <2> QED BY <1>4, <2>1, <2>2, <2>3, <2>4
<1>5. ASSUME NEW w \in Work, WorkerStep(w) \/ WorkerFault(w)
      PROVE  /\ UNCHANGED <<ledger.leader, ledger.answers>>
             /\ ledger.terminal => ledger'.terminal
  <2>1. CASE WorkerStart(w) \/ WorkerComplete(w) \/ WorkerFail(w)
    <3>1. \E n, i : \/ ledger' = ApplyStarted(ledger, w, n)
                    \/ ledger' = ApplyCompleted(ledger, w, n)
                    \/ ledger' = ApplyFailed(ledger, w, n, i)
      BY <2>1, Zenon DEF WorkerStart, WorkerComplete, WorkerFail
    <3>2. SameSession(ledger, ledger')
      BY <1>1, <3>1, WorkEventsKeepSession
    <3> QED BY <3>2 DEF SameSession
  <2>2. CASE ~WorkerStart(w) /\ ~WorkerComplete(w) /\ ~WorkerFail(w)
    BY <1>1, <1>5, <2>2
       DEF WorkerStep, WorkerFault, WorkerCheck, WorkerRegister,
           WorkerStartRefused, WorkerReturn, WorkerCompleteRefused,
           WorkerFailCheck, WorkerReport, WorkerFaultRead, WorkerFaultRecord,
           WorkerHalt, LocalStep, ApplySessionFailed, ProjectionState
  <2> QED BY <2>1, <2>2
<1>6. CASE UserStep
  BY <1>1, <1>6
     DEF UserStep, SteerCheck, SteerAppend, SteerPush, CancelFlag, CancelAppend,
         CancelContext, OutsideCheck, OutsideAppend,
         Shutdown, Crash, Resume,
         ApplyInstruction, ApplySessionCancelled, ProjectionState
<1>7. CASE UNCHANGED vars
  BY <1>7 DEF vars
<1> QED BY <1>3, <1>4, <1>5, <1>6, <1>7 DEF Next

\* The driver keeps the invariant: it elects only where nobody leads, and starts
\* the loop only in a session without an answer.
LEMMA DriverKeepsLeaderInv ==
    ASSUME TypeOK, StartupInv, LeaderInv, DriverStep \/ DriverFault
    PROVE  LeaderInv'
<1> USE DEF runVars, loopVars, InTurn
<1>1. ledger \in ProjectionState /\ [Next]_vars
  BY DEF TypeOK, Next
<1>2. CASE DriverElect
  <2>1. ledger'.leader = Primary /\ ledger'.answers = ledger.answers
        /\ ledger'.terminal = ledger.terminal
    BY <1>1, <1>2 DEF DriverElect, ApplyLeadership, ProjectionState
  <2>2. leaderPc = "off" /\ plan = NoPlan
    BY <1>2 DEF DriverElect, StartupInv, BeforeLoop
  <2> QED BY <1>2, <2>1, <2>2, RuntimeAssumption
          DEF DriverElect, LeaderInv, LeadershipInv, AnswerInv, NoPlan
<1>3. CASE DriverEnter
  <2>1. ledger.answers = 0
    BY <1>1, <1>3 DEF DriverEnter, LeaderInv, AnswerInv, ProjectionState
  <2>2. ledger.leader = NoAgent \/ ledger.leader \in Agent
    BY <1>1 DEF ProjectionState
  <2> QED BY <1>3, <2>1, <2>2
          DEF DriverEnter, LeaderInv, LeadershipInv, AnswerInv
<1>4. CASE ~DriverElect /\ ~DriverEnter
  <2>1. /\ ledger'.leader = ledger.leader /\ ledger'.answers = ledger.answers
        /\ ledger.terminal => ledger'.terminal
    <3>1. ~LeaderHandoff /\ ~LeaderFinal
      <4>1. CASE driver' # driver
        BY <4>1 DEF LeaderHandoff, LeaderFinal
      <4>2. CASE \E w \in Work : DriverMark(w)
        BY <4>2 DEF DriverMark, StartupInv, BeforeLoop, LeaderHandoff,
                    LeaderFinal, Settled
      <4> QED BY <1>4, <4>1, <4>2
              DEF DriverStep, DriverFault, DriverFindsTerminal, DriverMarked,
                  DriverLaunch, DriverSchedule, DriverAbandon, DriverGiveUp,
                  DriverGiveUpRecord,
                  DriverWait, DriverClassify, DriverFail, DriverRecord, Return
    <3> QED BY <1>1, <1>4, <3>1, SessionSteps
  <2>2. UNCHANGED <<snap, plan>>
    BY <1>4 DEF DriverStep, DriverFault, DriverFindsTerminal, DriverMark,
                DriverMarked, DriverLaunch, DriverSchedule, DriverAbandon,
                DriverGiveUp, DriverGiveUpRecord,
                DriverWait, DriverClassify, DriverFail,
                DriverRecord, Return
  <2>3. \/ driver' \in {"mark", "launch"} /\ driver = "mark" /\ leaderPc' = leaderPc
        \/ driver = "launch" /\ driver' = "schedule" /\ leaderPc' = "idle"
        \/ driver' \notin {"elect", "mark", "launch"} /\ leaderPc' = leaderPc
    BY <1>4 DEF DriverStep, DriverFault, DriverFindsTerminal, DriverMark,
                DriverMarked, DriverLaunch, DriverSchedule, DriverAbandon,
                DriverGiveUp, DriverGiveUpRecord,
                DriverWait, DriverClassify, DriverFail,
                DriverRecord, Return
  <2>4. driver = "launch" => plan = NoPlan
    BY DEF StartupInv, BeforeLoop
  <2> QED BY <2>1, <2>2, <2>3, <2>4
          DEF LeaderInv, LeadershipInv, AnswerInv, NoPlan
<1> QED BY <1>2, <1>3, <1>4

\* The leader keeps the invariant: a turn ends with its hand-off and the loop
\* with its answer.
LEMMA LeaderKeepsLeaderInv ==
    ASSUME TypeOK, StartupInv, LeaderInv, LeaderStep \/ LeaderChoice \/ LeaderFault
    PROVE  LeaderInv'
<1> USE DEF loopVars, InTurn
<1>1. /\ ledger \in ProjectionState /\ leaderPc # "off" /\ driver' = driver
      /\ driver \notin {"elect", "mark", "launch"} /\ ledger.leader \in Agent
      /\ [Next]_vars
  BY LeaderNeedsLoop
     DEF TypeOK, Next, StartupInv, BeforeLoop, LeaderInv, LeadershipInv
<1>2. CASE LeaderHandoff
  <2>1. /\ ledger'.leader = plan.handoff /\ ledger'.answers = ledger.answers
        /\ ledger'.terminal = ledger.terminal
    BY <1>1, <1>2 DEF LeaderHandoff, ApplyLeadership, ProjectionState
  <2>2. plan.handoff \in Agent
    BY <1>2 DEF LeaderHandoff, TypeOK, Plan
  <2>3. leaderPc = "cancel" /\ leaderPc' \in {"idle", "stopped"} /\ plan' = NoPlan
    BY <1>2 DEF LeaderHandoff, Settled, TurnEnd
  <2> QED BY <1>1, <2>1, <2>2, <2>3
          DEF LeaderInv, LeadershipInv, AnswerInv, NoPlan
<1>3. CASE LeaderFinal
  <2>1. /\ ledger'.leader = ledger.leader /\ ledger'.answers = ledger.answers + 1
        /\ ledger'.terminal
    BY <1>1, <1>3 DEF LeaderFinal, ApplyFinalCompleted, ProjectionState
  <2>2. /\ leaderPc = "cancel" /\ leaderPc' = "stop" /\ plan' = NoPlan
        /\ snap' = snap
    BY <1>3 DEF LeaderFinal, Settled
  <2> QED BY <1>1, <2>1, <2>2 DEF LeaderInv, LeadershipInv, AnswerInv, NoPlan
<1>4. CASE ~LeaderHandoff /\ ~LeaderFinal
  <2>1. /\ ledger'.leader = ledger.leader /\ ledger'.answers = ledger.answers
        /\ ledger.terminal => ledger'.terminal
    <3>1. ~DriverElect
      BY <1>1 DEF DriverElect
    <3> QED BY <1>1, <1>4, <3>1, SessionSteps
  <2>2. AnswerInv'
    <3>1. \/ leaderPc \notin {"off", "stop", "stopped"}
          \/ leaderPc' = "stopped"
      BY <1>1, <1>4, LeaderChoices
         DEF LeaderStep, TurnBegin, LoopExit, LeaderCancelCheck,
             LeaderCancelAppend, LeaderCancelSignal, LeaderCreate,
             LeaderSchedule, LeaderStop, LeaderInterrupted, LeaderAnswer,
             LeaderModelFails, LeaderAborted, LeaderDecide, LeaderFault,
             TurnError, Settled, LeaderChoice
    <3> QED BY <1>1, <2>1, <3>1 DEF LeaderInv, AnswerInv
  <2>3. LeadershipInv'
    <3>1. CASE TurnBegin
      <4>1. snap'.leader = ledger.leader
        BY <3>1 DEF TurnBegin
      <4> QED BY <1>1, <2>1, <3>1, <4>1 DEF TurnBegin, LeaderInv, LeadershipInv
    <3>2. CASE \/ LoopExit \/ LeaderStop
      BY <1>1, <2>1, <3>2 DEF LoopExit, LeaderStop, LeaderInv, LeadershipInv
    <3>3. CASE \E w \in Work : LeaderCancelCheck(w)
      <4>1. plan'.handoff = plan.handoff
        BY <3>3 DEF LeaderCancelCheck, TypeOK, Plan
      <4> QED BY <1>1, <2>1, <3>3, <4>1
              DEF LeaderCancelCheck, LeaderInv, LeadershipInv
    <3>4. CASE \E w \in Work : LeaderCancelAppend(w)
      BY <1>1, <2>1, <3>4 DEF LeaderCancelAppend, LeaderInv, LeadershipInv
    <3>5. CASE \E w \in Work : LeaderCancelSignal(w) \/ LeaderCreate(w)
      <4>1. plan'.handoff = plan.handoff
        BY <3>5 DEF LeaderCancelSignal, LeaderCreate, TypeOK, Plan
      <4> QED BY <1>1, <2>1, <3>5, <4>1
              DEF LeaderCancelSignal, LeaderCreate, LeaderInv, LeadershipInv
    <3>6. CASE \/ LeaderSchedule \/ LeaderInterrupted \/ LeaderModelFails
               \/ LeaderAborted
      <4>1. plan'.handoff = NoAgent /\ leaderPc' \in {"idle", "stopped"}
        BY <3>6 DEF LeaderSchedule, LeaderInterrupted, LeaderModelFails,
                    LeaderAborted, TurnError, TurnEnd, NoPlan
      <4> QED BY <1>1, <2>1, <4>1 DEF LeaderInv, LeadershipInv
    <3>7. CASE LeaderAnswer
      <4>1. plan'.handoff = NoAgent
        BY <3>7 DEF LeaderAnswer, NoPlan
      <4> QED BY <1>1, <2>1, <3>7, <4>1 DEF LeaderAnswer, LeaderInv, LeadershipInv
    <3>8. CASE \E create, cancel \in SUBSET Work, handoff \in Agent \cup {NoAgent},
                  deps \in PartialDeps : LeaderDecide(cancel, create, deps, handoff)
      <4>1. PICK create, cancel \in SUBSET Work, handoff \in Agent \cup {NoAgent},
                 deps \in PartialDeps : LeaderDecide(cancel, create, deps, handoff)
        BY <3>8
      <4>2. plan'.handoff = handoff
        BY <4>1 DEF LeaderDecide, NoPlan
      <4>3. handoff # NoAgent => handoff \in Peers[ledger.leader]
        BY <4>1 DEF LeaderDecide
      <4> QED BY <1>1, <2>1, <4>1, <4>2, <4>3
              DEF LeaderDecide, LeaderInv, LeadershipInv
    <3>9. CASE LeaderFault
      <4>1. \/ leaderPc' = "stopped" /\ plan' = NoPlan
            \/ leaderPc' = "cancel" /\ plan' = [NoPlan EXCEPT !.answer = TRUE]
            \/ /\ leaderPc' = "cancel" /\ leaderPc \in {"cancel", "cancelAppend"}
               /\ \/ \E w \in plan.cancel : plan' = [plan EXCEPT !.cancel = @ \ {w}]
                  \/ plan' = [plan EXCEPT !.doing = {}]
        BY <3>9 DEF LeaderFault, TurnError
      <4>2. \/ plan'.handoff = NoAgent
            \/ /\ leaderPc' = "cancel" /\ leaderPc \in {"cancel", "cancelAppend"}
               /\ plan'.handoff = plan.handoff
        BY <4>1 DEF NoPlan, TypeOK, Plan
      <4>3. /\ snap' = snap
            /\ leaderPc' = "stopped" \/ (leaderPc' = "cancel" /\ InTurn)
        BY <3>9 DEF LeaderFault, TurnError
      <4> QED BY <1>1, <2>1, <4>2, <4>3 DEF LeaderInv, LeadershipInv
    <3> QED BY <1>4, <3>1, <3>2, <3>3, <3>4, <3>5, <3>6, <3>7, <3>8, <3>9,
               LeaderChoices DEF LeaderStep
  <2> QED BY <2>2, <2>3 DEF LeaderInv
<1> QED BY <1>2, <1>3, <1>4

\* Neither a goroutine nor the user moves the leadership or answers.
LEMMA OthersKeepLeaderInv ==
    ASSUME TypeOK, LeaderInv,
           (\E w \in Work : WorkerStep(w) \/ WorkerFault(w)) \/ UserStep
    PROVE  LeaderInv'
<1> USE DEF runVars, loopVars, InTurn
<1>1. [Next]_vars
  BY DEF Next
<1>2. CASE \E w \in Work : WorkerStep(w) \/ WorkerFault(w)
  <2>1. UNCHANGED <<driver, leaderPc, snap, plan>>
    BY <1>2, WorkerFrame
  <2>2. ~DriverElect /\ ~LeaderHandoff /\ ~LeaderFinal
    <3>1. PICK w \in Work : WorkerStep(w) \/ WorkerFault(w)
      BY <1>2
    <3>2. task' # task \/ UNCHANGED ledger
      BY <3>1, WorkerFrame
         DEF WorkerStep, WorkerFault, WorkerCheck, WorkerRegister, WorkerStart,
             WorkerStartRefused, WorkerReturn, WorkerComplete,
             WorkerCompleteRefused, WorkerFailCheck, WorkerFail, WorkerReport,
             WorkerFaultRead, WorkerFaultRecord, WorkerHalt, LocalStep, Goto,
             TypeOK, Task
    <3> QED BY <2>1, <3>2
            DEF DriverElect, LeaderHandoff, LeaderFinal, TurnEnd, Settled
  <2>3. /\ ledger'.leader = ledger.leader /\ ledger'.answers = ledger.answers
        /\ ledger.terminal => ledger'.terminal
    BY <1>1, <2>2, SessionSteps
  <2> QED BY <2>1, <2>3 DEF LeaderInv, LeadershipInv, AnswerInv
<1>3. CASE UserStep
  <2>1. /\ ledger'.leader = ledger.leader /\ ledger'.answers = ledger.answers
        /\ ledger.terminal => ledger'.terminal
    BY <1>3 DEF UserStep, SteerCheck, SteerAppend, SteerPush, CancelFlag,
                CancelAppend, CancelContext, OutsideCheck, OutsideAppend,
                Shutdown, Crash, Resume, ApplyInstruction,
                ApplySessionCancelled, TypeOK, ProjectionState
  <2>2. CASE Crash
    BY <2>1, <2>2 DEF Crash, NoPlan, LeaderInv, LeadershipInv, AnswerInv
  <2>3. CASE Resume
    BY <2>1, <2>3 DEF Resume, LeaderInv, LeadershipInv, AnswerInv
  <2>4. CASE UserStep /\ ~Crash /\ ~Resume
    <3>1. UNCHANGED <<driver, leaderPc, snap, plan>>
      BY <2>4 DEF UserStep, SteerCheck, SteerAppend, SteerPush, CancelFlag,
                  CancelAppend, CancelContext, OutsideCheck, OutsideAppend,
                  Shutdown
    <3> QED BY <2>1, <3>1 DEF LeaderInv, LeadershipInv, AnswerInv
  <2> QED BY <1>3, <2>2, <2>3, <2>4
<1> QED BY <1>2, <1>3

\* A run that may still answer has not answered; who leads follows from where
\* the driver and the leader stand.
THEOREM LeaderCorrect == Spec => []LeaderInv
<1>1. Init => LeaderInv
  BY DEF Init, LeaderInv, LeadershipInv, AnswerInv, EmptyProjection, NoPlan,
         InTurn
<1>2. TypeOK /\ StartupInv /\ LeaderInv /\ [Next]_vars => LeaderInv'
  <2>1. ASSUME LeaderInv, UNCHANGED vars PROVE LeaderInv'
    BY <2>1 DEF LeaderInv, LeadershipInv, AnswerInv, InTurn, vars, runVars,
                loopVars
  <2> QED BY <2>1, DriverKeepsLeaderInv, LeaderKeepsLeaderInv,
             OthersKeepLeaderInv DEF Next
<1> QED BY <1>1, <1>2, TypeCorrect, StartupCorrect, PTL DEF Spec

\* No session is answered twice, however often it is crashed and resumed.
THEOREM AnsweredOnceCorrect == Spec => []AnsweredOnce
<1>1. LeaderInv => AnsweredOnce
  BY DEF LeaderInv, AnswerInv, AnsweredOnce
<1> QED BY <1>1, LeaderCorrect, PTL

\* The agent whose turn runs is the leader the ledger names.
THEOREM ActingAgentLeadsCorrect == Spec => []ActingAgentLeads
<1>1. LeaderInv => ActingAgentLeads
  BY DEF LeaderInv, LeadershipInv, ActingAgentLeads, InTurn
<1> QED BY <1>1, LeaderCorrect, PTL

\* Leadership starts with the primary and moves only in the leader's own turn,
\* along the pinned profile's peer relation.
THEOREM LeadershipMovesCorrect == Spec => LeadershipMovesByHandoff
<1> DEFINE Step == ledger'.leader # ledger.leader =>
             \/ ledger.leader = NoAgent /\ ledger'.leader = Primary
             \/ /\ InTurn /\ snap.leader = ledger.leader
                /\ ledger'.leader \in Peers[snap.leader]
<1>1. TypeOK /\ LeaderInv /\ [Next]_vars => Step
  <2> SUFFICES ASSUME TypeOK, LeaderInv, [Next]_vars,
                      ledger'.leader # ledger.leader
               PROVE  Step
    OBVIOUS
  <2>1. CASE DriverElect
    BY <2>1 DEF DriverElect, ApplyLeadership, TypeOK, ProjectionState,
                LeaderInv, LeadershipInv
  <2>2. CASE LeaderHandoff
    <3>1. ledger'.leader = plan.handoff
      BY <2>2 DEF LeaderHandoff, ApplyLeadership, TypeOK, ProjectionState
    <3>2. InTurn
      BY <2>2 DEF LeaderHandoff, Settled, InTurn
    <3> QED BY <2>2, <3>1, <3>2 DEF LeaderHandoff, LeaderInv, LeadershipInv
  <2> QED BY <2>1, <2>2, SessionSteps
<1> HIDE DEF Step
<1>2. Spec => [][Step]_vars
  BY <1>1, TypeCorrect, LeaderCorrect, PTL DEF Spec
<1> QED BY <1>2 DEF Step, LeadershipMovesByHandoff
=============================================================================
