----------------------- MODULE SessionRuntimeWaiting ------------------------
(***************************************************************************)
(* A session that waits is not stuck: the safety half of its progress, for *)
(* every set of works and agents, every bound and every interference.      *)
(*                                                                         *)
(*   WakeupInv    the leader has seen what came back, or will be woken;    *)
(*   RunningInv   work the ledger calls running has a goroutine;           *)
(*   ReadyInv     ready work has a goroutine, or one that will schedule it *)
(*                is on its way;                                           *)
(*   SettledInv   a run that is not shut down ends with the session;       *)
(*   LifecycleInv with it, each work lives as WorkLifecycle says.          *)
(*                                                                         *)
(* The first part says once, for each step, what it does to one work's     *)
(* record and goroutine; the invariants are then checked against that list *)
(* instead of against the actions.                                         *)
(***************************************************************************)
EXTENDS SessionRuntimeProofs

-----------------------------------------------------------------------------
(* The inductive invariants.                                               *)

\* The loop runs and nothing has told it to stop.
LoopOpen == leaderPc \notin {"off", "stopped"} /\ stopping = "no"

\* The run goes on.
RunOpen == driver \in {"schedule", "wait"} /\ LoopOpen /\ ~ctxDone

\* Between the Append of its outcome and its signal to the leader.
Signalling(w) == task[w].pc \in {"reporting", "notifying"}

\* As long as the loop is open it holds a signal, or the latest turn has seen
\* every work that came back and whose goroutine is past its signal.
WakeupInv ==
    LoopOpen => \/ signalled
                \/ \A w \in Work :
                      Returned(ledger, w) => w \in snap.seen \/ Signalling(w)

\* Only a resumed run finds work in the ledger, and its loop starts once all
\* interrupted work is marked.
FreshInv ==
    /\ driver = "down" => recovered
    /\ driver \in BeforeLoop /\ ~recovered => \A w \in Work : ~Known(ledger, w)
    /\ driver = "launch" => \A w \in Work : ledger.work[w].status # "running"

\* A goroutine gives up a running work only where the run or the goroutine has
\* been cancelled, or the session is over, or its end could not be recorded.
WindingDownInv ==
    \A w \in Work :
        /\ task[w].pc = "halting" => ledger.terminal \/ unrecorded
        /\ task[w].pc = "aborted" => TaskCtxDone(w)
        /\ Signalling(w) => ledger.work[w].status # "running"

RunningInv ==
    /\ FreshInv /\ WindingDownInv
    /\ (/\ driver \in {"schedule", "wait"} /\ ~ctxDone
        /\ ~ledger.terminal /\ stopping # "now") =>
          \A w \in Work : ledger.work[w].status = "running"
                             => Live(w) \/ task[w].cancelled

\* r.launched belongs to one run and names known work.
LaunchedInv ==
    /\ driver \in BeforeLoop => launched = {}
    /\ \A attempt \in launched : Known(ledger, attempt[1])

\* An outcome cancels known work, one at a time, creates work only if it neither
\* answers nor hands off, and peer turns are nobody's prerequisite.
OutcomeInv ==
    /\ \A w \in plan.cancel \cup plan.doing : Known(ledger, w)
    /\ \A v, w \in plan.doing : v = w
    /\ plan.create # {} => plan.handoff = NoAgent /\ ~plan.answer
    /\ \A w \in Work : (ledger.work[w].deps \cup plan.deps[w]) \cap Consultation = {}

\* Work whose cancellation is in the ledger is not launched again, and only such
\* a goroutine is cancelled before it has started.
CancelInv ==
    /\ leaderPc = "cancelSignal" => \A w \in plan.doing : ~Launchable(ledger.work[w])
    /\ RunOpen => \A w \in Work :
          task[w].pc \in BeforeStart /\ task[w].cancelled
             => ledger.work[w].status = "cancelled"

\* The leader's outcome ends with scheduleReady.
PendingSchedule ==
    /\ leaderPc \in {"cancel", "cancelAppend", "cancelSignal"}
    /\ ~plan.answer /\ plan.handoff = NoAgent

\* An attempt that r.launched holds back has its goroutine, and ready work has
\* one or is about to be scheduled.
ScheduleInv ==
    RunOpen => \A w \in Work :
        /\ (/\ Launchable(ledger.work[w])
            /\ <<w, ledger.work[w].attempt + 1>> \in launched) => Live(w)
        /\ driver = "wait" /\ Ready(ledger, w) =>
              \/ Live(w) \/ PendingSchedule
              \/ \E d \in ledger.work[w].deps : task[d].pc = "reporting" \/ Stops(d)

ReadyInv == LaunchedInv /\ OutcomeInv /\ CancelInv /\ ScheduleInv

\* The session has ended, or the call that was to record its end has failed.
Over == ledger.terminal \/ unrecorded

\* Whatever stops the run of a process that stays has ended the session or has
\* failed to record its end, or the run never had a leader.
SettledInv ==
    /\ driver # "down" /\ restarts = 0
    /\ driver = "enter" => ledger.leader = NoAgent
    /\ canceller = "appended" \/ stopping = "now" \/ leaderPc = "stop" => Over
    /\ ctxDone => Over \/ (driver = "exited" /\ ledger.leader = NoAgent)
    /\ stopping = "afterTurn" \/ (leaderPc = "stopped" /\ exit # "error")
          => Over \/ driver \in {"giveUp", "giveUpRecord", "exited"}
    /\ driver \in {"classify", "fail", "record"} => leaderPc = "stopped"
    /\ driver = "exited" => Over \/ ledger.leader = NoAgent

-----------------------------------------------------------------------------
(* What a step does to one work.                                           *)

SameRecord(w) == ledger'.work[w] = ledger.work[w]
SameTask(w)   == task'[w] = task[w]

\* An event of w that keeps its attempt's goroutine and its prerequisites.
SettledAs(w, status) ==
    /\ ledger'.work[w].status = status
    /\ ledger'.work[w].deps = ledger.work[w].deps

\* The driver marks w as interrupted.
Marked(w) ==
    /\ driver = "mark" /\ ledger.work[w].status = "running"
    /\ SettledAs(w, "failed") /\ SameTask(w)

\* The leader creates w.
Appears(w) ==
    /\ leaderPc = "cancel" /\ w \in plan.create /\ ~Known(ledger, w)
    /\ ledger'.work[w].status = "pending" /\ ledger'.work[w].attempt = 0
    /\ ledger'.work[w].deps = plan.deps[w]
    /\ SameTask(w)

\* The leader records the cancellation of w.
Revoked(w) ==
    /\ leaderPc = "cancelAppend" /\ w \in plan.doing
    /\ SettledAs(w, "cancelled") /\ SameTask(w)
    /\ ledger'.work[w].result = ledger.work[w].result

\* The context of w's goroutine is cancelled, by the leader or by a driver whose
\* loop has ended.
Interrupted(w) ==
    /\ SameRecord(w) /\ Registered(w)
    /\ \/ leaderPc = "cancelSignal" /\ w \in plan.doing
       \/ leaderPc = "stopped" /\ UNCHANGED leaderPc
    /\ task'[w].pc = task[w].pc /\ task'[w].cancelled

\* scheduleReady launches w.
Launches(w) ==
    /\ SameRecord(w) /\ Ready(ledger, w) /\ ~Live(w)
    /\ task'[w].pc = "launched" /\ ~task'[w].cancelled

\* The process dies.
Wiped(w) == SameRecord(w) /\ driver' = "down" /\ task'[w].pc = "none"

\* The goroutine appends an event of its own.
Begins(w) ==
    /\ task[w].pc = "registered" /\ task'[w].pc = "running" /\ ~TaskCtxDone(w)
    /\ SettledAs(w, "running")

Succeeds(w) ==
    /\ task[w].pc = "succeeded" /\ task'[w].pc = "reporting"
    /\ SettledAs(w, "completed")

Fails(w) ==
    /\ task[w].pc = "failing" /\ task'[w].pc = "notifying"
    /\ SettledAs(w, "failed") /\ ~ledger'.work[w].interrupted

\* The goroutine moves on without an event.
Proceeds(w) ==
    /\ SameRecord(w) /\ task'[w].cancelled = task[w].cancelled
    /\ \/ task[w].pc = "launched" /\ task'[w].pc \in {"admitted", "faulted"}
       \/ task[w].pc = "admitted" /\ task'[w].pc = "registered"
       \/ task[w].pc = "registered" /\ task'[w].pc = "faulted"
       \/ /\ task[w].pc = "running"
          /\ \/ task'[w].pc \in {"succeeded", "broken"}
             \/ task'[w].pc = "aborted" /\ TaskCtxDone(w)
       \/ task[w].pc \in {"broken", "aborted"} /\ task'[w].pc = "failing"
       \/ task[w].pc \in {"succeeded", "failing"} /\ task'[w].pc = "faulted"
       \/ /\ task[w].pc = "reporting" /\ task'[w].pc = "faulted"
          /\ signalled' = Pushed
       \/ task[w].pc = "faulted" /\ task'[w].pc = "recording"
       \/ /\ task[w].pc \in {"faulted", "recording"}
          /\ task'[w].pc = "halting" /\ (ledger'.terminal \/ unrecorded')

\* The goroutine returns.
Leaves(w) ==
    /\ SameRecord(w) /\ task'[w].cancelled = task[w].cancelled
    /\ task'[w].pc = "done"
    /\ \/ /\ task[w].pc = "launched"
          /\ ctxDone \/ ledger.work[w].status \in {"completed", "cancelled"}
       \/ task[w].pc = "registered" /\ TaskCtxDone(w)
       \/ task[w].pc = "succeeded" /\ ctxDone
       \/ /\ task[w].pc \in {"broken", "aborted"}
          /\ task[w].pc = "aborted" \/ ledger.work[w].status = "cancelled"
       \/ Signalling(w) /\ signalled' = Pushed
       \/ task[w].pc = "halting" /\ stopping' = "now"

\* scheduleReady, whoever runs it, launches what it may and keeps every other
\* goroutine where it stands; afterwards ready work has just been launched or
\* is held back by r.launched.
LEMMA ScheduleCases ==
    ASSUME TypeOK, GoroutineInv, NEW tasks \in [Work -> Task],
           ScheduleReady(tasks), UNCHANGED ledger,
           \A v \in Work : tasks[v] = task[v] \/ Live(v), NEW w \in Work
    PROVE  /\ task'[w] = tasks[w] \/ Launches(w)
           /\ Ready(ledger, w) => \/ task'[w].pc = "launched"
                                  \/ <<w, ledger.work[w].attempt + 1>> \in launched
           /\ \A n : <<w, n>> \in launched' =>
                 <<w, n>> \in launched \/ (Ready(ledger, w) /\ task'[w].pc = "launched")
           /\ \A x \in launched' : x \in launched \/ (x[1] \in Work /\ Ready(ledger, x[1]))
<1> DEFINE next(v) == ledger.work[v].attempt + 1
           start == {v \in Work : Ready(ledger, v) /\ <<v, next(v)>> \notin launched}
<1>1. /\ \A v \in start : task'[v].pc = "launched" /\ ~task'[v].cancelled
      /\ \A v \in Work \ start : task'[v] = tasks[v]
      /\ launched' = launched \cup {<<v, next(v)>> : v \in start}
  BY DEF ScheduleReady
<1>2. \A v \in start : Launchable(ledger.work[v])
  BY DEF Ready, Launchable
<1>3. w \in start => ~Live(w)
  BY <1>2 DEF GoroutineInv, WorkOK, LaunchedOK
<1>4. task'[w] = tasks[w] \/ Launches(w)
  BY <1>1, <1>3 DEF Launches, SameRecord
<1>5. ASSUME NEW x \in launched', x \notin launched
      PROVE  \E v \in start : x = <<v, next(v)>>
  BY <1>1, <1>5
<1>6. Ready(ledger, w) => \/ task'[w].pc = "launched"
                          \/ <<w, ledger.work[w].attempt + 1>> \in launched
  BY <1>1
<1>7. ASSUME NEW n, <<w, n>> \in launched', <<w, n>> \notin launched
      PROVE  Ready(ledger, w) /\ task'[w].pc = "launched"
  BY <1>1, <1>5, <1>7
<1>8. ASSUME NEW x \in launched', x \notin launched
      PROVE  x[1] \in Work /\ Ready(ledger, x[1])
  <2>1. PICK v \in start : x = <<v, next(v)>>
    BY <1>5, <1>8
  <2>2. x[1] = v
    BY <2>1
  <2> QED BY <2>2
<1> QED BY <1>4, <1>6, <1>7, <1>8

\* The driver's steps.
LEMMA DriverTaskSteps ==
    ASSUME TypeOK, StartupInv, GoroutineInv, DriverStep \/ DriverFault,
           NEW w \in Work
    PROVE  \/ SameRecord(w) /\ SameTask(w)
           \/ Marked(w) \/ Interrupted(w) \/ Launches(w)
<1> USE DEF SameRecord, SameTask
<1>1. ledger \in ProjectionState /\ task \in [Work -> Task]
  BY DEF TypeOK
<1>2. ASSUME NEW v \in Work, DriverMark(v)
      PROVE  (SameRecord(w) /\ SameTask(w)) \/ Marked(w)
  <2>1. /\ Known(ledger, v) /\ driver = "mark" /\ task' = task
        /\ ledger.work[v].status = "running"
    BY <1>2 DEF DriverMark, Known, workVars
  <2>2. PICK i : ledger' = ApplyFailed(ledger, v, ledger.work[v].attempt, i)
    BY <1>2, Zenon DEF DriverMark
  <2> QED BY <1>1, <2>1, <2>2, FailedResult DEF Marked, SettledAs
<1>3. CASE DriverSchedule
  BY <1>1, <1>3, ScheduleCases DEF DriverSchedule, loopVars
<1>4. CASE DriverWait
  <2>1. ledger' = ledger /\ leaderPc = "stopped" /\ leaderPc' = leaderPc
    BY <1>4 DEF DriverWait, loopVars
  <2>2. CASE Registered(w)
    <3>1. task'[w] = [task[w] EXCEPT !.cancelled = TRUE]
      BY <1>4, <2>2 DEF DriverWait
    <3> QED BY <1>1, <2>1, <2>2, <3>1 DEF Interrupted, Task
  <2>3. CASE ~Registered(w)
    BY <1>4, <2>1, <2>3 DEF DriverWait
  <2> QED BY <2>2, <2>3
<1>5. CASE \/ DriverEnter \/ DriverFindsTerminal \/ DriverElect \/ DriverMarked
           \/ DriverLaunch \/ DriverAbandon \/ DriverGiveUp
           \/ DriverGiveUpRecord \/ DriverClassify
           \/ DriverFail \/ DriverRecord \/ DriverFault
  BY <1>1, <1>5
     DEF DriverEnter, DriverFindsTerminal, DriverElect, DriverMarked,
         DriverLaunch, DriverAbandon, DriverGiveUp, DriverGiveUpRecord,
         DriverClassify, DriverFail,
         DriverRecord, DriverFault, Return, ApplyLeadership, ApplySessionFailed,
         ProjectionState, workVars
<1> QED BY <1>2, <1>3, <1>4, <1>5 DEF DriverStep

\* The leader's steps.
LEMMA LeaderTaskSteps ==
    ASSUME TypeOK, GoroutineInv, OutcomeInv,
           LeaderStep \/ LeaderChoice \/ LeaderFault, NEW w \in Work
    PROVE  \/ SameRecord(w) /\ SameTask(w)
           \/ Appears(w) \/ Revoked(w) \/ Interrupted(w) \/ Launches(w)
<1> USE DEF SameRecord, SameTask
<1>1. ledger \in ProjectionState /\ task \in [Work -> Task]
  BY DEF TypeOK
<1>2. ASSUME NEW v \in Work, LeaderCancelAppend(v)
      PROVE  (SameRecord(w) /\ SameTask(w)) \/ Revoked(w)
  <2>1. /\ ledger' = ApplyCancelled(ledger, v) /\ task' = task
        /\ leaderPc = "cancelAppend" /\ v \in plan.doing
    BY <1>2 DEF LeaderCancelAppend, workVars
  <2>2. Known(ledger, v)
    BY <2>1 DEF OutcomeInv
  <2> QED BY <1>1, <2>1, <2>2, CancelledResult DEF Revoked, SettledAs
<1>3. ASSUME NEW v \in Work, LeaderCreate(v)
      PROVE  (SameRecord(w) /\ SameTask(w)) \/ Appears(w)
  <2>1. /\ ledger' = ApplyCreated(ledger, v, plan.deps[v]) /\ task' = task
        /\ leaderPc = "cancel" /\ v \in plan.create
    BY <1>3 DEF LeaderCreate, workVars
  <2>2. ~Known(ledger, v)
    BY <2>1 DEF GoroutineInv, PlanInv
  <2> QED BY <1>1, <2>1, <2>2, CreatedResult DEF Appears
<1>4. ASSUME NEW v \in Work, LeaderCancelSignal(v)
      PROVE  (SameRecord(w) /\ SameTask(w)) \/ Interrupted(w)
  <2>1. /\ ledger' = ledger /\ leaderPc = "cancelSignal" /\ v \in plan.doing
        /\ task' = IF Registered(v) THEN [task EXCEPT ![v].cancelled = TRUE] ELSE task
    BY <1>4 DEF LeaderCancelSignal
  <2>2. CASE v = w /\ Registered(w)
    <3>1. task'[w] = [task[w] EXCEPT !.cancelled = TRUE]
      BY <1>1, <2>1, <2>2
    <3> QED BY <1>1, <2>1, <2>2, <3>1 DEF Interrupted, Task
  <2>3. CASE v # w \/ ~Registered(w)
    BY <1>1, <2>1, <2>3
  <2> QED BY <2>2, <2>3
<1>5. CASE LeaderSchedule
  <2>1. ledger' = ledger /\ ScheduleReady(task)
    BY <1>5 DEF LeaderSchedule
  <2> QED BY <1>1, <2>1, ScheduleCases
<1>6. CASE /\ LeaderStep /\ ~LeaderSchedule
           /\ ~\E v \in Work : \/ LeaderCancelAppend(v) \/ LeaderCreate(v)
                               \/ LeaderCancelSignal(v)
  BY <1>1, <1>6
     DEF LeaderStep, TurnBegin, LoopExit, LeaderCancelCheck, LeaderHandoff,
         LeaderFinal, LeaderStop, LeaderInterrupted, TurnError,
         ApplyTurnStarted, ApplyLeadership, ApplyFinalCompleted,
         ProjectionState, workVars
<1>7. CASE LeaderChoice \/ LeaderFault
  BY <1>7, LeaderChoices, ZenonT(60)
     DEF LeaderAnswer, LeaderModelFails, LeaderAborted, LeaderDecide,
         LeaderFault, TurnError, workVars
<1> QED BY <1>2, <1>3, <1>4, <1>5, <1>6, <1>7

\* A goroutine's steps: its own work, and what it schedules on its way out.
LEMMA WorkerTaskSteps ==
    ASSUME TypeOK, GoroutineInv, NEW v \in Work, WorkerStep(v) \/ WorkerFault(v),
           NEW w \in Work
    PROVE  \/ SameRecord(w) /\ SameTask(w)
           \/ Launches(w)
           \/ /\ w = v
              /\ Begins(w) \/ Succeeds(w) \/ Fails(w) \/ Proceeds(w) \/ Leaves(w)
<1> USE DEF SameRecord, SameTask
<1>1. /\ ledger \in ProjectionState /\ task \in [Work -> Task]
      /\ Known(ledger, v) /\ WorkOK(v)
  BY WorkerFrame DEF TypeOK, GoroutineInv, WorkOK, RecordOK, Live
<1>2. ASSUME NEW pc, Goto(v, pc)
      PROVE  /\ task'[v].pc = pc /\ task'[v].cancelled = task[v].cancelled
             /\ w # v => SameTask(w)
  BY <1>1, <1>2 DEF Goto, Task
<1>3. CASE WorkerStart(v)
  <2>1. /\ ledger' = ApplyStarted(ledger, v, task[v].attempt) /\ Goto(v, "running")
        /\ task[v].pc = "registered" /\ ~TaskCtxDone(v)
    BY <1>3 DEF WorkerStart
  <2> QED BY <1>1, <1>2, <2>1, StartedResult DEF Begins, SettledAs
<1>4. CASE WorkerComplete(v)
  <2>1. /\ ledger' = ApplyCompleted(ledger, v, task[v].attempt)
        /\ Goto(v, "reporting") /\ task[v].pc = "succeeded"
    BY <1>4 DEF WorkerComplete
  <2> QED BY <1>1, <1>2, <2>1, CompletedResult DEF Succeeds, SettledAs
<1>5. CASE WorkerFail(v)
  <2>1. Goto(v, "notifying") /\ task[v].pc = "failing"
    BY <1>5 DEF WorkerFail
  <2>2. PICK i : ~i /\ ledger' = ApplyFailed(ledger, v, task[v].attempt, i)
    BY <1>5, Zenon DEF WorkerFail
  <2>3. w = v => SettledAs(w, "failed") /\ ~ledger'.work[w].interrupted
    BY <1>1, <2>2, FailedResult DEF SettledAs
  <2>4. w # v => SameRecord(w)
    BY <1>1, <2>2, FailedResult
  <2> QED BY <1>2, <2>1, <2>3, <2>4 DEF Fails
<1>6. CASE WorkerReport(v)
  <2>1. Signalling(v) /\ signalled' = Pushed /\ ledger' = ledger /\ Live(v)
    BY <1>6 DEF WorkerReport, Signalling, Live
  <2>2. CASE Goto(v, "done")
    BY <1>2, <2>1, <2>2 DEF Leaves
  <2>3. CASE ScheduleReady([task EXCEPT ![v].pc = "done"])
    <3> DEFINE tasks == [task EXCEPT ![v].pc = "done"]
    <3>1. /\ tasks \in [Work -> Task] /\ tasks[v].pc = "done"
          /\ tasks[v].cancelled = task[v].cancelled
          /\ \A u \in Work \ {v} : tasks[u] = task[u]
      BY <1>1 DEF Task, TaskPc
    <3> HIDE DEF tasks
    <3>2. ScheduleReady(tasks)
      BY <2>3 DEF tasks
    <3>3. task'[w] = tasks[w] \/ Launches(w)
      BY <2>1, <3>1, <3>2, ScheduleCases
    <3> QED BY <2>1, <3>1, <3>3 DEF Leaves
  <2> QED BY <1>6, <2>2, <2>3 DEF WorkerReport
<1>7. CASE WorkerFaultRecord(v)
  <2>1. ledger'.terminal /\ ledger'.work = ledger.work
    BY <1>1, <1>7 DEF WorkerFaultRecord, ApplySessionFailed, ProjectionState
  <2>2. task[v].pc = "recording" /\ Goto(v, "halting")
    BY <1>7 DEF WorkerFaultRecord
  <2> QED BY <1>2, <2>1, <2>2 DEF Proceeds
<1>8. CASE WorkerHalt(v)
  <2>1. /\ ledger' = ledger /\ stopping' = "now" /\ task[v].pc = "halting"
        /\ Goto(v, "done")
    BY <1>8 DEF WorkerHalt
  <2> QED BY <1>2, <2>1 DEF Leaves
<1>9. CASE \/ WorkerCheck(v) \/ WorkerStartRefused(v) \/ WorkerCompleteRefused(v)
           \/ WorkerFailCheck(v)
  <2>1. ledger' = ledger
    BY <1>9 DEF WorkerCheck, WorkerStartRefused, WorkerCompleteRefused,
                WorkerFailCheck, LocalStep
  <2>2. PICK pc \in {"done", "admitted", "failing"} :
          /\ Goto(v, pc)
          /\ pc = "admitted" => task[v].pc = "launched"
          /\ pc = "failing" => task[v].pc \in {"broken", "aborted"}
          /\ pc = "done" =>
                \/ /\ task[v].pc = "launched"
                   /\ ctxDone \/ ledger.work[v].status \in {"completed", "cancelled"}
                \/ task[v].pc = "registered" /\ TaskCtxDone(v)
                \/ task[v].pc = "succeeded" /\ ctxDone
                \/ /\ task[v].pc \in {"broken", "aborted"}
                   /\ task[v].pc = "aborted" \/ ledger.work[v].status = "cancelled"
    BY <1>9 DEF WorkerCheck, WorkerStartRefused, WorkerCompleteRefused,
                WorkerFailCheck, LocalStep
  <2> QED BY <1>2, <2>1, <2>2 DEF Leaves, Proceeds
<1>10. CASE WorkerRegister(v) \/ WorkerReturn(v) \/ WorkerFaultRead(v)
  <2>1. ledger' = ledger
    BY <1>10 DEF WorkerRegister, WorkerReturn, WorkerFaultRead, LocalStep
  <2>2. PICK pc :
          /\ Goto(v, pc)
          /\ \/ task[v].pc = "admitted" /\ pc = "registered"
             \/ /\ task[v].pc = "running"
                /\ pc \in {"succeeded", "broken"} \/ (pc = "aborted" /\ TaskCtxDone(v))
             \/ task[v].pc = "faulted" /\ pc = "recording"
             \/ task[v].pc = "faulted" /\ pc = "halting" /\ ledger.terminal
    BY <1>10 DEF WorkerRegister, WorkerReturn, WorkerFaultRead, LocalStep
  <2> QED BY <1>2, <2>1, <2>2 DEF Proceeds
<1>11. CASE WorkerFault(v)
  <2>1. ledger' = ledger
    BY <1>11 DEF WorkerFault
  <2>2. PICK pc :
          /\ Goto(v, pc)
          /\ \/ /\ task[v].pc \in {"launched", "registered", "succeeded", "failing"}
                /\ pc = "faulted"
             \/ task[v].pc = "reporting" /\ pc = "faulted" /\ signalled' = Pushed
             \/ task[v].pc = "aborted" /\ pc = "done"
             \/ task[v].pc \in {"broken", "aborted"} /\ pc = "failing"
             \/ /\ task[v].pc \in {"faulted", "recording"}
                /\ pc = "halting" /\ unrecorded'
    BY <1>11 DEF WorkerFault
  <2> QED BY <1>2, <2>1, <2>2 DEF Proceeds, Leaves
<1> QED BY <1>3, <1>4, <1>5, <1>6, <1>7, <1>8, <1>9, <1>10, <1>11 DEF WorkerStep

\* The user touches no work; a crash takes the goroutines.
LEMMA UserTaskSteps ==
    ASSUME TypeOK, UserStep, NEW w \in Work
    PROVE  SameRecord(w) /\ (SameTask(w) \/ Wiped(w))
<1>1. ledger'.work = ledger.work
  BY DEF UserStep, SteerCheck, SteerAppend, SteerPush, CancelFlag,
         CancelAppend, CancelContext, OutsideCheck, OutsideAppend,
         Shutdown,
         Crash, Resume, ApplyInstruction, ApplySessionCancelled, TypeOK,
         ProjectionState
<1>2. task' = task \/ (task' = NoTask /\ driver' = "down")
  BY DEF UserStep, SteerCheck, SteerAppend, SteerPush, CancelFlag,
         CancelAppend, CancelContext, OutsideCheck, OutsideAppend,
         Shutdown,
         Crash, Resume, workVars
<1> QED BY <1>1, <1>2 DEF SameRecord, SameTask, Wiped, NoTask

\* Every step, as one work sees it.
LEMMA TaskSteps ==
    ASSUME TypeOK, StartupInv, GoroutineInv, OutcomeInv, [Next]_vars, NEW w \in Work
    PROVE  \/ SameRecord(w) /\ SameTask(w)
           \/ Marked(w) \/ Appears(w) \/ Revoked(w)
           \/ Interrupted(w) \/ Launches(w) \/ Wiped(w)
           \/ Begins(w) \/ Succeeds(w) \/ Fails(w) \/ Proceeds(w) \/ Leaves(w)
<1>1. CASE UNCHANGED vars
  BY <1>1 DEF vars, workVars, SameRecord, SameTask
<1> QED BY <1>1, DriverTaskSteps, LeaderTaskSteps, WorkerTaskSteps, UserTaskSteps
        DEF Next

-----------------------------------------------------------------------------
(* What a step does to the loop and to the run.                            *)

\* pushSignal leaves a signal that is there.
LEMMA PushKeeps ==
    ASSUME signalled \in BOOLEAN
    PROVE  /\ signalled' = Pushed /\ signalled => signalled'
           /\ signalled' = Pushed /\ LoopOpen => signalled'
BY DEF Pushed, PushAccepted, LoopOpen

\* A leader's step leaves the driver and the run's context alone; only the start
\* of a turn takes signals and renews the leader's view.
LEMMA LeaderFrame ==
    ASSUME LeaderStep \/ LeaderChoice \/ LeaderFault
    PROVE  /\ UNCHANGED <<driver, recovered, ctxDone>>
           /\ \/ TurnBegin
              \/ snap' = snap /\ (signalled' = signalled \/ signalled' = Pushed)
<1> USE DEF runVars, queueVars, flagVars
<1>1. CASE TurnBegin \/ LoopExit
  BY <1>1 DEF TurnBegin, LoopExit
<1>2. CASE \E w \in Work : \/ LeaderCancelCheck(w) \/ LeaderCancelAppend(w)
                           \/ LeaderCancelSignal(w) \/ LeaderCreate(w)
  BY <1>2 DEF LeaderCancelCheck, LeaderCancelAppend, LeaderCancelSignal,
              LeaderCreate
<1>3. CASE \/ LeaderHandoff \/ LeaderSchedule \/ LeaderFinal \/ LeaderStop
           \/ LeaderInterrupted
  BY <1>3 DEF LeaderHandoff, LeaderSchedule, LeaderFinal, LeaderStop,
              LeaderInterrupted, TurnError, TurnEnd
<1>4. CASE LeaderAnswer \/ LeaderModelFails \/ LeaderAborted
  BY <1>4 DEF LeaderAnswer, LeaderModelFails, LeaderAborted, TurnError
<1>5. CASE \E create, cancel, handoff, deps : LeaderDecide(cancel, create, deps, handoff)
  BY <1>5 DEF LeaderDecide
<1>6. CASE LeaderFault
  BY <1>6 DEF LeaderFault, TurnError
<1>7. LeaderChoice => \/ LeaderAnswer \/ LeaderModelFails \/ LeaderAborted
                      \/ \E create, cancel, handoff, deps :
                            LeaderDecide(cancel, create, deps, handoff)
  BY LeaderChoices
<1> QED BY <1>1, <1>2, <1>3, <1>4, <1>5, <1>6, <1>7 DEF LeaderStep

\* A loop opens with a signal in its buffer, a closed one stays closed; a signal
\* is consumed, and the leader's view renewed, only by the start of a turn.
LEMMA LoopSteps ==
    ASSUME TypeOK, StartupInv, [Next]_vars
    PROVE  /\ LoopOpen' => LoopOpen \/ (driver = "launch" /\ signalled')
           /\ RunOpen' => RunOpen \/ driver = "launch"
           /\ LoopOpen' => \/ TurnBegin
                           \/ snap' = snap /\ (signalled => signalled')
<1> USE DEF LoopOpen, RunOpen, runVars, loopVars, queueVars, flagVars
<1>a. signalled \in BOOLEAN /\ ctxDone \in BOOLEAN
  BY DEF TypeOK
<1>1. CASE DriverStep \/ DriverFault
  <2>1. CASE DriverLaunch
    BY <2>1 DEF DriverLaunch
  <2>2. CASE ~DriverLaunch
    <3>1. UNCHANGED <<leaderPc, snap, signalled>>
      BY <1>1, <2>2
         DEF DriverStep, DriverEnter, DriverFindsTerminal, DriverElect,
             DriverMark, DriverMarked, DriverSchedule, DriverAbandon,
             DriverGiveUp, DriverGiveUpRecord,
             DriverWait, DriverClassify, DriverFail,
             DriverRecord, DriverFault, Return
    <3>2. stopping' = "no" => stopping = "no"
      BY <1>1, <2>2
         DEF DriverStep, DriverEnter, DriverFindsTerminal, DriverElect,
             DriverMark, DriverMarked, DriverSchedule, DriverAbandon,
             DriverGiveUp, DriverGiveUpRecord,
             DriverWait, DriverClassify, DriverFail,
             DriverRecord, DriverFault, Return
    <3>4. ctxDone' = ctxDone \/ ctxDone' = TRUE
      BY <1>1, <2>2
         DEF DriverStep, DriverEnter, DriverFindsTerminal, DriverElect,
             DriverMark, DriverMarked, DriverSchedule, DriverAbandon,
             DriverGiveUp, DriverGiveUpRecord,
             DriverWait, DriverClassify, DriverFail,
             DriverRecord, DriverFault, Return
    <3>3. driver' \in {"schedule", "wait"} => driver \in {"schedule", "wait"}
      BY <1>1, <2>2
         DEF DriverStep, DriverEnter, DriverFindsTerminal, DriverElect,
             DriverMark, DriverMarked, DriverSchedule, DriverAbandon,
             DriverGiveUp, DriverGiveUpRecord,
             DriverWait, DriverClassify, DriverFail,
             DriverRecord, DriverFault, Return
    <3> QED BY <3>1, <3>2, <3>3, <3>4
  <2> QED BY <2>1, <2>2
<1>2. CASE LeaderStep \/ LeaderChoice \/ LeaderFault
  <2>1. leaderPc # "off" /\ driver' = driver
    BY <1>2, LeaderNeedsLoop
  <2>2. /\ leaderPc' # "stopped" => leaderPc # "stopped"
        /\ stopping' = "no" => stopping = "no"
        /\ ctxDone' = ctxDone
    <3>1. CASE LeaderStep
      BY <3>1
         DEF LeaderStep, TurnBegin, LoopExit, LeaderCancelCheck,
             LeaderCancelAppend, LeaderCancelSignal, LeaderCreate,
             LeaderHandoff, LeaderSchedule, LeaderFinal, LeaderStop,
             LeaderInterrupted, TurnError, TurnEnd, Settled
    <3>2. CASE LeaderChoice \/ LeaderFault
      BY <3>2, LeaderChoices
         DEF LeaderAnswer, LeaderModelFails, LeaderAborted, LeaderDecide,
             LeaderFault, TurnError, LeaderChoice
    <3> QED BY <1>2, <3>1, <3>2
  <2>3. \/ TurnBegin
        \/ snap' = snap /\ (signalled' = signalled \/ signalled' = Pushed)
    BY <1>2, LeaderFrame
  <2> QED BY <1>a, <2>1, <2>2, <2>3, PushKeeps
<1>3. ASSUME NEW w \in Work, WorkerStep(w) \/ WorkerFault(w)
      PROVE  /\ UNCHANGED <<driver, leaderPc, snap, ctxDone>>
             /\ stopping' = "no" => stopping = "no"
             /\ signalled' = signalled \/ signalled' = Pushed
  BY <1>3
     DEF WorkerStep, WorkerFault, WorkerCheck, WorkerRegister, WorkerStart,
         WorkerStartRefused, WorkerReturn, WorkerComplete,
         WorkerCompleteRefused, WorkerFailCheck, WorkerFail, WorkerReport,
         WorkerFaultRead, WorkerFaultRecord, WorkerHalt, LocalStep
<1>4. CASE UserStep
  <2>1. CASE Crash \/ Resume
    BY <2>1 DEF Crash, Resume, StartupInv, BeforeLoop
  <2>2. CASE ~Crash /\ ~Resume
    <3>1. /\ UNCHANGED <<driver, leaderPc, snap, stopping>>
          /\ ctxDone => ctxDone'
      BY <1>4, <2>2
         DEF UserStep, SteerCheck, SteerAppend, SteerPush, CancelFlag,
             CancelAppend, CancelContext, OutsideCheck, OutsideAppend,
             Shutdown
    <3>2. signalled' = signalled \/ signalled' = Pushed
      BY <1>4, <2>2
         DEF UserStep, SteerCheck, SteerAppend, SteerPush, CancelFlag,
             CancelAppend, CancelContext, OutsideCheck, OutsideAppend,
             Shutdown
    <3> QED BY <1>a, <3>1, <3>2, PushKeeps
  <2> QED BY <2>1, <2>2
<1>5. CASE UNCHANGED vars
  BY <1>5 DEF vars
<1>6. CASE \E w \in Work : WorkerStep(w) \/ WorkerFault(w)
  BY <1>a, <1>3, <1>6, PushKeeps
<1> QED BY <1>1, <1>2, <1>4, <1>5, <1>6 DEF Next

\* The outcome goes on to be carried out.
PlanKept ==
    /\ \/ plan'.create = plan.create
       \/ \E w \in Work : LeaderCreate(w) /\ plan'.create = plan.create \ {w}
    /\ plan'.cancel \cup plan'.doing \subseteq plan.cancel \cup plan.doing
    /\ plan'.doing \subseteq plan.doing \/ \E w \in plan.cancel : plan'.doing = {w}
    /\ UNCHANGED <<plan.deps, plan.answer, plan.handoff>>

\* It is dropped, or replaced by that of a turn that has just ended.
LEMMA PlanSteps ==
    ASSUME TypeOK, [Next]_vars
    PROVE  \/ PlanKept \/ plan' = NoPlan
           \/ LeaderAnswer \/ plan' = [NoPlan EXCEPT !.answer = TRUE]
           \/ \E create, cancel \in SUBSET Work, handoff \in Agent \cup {NoAgent},
                 deps \in PartialDeps : LeaderDecide(cancel, create, deps, handoff)
<1> USE DEF loopVars
<1>1. plan' = plan => PlanKept
  BY DEF PlanKept
<1>2. CASE DriverStep \/ DriverFault
  <2>1. plan' = plan
    BY <1>2
       DEF DriverStep, DriverEnter, DriverFindsTerminal, DriverElect,
           DriverMark, DriverMarked, DriverLaunch, DriverSchedule,
           DriverAbandon, DriverGiveUp, DriverGiveUpRecord,
           DriverWait, DriverClassify, DriverFail,
           DriverRecord, DriverFault, Return
  <2> QED BY <1>1, <2>1
<1>3. CASE \E w \in Work : WorkerStep(w) \/ WorkerFault(w)
  BY <1>1, <1>3, WorkerFrame
<1>4. CASE UserStep
  <2>1. plan' = plan \/ plan' = NoPlan
    BY <1>4
       DEF UserStep, SteerCheck, SteerAppend, SteerPush, CancelFlag,
           CancelAppend, CancelContext, OutsideCheck, OutsideAppend,
           Shutdown,
           Crash, Resume
  <2> QED BY <1>1, <2>1
<1>5. CASE LeaderStep
  <2>1. ASSUME NEW w \in Work, \/ LeaderCancelCheck(w) \/ LeaderCancelAppend(w)
                               \/ LeaderCancelSignal(w) \/ LeaderCreate(w)
        PROVE  PlanKept
    <3>1. plan \in Plan
      BY DEF TypeOK
    <3>2. CASE LeaderCancelCheck(w)
      <4>1. w \in plan.cancel
        BY <3>2 DEF LeaderCancelCheck
      <4>2. \/ plan' = [plan EXCEPT !.cancel = plan.cancel \ {w}]
            \/ plan' = [plan EXCEPT !.cancel = plan.cancel \ {w}, !.doing = {w}]
        BY <3>1, <3>2 DEF LeaderCancelCheck, Plan
      <4>3. /\ plan'.cancel = plan.cancel \ {w}
            /\ plan'.doing = plan.doing \/ plan'.doing = {w}
            /\ plan'.create = plan.create
            /\ UNCHANGED <<plan.deps, plan.answer, plan.handoff>>
        BY <3>1, <4>2 DEF Plan
      <4> QED BY <4>1, <4>3 DEF PlanKept
    <3>3. CASE LeaderCancelAppend(w)
      BY <1>1, <3>3 DEF LeaderCancelAppend
    <3>4. CASE LeaderCancelSignal(w)
      BY <3>1, <3>4 DEF LeaderCancelSignal, PlanKept, Plan
    <3>5. CASE LeaderCreate(w)
      BY <3>1, <3>5 DEF LeaderCreate, PlanKept, Plan
    <3> QED BY <2>1, <3>2, <3>3, <3>4, <3>5
  <2>2. CASE \/ TurnBegin \/ LoopExit \/ LeaderHandoff \/ LeaderSchedule
             \/ LeaderFinal \/ LeaderStop \/ LeaderInterrupted
    BY <1>1, <2>2
       DEF TurnBegin, LoopExit, LeaderHandoff, LeaderSchedule, LeaderFinal,
           LeaderStop, LeaderInterrupted, TurnError, TurnEnd
  <2> QED BY <1>5, <2>1, <2>2 DEF LeaderStep
<1>6. CASE LeaderChoice
  BY <1>6, LeaderChoices DEF LeaderModelFails, LeaderAborted, TurnError
<1>7. CASE LeaderFault
  <2>1. \/ plan' = NoPlan \/ plan' = [NoPlan EXCEPT !.answer = TRUE]
        \/ \E w \in plan.cancel : plan' = [plan EXCEPT !.cancel = @ \ {w}]
        \/ plan' = [plan EXCEPT !.doing = {}]
    BY <1>7 DEF LeaderFault, TurnError
  <2> QED BY <2>1 DEF PlanKept, TypeOK, Plan
<1>8. CASE UNCHANGED vars
  BY <1>1, <1>8 DEF vars
<1> QED BY <1>2, <1>3, <1>4, <1>5, <1>6, <1>7, <1>8 DEF Next

\* Known work stays known.
LEMMA KnownStays ==
    ASSUME TypeOK, StartupInv, GoroutineInv, [Next]_vars, NEW w \in Work,
           Known(ledger, w)
    PROVE  Known(ledger', w)
BY WorkSteps DEF Known, Created, Started, Settles

\* The leader's outcome cancels known work, creates work only where it ends with
\* scheduleReady, and peer turns are nobody's prerequisite.
THEOREM OutcomeCorrect == Spec => []OutcomeInv
<1>1. Init => OutcomeInv
  BY DEF Init, OutcomeInv, NoPlan, NoDeps, EmptyProjection, AbsentWork
<1>2. TypeOK /\ StartupInv /\ GoroutineInv /\ OutcomeInv /\ [Next]_vars
         => OutcomeInv'
  <2> SUFFICES ASSUME TypeOK, StartupInv, GoroutineInv, OutcomeInv, [Next]_vars
               PROVE  OutcomeInv'
    OBVIOUS
  <2>1. plan.cancel \cup plan.doing \subseteq Work /\ plan.create \subseteq Work
    BY DEF TypeOK, Plan
  <2>2. \A w \in Work : Known(ledger, w) => Known(ledger', w)
    BY KnownStays
  <2>3. \A w \in Work : ledger'.work[w].deps \cap Consultation = {}
    <3> SUFFICES ASSUME NEW w \in Work
                 PROVE  ledger'.work[w].deps \cap Consultation = {}
      OBVIOUS
    <3>1. ledger'.work[w].deps \in {ledger.work[w].deps, plan.deps[w]}
      BY TaskSteps
         DEF SameRecord, Marked, Appears, Revoked, Interrupted, Launches, Wiped,
             Begins, Succeeds, Fails, Proceeds, Leaves, SettledAs
    <3> QED BY <3>1 DEF OutcomeInv
  <2>4. CASE PlanKept
    BY <2>1, <2>2, <2>3, <2>4 DEF OutcomeInv, PlanKept
  <2>5. CASE plan' = NoPlan \/ plan' = [NoPlan EXCEPT !.answer = TRUE]
    <3>1. /\ plan'.cancel = {} /\ plan'.doing = {} /\ plan'.create = {}
          /\ \A w \in Work : plan'.deps[w] = {}
      BY <2>5 DEF NoPlan, NoDeps
    <3> QED BY <2>3, <3>1 DEF OutcomeInv
  <2>6. CASE LeaderAnswer
    <3>1. /\ plan'.cancel = {w \in Work : Active(ledger, w)} /\ plan'.doing = {}
          /\ plan'.create = {} /\ \A w \in Work : plan'.deps[w] = {}
          /\ ledger' = ledger
      BY <2>6 DEF LeaderAnswer, NoPlan, NoDeps
    <3> QED BY <2>3, <3>1 DEF OutcomeInv, Active, Known
  <2>7. ASSUME NEW create \in SUBSET Work, NEW cancel \in SUBSET Work,
               NEW handoff \in Agent \cup {NoAgent}, NEW deps \in PartialDeps,
               LeaderDecide(cancel, create, deps, handoff)
        PROVE  OutcomeInv'
    <3>1. /\ plan'.cancel = cancel /\ plan'.doing = {} /\ plan'.create = create
          /\ plan'.handoff = handoff /\ ~plan'.answer /\ ledger' = ledger
          /\ \A w \in Work : plan'.deps[w] = IF w \in DOMAIN deps THEN deps[w] ELSE {}
      BY <2>7 DEF LeaderDecide, NoPlan
    <3>2. /\ \A w \in cancel : Known(ledger, w)
          /\ create # {} => handoff = NoAgent
          /\ \A w \in DOMAIN deps : deps[w] \cap Consultation = {}
      BY <2>7 DEF LeaderDecide, ValidDeps
    <3> QED BY <2>3, <3>1, <3>2 DEF OutcomeInv
  <2> QED BY <2>4, <2>5, <2>6, <2>7, PlanSteps
<1> QED BY <1>1, <1>2, TypeCorrect, StartupCorrect, GoroutinesCorrect, PTL DEF Spec

-----------------------------------------------------------------------------
(* No wake-up is lost.                                                     *)

\* One step keeps the leader informed of one work: what comes back is on its way
\* to signal, and a goroutine leaves after its signal.
LEMMA ReturnedStep ==
    ASSUME TypeOK, StartupInv, GoroutineInv, OutcomeInv, [Next]_vars,
           LoopOpen, LoopOpen', StartupInv', NEW w \in Work, Returned(ledger', w)
    PROVE  \/ Signalling(w)' \/ signalled'
           \/ Returned(ledger, w) /\ ~Signalling(w)
<1> USE DEF Returned, Signalling, SameRecord, SameTask
<1>1. ~Marked(w) /\ ~Wiped(w)
  BY DEF StartupInv, LoopOpen, Marked, Wiped, BeforeLoop
<1>2. CASE Leaves(w) /\ Signalling(w)
  <2>1. signalled' = Pushed
    BY <1>2 DEF Leaves
  <2> QED BY <2>1, PushKeeps DEF TypeOK
<1>3. ~Appears(w) /\ ~Revoked(w) /\ ~Begins(w)
  BY DEF Appears, Revoked, Begins, SettledAs
<1>4. CASE Launches(w)
  BY <1>4 DEF Launches, Live
<1>5. CASE Proceeds(w) /\ Signalling(w)
  <2>1. signalled' = Pushed
    BY <1>5 DEF Proceeds
  <2> QED BY <2>1, PushKeeps DEF TypeOK
<1> QED BY <1>1, <1>2, <1>3, <1>4, <1>5, TaskSteps
        DEF Interrupted, Succeeds, Fails, Proceeds, Leaves

\* The leader's next turn sees every outcome: no signal overtakes the event it
\* announces and none is consumed before the read that shows it.
THEOREM WakeupCorrect == Spec => []WakeupInv
<1>1. Init => WakeupInv
  BY DEF Init, WakeupInv, LoopOpen
<1>2. TypeOK /\ StartupInv /\ StartupInv' /\ GoroutineInv /\ OutcomeInv
         /\ WakeupInv /\ [Next]_vars => WakeupInv'
  <2> SUFFICES ASSUME TypeOK, StartupInv, StartupInv', GoroutineInv, OutcomeInv,
                      WakeupInv, [Next]_vars, LoopOpen', ~signalled',
                      NEW w \in Work, Returned(ledger', w), ~Signalling(w)'
               PROVE  w \in snap'.seen
    BY DEF WakeupInv
  <2>1. LoopOpen
    BY LoopSteps
  <2>2. Returned(ledger, w) /\ ~Signalling(w)
    BY <2>1, ReturnedStep
  <2>3. CASE TurnBegin
    BY <2>2, <2>3 DEF TurnBegin
  <2>4. CASE ~TurnBegin
    <3>1. snap' = snap /\ ~signalled
      BY <2>4, LoopSteps
    <3> QED BY <2>1, <2>2, <3>1 DEF WakeupInv
  <2> QED BY <2>3, <2>4
<1> QED BY <1>1, <1>2, TypeCorrect, StartupCorrect, GoroutinesCorrect,
           OutcomeCorrect, PTL DEF Spec

\* A session that waits waits for something the leader has not missed.
THEOREM NoLostWakeupCorrect == Spec => []NoLostWakeup
<1>1. WakeupInv => NoLostWakeup
  BY DEF WakeupInv, NoLostWakeup, Waiting, LoopOpen, Signalling
<1> QED BY <1>1, WakeupCorrect, PTL

-----------------------------------------------------------------------------
(* Running work has a goroutine.                                           *)

\* A failure that could not be recorded is forgotten only with the process.
LEMMA UnrecordedStays ==
    ASSUME [Next]_vars
    PROVE  unrecorded => unrecorded' \/ driver' = "down"
<1> USE DEF budgetVars
<1>1. CASE DriverStep \/ DriverFault
  BY <1>1
     DEF DriverStep, DriverFault, DriverEnter, DriverFindsTerminal, DriverElect,
         DriverMark, DriverMarked, DriverLaunch, DriverSchedule,
         DriverAbandon, DriverGiveUp, DriverGiveUpRecord, DriverWait,
         DriverClassify, DriverFail, DriverRecord, Return
<1>2. CASE LeaderStep \/ LeaderChoice \/ LeaderFault
  BY <1>2, LeaderChoices
     DEF LeaderStep, TurnBegin, LoopExit, LeaderCancelCheck, LeaderCancelAppend,
         LeaderCancelSignal, LeaderCreate, LeaderHandoff, LeaderSchedule,
         LeaderFinal, LeaderStop, LeaderInterrupted, TurnError, LeaderAnswer,
         LeaderModelFails, LeaderAborted, LeaderDecide, LeaderFault
<1>3. CASE \E w \in Work : WorkerStep(w) \/ WorkerFault(w)
  BY <1>3
     DEF WorkerStep, WorkerFault, WorkerCheck, WorkerRegister, WorkerStart,
         WorkerStartRefused, WorkerReturn, WorkerComplete,
         WorkerCompleteRefused, WorkerFailCheck, WorkerFail, WorkerReport,
         WorkerFaultRead, WorkerFaultRecord, WorkerHalt, LocalStep
<1>4. CASE UserStep
  BY <1>4
     DEF UserStep, SteerCheck, SteerAppend, SteerPush, CancelFlag, CancelAppend,
         CancelContext, OutsideCheck, OutsideAppend, Shutdown,
         Crash, Resume
<1>5. CASE UNCHANGED vars
  BY <1>5 DEF vars
<1> QED BY <1>1, <1>2, <1>3, <1>4, <1>5 DEF Next

\* Only a new process takes back Stop(WithImmediate).
LEMMA StoppingStays ==
    ASSUME [Next]_vars
    PROVE  stopping = "now" => stopping' = "now" \/ driver' = "down"
<1> USE DEF queueVars
<1>1. CASE DriverStep \/ DriverFault
  BY <1>1
     DEF DriverStep, DriverFault, DriverEnter, DriverFindsTerminal, DriverElect,
         DriverMark, DriverMarked, DriverLaunch, DriverSchedule,
         DriverAbandon, DriverGiveUp, DriverGiveUpRecord, DriverWait,
         DriverClassify, DriverFail, DriverRecord, Return
<1>2. CASE LeaderStep \/ LeaderChoice \/ LeaderFault
  BY <1>2, LeaderChoices
     DEF LeaderStep, TurnBegin, LoopExit, LeaderCancelCheck, LeaderCancelAppend,
         LeaderCancelSignal, LeaderCreate, LeaderHandoff, LeaderSchedule,
         LeaderFinal, LeaderStop, LeaderInterrupted, TurnError, LeaderAnswer,
         LeaderModelFails, LeaderAborted, LeaderDecide, LeaderFault
<1>3. CASE \E w \in Work : WorkerStep(w) \/ WorkerFault(w)
  BY <1>3
     DEF WorkerStep, WorkerFault, WorkerCheck, WorkerRegister, WorkerStart,
         WorkerStartRefused, WorkerReturn, WorkerComplete,
         WorkerCompleteRefused, WorkerFailCheck, WorkerFail, WorkerReport,
         WorkerFaultRead, WorkerFaultRecord, WorkerHalt, LocalStep
<1>4. CASE UserStep
  BY <1>4
     DEF UserStep, SteerCheck, SteerAppend, SteerPush, CancelFlag, CancelAppend,
         CancelContext, OutsideCheck, OutsideAppend, Shutdown,
         Crash, Resume
<1>5. CASE UNCHANGED vars
  BY <1>5 DEF vars
<1> QED BY <1>1, <1>2, <1>3, <1>4, <1>5 DEF Next

\* How the driver comes to stand before the loop, and to start it.
LEMMA RunSteps ==
    ASSUME TypeOK, [Next]_vars
    PROVE  /\ driver' = "down" => recovered' \/ (driver = "down" /\ recovered' = recovered)
           /\ driver' \in BeforeLoop \ {"down"}
                 => driver \in BeforeLoop /\ recovered' = recovered
           /\ driver' = "launch" =>
                 \/ driver = "launch"
                 \/ driver \in {"enter", "elect"} /\ ~recovered
                 \/ \A w \in Work : ledger.work[w].status # "running"
           /\ driver' \in {"schedule", "wait"}
                 => driver \in {"launch", "schedule", "wait"}
           /\ driver' = "wait" => driver = "wait" \/ DriverSchedule
           /\ ctxDone => ctxDone' \/ driver' = "down"
<1> USE DEF BeforeLoop, runVars, flagVars
<1>1. CASE DriverStep \/ DriverFault
  <2>1. driver' # "down" /\ recovered' = recovered
    BY <1>1
       DEF DriverStep, DriverEnter, DriverFindsTerminal, DriverElect,
           DriverMark, DriverMarked, DriverLaunch, DriverSchedule,
           DriverAbandon, DriverGiveUp, DriverGiveUpRecord,
           DriverWait, DriverClassify, DriverFail,
           DriverRecord, DriverFault, Return
  <2>2. /\ driver' \in BeforeLoop => driver \in BeforeLoop
        /\ driver' = "launch" =>
              \/ driver \in {"enter", "elect"} /\ ~recovered
              \/ \A w \in Work : ledger.work[w].status # "running"
        /\ driver' \in {"schedule", "wait"} => driver \in {"launch", "schedule"}
        /\ driver' = "wait" => DriverSchedule
    BY <1>1
       DEF DriverStep, DriverEnter, DriverFindsTerminal, DriverElect,
           DriverMark, DriverMarked, DriverLaunch, DriverSchedule,
           DriverAbandon, DriverGiveUp, DriverGiveUpRecord,
           DriverWait, DriverClassify, DriverFail,
           DriverRecord, DriverFault, Return
  <2>3. ctxDone' = ctxDone \/ ctxDone' = TRUE
    BY <1>1
       DEF DriverStep, DriverEnter, DriverFindsTerminal, DriverElect,
           DriverMark, DriverMarked, DriverLaunch, DriverSchedule,
           DriverAbandon, DriverGiveUp, DriverGiveUpRecord,
           DriverWait, DriverClassify, DriverFail,
           DriverRecord, DriverFault, Return
  <2> QED BY <2>1, <2>2, <2>3
<1>2. CASE LeaderStep \/ LeaderChoice \/ LeaderFault
  <2>1. UNCHANGED <<runVars, ctxDone>>
    BY <1>2, LeaderFrame
  <2> QED BY <2>1
<1>3. CASE \E w \in Work : WorkerStep(w) \/ WorkerFault(w)
  <2>1. UNCHANGED <<runVars, ctxDone>>
    BY <1>3
       DEF WorkerStep, WorkerFault, WorkerCheck, WorkerRegister, WorkerStart,
           WorkerStartRefused, WorkerReturn, WorkerComplete,
           WorkerCompleteRefused, WorkerFailCheck, WorkerFail, WorkerReport,
           WorkerFaultRead, WorkerFaultRecord, WorkerHalt, LocalStep
  <2> QED BY <2>1
<1>4. CASE UserStep
  <2>1. CASE Crash \/ Resume
    BY <2>1 DEF Crash, Resume
  <2>2. CASE ~Crash /\ ~Resume
    <3>1. UNCHANGED runVars /\ (ctxDone' = ctxDone \/ ctxDone' = TRUE)
      BY <1>4, <2>2
         DEF UserStep, SteerCheck, SteerAppend, SteerPush, CancelFlag,
             CancelAppend, CancelContext, OutsideCheck, OutsideAppend,
             Shutdown
    <3> QED BY <3>1
  <2> QED BY <2>1, <2>2
<1>5. CASE UNCHANGED vars
  BY <1>5 DEF vars
<1> QED BY <1>1, <1>2, <1>3, <1>4, <1>5 DEF Next

\* Whoever runs work the ledger calls running is there or has been told to stop.
THEOREM RunningCorrect == Spec => []RunningInv
<1>1. Init => RunningInv
  BY DEF Init, RunningInv, FreshInv, WindingDownInv, EmptyProjection,
         AbsentWork, Known, NoTask, BeforeLoop, Signalling
<1>2. TypeOK /\ StartupInv /\ StartupInv' /\ GoroutineInv /\ OutcomeInv
         /\ RunningInv /\ [Next]_vars => RunningInv'
  <2> SUFFICES ASSUME TypeOK, StartupInv, StartupInv', GoroutineInv, OutcomeInv,
                      RunningInv, [Next]_vars
               PROVE  RunningInv'
    OBVIOUS
  <2>1. ledger.terminal => ledger'.terminal
    BY SessionSteps
  <2>2. FreshInv'
    <3>1. driver' = "down" => recovered'
      BY RunSteps DEF RunningInv, FreshInv
    <3>2. ASSUME driver' \in BeforeLoop, ~recovered', NEW w \in Work
          PROVE  ~Known(ledger', w)
      <4>1. driver \in BeforeLoop /\ ~recovered /\ ~Known(ledger, w)
        BY <3>1, <3>2, RunSteps DEF RunningInv, FreshInv
      <4>2. leaderPc = "off" /\ task[w].pc = "none"
        BY <4>1 DEF StartupInv
      <4> QED BY <4>1, <4>2, TaskSteps
              DEF Known, SameRecord, Marked, Appears, Revoked, Interrupted,
                  Launches, Wiped, Begins, Succeeds, Fails, Proceeds, Leaves,
                  SettledAs, Ready, Live
    <3>3. ASSUME driver' = "launch", NEW w \in Work
          PROVE  ledger'.work[w].status # "running"
      <4>1. driver \in BeforeLoop
        BY <3>3, RunSteps DEF BeforeLoop
      <4>2. task[w].pc = "none" /\ ledger.work[w].status # "running"
        BY <3>3, <4>1, RunSteps
           DEF StartupInv, RunningInv, FreshInv, Known, BeforeLoop
      <4> QED BY <4>2, TaskSteps
              DEF SameRecord, Marked, Appears, Revoked, Interrupted, Launches,
                  Wiped, Begins, Succeeds, Fails, Proceeds, Leaves, SettledAs
    <3> QED BY <3>1, <3>2, <3>3 DEF FreshInv
  <2>3. WindingDownInv'
    <3> SUFFICES ASSUME NEW w \in Work
                 PROVE  /\ task'[w].pc = "halting" => ledger'.terminal \/ unrecorded'
                        /\ task'[w].pc = "aborted" => ctxDone' \/ task'[w].cancelled
                        /\ Signalling(w)' => ledger'.work[w].status # "running"
      BY DEF WindingDownInv, TaskCtxDone
    <3>1. /\ task[w].pc = "halting" => ledger.terminal \/ unrecorded
          /\ task[w].pc = "aborted" => ctxDone \/ task[w].cancelled
          /\ Signalling(w) => ledger.work[w].status # "running"
      BY DEF RunningInv, WindingDownInv, TaskCtxDone
    <3>2. driver' = "down" => task'[w].pc = "none"
      BY DEF StartupInv, BeforeLoop
    <3>3. /\ ctxDone => ctxDone' \/ driver' = "down"
          /\ unrecorded => unrecorded' \/ driver' = "down"
      BY RunSteps, UnrecordedStays
    <3> QED BY <2>1, <3>1, <3>2, <3>3, TaskSteps
            DEF SameRecord, SameTask, Marked, Appears, Revoked, Interrupted,
                Launches, Wiped, Begins, Succeeds, Fails, Proceeds, Leaves,
                SettledAs, Signalling, TaskCtxDone
  <2>4. ASSUME driver' \in {"schedule", "wait"}, ~ctxDone', ~ledger'.terminal,
               stopping' # "now", NEW w \in Work, ledger'.work[w].status = "running"
        PROVE  Live(w)' \/ task'[w].cancelled
    <3>1. /\ driver \in {"launch", "schedule", "wait"} /\ ~ctxDone
          /\ ~ledger.terminal /\ stopping # "now"
      BY <2>1, <2>4, RunSteps, StoppingStays
    <3>2. CASE ledger.work[w].status # "running"
      BY <2>4, <3>2, TaskSteps
         DEF SameRecord, Marked, Appears, Revoked, Interrupted, Launches, Wiped,
             Begins, Succeeds, Fails, Proceeds, Leaves, SettledAs, Live
    <3>3. CASE ledger.work[w].status = "running"
      <4>1. Live(w) \/ task[w].cancelled
        BY <3>1, <3>3 DEF RunningInv, FreshInv
      <4>2. /\ task[w].pc = "aborted" => ctxDone \/ task[w].cancelled
            /\ ~Signalling(w)
        BY <3>3 DEF RunningInv, WindingDownInv, TaskCtxDone
      <4>3. task[w].pc \notin BeforeStart /\ ~Ready(ledger, w) /\ Known(ledger, w)
        BY <3>3 DEF GoroutineInv, WorkOK, BeforeStartOK, Launchable, Ready, Known
      <4> QED BY <2>4, <3>1, <3>3, <4>1, <4>2, <4>3, TaskSteps
              DEF SameRecord, SameTask, Marked, Appears, Revoked, Interrupted,
                  Launches, Wiped, Begins, Succeeds, Fails, Proceeds, Leaves,
                  SettledAs, Signalling, Live, BeforeStart
    <3> QED BY <3>2, <3>3
  <2> QED BY <2>2, <2>3, <2>4 DEF RunningInv
<1> QED BY <1>1, <1>2, TypeCorrect, StartupCorrect, GoroutinesCorrect,
           OutcomeCorrect, PTL DEF Spec

\* No work stays "running" without a goroutine while its run goes on, not even
\* across a crash and a resume.
THEOREM RunningHasGoroutineCorrect == Spec => []RunningHasGoroutine
<1>1. RunningInv => RunningHasGoroutine
  BY DEF RunningInv, FreshInv, RunningHasGoroutine
<1> QED BY <1>1, RunningCorrect, PTL

-----------------------------------------------------------------------------
(* Ready work is launched.                                                 *)

\* scheduleReady has just run over this ledger.
ScheduleRan ==
    \A w \in Work :
        /\ SameRecord(w)
        /\ Ready(ledger, w) => \/ task'[w].pc = "launched"
                               \/ <<w, ledger.work[w].attempt + 1>> \in launched

\* The driver's and the leader's call, and that of a delegation's goroutine.
LEMMA Schedulers ==
    ASSUME TypeOK, GoroutineInv
    PROVE  /\ DriverSchedule \/ LeaderSchedule => ScheduleRan
           /\ \A v \in Work \ Consultation :
                 WorkerReport(v) /\ task[v].pc = "reporting" /\ ~ctxDone => ScheduleRan
<1> USE DEF SameRecord
<1>1. task \in [Work -> Task]
  BY DEF TypeOK
<1>2. ASSUME DriverSchedule \/ LeaderSchedule PROVE ScheduleRan
  <2>1. ScheduleReady(task) /\ UNCHANGED ledger
    BY <1>2 DEF DriverSchedule, LeaderSchedule
  <2> QED BY <1>1, <2>1, ScheduleCases DEF ScheduleRan
<1>3. ASSUME NEW v \in Work \ Consultation, WorkerReport(v),
             task[v].pc = "reporting", ~ctxDone
      PROVE  ScheduleRan
  <2> DEFINE tasks == [task EXCEPT ![v].pc = "done"]
  <2>1. tasks \in [Work -> Task] /\ \A u \in Work : tasks[u] = task[u] \/ Live(u)
    BY <1>1, <1>3 DEF Task, TaskPc, Live
  <2>2. ScheduleReady(tasks) /\ UNCHANGED ledger
    BY <1>3 DEF WorkerReport
  <2> HIDE DEF tasks
  <2> QED BY <2>1, <2>2, ScheduleCases DEF ScheduleRan
<1> QED BY <1>2, <1>3

\* r.launched grows only by what scheduleReady launches, and belongs to one run.
LEMMA LaunchedSteps ==
    ASSUME TypeOK, StartupInv, GoroutineInv, [Next]_vars
    PROVE  /\ driver' \in BeforeLoop =>
                 launched' = {} \/ (driver \in BeforeLoop /\ launched' = launched)
           /\ \A x \in launched' : x \in launched \/ (x[1] \in Work /\ Ready(ledger, x[1]))
           /\ \A w \in Work : \A n : <<w, n>> \in launched' =>
                 <<w, n>> \in launched \/ task'[w].pc = "launched"
<1> USE DEF BeforeLoop, workVars
<1>1. task \in [Work -> Task]
  BY DEF TypeOK
<1>2. ASSUME NEW tasks \in [Work -> Task], ScheduleReady(tasks), UNCHANGED ledger,
             \A v \in Work : tasks[v] = task[v] \/ Live(v)
      PROVE  /\ \A x \in launched' :
                    x \in launched \/ (x[1] \in Work /\ Ready(ledger, x[1]))
             /\ \A w \in Work : \A n : <<w, n>> \in launched' =>
                   <<w, n>> \in launched \/ task'[w].pc = "launched"
  <2>1. ASSUME NEW x \in launched', x \notin launched
        PROVE  x[1] \in Work /\ Ready(ledger, x[1])
    <3>1. \E v \in Work : TRUE
      BY <1>2, <2>1 DEF ScheduleReady
    <3> QED BY <1>2, <2>1, <3>1, ScheduleCases
  <2> QED BY <1>2, <2>1, ScheduleCases
<1>3. CASE DriverSchedule \/ LeaderSchedule
  <2>1. ScheduleReady(task) /\ UNCHANGED ledger
    BY <1>3 DEF DriverSchedule, LeaderSchedule
  <2>2. driver' \notin BeforeLoop
    BY <1>3, LeaderNeedsLoop DEF DriverSchedule, LeaderStep, StartupInv
  <2> QED BY <1>1, <1>2, <2>1, <2>2
<1>4. ASSUME NEW v \in Work, WorkerReport(v), launched' # launched
      PROVE  /\ driver' \notin BeforeLoop
             /\ \A x \in launched' :
                    x \in launched \/ (x[1] \in Work /\ Ready(ledger, x[1]))
             /\ \A w \in Work : \A n : <<w, n>> \in launched' =>
                   <<w, n>> \in launched \/ task'[w].pc = "launched"
  <2> DEFINE tasks == [task EXCEPT ![v].pc = "done"]
  <2>1. tasks \in [Work -> Task] /\ \A u \in Work : tasks[u] = task[u] \/ Live(u)
    BY <1>1, <1>4 DEF WorkerReport, Task, TaskPc, Live
  <2>2. ScheduleReady(tasks) /\ UNCHANGED ledger
    BY <1>4 DEF WorkerReport
  <2>3. driver' \notin BeforeLoop
    BY <1>4 DEF WorkerReport, runVars, StartupInv
  <2> HIDE DEF tasks
  <2> QED BY <1>2, <2>1, <2>2, <2>3
<1>5. CASE Crash
  BY <1>5 DEF Crash
<1>6. CASE /\ ~DriverSchedule /\ ~LeaderSchedule /\ ~Crash
           /\ ~\E v \in Work : WorkerReport(v) /\ launched' # launched
  <2>1. launched' = launched
    <3>1. CASE DriverStep \/ DriverFault
      BY <1>6, <3>1
         DEF DriverStep, DriverEnter, DriverFindsTerminal, DriverElect,
             DriverMark, DriverMarked, DriverLaunch, DriverAbandon,
             DriverGiveUp, DriverGiveUpRecord,
             DriverWait, DriverClassify, DriverFail,
             DriverRecord, DriverFault, Return
    <3>2. CASE LeaderStep \/ LeaderChoice \/ LeaderFault
      BY <1>6, <3>2, LeaderChoices
         DEF LeaderStep, TurnBegin, LoopExit, LeaderCancelCheck,
             LeaderCancelAppend, LeaderCancelSignal, LeaderCreate,
             LeaderHandoff, LeaderFinal, LeaderStop, LeaderInterrupted,
             TurnError, LeaderAnswer, LeaderModelFails, LeaderAborted,
             LeaderDecide, LeaderFault
    <3>3. CASE \E v \in Work : WorkerStep(v) \/ WorkerFault(v)
      BY <1>6, <3>3
         DEF WorkerStep, WorkerFault, WorkerCheck, WorkerRegister, WorkerStart,
             WorkerStartRefused, WorkerReturn, WorkerComplete,
             WorkerCompleteRefused, WorkerFailCheck, WorkerFail,
             WorkerFaultRead, WorkerFaultRecord, WorkerHalt, LocalStep
    <3>4. CASE UserStep
      BY <1>6, <3>4
         DEF UserStep, SteerCheck, SteerAppend, SteerPush, CancelFlag,
             CancelAppend, CancelContext, OutsideCheck, OutsideAppend,
             Shutdown, Resume
    <3>5. CASE UNCHANGED vars
      BY <3>5 DEF vars
    <3> QED BY <3>1, <3>2, <3>3, <3>4, <3>5 DEF Next
  <2>2. driver' \in BeforeLoop => driver \in BeforeLoop
    <3>1. CASE driver' # "down"
      BY <3>1, RunSteps
    <3>2. CASE driver' = "down"
      <4>1. driver' = driver
        BY <1>6, <3>2, LeaderNeedsLoop, WorkerFrame
           DEF Next, DriverStep, DriverEnter, DriverFindsTerminal, DriverElect,
               DriverMark, DriverMarked, DriverLaunch, DriverAbandon,
               DriverGiveUp, DriverGiveUpRecord,
               DriverWait, DriverClassify, DriverFail,
               DriverRecord, DriverFault, Return, UserStep, SteerCheck,
               SteerAppend, SteerPush, CancelFlag, CancelAppend, CancelContext,
               OutsideCheck, OutsideAppend,
               Shutdown, Resume, runVars, vars
      <4> QED BY <3>2, <4>1
    <3> QED BY <3>1, <3>2
  <2> QED BY <2>1, <2>2
<1> QED BY <1>3, <1>4, <1>5, <1>6

\* While the run goes on, a goroutine of work that may still start stays until
\* it has started it.
LEMMA StaysLive ==
    ASSUME TypeOK, StartupInv, GoroutineInv, OutcomeInv, CancelInv, [Next]_vars,
           RunOpen, RunOpen', NEW w \in Work, Live(w), Launchable(ledger'.work[w])
    PROVE  Live(w)'
<1>1. ~ctxDone /\ stopping' # "now" /\ driver' # "down"
  BY DEF RunOpen, LoopOpen
<1>2. /\ task[w].pc \in BeforeStart /\ task[w].cancelled
            => ledger.work[w].status = "cancelled"
      /\ task[w].pc \in AfterStart => ~Launchable(ledger.work[w])
  BY DEF CancelInv, GoroutineInv, WorkOK, AfterStartOK
<1>3. ~Leaves(w)
  BY <1>1, <1>2 DEF Leaves, SameRecord, Signalling, TaskCtxDone, BeforeStart,
                    AfterStart, Launchable
<1> QED BY <1>1, <1>3, TaskSteps
        DEF SameTask, Marked, Appears, Revoked, Interrupted, Launches, Wiped,
            Begins, Succeeds, Fails, Proceeds, Live

\* A delegation that has completed reports, and schedules as it does.
LEMMA ReportingStep ==
    ASSUME TypeOK, StartupInv, GoroutineInv, OutcomeInv, [Next]_vars,
           RunOpen, RunOpen', NEW d \in Work \ Consultation,
           task[d].pc = "reporting"
    PROVE  task'[d].pc = "reporting" \/ Stops(d)' \/ ScheduleRan
<1>1. CASE \E v \in Work : WorkerReport(v) /\ v = d
  BY <1>1, Schedulers DEF RunOpen
<1>2. CASE ~WorkerReport(d)
  <2>1. ~Leaves(d)
    <3> SUFFICES ASSUME Leaves(d) PROVE FALSE
      OBVIOUS
    <3>1. task'[d].pc = "done"
      BY DEF Leaves
    <3>2. CASE DriverStep \/ DriverFault
      BY <3>1, <3>2, DriverTaskSteps
         DEF SameTask, Marked, Interrupted, Launches
    <3>3. CASE LeaderStep \/ LeaderChoice \/ LeaderFault
      BY <3>1, <3>3, LeaderTaskSteps
         DEF SameTask, Appears, Revoked, Interrupted, Launches
    <3>4. ASSUME NEW v \in Work, WorkerStep(v) \/ WorkerFault(v) PROVE FALSE
      <4>1. v = d
        BY <3>1, <3>4, WorkerTaskSteps DEF SameTask, Launches
      <4>2. ~WorkerFault(d)
        <5>1. ASSUME WorkerFault(d) PROVE Goto(d, "faulted")
          BY <5>1 DEF WorkerFault
        <5> QED BY <3>1, <5>1 DEF Goto, TypeOK, Task
      <4> QED BY <1>2, <3>4, <4>1, <4>2
              DEF WorkerStep, WorkerCheck, WorkerRegister,
                  WorkerStart, WorkerStartRefused, WorkerReturn, WorkerComplete,
                  WorkerCompleteRefused, WorkerFailCheck, WorkerFail,
                  WorkerFaultRead, WorkerFaultRecord, WorkerHalt
    <3>5. CASE UserStep
      BY <3>1, <3>5, UserTaskSteps DEF SameTask, Wiped
    <3>6. CASE UNCHANGED vars
      BY <3>1, <3>6 DEF vars, workVars
    <3> QED BY <3>2, <3>3, <3>4, <3>5, <3>6 DEF Next
  <2>2. driver' # "down" /\ Live(d)
    BY DEF RunOpen, Live
  <2> QED BY <2>1, <2>2, TaskSteps
          DEF SameTask, Marked, Appears, Revoked, Interrupted, Launches, Wiped,
              Begins, Succeeds, Fails, Proceeds, Stops
<1> QED BY <1>1, <1>2

\* A goroutine in stopWithError stays until it has stopped the loop.
LEMMA StoppingStep ==
    ASSUME TypeOK, StartupInv, GoroutineInv, OutcomeInv, [Next]_vars,
           RunOpen, RunOpen', NEW d \in Work, Stops(d)
    PROVE  Stops(d)'
<1>1. driver' # "down" /\ stopping' # "now"
  BY DEF RunOpen, LoopOpen
<1> QED BY <1>1, TaskSteps
        DEF SameTask, Marked, Appears, Revoked, Interrupted, Launches, Wiped,
            Begins, Succeeds, Fails, Proceeds, Leaves, Signalling, Stops, Live

\* The outcome of the leader's turn is carried out up to its scheduleReady as
\* long as the run goes on.
LEMMA PendingStep ==
    ASSUME TypeOK, StartupInv, [Next]_vars, PendingSchedule, RunOpen, RunOpen'
    PROVE  PendingSchedule' \/ LeaderSchedule
<1> USE DEF PendingSchedule, RunOpen, LoopOpen
<1>1. driver \notin BeforeLoop /\ ~ctxDone
  BY DEF BeforeLoop
<1>2. CASE DriverStep \/ DriverFault
  <2>1. UNCHANGED <<leaderPc, plan>>
    BY <1>1, <1>2
       DEF DriverStep, DriverEnter, DriverFindsTerminal, DriverElect,
           DriverMark, DriverMarked, DriverLaunch, DriverSchedule,
           DriverAbandon, DriverGiveUp, DriverGiveUpRecord,
           DriverWait, DriverClassify, DriverFail,
           DriverRecord, DriverFault, Return, BeforeLoop, loopVars
  <2> QED BY <2>1
<1>3. CASE \E w \in Work : WorkerStep(w) \/ WorkerFault(w)
  BY <1>3, WorkerFrame DEF loopVars
<1>4. CASE UserStep
  <2>1. UNCHANGED <<leaderPc, plan>>
    BY <1>4
       DEF UserStep, SteerCheck, SteerAppend, SteerPush, CancelFlag,
           CancelAppend, CancelContext, OutsideCheck, OutsideAppend,
           Shutdown,
           Crash, Resume, loopVars
  <2> QED BY <2>1
<1>5. CASE LeaderStep
  <2>1. ASSUME NEW w \in Work, \/ LeaderCancelCheck(w) \/ LeaderCancelAppend(w)
                               \/ LeaderCancelSignal(w) \/ LeaderCreate(w)
        PROVE  PendingSchedule'
    <3>1. UNCHANGED <<plan.answer, plan.handoff>>
      BY <2>1 DEF LeaderCancelCheck, LeaderCancelAppend, LeaderCancelSignal,
                  LeaderCreate, TypeOK, Plan
    <3>2. leaderPc' \in {"cancel", "cancelAppend", "cancelSignal"}
      BY <2>1 DEF LeaderCancelCheck, LeaderCancelAppend, LeaderCancelSignal,
                  LeaderCreate
    <3> QED BY <3>1, <3>2
  <2>2. CASE \/ TurnBegin \/ LoopExit \/ LeaderHandoff \/ LeaderFinal
             \/ LeaderStop \/ LeaderInterrupted
    BY <1>1, <2>2
       DEF TurnBegin, LoopExit, LeaderHandoff, LeaderFinal, LeaderStop,
           LeaderInterrupted
  <2> QED BY <1>5, <2>1, <2>2 DEF LeaderStep
<1>6. CASE LeaderChoice
  BY <1>6 DEF LeaderChoice
<1>7. CASE LeaderFault
  BY <1>7 DEF LeaderFault, TurnError
<1>8. CASE UNCHANGED vars
  BY <1>8 DEF vars, loopVars
<1> QED BY <1>2, <1>3, <1>4, <1>5, <1>6, <1>7, <1>8 DEF Next

\* The leader comes to signal a goroutine only by recording the cancellation.
LEMMA CancelSignalStep ==
    ASSUME StartupInv, [Next]_vars, leaderPc' = "cancelSignal"
    PROVE  \/ leaderPc = "cancelSignal" /\ plan' = plan
           \/ \E v \in Work : LeaderCancelAppend(v)
<1> USE DEF loopVars
<1>1. CASE DriverStep \/ DriverFault
  BY <1>1
     DEF DriverStep, DriverEnter, DriverFindsTerminal, DriverElect, DriverMark,
         DriverMarked, DriverLaunch, DriverSchedule, DriverAbandon,
         DriverGiveUp, DriverGiveUpRecord,
         DriverWait, DriverClassify, DriverFail, DriverRecord,
         DriverFault, Return
<1>2. CASE LeaderStep \/ LeaderChoice \/ LeaderFault
  BY <1>2, LeaderChoices
     DEF LeaderStep, TurnBegin, LoopExit, LeaderCancelCheck, LeaderCancelSignal,
         LeaderCreate, LeaderHandoff, LeaderSchedule, LeaderFinal, LeaderStop,
         LeaderInterrupted, TurnError, TurnEnd, LeaderAnswer, LeaderModelFails,
         LeaderAborted, LeaderDecide, LeaderFault
<1>3. CASE \E w \in Work : WorkerStep(w) \/ WorkerFault(w)
  BY <1>3, WorkerFrame
<1>4. CASE UserStep
  BY <1>4
     DEF UserStep, SteerCheck, SteerAppend, SteerPush, CancelFlag, CancelAppend,
         CancelContext, OutsideCheck, OutsideAppend,
         Shutdown, Crash, Resume
<1>5. CASE UNCHANGED vars
  BY <1>5 DEF vars
<1> QED BY <1>1, <1>2, <1>3, <1>4, <1>5 DEF Next

\* Cancelled work keeps its goroutine from starting or is past its start.
LEMMA CancelStep ==
    ASSUME TypeOK, StartupInv, StartupInv', GoroutineInv, OutcomeInv, CancelInv,
           [Next]_vars
    PROVE  CancelInv'
<1>1. ASSUME leaderPc' = "cancelSignal", NEW w \in plan'.doing
      PROVE  ~Launchable(ledger'.work[w])
  <2>1. plan.doing \subseteq Work /\ \A v \in plan.doing : Known(ledger, v)
    BY DEF TypeOK, Plan, OutcomeInv
  <2>2. CASE leaderPc = "cancelSignal" /\ plan' = plan
    <3>1. w \in Work /\ Known(ledger, w) /\ ~Launchable(ledger.work[w])
      BY <1>1, <2>1, <2>2 DEF CancelInv
    <3>2. driver # "mark"
      BY <2>2 DEF StartupInv, BeforeLoop
    <3> QED BY <3>1, <3>2, TaskSteps
            DEF SameRecord, Marked, Appears, Revoked, Interrupted, Launches,
                Wiped, Begins, Succeeds, Fails, Proceeds, Leaves, SettledAs,
                Launchable
  <2>3. ASSUME NEW v \in Work, LeaderCancelAppend(v)
        PROVE  ~Launchable(ledger'.work[w])
    <3>1. /\ v \in plan.doing /\ plan' = plan
          /\ ledger' = ApplyCancelled(ledger, v)
      BY <2>3 DEF LeaderCancelAppend
    <3>2. w = v /\ Known(ledger, v) /\ ledger \in ProjectionState
      BY <1>1, <2>1, <3>1 DEF OutcomeInv, TypeOK
    <3>3. ledger'.work[w].status = "cancelled"
      BY <3>1, <3>2, CancelledResult
    <3> QED BY <3>3 DEF Launchable
  <2> QED BY <1>1, <2>2, <2>3, CancelSignalStep
<1>2. ASSUME RunOpen', NEW w \in Work, task'[w].pc \in BeforeStart,
             task'[w].cancelled
      PROVE  ledger'.work[w].status = "cancelled"
  <2>1. /\ RunOpen \/ task[w].pc = "none"
        /\ driver' # "down" /\ leaderPc' # "stopped"
    BY <1>2, LoopSteps DEF StartupInv, BeforeLoop, RunOpen, LoopOpen
  <2>2. CASE RunOpen
    <3>1. /\ task[w].pc \in BeforeStart /\ task[w].cancelled
                => ledger.work[w].status = "cancelled"
          /\ driver # "mark"
          /\ leaderPc = "cancelSignal" /\ w \in plan.doing
                => ~Launchable(ledger.work[w])
          /\ task[w].pc \in BeforeStart /\ ~Launchable(ledger.work[w])
                => ledger.work[w].status = "cancelled"
          /\ ~Known(ledger, w) => task[w].pc = "none"
      BY <2>2 DEF CancelInv, RunOpen, GoroutineInv, WorkOK, RecordOK, BeforeStartOK
    <3> QED BY <1>2, <2>1, <3>1, TaskSteps
            DEF SameRecord, SameTask, Marked, Appears, Revoked, Interrupted,
                Launches, Wiped, Begins, Succeeds, Fails, Proceeds, Leaves,
                SettledAs, BeforeStart
  <2>3. CASE task[w].pc = "none"
    BY <1>2, <2>1, <2>3, TaskSteps
       DEF SameRecord, SameTask, Marked, Appears, Revoked, Interrupted,
           Launches, Wiped, Begins, Succeeds, Fails, Proceeds, Leaves,
           SettledAs, BeforeStart, Registered, Signalling
  <2> QED BY <2>1, <2>2, <2>3
<1> QED BY <1>1, <1>2 DEF CancelInv

\* r.launched stays within one run and names known work.
LEMMA LaunchedStep ==
    ASSUME TypeOK, StartupInv, GoroutineInv, LaunchedInv, [Next]_vars
    PROVE  LaunchedInv'
<1>1. driver' \in BeforeLoop => launched' = {}
  BY LaunchedSteps DEF LaunchedInv
<1>2. ASSUME NEW x \in launched' PROVE Known(ledger', x[1])
  <2>1. x[1] \in Work /\ Known(ledger, x[1])
    <3>1. CASE x \in launched
      BY <3>1 DEF LaunchedInv, TypeOK
    <3>2. CASE x[1] \in Work /\ Ready(ledger, x[1])
      BY <3>2 DEF Ready, Known
    <3> QED BY <3>1, <3>2, LaunchedSteps
  <2> QED BY <2>1, KnownStays
<1> QED BY <1>1, <1>2 DEF LaunchedInv

\* An attempt that r.launched holds back keeps its goroutine.
LEMMA HeldBackStep ==
    ASSUME TypeOK, StartupInv, GoroutineInv, OutcomeInv, LaunchedInv, CancelInv,
           ScheduleInv, [Next]_vars, RunOpen', NEW w \in Work,
           Launchable(ledger'.work[w]),
           <<w, ledger'.work[w].attempt + 1>> \in launched'
    PROVE  Live(w)'
<1>1. task'[w].pc = "launched" => Live(w)'
  BY DEF Live
<1>2. CASE <<w, ledger'.work[w].attempt + 1>> \in launched
  <2>1. RunOpen
    BY <1>2, LoopSteps DEF LaunchedInv, BeforeLoop
  <2>2. Known(ledger, w)
    BY <1>2 DEF LaunchedInv
  <2>3. CASE Live(w)
    BY <2>1, <2>3, StaysLive
  <2>4. CASE ~Live(w)
    <3>1. SameRecord(w)
      BY <2>1, <2>2, <2>4, TaskSteps
         DEF Marked, Appears, Revoked, Interrupted, Launches, Wiped, Begins,
             Succeeds, Fails, Proceeds, Leaves, SettledAs, Live, Launchable,
             RunOpen
    <3> QED BY <1>2, <2>1, <2>4, <3>1 DEF ScheduleInv, SameRecord
  <2> QED BY <2>3, <2>4
<1> QED BY <1>1, <1>2, LaunchedSteps

\* Ready work keeps its goroutine or the one that will schedule it.
LEMMA ReadyStep ==
    ASSUME TypeOK, StartupInv, GoroutineInv, OutcomeInv, LaunchedInv, CancelInv,
           ScheduleInv, [Next]_vars, RunOpen', NEW w \in Work,
           driver' = "wait", Ready(ledger', w)
    PROVE  \/ Live(w)' \/ PendingSchedule'
           \/ \E d \in ledger'.work[w].deps :
                  task'[d].pc = "reporting" \/ Stops(d)'
<1>1. RunOpen
  BY LoopSteps, RunSteps DEF RunOpen, DriverSchedule
<1>2. Launchable(ledger'.work[w])
  BY DEF Ready, Launchable
<1>3. CASE ScheduleRan
  <2>1. SameRecord(w) /\ \A d \in Work : SameRecord(d)
    BY <1>3 DEF ScheduleRan
  <2>2. ledger.work[w].deps \subseteq Work
    BY AttemptType DEF TypeOK
  <2>3. Ready(ledger, w)
    BY <2>1, <2>2 DEF Ready, DependenciesCompleted, SameRecord
  <2>4. CASE task'[w].pc = "launched"
    BY <2>4 DEF Live
  <2>5. CASE <<w, ledger.work[w].attempt + 1>> \in launched
    <3>1. Live(w)
      BY <1>1, <1>2, <2>1, <2>5 DEF ScheduleInv, SameRecord
    <3> QED BY <1>1, <1>2, <3>1, StaysLive
  <2> QED BY <1>3, <2>3, <2>4, <2>5 DEF ScheduleRan
<1>4. CASE Live(w)
  BY <1>1, <1>2, <1>4, StaysLive
<1>5. CASE PendingSchedule
  BY <1>1, <1>3, <1>5, PendingStep, Schedulers
<1>6. CASE ~ScheduleRan /\ ~Live(w) /\ ~PendingSchedule
  <2>1. driver = "wait"
    BY <1>6, RunSteps, Schedulers
  <2>2. SameRecord(w)
    <3>1. ~Appears(w)
      BY <1>6 DEF Appears, OutcomeInv, PendingSchedule
    <3> QED BY <1>1, <1>2, <1>6, <3>1, TaskSteps
            DEF Marked, Revoked, Interrupted, Launches, Wiped, Begins, Succeeds,
                Fails, Proceeds, Leaves, SettledAs, Live, Launchable, RunOpen
  <2>3. ledger.work[w].deps \subseteq Work \ Consultation
    <3>1. ledger.work[w].deps \subseteq Work
      BY AttemptType DEF TypeOK
    <3> QED BY <3>1 DEF OutcomeInv
  <2>4. CASE Ready(ledger, w)
    <3>1. PICK d \in ledger.work[w].deps : task[d].pc = "reporting" \/ Stops(d)
      BY <1>1, <1>6, <2>1, <2>4 DEF ScheduleInv
    <3>2. task'[d].pc = "reporting" \/ Stops(d)'
      BY <1>1, <1>6, <2>3, <3>1, ReportingStep, StoppingStep
    <3> QED BY <2>2, <3>1, <3>2 DEF SameRecord
  <2>5. CASE ~Ready(ledger, w)
    <3>1. PICK d \in ledger.work[w].deps : ledger.work[d].status # "completed"
      BY <2>2, <2>5 DEF Ready, DependenciesCompleted, SameRecord
    <3>2. ledger'.work[d].status = "completed" /\ d \in Work
      BY <2>2, <2>3, <3>1 DEF Ready, DependenciesCompleted, SameRecord
    <3>3. Succeeds(d)
      BY <3>1, <3>2, TaskSteps
         DEF SameRecord, Marked, Appears, Revoked, Interrupted, Launches, Wiped,
             Begins, Fails, Proceeds, Leaves, SettledAs
    <3> QED BY <2>2, <3>1, <3>3 DEF Succeeds, SameRecord
  <2> QED BY <2>4, <2>5
<1> QED BY <1>3, <1>4, <1>5, <1>6

\* No ready work is forgotten: the driver, the leader and the goroutines call
\* scheduleReady often enough, and r.launched holds nothing back for good.
THEOREM ReadyCorrect == Spec => []ReadyInv
<1>1. Init => LaunchedInv /\ CancelInv /\ ScheduleInv
  BY DEF Init, LaunchedInv, CancelInv, ScheduleInv, RunOpen
<1>2. TypeOK /\ StartupInv /\ StartupInv' /\ GoroutineInv /\ OutcomeInv
         /\ LaunchedInv /\ CancelInv /\ ScheduleInv /\ [Next]_vars
         => LaunchedInv' /\ CancelInv' /\ ScheduleInv'
  <2> SUFFICES ASSUME TypeOK, StartupInv, StartupInv', GoroutineInv, OutcomeInv,
                      LaunchedInv, CancelInv, ScheduleInv, [Next]_vars
               PROVE  LaunchedInv' /\ CancelInv' /\ ScheduleInv'
    OBVIOUS
  <2>1. LaunchedInv' /\ CancelInv'
    BY LaunchedStep, CancelStep
  <2>2. ScheduleInv'
    BY HeldBackStep, ReadyStep DEF ScheduleInv
  <2> QED BY <2>1, <2>2
<1>3. LaunchedInv /\ CancelInv /\ ScheduleInv /\ OutcomeInv => ReadyInv
  BY DEF ReadyInv
<1> QED BY <1>1, <1>2, <1>3, TypeCorrect, StartupCorrect, GoroutinesCorrect,
           OutcomeCorrect, PTL DEF Spec

\* While a session waits, every work that could run has a goroutine or is about
\* to be scheduled by the one of a prerequisite.
THEOREM ReadyWorkIsLaunchedCorrect == Spec => []ReadyWorkIsLaunched
<1>1. ReadyInv => ReadyWorkIsLaunched
  BY DEF ReadyInv, ScheduleInv, ReadyWorkIsLaunched, Waiting, RunOpen, LoopOpen,
         PendingSchedule
<1> QED BY <1>1, ReadyCorrect, PTL

-----------------------------------------------------------------------------
(* A run that is not shut down settles its session.                        *)

\* The driver keeps the invariant: whatever it ends on, it has recorded.
LEMMA DriverSettles ==
    ASSUME TypeOK, StartupInv, LeaderInv, SettledInv, DriverStep \/ DriverFault
    PROVE  SettledInv'
<1> USE DEF SettledInv, Over, runVars, loopVars, queueVars, flagVars, userVars,
            budgetVars
<1>1. /\ ledger \in ProjectionState /\ ctxDone \in BOOLEAN
      /\ ledger.terminal \in BOOLEAN
  BY DEF TypeOK, ProjectionState
<1>2. CASE DriverEnter \/ DriverFindsTerminal \/ DriverMarked \/ DriverLaunch
  BY <1>2 DEF DriverEnter, DriverFindsTerminal, DriverMarked, DriverLaunch, Return,
              StartupInv, BeforeLoop
<1>3. CASE DriverElect
  <2>1. /\ ledger'.terminal = ledger.terminal /\ driver = "elect"
        /\ driver' \in {"mark", "launch"} /\ UNCHANGED <<restarts, unrecorded,
             canceller, stopping, leaderPc, exit, ctxDone>>
    BY <1>1, <1>3 DEF DriverElect, ApplyLeadership, ProjectionState
  <2> QED BY <2>1
<1>4. CASE \E w \in Work : DriverMark(w)
  <2>1. PICK w \in Work : DriverMark(w)
    BY <1>4
  <2>2. PICK n, i : ledger' = ApplyFailed(ledger, w, n, i)
    BY <2>1, Zenon DEF DriverMark
  <2>3. SameSession(ledger, ledger')
    BY <1>1, <2>2, WorkEventsKeepSession
  <2>4. ledger'.terminal = ledger.terminal /\ ledger'.leader = ledger.leader
    BY <2>3 DEF SameSession
  <2> QED BY <2>1, <2>4 DEF DriverMark
<1>5. CASE DriverSchedule \/ DriverWait \/ DriverAbandon
  BY <1>5 DEF DriverSchedule, DriverWait, DriverAbandon
<1>6. CASE DriverFault
  BY <1>6 DEF DriverFault
<1>7. CASE DriverGiveUp
  BY <1>7 DEF DriverGiveUp, Return
<1>11. CASE DriverGiveUpRecord
  <2>1. /\ ledger'.terminal \/ (ctxDone /\ ledger' = ledger)
        /\ driver = "giveUpRecord"
    BY <1>1, <1>11 DEF DriverGiveUpRecord, ApplySessionFailed, ProjectionState
  <2> QED BY <1>11, <2>1 DEF DriverGiveUpRecord, Return
<1>8. CASE DriverClassify
  BY <1>8 DEF DriverClassify, Return
<1>9. CASE DriverFail
  BY <1>9 DEF DriverFail, Return
<1>10. CASE DriverRecord
  <2>1. ledger'.terminal
    BY <1>1, <1>10 DEF DriverRecord, ApplySessionFailed, ProjectionState
  <2> QED BY <1>10, <2>1 DEF DriverRecord, Return
<1> QED BY <1>2, <1>3, <1>4, <1>5, <1>6, <1>7, <1>8, <1>9, <1>10, <1>11
        DEF DriverStep

\* The leader keeps the invariant: its loop ends with an answer, with an error
\* the driver records, or because something else has ended the session.
LEMMA LeaderSettles ==
    ASSUME TypeOK, StartupInv, LeaderInv, SettledInv,
           LeaderStep \/ LeaderChoice \/ LeaderFault
    PROVE  SettledInv'
<1> USE DEF SettledInv, Over
<1>1. /\ leaderPc # "off" /\ driver' = driver /\ driver # "enter"
      /\ ledger.leader \in Agent /\ ledger.leader # NoAgent
  BY LeaderNeedsLoop, NoAgentAssumption
     DEF LeaderInv, LeadershipInv, StartupInv, BeforeLoop
<1>2. /\ UNCHANGED <<restarts, canceller, ctxDone, unrecorded>>
      /\ leaderPc = "stopped" => leaderPc' = "stopped"
  BY LeaderChoices
     DEF LeaderStep, TurnBegin, LoopExit, LeaderCancelCheck, LeaderCancelAppend,
         LeaderCancelSignal, LeaderCreate, LeaderHandoff, LeaderSchedule,
         LeaderFinal, LeaderStop, LeaderInterrupted, TurnError, LeaderAnswer,
         LeaderModelFails, LeaderAborted, LeaderDecide, LeaderFault, Settled,
         LeaderChoice, flagVars, userVars, budgetVars
<1>3. ledger.terminal => ledger'.terminal
  BY SessionSteps DEF Next
<1>4. CASE ledger'.terminal \/ unrecorded'
  BY <1>1, <1>2, <1>4
<1>5. CASE ~ledger'.terminal /\ ~unrecorded'
  <2>1. /\ ~ledger.terminal /\ ~unrecorded /\ ~ctxDone /\ driver # "exited" /\ stopping # "now"
        /\ leaderPc # "stop" /\ canceller # "appended"
        /\ stopping = "afterTurn" => driver \in {"giveUp", "giveUpRecord"}
    BY <1>1, <1>2, <1>3, <1>5
  <2>2. /\ UNCHANGED stopping
        /\ leaderPc' # "stop"
        /\ leaderPc' = "stopped" /\ exit' # "error" =>
              stopping # "no" \/ (leaderPc = "stopped" /\ exit # "error")
    <3>1. ~LeaderFinal
      BY <1>5 DEF LeaderFinal, ApplyFinalCompleted, TypeOK, ProjectionState
    <3>2. CASE LeaderStep
      BY <2>1, <3>1, <3>2
         DEF LeaderStep, TurnBegin, LoopExit, LeaderCancelCheck,
             LeaderCancelAppend, LeaderCancelSignal, LeaderCreate,
             LeaderHandoff, LeaderSchedule, LeaderStop, LeaderInterrupted,
             TurnEnd, Settled, queueVars
    <3>3. CASE LeaderChoice \/ LeaderFault
      BY <2>1, <3>3, LeaderChoices
         DEF LeaderAnswer, LeaderModelFails, LeaderAborted, LeaderDecide,
             LeaderFault, TurnError, LeaderChoice, queueVars
    <3> QED BY <3>2, <3>3
  <2>3. stopping \in {"no", "afterTurn", "now"}
    BY DEF TypeOK, Stopping
  <2> QED BY <1>1, <1>2, <2>1, <2>2, <2>3
<1> QED BY <1>4, <1>5

\* A goroutine stops the loop only after the session has failed.
LEMMA WorkerSettles ==
    ASSUME TypeOK, WindingDownInv, SettledInv, NEW w \in Work,
           WorkerStep(w) \/ WorkerFault(w)
    PROVE  SettledInv'
<1> USE DEF SettledInv, Over
<1>1. /\ UNCHANGED <<driver, leaderPc, exit, ctxDone, canceller, restarts>>
      /\ stopping' = stopping \/ (stopping' = "now" /\ task[w].pc = "halting")
  BY DEF WorkerStep, WorkerFault, WorkerCheck, WorkerRegister, WorkerStart,
         WorkerStartRefused, WorkerReturn, WorkerComplete,
         WorkerCompleteRefused, WorkerFailCheck, WorkerFail, WorkerReport,
         WorkerFaultRead, WorkerFaultRecord, WorkerHalt, LocalStep,
         runVars, loopVars, queueVars, flagVars, userVars, budgetVars
<1>2. ledger.terminal => ledger'.terminal
  BY SessionSteps DEF Next
<1>3. ledger'.leader = ledger.leader
  <2>1. ~DriverElect /\ ~LeaderHandoff
    BY <1>1 DEF DriverElect, LeaderHandoff, TurnEnd, Settled
  <2> QED BY <2>1, SessionSteps DEF Next
<1>4. task[w].pc = "halting" => Over
  BY DEF WindingDownInv
<1>5. unrecorded => unrecorded'
  <2>1. driver # "down"
    OBVIOUS
  <2> QED BY <1>1, <2>1, UnrecordedStays DEF Next
<1> QED BY <1>1, <1>2, <1>3, <1>4, <1>5

\* Cancelling appends SessionCancelled before it ends the run's context; a
\* process that stays neither shuts down nor dies.
LEMMA UserSettles ==
    ASSUME TypeOK, SettledInv, MaxRestarts = 0, UserStep
    PROVE  SettledInv'
<1> USE DEF SettledInv, Over
<1>1. ~Crash /\ ~Shutdown /\ ~Resume
  BY DEF Crash, Shutdown, Resume
<1>2. UNCHANGED <<driver, leaderPc, exit, stopping, restarts>>
  BY <1>1
     DEF UserStep, SteerCheck, SteerAppend, SteerPush, CancelFlag, CancelAppend,
         CancelContext, OutsideCheck, OutsideAppend,
         runVars, loopVars,
         queueVars, budgetVars
<1>3. /\ ledger.terminal => ledger'.terminal
      /\ ledger'.leader = ledger.leader
      /\ canceller' = "appended" =>
            ledger'.terminal \/ unrecorded' \/ canceller = "appended"
      /\ unrecorded => unrecorded'
  BY <1>1
     DEF UserStep, SteerCheck, SteerAppend, SteerPush, CancelFlag, CancelAppend,
         CancelContext, OutsideCheck, OutsideAppend,
         ApplyInstruction,
         ApplySessionCancelled, TypeOK, ProjectionState, userVars, budgetVars
<1>4. ctxDone' = ctxDone \/ canceller = "appended"
  BY <1>1
     DEF UserStep, SteerCheck, SteerAppend, SteerPush, CancelFlag, CancelAppend,
         CancelContext, OutsideCheck, OutsideAppend, flagVars
<1> QED BY <1>2, <1>3, <1>4

\* In a process that stays, a run that chose a leader ends with the session
\* answered, failed or cancelled, whichever store calls failed and whoever
\* cancelled, unless a failed call was the one to record that very end: a read
\* or the append of r.fail, or the append of Engine.Cancel.
THEOREM RunSettlesSessionCorrect ==
    ASSUME MaxRestarts = 0
    PROVE  Spec => []RunSettlesSession
<1>1. Init => SettledInv
  BY DEF Init, SettledInv, EmptyProjection
<1>2. TypeOK /\ StartupInv /\ LeaderInv /\ RunningInv /\ SettledInv /\ [Next]_vars
         => SettledInv'
  <2> SUFFICES ASSUME TypeOK, StartupInv, LeaderInv, RunningInv, SettledInv,
                      [Next]_vars
               PROVE  SettledInv'
    OBVIOUS
  <2>1. CASE UNCHANGED vars
    BY <2>1 DEF vars, runVars, loopVars, queueVars, flagVars, userVars,
                budgetVars, SettledInv, Over
  <2> QED BY <2>1, DriverSettles, LeaderSettles, WorkerSettles, UserSettles
          DEF Next, RunningInv
<1>3. SettledInv => RunSettlesSession
  BY DEF SettledInv, Over, RunSettlesSession
<1> QED BY <1>1, <1>2, <1>3, TypeCorrect, StartupCorrect, LeaderCorrect,
           RunningCorrect, PTL DEF Spec
-----------------------------------------------------------------------------
(* The life of a work.                                                     *)

\* A goroutine whose model has been called and whose outcome is not recorded.
InAttempt == {"running", "succeeded", "broken", "aborted", "failing"}

\* What a goroutine in its attempt may still settle: a cancellation is all that
\* can have come in between.
AttemptInv ==
    \A w \in Work : task[w].pc \in InAttempt =>
        /\ ledger.work[w].status \in {"running", "cancelled"}
        /\ ledger.work[w].attempt > 0 /\ ~ledger.work[w].result

\* The prerequisites of a new work exist or are created before it, and peer
\* turns have none.
NewWorkInv ==
    /\ \A w \in plan.create : \A d \in plan.deps[w] :
          Known(ledger, d) \/ (d \in plan.create /\ d < w)
    /\ \A w \in Consultation : plan.deps[w] = {}

LifecycleInv == AttemptInv /\ NewWorkInv

\* Nothing but its own goroutine takes work out of an attempt, except that its
\* leader may cancel it.
LEMMA AttemptStep ==
    ASSUME TypeOK, StartupInv, GoroutineInv, GoroutineInv', OutcomeInv,
           AttemptInv, [Next]_vars
    PROVE  AttemptInv'
<1> SUFFICES ASSUME NEW w \in Work, task'[w].pc \in InAttempt
             PROVE  /\ ledger'.work[w].status \in {"running", "cancelled"}
                    /\ ledger'.work[w].attempt > 0 /\ ~ledger'.work[w].result
  BY DEF AttemptInv
<1>1. ledger.work[w].attempt \in Nat /\ WorkOK(w) /\ WorkOK(w)'
  BY AttemptType DEF TypeOK, GoroutineInv
<1>2. CASE Begins(w)
  <2>1. ~ledger'.work[w].result /\ ledger'.work[w].status = "running"
    BY <1>1, <1>2 DEF WorkOK, RecordOK, Begins, SettledAs
  <2>2. ledger'.work[w].attempt = ledger.work[w].attempt + 1
    <3>1. ledger.work[w].status # "running" /\ task[w].attempt = ledger.work[w].attempt + 1
      BY <1>1, <1>2 DEF Begins, WorkOK, BeforeStartOK, BeforeStart, Launchable
    <3>2. Started(w)
      BY <2>1, <3>1, WorkSteps DEF Created, Settles
    <3> QED BY <3>1, <3>2 DEF Started
  <2> QED BY <1>1, <2>1, <2>2
<1>3. CASE Revoked(w)
  <2>1. task[w].pc \in InAttempt
    BY <1>3 DEF Revoked, SameTask
  <2>2. ledger'.work[w].attempt = ledger.work[w].attempt
    BY <1>1, <1>3, <2>1, WorkSteps
       DEF Revoked, SettledAs, Created, Started, Settles
  <2> QED BY <1>3, <2>1, <2>2 DEF AttemptInv, Revoked, SettledAs
<1>4. CASE Proceeds(w)
  BY <1>4 DEF AttemptInv, Proceeds, SameRecord, InAttempt
<1>5. CASE \/ Launches(w) \/ Wiped(w) \/ Succeeds(w) \/ Fails(w) \/ Leaves(w)
  BY <1>5 DEF Launches, Wiped, Succeeds, Fails, Leaves, InAttempt
<1>6. CASE SameRecord(w) /\ (SameTask(w) \/ Interrupted(w))
  BY <1>6 DEF AttemptInv, SameRecord, SameTask, Interrupted
<1>7. ~Marked(w)
  BY DEF Marked, StartupInv, BeforeLoop, InAttempt, SameTask
<1>8. ~Appears(w)
  BY <1>1 DEF Appears, WorkOK, RecordOK, InAttempt, SameTask
<1> QED BY <1>2, <1>3, <1>4, <1>5, <1>6, <1>7, <1>8, TaskSteps DEF Interrupted

\* What a decision leaves to create keeps its prerequisites in front of it.
LEMMA NewWorkStep ==
    ASSUME TypeOK, StartupInv, GoroutineInv, NewWorkInv, [Next]_vars
    PROVE  NewWorkInv'
<1>1. /\ plan.create \subseteq Work /\ \A w \in Work : plan.deps[w] \subseteq Work
      /\ Consultation \subseteq Work
  BY RuntimeAssumption DEF TypeOK, Plan
<1>2. \A d \in Work : Known(ledger, d) => Known(ledger', d)
  BY KnownStays
<1>3. CASE plan'.create = {} /\ \A w \in Work : plan'.deps[w] = {}
  BY <1>1, <1>3 DEF NewWorkInv
<1>4. CASE PlanKept
  <2>1. \A d \in plan.create : d \in plan'.create \/ Known(ledger', d)
    <3>1. CASE \E w \in Work : LeaderCreate(w) /\ plan'.create = plan.create \ {w}
      <4>1. PICK w \in Work : LeaderCreate(w) /\ plan'.create = plan.create \ {w}
        BY <3>1
      <4>2. ledger' = ApplyCreated(ledger, w, plan.deps[w]) /\ ledger \in ProjectionState
        BY <4>1 DEF LeaderCreate, TypeOK
      <4>3. Known(ledger', w)
        BY <4>2, CreatedResult DEF Known
      <4> QED BY <4>1, <4>3
    <3> QED BY <1>4, <3>1 DEF PlanKept
  <2>2. plan'.create \subseteq plan.create /\ plan'.deps = plan.deps
    BY <1>4 DEF PlanKept
  <2> QED BY <1>1, <1>2, <2>1, <2>2 DEF NewWorkInv
<1>5. CASE plan' = NoPlan \/ plan' = [NoPlan EXCEPT !.answer = TRUE]
  <2>1. plan'.create = {} /\ \A w \in Work : plan'.deps[w] = {}
    BY <1>5 DEF NoPlan, NoDeps
  <2> QED BY <1>3, <2>1
<1>6. CASE LeaderAnswer
  <2>1. plan'.create = {} /\ \A w \in Work : plan'.deps[w] = {}
    BY <1>6 DEF LeaderAnswer, NoPlan, NoDeps
  <2> QED BY <1>3, <2>1
<1>7. ASSUME NEW create \in SUBSET Work, NEW cancel \in SUBSET Work,
             NEW handoff \in Agent \cup {NoAgent}, NEW deps \in PartialDeps,
             LeaderDecide(cancel, create, deps, handoff)
      PROVE  NewWorkInv'
  <2>1. /\ plan'.create = create /\ ledger' = ledger
        /\ \A w \in Work : plan'.deps[w] = IF w \in DOMAIN deps THEN deps[w] ELSE {}
    BY <1>7 DEF LeaderDecide, NoPlan
  <2>2. DOMAIN deps \cap Consultation = {}
    BY DEF PartialDeps
  <2>3. \A w \in DOMAIN deps : \A d \in deps[w] :
           Known(ledger, d) \/ (d \in create /\ d < w)
    BY <1>7 DEF LeaderDecide, ValidDeps
  <2> QED BY <1>1, <2>1, <2>2, <2>3 DEF NewWorkInv
<1> QED BY <1>4, <1>5, <1>6, <1>7, PlanSteps

\* Every attempt under way may still settle, and new work comes after what it
\* waits for.
THEOREM LifecycleInvCorrect == Spec => []LifecycleInv
<1>1. Init => LifecycleInv
  <2> SUFFICES ASSUME Init PROVE LifecycleInv
    OBVIOUS
  <2>1. \A w \in Work : task[w].pc = "none"
    BY DEF Init, NoTask
  <2>2. plan.create = {} /\ \A w \in Work : plan.deps[w] = {}
    BY DEF Init, NoPlan, NoDeps
  <2> QED BY <2>1, <2>2, RuntimeAssumption
          DEF LifecycleInv, AttemptInv, NewWorkInv, InAttempt
<1>2. TypeOK /\ StartupInv /\ GoroutineInv /\ GoroutineInv' /\ OutcomeInv
         /\ LifecycleInv /\ [Next]_vars => LifecycleInv'
  BY AttemptStep, NewWorkStep DEF LifecycleInv
<1> QED BY <1>1, <1>2, TypeCorrect, StartupCorrect, GoroutinesCorrect,
           OutcomeCorrect, PTL DEF Spec

\* An event about known work replaces its record and no other.
LEMMA RecordReplaced ==
    ASSUME NEW p \in ProjectionState, NEW w \in Work, NEW r
    PROVE  /\ SetWork(p, w, r).work = [p.work EXCEPT ![w] = r]
           /\ Known(p, w) => UpdateWork(p, w, r).work = [p.work EXCEPT ![w] = r]
BY DEF SetWork, UpdateWork, ProjectionState

\* The driver's steps: an attempt left behind is interrupted.
LEMMA DriverLives ==
    ASSUME TypeOK, DriverStep \/ DriverFault
    PROVE  Lifecycle!Next \/ UNCHANGED ledger.work
<1>1. ledger \in ProjectionState
  BY DEF TypeOK
<1>2. ASSUME NEW w \in Work, DriverMark(w)
      PROVE  Lifecycle!Interrupt(w)
  <2> DEFINE r == [ledger.work[w] EXCEPT !.status = "failed",
                        !.attempt = ledger.work[w].attempt, !.interrupted = TRUE]
  <2>1. /\ ledger.work[w].status = "running"
        /\ ledger' = ApplyFailed(ledger, w, ledger.work[w].attempt, TRUE)
    BY <1>2, Zenon DEF DriverMark
  <2>2. ledger' = UpdateWork(ledger, w, r)
    BY <2>1 DEF ApplyFailed
  <2>3. r = [ledger.work[w] EXCEPT !.status = "failed", !.interrupted = TRUE]
    BY AttemptType, <1>1 DEF WorkRecord
  <2> HIDE DEF r
  <2>4. Known(ledger, w)
    BY <2>1 DEF Known
  <2>5. ledger'.work = [ledger.work EXCEPT ![w] = r]
    BY <1>1, <2>2, <2>4, RecordReplaced
  <2> QED BY <2>1, <2>3, <2>5 DEF Lifecycle!Interrupt
<1>3. CASE ~\E w \in Work : DriverMark(w)
  BY <1>1, <1>3
     DEF DriverStep, DriverEnter, DriverFindsTerminal, DriverElect,
         DriverMarked, DriverLaunch, DriverSchedule, DriverAbandon,
         DriverGiveUp, DriverGiveUpRecord,
         DriverWait, DriverClassify, DriverFail, DriverRecord,
         DriverFault, Return, ApplyLeadership, ApplySessionFailed,
         ProjectionState
<1> QED BY <1>2, <1>3 DEF Lifecycle!Next

\* The leader's steps: work is created after its prerequisites, or cancelled.
LEMMA LeaderLives ==
    ASSUME TypeOK, GoroutineInv, OutcomeInv, NewWorkInv,
           LeaderStep \/ LeaderChoice \/ LeaderFault
    PROVE  Lifecycle!Next \/ UNCHANGED ledger.work
<1>1. ledger \in ProjectionState /\ plan \in Plan
  BY DEF TypeOK
<1>2. ASSUME NEW w \in Work, LeaderCancelAppend(w)
      PROVE  Lifecycle!Cancel(w)
  <2> DEFINE r == [ledger.work[w] EXCEPT !.status = "cancelled", !.interrupted = FALSE]
  <2>1. ledger' = UpdateWork(ledger, w, r) /\ Known(ledger, w)
    BY <1>2 DEF LeaderCancelAppend, ApplyCancelled, OutcomeInv
  <2> HIDE DEF r
  <2>2. ledger'.work = [ledger.work EXCEPT ![w] = r]
    BY <1>1, <2>1, RecordReplaced
  <2> QED BY <2>1, <2>2 DEF r, Lifecycle!Cancel, Lifecycle!Existing, Known
<1>3. ASSUME NEW w \in Work, LeaderCreate(w)
      PROVE  Lifecycle!Create(w)
  <2> DEFINE r == [AbsentWork EXCEPT !.status = "pending", !.deps = plan.deps[w]]
  <2>1. /\ ledger' = SetWork(ledger, w, r) /\ w \in plan.create
        /\ \A v \in plan.create \ {w} :
              IF v \in Consultation <=> w \in Consultation THEN w < v
              ELSE v \in Consultation
    BY <1>3 DEF LeaderCreate, ApplyCreated
  <2>2. ~Known(ledger, w)
    BY <2>1 DEF GoroutineInv, PlanInv
  <2>3. ASSUME NEW d \in plan.deps[w]
        PROVE  d \in Lifecycle!Existing
    <3>1. d \in Work /\ d \notin Consultation /\ w \notin Consultation
      BY <1>1 DEF Plan, OutcomeInv, NewWorkInv
    <3>2. Known(ledger, d) \/ (d \in plan.create /\ d < w)
      BY <2>1 DEF NewWorkInv
    <3>3. ~(d \in plan.create /\ d < w)
      BY <2>1, <3>1, RuntimeAssumption
    <3> QED BY <3>1, <3>2, <3>3 DEF Lifecycle!Existing, Known
  <2> HIDE DEF r
  <2>4. ledger'.work = [ledger.work EXCEPT ![w] = r]
    BY <1>1, <2>1, RecordReplaced
  <2>5. r = [Lifecycle!Unborn EXCEPT !.status = "pending", !.deps = plan.deps[w]]
    BY DEF r, AbsentWork, Lifecycle!Unborn
  <2> QED BY <2>2, <2>3, <2>4, <2>5 DEF Lifecycle!Create, Lifecycle!Existing, Known
<1>4. CASE /\ LeaderStep
           /\ ~\E w \in Work : LeaderCancelAppend(w) \/ LeaderCreate(w)
  BY <1>1, <1>4
     DEF LeaderStep, TurnBegin, LoopExit, LeaderCancelCheck,
         LeaderCancelSignal, LeaderHandoff, LeaderSchedule, LeaderFinal,
         LeaderStop, LeaderInterrupted, TurnError, ApplyTurnStarted,
         ApplyLeadership, ApplyFinalCompleted, ProjectionState
<1>5. CASE LeaderChoice \/ LeaderFault
  BY <1>5, LeaderChoices
     DEF LeaderAnswer, LeaderModelFails, LeaderAborted, LeaderDecide,
         LeaderFault, TurnError
<1> QED BY <1>2, <1>3, <1>4, <1>5 DEF Lifecycle!Next

\* A goroutine's steps: its attempt starts, or settles under its own number.
LEMMA WorkerLives ==
    ASSUME TypeOK, GoroutineInv, AttemptInv, NEW w \in Work,
           WorkerStep(w) \/ WorkerFault(w)
    PROVE  Lifecycle!Next \/ UNCHANGED ledger.work
<1>1. /\ ledger \in ProjectionState /\ WorkOK(w) /\ Known(ledger, w)
      /\ ledger.work[w] \in WorkRecord
  BY WorkerFrame, AttemptType DEF TypeOK, GoroutineInv, WorkOK, RecordOK, Live
<1>2. CASE WorkerStart(w)
  <2> DEFINE r == [ledger.work[w] EXCEPT !.status = "running",
                        !.attempt = task[w].attempt, !.interrupted = FALSE]
  <2>1. ledger' = UpdateWork(ledger, w, r) /\ task[w].pc = "registered"
    BY <1>2 DEF WorkerStart, ApplyStarted
  <2>2. /\ task[w].attempt = ledger.work[w].attempt + 1
        /\ Lifecycle!Startable(w) /\ ~ledger.work[w].result
        /\ \A d \in ledger.work[w].deps : ledger.work[d].result
    BY <1>1, <2>1 DEF WorkOK, BeforeStartOK, BeforeStart, Launchable,
                      GoroutineInv, PrerequisitesInv, Lifecycle!Startable
  <2>3. r = [ledger.work[w] EXCEPT !.status = "running",
                  !.attempt = ledger.work[w].attempt + 1, !.interrupted = FALSE]
    BY <2>2
  <2> HIDE DEF r
  <2>4. ledger'.work = [ledger.work EXCEPT ![w] = r]
    BY <1>1, <2>1, RecordReplaced
  <2>5. Lifecycle!Start(w)
    BY <1>1, <2>2, <2>3, <2>4 DEF Lifecycle!Start, WorkRecord
  <2> QED BY <2>5 DEF Lifecycle!Next
<1>3. CASE WorkerComplete(w)
  <2> DEFINE r == [ledger.work[w] EXCEPT !.status = "completed",
           !.attempt = task[w].attempt, !.interrupted = FALSE, !.result = TRUE]
  <2>1. ledger' = UpdateWork(ledger, w, r) /\ task[w].pc = "succeeded"
    BY <1>3 DEF WorkerComplete, ApplyCompleted
  <2>2. Lifecycle!Underway(w) /\ task[w].attempt = ledger.work[w].attempt
    BY <1>1, <2>1 DEF WorkOK, AfterStartOK, AfterStart, AttemptInv, InAttempt,
                      Lifecycle!Underway
  <2>3. r = [ledger.work[w] EXCEPT !.status = "completed",
                                   !.interrupted = FALSE, !.result = TRUE]
    BY <1>1, <2>2 DEF WorkRecord
  <2> HIDE DEF r
  <2>4. ledger'.work = [ledger.work EXCEPT ![w] = r]
    BY <1>1, <2>1, RecordReplaced
  <2>5. Lifecycle!Complete(w)
    BY <2>2, <2>3, <2>4 DEF Lifecycle!Complete
  <2> QED BY <2>5 DEF Lifecycle!Next
<1>4. CASE WorkerFail(w)
  <2> DEFINE r == [ledger.work[w] EXCEPT !.status = "failed",
                        !.attempt = task[w].attempt, !.interrupted = FALSE]
  <2>1. /\ ledger' = ApplyFailed(ledger, w, task[w].attempt, FALSE)
        /\ task[w].pc = "failing"
    BY <1>4, Zenon DEF WorkerFail
  <2>2. ledger' = UpdateWork(ledger, w, r)
    BY <2>1 DEF ApplyFailed
  <2>3. Lifecycle!Underway(w) /\ task[w].attempt = ledger.work[w].attempt
    BY <1>1, <2>1 DEF WorkOK, AfterStartOK, AfterStart, AttemptInv, InAttempt,
                      Lifecycle!Underway
  <2>4. r = [ledger.work[w] EXCEPT !.status = "failed", !.interrupted = FALSE]
    BY <1>1, <2>3 DEF WorkRecord
  <2> HIDE DEF r
  <2>5. ledger'.work = [ledger.work EXCEPT ![w] = r]
    BY <1>1, <2>2, RecordReplaced
  <2>6. Lifecycle!Fail(w)
    BY <2>3, <2>4, <2>5 DEF Lifecycle!Fail
  <2> QED BY <2>6 DEF Lifecycle!Next
<1>5. CASE ~WorkerStart(w) /\ ~WorkerComplete(w) /\ ~WorkerFail(w)
  BY <1>1, <1>5
     DEF WorkerStep, WorkerFault, WorkerCheck, WorkerRegister,
         WorkerStartRefused, WorkerReturn, WorkerCompleteRefused,
         WorkerFailCheck, WorkerReport, WorkerFaultRead, WorkerFaultRecord,
         WorkerHalt, LocalStep, ApplySessionFailed, ProjectionState
<1> QED BY <1>2, <1>3, <1>4, <1>5

\* Whatever goroutines, processes and users do, the works of a session live as
\* WorkLifecycle says: the runtime implements it step by step.
THEOREM LifecycleCorrect == Spec => WorksFollowTheirLifecycle
<1>1. Init => Lifecycle!Init
  BY DEF Init, EmptyProjection, AbsentWork, Lifecycle!Init, Lifecycle!Unborn
<1>2. TypeOK /\ GoroutineInv /\ OutcomeInv /\ LifecycleInv /\ [Next]_vars
         => [Lifecycle!Next]_(ledger.work)
  <2> SUFFICES ASSUME TypeOK, GoroutineInv, OutcomeInv, LifecycleInv, [Next]_vars
               PROVE  Lifecycle!Next \/ UNCHANGED ledger.work
    OBVIOUS
  <2>1. CASE UserStep
    BY <2>1 DEF UserStep, SteerCheck, SteerAppend, SteerPush, CancelFlag,
                CancelAppend, CancelContext, OutsideCheck, OutsideAppend,
                Shutdown, Crash, Resume, ApplyInstruction,
                ApplySessionCancelled, TypeOK, ProjectionState
  <2>2. CASE UNCHANGED vars
    BY <2>2 DEF vars
  <2> QED BY <2>1, <2>2, DriverLives, LeaderLives, WorkerLives
          DEF Next, LifecycleInv
<1> QED BY <1>1, <1>2, TypeCorrect, GoroutinesCorrect, OutcomeCorrect,
           LifecycleInvCorrect, PTL
        DEF Spec, WorksFollowTheirLifecycle, Lifecycle!Spec
=============================================================================
