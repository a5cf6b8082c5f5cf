--------------------------- MODULE SessionRuntime ---------------------------
(***************************************************************************)
(* One durable session of ALT and the goroutines that run it:              *)
(*   - the driver, sessionRuntime.execute (runtime.go);                    *)
(*   - the leader, one turn at a time under the Eino TurnLoop;             *)
(*   - one goroutine per launched delegation or peer turn;                 *)
(*   - the user: steering, cancelling, quitting; another process that      *)
(*     cancels through the store; a crash and a later resume.              *)
(*                                                                         *)
(* They share the ledger and a few flags and hold no common lock, so each  *)
(* read of the projection and each Append is a step of its own whenever    *)
(* another goroutine can act in between.  Everything except the ledger is  *)
(* lost with the process.                                                  *)
(***************************************************************************)
EXTENDS Projection

CONSTANTS
    Consultation,       \* the ids in Work that are peer turns
    Primary,            \* the agent every user turn enters through
    Peers,              \* Peers[a]: the agents a may consult or hand off to
    MaxTurns,           \* bound on leader turns: the last one cannot coordinate
    MaxSteers,          \* bound on user instructions
    MaxRestarts,        \* bound on process deaths
    MaxFaults,          \* bound on failing store calls
    UserMayCancel,      \* whether the user of this process cancels
    OthersMayCancel     \* whether another process cancels through the store

ASSUME RuntimeAssumption ==
    /\ Work \subseteq Nat
    /\ Consultation \subseteq Work
    /\ Primary \in Agent
    /\ Peers \in [Agent -> SUBSET Agent]
    /\ {MaxTurns, MaxSteers, MaxRestarts, MaxFaults} \subseteq Nat
    /\ {UserMayCancel, OthersMayCancel} \subseteq BOOLEAN

VARIABLES
    ledger,         \* durable: the projection of the session's events
    driver,         \* where execute stands
    recovered,      \* execute's argument: this run resumes an earlier one
    leaderPc,       \* where the turn loop and the leader's turn stand
    exit,           \* why the turn loop ended (TurnLoopExitState.ExitReason)
    snap,           \* what the leader read when its latest turn began
    plan,           \* what remains to be done of the leader's outcome
    signalled,      \* the turn loop's buffer holds a signal
    stopping,       \* Stop has been called on the turn loop
    task,           \* the goroutine of each work item
    launched,       \* r.launched: attempts scheduleReady has started
    ctxDone,        \* the run's context is cancelled
    userCancelled,  \* run.userCancelled
    finalizing,     \* run.finalizing
    steer,          \* where SteerInput stands
    accepted,       \* instructions known to be in the ledger at the last
                    \* SteerInput that returned nil
    canceller,      \* where Cancel stands
    restarts,       \* process deaths so far
    faults,         \* store calls that have failed so far
    unrecorded      \* history: the call that was to end the session in the
                    \* ledger failed itself, and its error was dropped

runVars    == <<driver, recovered>>
loopVars   == <<leaderPc, exit, snap, plan>>
queueVars  == <<signalled, stopping>>
workVars   == <<task, launched>>
flagVars   == <<ctxDone, userCancelled, finalizing>>
userVars   == <<steer, accepted, canceller>>
budgetVars == <<restarts, faults, unrecorded>>
vars == <<ledger, runVars, loopVars, queueVars, workVars, flagVars, userVars,
          budgetVars>>

DriverPc == {"enter", "elect", "mark", "launch", "schedule", "wait",
             "classify", "fail", "record", "giveUp", "giveUpRecord", "exited",
             "down"}
LeaderPc == {"off", "idle", "model", "cancel", "cancelAppend", "cancelSignal",
             "stop", "stopped"}
TaskPc   == {"none", "launched", "admitted", "registered", "running",
             "succeeded", "broken", "aborted", "failing", "reporting",
             "notifying", "faulted", "recording", "halting", "done"}
Stopping == {"no", "afterTurn", "now"}
ExitReason == {"none", "error", "ctx"}

Task == [pc: TaskPc, attempt: Nat, cancelled: BOOLEAN]
Snap == [leader: Agent \cup {NoAgent}, observed: BOOLEAN, seen: SUBSET Work,
         instructions: Nat]
\* cancel: works still to cancel; doing: the one being cancelled; create:
\* works still to create, with deps; wake: push "work.cancelled" at the end.
Plan == [cancel: SUBSET Work, doing: SUBSET Work, create: SUBSET Work,
         deps: [Work -> SUBSET Work], answer: BOOLEAN,
         handoff: Agent \cup {NoAgent}, wake: BOOLEAN]

NoTask == [w \in Work |-> [pc |-> "none", attempt |-> 0, cancelled |-> FALSE]]
NoSnap == [leader |-> NoAgent, observed |-> FALSE, seen |-> {},
           instructions |-> 0]
NoDeps == [w \in Work |-> {}]
NoPlan == [cancel |-> {}, doing |-> {}, create |-> {}, deps |-> NoDeps,
           answer |-> FALSE, handoff |-> NoAgent, wake |-> FALSE]

\* A goroutine that has been launched and has not returned.
Live(w) == task[w].pc \notin {"none", "done"}

\* r.active[w]: the goroutine has registered a cancel function.
Registered(w) == task[w].pc \notin {"none", "launched", "admitted", "done"}

\* stopWithError: the goroutine is on its way to stop the loop.
Stops(w) == task[w].pc \in {"faulted", "recording", "halting"}

\* Engine.runs holds the session.
RunPresent == driver \notin {"exited", "down"}

\* The leader's turn is under way.
InTurn == leaderPc \in {"model", "cancel", "cancelAppend", "cancelSignal", "stop"}

-----------------------------------------------------------------------------
(* pushSignal and scheduleReady.                                           *)

\* TurnLoop.Push refuses a signal once Stop has been called; before the loop
\* is installed the signal waits in r.pending.
PushAccepted == stopping = "no" /\ leaderPc # "stopped"

Pushed == signalled \/ PushAccepted

\* mutant: no record of what has been launched
BugLaunchAgain(tasks) ==
    LET next(w) == ledger.work[w].attempt + 1
        start   == {w \in Work : Ready(ledger, w)}
    IN  /\ task' = [w \in Work |->
                      IF w \in start
                      THEN [pc |-> "launched", attempt |-> next(w), cancelled |-> FALSE]
                      ELSE tasks[w]]
        /\ launched' = launched

\* Launch every ready work whose next attempt has no goroutine yet, the rest
\* of the goroutines standing as in tasks.
ScheduleReady(tasks) ==
    LET next(w) == ledger.work[w].attempt + 1
        start   == {w \in Work : Ready(ledger, w) /\ <<w, next(w)>> \notin launched}
    IN  /\ task' = [w \in Work |->
                      IF w \in start
                      THEN [pc |-> "launched", attempt |-> next(w), cancelled |-> FALSE]
                      ELSE tasks[w]]
        /\ launched' = launched \cup {<<w, next(w)>> : w \in start}

-----------------------------------------------------------------------------
Init ==
    /\ ledger = EmptyProjection
    /\ driver = "enter" /\ recovered = FALSE
    /\ leaderPc = "off" /\ exit = "none" /\ snap = NoSnap /\ plan = NoPlan
    /\ signalled = FALSE /\ stopping = "no"
    /\ task = NoTask /\ launched = {}
    /\ ctxDone = FALSE /\ userCancelled = FALSE /\ finalizing = FALSE
    /\ steer = "idle" /\ accepted = 0 /\ canceller = "idle"
    /\ restarts = 0 /\ faults = 0 /\ unrecorded = FALSE

-----------------------------------------------------------------------------
(* The driver: sessionRuntime.execute.                                     *)

\* execute returns: its deferred cancel ends the run's context.
Return ==
    /\ driver' = "exited" /\ ctxDone' = TRUE
    /\ UNCHANGED <<recovered, loopVars, queueVars, workVars, userCancelled,
                   finalizing, userVars, budgetVars>>

\* mutant: a resume does not look for interrupted work
BugNoMark ==
    /\ driver = "enter" /\ ~ctxDone /\ ~ledger.terminal
    /\ driver' = IF ledger.leader = NoAgent THEN "elect" ELSE "launch"
    /\ UNCHANGED <<ledger, recovered, loopVars, queueVars, workVars, flagVars,
                   userVars, budgetVars>>

\* SessionRecovered (no effect on the projection), then the first read.
DriverEnter ==
    /\ driver = "enter" /\ ~ctxDone /\ ~ledger.terminal
    /\ driver' = IF ledger.leader = NoAgent THEN "elect"
                 ELSE IF recovered THEN "mark" ELSE "launch"
    /\ UNCHANGED <<ledger, recovered, loopVars, queueVars, workVars, flagVars,
                   userVars, budgetVars>>

DriverFindsTerminal ==
    /\ driver = "enter" /\ ledger.terminal
    /\ Return /\ UNCHANGED ledger

DriverElect ==
    /\ driver = "elect" /\ ~ctxDone
    /\ ledger' = ApplyLeadership(ledger, Primary)
    /\ driver' = IF recovered THEN "mark" ELSE "launch"
    /\ UNCHANGED <<recovered, loopVars, queueVars, workVars, flagVars,
                   userVars, budgetVars>>

\* mutant: the interruption is recorded without its attempt
BugMarkWithoutAttempt(w) ==
    /\ driver = "mark" /\ ~ctxDone
    /\ ledger.work[w].status = "running"
    /\ ledger' = ApplyFailed(ledger, w, 0, TRUE)
    /\ UNCHANGED <<runVars, loopVars, queueVars, workVars, flagVars, userVars,
                   budgetVars>>

\* mutant: whatever was started counts as interrupted
BugMarkCompleted(w) ==
    /\ driver = "mark" /\ ~ctxDone
    /\ ledger.work[w].status \in {"running", "completed"}
    /\ ledger' = ApplyFailed(ledger, w, ledger.work[w].attempt, TRUE)
    /\ UNCHANGED <<runVars, loopVars, queueVars, workVars, flagVars, userVars,
                   budgetVars>>

\* markInterruptedDelegations: one Append per running work.
DriverMark(w) ==
    /\ driver = "mark" /\ ~ctxDone
    /\ ledger.work[w].status = "running"
    /\ ledger' = ApplyFailed(ledger, w, ledger.work[w].attempt, TRUE)
    /\ UNCHANGED <<runVars, loopVars, queueVars, workVars, flagVars, userVars,
                   budgetVars>>

DriverMarked ==
    /\ driver = "mark" /\ ~ctxDone
    /\ \A w \in Work : ledger.work[w].status # "running"
    /\ driver' = "launch"
    /\ UNCHANGED <<ledger, recovered, loopVars, queueVars, workVars, flagVars,
                   userVars, budgetVars>>

\* installLoop, the session.ready or session.recovered signal, loop.Run.
DriverLaunch ==
    /\ driver = "launch"
    /\ driver' = "schedule" /\ leaderPc' = "idle" /\ signalled' = TRUE
    /\ UNCHANGED <<ledger, recovered, exit, snap, plan, stopping, workVars,
                   flagVars, userVars, budgetVars>>

DriverSchedule ==
    /\ driver = "schedule" /\ ~ctxDone
    /\ driver' = "wait" /\ ScheduleReady(task)
    /\ UNCHANGED <<ledger, recovered, loopVars, queueVars, flagVars, userVars,
                   budgetVars>>

\* A store call under a cancelled context fails, and so does the read inside
\* r.fail: execute returns without a further event.
DriverAbandon ==
    /\ driver \in {"enter", "elect", "mark", "schedule"} /\ ctxDone
    /\ driver' = "exited"
    /\ stopping' = IF driver = "schedule" /\ stopping = "no" THEN "afterTurn"
                   ELSE stopping
    /\ UNCHANGED <<ledger, recovered, loopVars, signalled, workVars, flagVars,
                   userVars, budgetVars>>

\* A store call fails for a reason of its own: a plain return before the
\* leader is known, r.fail under the run's context afterwards.  The error of
\* the read that follows loop.Wait is ignored, and so are those of r.fail's own
\* read and append: execute then returns with nothing recorded.
DriverFault ==
    /\ faults < MaxFaults /\ faults' = faults + 1
    /\ \/ /\ driver = "enter" /\ ~ctxDone
          /\ driver' = "exited" /\ ctxDone' = TRUE
          /\ UNCHANGED <<stopping, unrecorded>>
       \/ /\ driver \in {"elect", "mark", "schedule"} /\ ~ctxDone
          /\ driver' = "giveUp"
          /\ stopping' = IF driver = "schedule" /\ stopping = "no"
                         THEN "afterTurn" ELSE stopping
          /\ UNCHANGED <<ctxDone, unrecorded>>
       \/ /\ driver = "classify" /\ exit = "error" /\ ~ctxDone
          /\ driver' = "fail"
          /\ UNCHANGED <<stopping, ctxDone, unrecorded>>
       \/ /\ driver = "classify" /\ (exit # "error" \/ ctxDone)
          /\ driver' = "exited" /\ ctxDone' = TRUE
          /\ UNCHANGED <<stopping, unrecorded>>
       \/ /\ driver \in {"giveUp", "giveUpRecord", "fail", "record"}
          /\ driver' = "exited" /\ ctxDone' = TRUE
          /\ unrecorded' = TRUE /\ UNCHANGED stopping
    /\ UNCHANGED <<ledger, recovered, loopVars, signalled, workVars,
                   userCancelled, finalizing, userVars, restarts>>

\* r.fail under the run's context: its read, which fails once that context is
\* cancelled ...
DriverGiveUp ==
    /\ driver = "giveUp"
    /\ \/ /\ ~ctxDone /\ ~ledger.terminal
          /\ driver' = "giveUpRecord"
          /\ UNCHANGED <<recovered, loopVars, queueVars, workVars, flagVars,
                         userVars, budgetVars>>
       \/ (ctxDone \/ ledger.terminal) /\ Return
    /\ UNCHANGED ledger

\* ... and its append.
DriverGiveUpRecord ==
    /\ driver = "giveUpRecord"
    /\ ledger' = IF ctxDone THEN ledger ELSE ApplySessionFailed(ledger)
    /\ Return

\* loop.Wait returns; cancelActive cancels every registered goroutine.
DriverWait ==
    /\ driver = "wait" /\ leaderPc = "stopped"
    /\ driver' = "classify"
    /\ task' = [w \in Work |-> IF Registered(w)
                               THEN [task[w] EXCEPT !.cancelled = TRUE]
                               ELSE task[w]]
    /\ UNCHANGED <<ledger, recovered, loopVars, queueVars, launched, flagVars,
                   userVars, budgetVars>>

\* The read that follows, and the classification of the exit reason.
DriverClassify ==
    /\ driver = "classify"
    /\ \/ /\ ~ledger.terminal /\ exit = "error" /\ ~ctxDone
          /\ driver' = "fail"
          /\ UNCHANGED <<recovered, loopVars, queueVars, workVars, flagVars,
                         userVars, budgetVars>>
       \/ /\ ledger.terminal \/ exit # "error" \/ ctxDone
          /\ Return
    /\ UNCHANGED ledger

\* r.fail reads the projection again before it appends SessionFailed.
DriverFail ==
    /\ driver = "fail"
    /\ \/ /\ ~ledger.terminal
          /\ driver' = "record"
          /\ UNCHANGED <<recovered, loopVars, queueVars, workVars, flagVars,
                         userVars, budgetVars>>
       \/ ledger.terminal /\ Return
    /\ UNCHANGED ledger

DriverRecord ==
    /\ driver = "record"
    /\ ledger' = ApplySessionFailed(ledger)
    /\ Return

DriverStep ==
    \/ DriverEnter \/ DriverFindsTerminal \/ DriverElect
    \/ (\E w \in Work : DriverMark(w)) \/ DriverMarked
    \/ DriverLaunch \/ DriverSchedule \/ DriverAbandon
    \/ DriverGiveUp \/ DriverGiveUpRecord
    \/ DriverWait \/ DriverClassify \/ DriverFail \/ DriverRecord

-----------------------------------------------------------------------------
(* The turn loop and the leader's turn.                                    *)

\* mutant: a turn waits until all work is back
BugWaitForAll ==
    /\ leaderPc = "idle" /\ signalled /\ stopping = "no" /\ ~ctxDone
    /\ ~HasWork(ledger)
    /\ snap' = [leader |-> ledger.leader, observed |-> FALSE,
                seen |-> {w \in Work : Returned(ledger, w)},
                instructions |-> ledger.instructions]
    /\ ledger' = ApplyTurnStarted(ledger, ledger.turns + 1)
    /\ leaderPc' = "model" /\ signalled' = FALSE
    /\ UNCHANGED <<runVars, exit, plan, stopping, workVars, flagVars, userVars,
                   budgetVars>>

\* The loop consumes every buffered signal and starts a turn; runActiveAgent
\* reads the projection and appends AgentTurnStarted, which no other
\* goroutine looks at.
TurnBegin ==
    /\ leaderPc = "idle" /\ signalled /\ stopping = "no" /\ ~ctxDone
    /\ snap' = [leader |-> ledger.leader, observed |-> HasWork(ledger),
                seen |-> {w \in Work : Returned(ledger, w)},
                instructions |-> ledger.instructions]
    /\ ledger' = ApplyTurnStarted(ledger, ledger.turns + 1)
    /\ leaderPc' = "model" /\ signalled' = FALSE
    /\ UNCHANGED <<runVars, exit, plan, stopping, workVars, flagVars, userVars,
                   budgetVars>>

\* mutant: a loop that waits for a signal does not see its context end
BugDeafLoop ==
    /\ leaderPc = "idle" /\ stopping # "no"
    /\ leaderPc' = "stopped" /\ exit' = IF ctxDone THEN "ctx" ELSE "none"
    /\ UNCHANGED <<ledger, runVars, snap, plan, queueVars, workVars, flagVars,
                   userVars, budgetVars>>

LoopExit ==
    /\ leaderPc = "idle" /\ (ctxDone \/ stopping # "no")
    /\ leaderPc' = "stopped" /\ exit' = IF ctxDone THEN "ctx" ELSE "none"
    /\ UNCHANGED <<ledger, runVars, snap, plan, queueVars, workVars, flagVars,
                   userVars, budgetVars>>

\* The model answers.  onActiveAgentEvents calls completeAnswer, which closes
\* the door to steering and reads which work is still active.
LeaderAnswer ==
    /\ leaderPc = "model" /\ ~ctxDone
    /\ finalizing' = TRUE
    /\ plan' = [NoPlan EXCEPT !.answer = TRUE,
                              !.cancel = {w \in Work : Active(ledger, w)}]
    /\ leaderPc' = "cancel"
    /\ UNCHANGED <<ledger, runVars, exit, snap, queueVars, workVars, ctxDone,
                   userCancelled, userVars, budgetVars>>

\* The new work of a decision: unused ids, in creation order within each kind.
FreshWork(create) ==
    \A w \in create :
        /\ ~Known(ledger, w)
        /\ \A v \in Work : v < w /\ (v \in Consultation <=> w \in Consultation)
                           => v \in create \/ Known(ledger, v)

\* The prerequisites of the new delegations: known or earlier delegations that
\* the same decision does not cancel.  Peer turns have none.
ValidDeps(create, cancel, deps) ==
    \A w \in DOMAIN deps : \A d \in deps[w] :
        /\ d \notin Consultation /\ d \notin cancel
        /\ Known(ledger, d) \/ (d \in create /\ d < w)

\* The model coordinates: validateAgentDecision against what the leader
\* observed when the turn began, applyDecision's checks against its new read.
LeaderDecide(cancel, create, deps, handoff) ==
    /\ leaderPc = "model" /\ ~ctxDone
    /\ ledger.turns < MaxTurns
    /\ \A w \in cancel : Known(ledger, w)
    /\ FreshWork(create) /\ ValidDeps(create, cancel, deps)
    /\ handoff # NoAgent => handoff \in Peers[ledger.leader] /\ create = {}
    /\ handoff = NoAgent /\ create = {} => snap.observed
    /\ plan' = [NoPlan EXCEPT !.cancel = cancel, !.create = create,
                              !.deps = [w \in Work |-> IF w \in DOMAIN deps
                                                       THEN deps[w] ELSE {}],
                              !.handoff = handoff,
                              !.wake = (cancel # {} /\ create = {})]
    /\ leaderPc' = "cancel"
    /\ UNCHANGED <<ledger, runVars, exit, snap, queueVars, workVars, flagVars,
                   userVars, budgetVars>>

\* cancelWork and cancelDelegation read the status first ...
LeaderCancelCheck(w) ==
    /\ leaderPc = "cancel" /\ ~ctxDone /\ w \in plan.cancel
    /\ IF ledger.work[w].status \in {"completed", "cancelled"}
       THEN /\ plan' = [plan EXCEPT !.cancel = @ \ {w}]
            /\ UNCHANGED leaderPc
       ELSE /\ plan' = [plan EXCEPT !.cancel = @ \ {w}, !.doing = {w}]
            /\ leaderPc' = "cancelAppend"
    /\ UNCHANGED <<ledger, runVars, exit, snap, queueVars, workVars, flagVars,
                   userVars, budgetVars>>

\* ... append the cancellation next ...
LeaderCancelAppend(w) ==
    /\ leaderPc = "cancelAppend" /\ ~ctxDone /\ w \in plan.doing
    /\ ledger' = ApplyCancelled(ledger, w)
    /\ leaderPc' = "cancelSignal"
    /\ UNCHANGED <<runVars, exit, snap, plan, queueVars, workVars, flagVars,
                   userVars, budgetVars>>

\* ... and cancel the goroutine's context if it has registered one by now.
LeaderCancelSignal(w) ==
    /\ leaderPc = "cancelSignal" /\ w \in plan.doing
    /\ task' = IF Registered(w) THEN [task EXCEPT ![w].cancelled = TRUE] ELSE task
    /\ plan' = [plan EXCEPT !.doing = {}]
    /\ leaderPc' = "cancel"
    /\ UNCHANGED <<ledger, runVars, exit, snap, queueVars, launched, flagVars,
                   userVars, budgetVars>>

\* mutant: new work is written in no particular order
BugCreateUnordered(w) ==
    /\ leaderPc = "cancel" /\ ~ctxDone /\ plan.cancel = {}
    /\ w \in plan.create
    /\ ledger' = ApplyCreated(ledger, w, plan.deps[w])
    /\ plan' = [plan EXCEPT !.create = @ \ {w}]
    /\ UNCHANGED <<runVars, leaderPc, exit, snap, queueVars, workVars,
                   flagVars, userVars, budgetVars>>

\* One Append per new work, delegations before peer turns.
LeaderCreate(w) ==
    /\ leaderPc = "cancel" /\ ~ctxDone /\ plan.cancel = {}
    /\ w \in plan.create
    /\ \A v \in plan.create \ {w} :
          IF v \in Consultation <=> w \in Consultation THEN w < v
          ELSE v \in Consultation
    /\ ledger' = ApplyCreated(ledger, w, plan.deps[w])
    /\ plan' = [plan EXCEPT !.create = @ \ {w}]
    /\ UNCHANGED <<runVars, leaderPc, exit, snap, queueVars, workVars,
                   flagVars, userVars, budgetVars>>

\* Everything the decision asked for is in the ledger.
Settled == leaderPc = "cancel" /\ ~ctxDone /\ plan.cancel = {} /\ plan.create = {}

\* After its turn the loop goes on unless Stop was called meanwhile.
TurnEnd ==
    /\ plan' = NoPlan
    /\ leaderPc' = IF stopping = "no" THEN "idle" ELSE "stopped"
    /\ UNCHANGED <<exit, snap>>

LeaderHandoff ==
    /\ Settled /\ ~plan.answer /\ plan.handoff # NoAgent
    /\ ledger' = ApplyLeadership(ledger, plan.handoff)
    /\ signalled' = Pushed
    /\ TurnEnd
    /\ UNCHANGED <<runVars, stopping, workVars, flagVars, userVars, budgetVars>>

\* mutant: what a decision created is left for the next goroutine to schedule
BugLaterSchedule ==
    /\ Settled /\ ~plan.answer /\ plan.handoff = NoAgent
    /\ signalled' = IF plan.wake THEN Pushed ELSE signalled
    /\ TurnEnd
    /\ UNCHANGED <<ledger, runVars, stopping, workVars, flagVars, userVars,
                   budgetVars>>

LeaderSchedule ==
    /\ Settled /\ ~plan.answer /\ plan.handoff = NoAgent
    /\ signalled' = IF plan.wake THEN Pushed ELSE signalled
    /\ ScheduleReady(task)
    /\ TurnEnd
    /\ UNCHANGED <<ledger, runVars, stopping, flagVars, userVars, budgetVars>>

\* The last Append of completeAnswer; the three before it leave the
\* projection alone.
LeaderFinal ==
    /\ Settled /\ plan.answer
    /\ ledger' = ApplyFinalCompleted(ledger)
    /\ plan' = NoPlan /\ leaderPc' = "stop"
    /\ UNCHANGED <<runVars, exit, snap, queueVars, workVars, flagVars,
                   userVars, budgetVars>>

\* mutant: the loop is not stopped after an answer
BugNoStop ==
    /\ leaderPc = "stop"
    /\ leaderPc' = "idle"
    /\ UNCHANGED <<ledger, runVars, exit, snap, plan, queueVars, workVars,
                   flagVars, userVars, budgetVars>>

\* turn.Loop.Stop() after the answer.
LeaderStop ==
    /\ leaderPc = "stop"
    /\ leaderPc' = "stopped"
    /\ stopping' = IF stopping = "no" THEN "afterTurn" ELSE stopping
    /\ UNCHANGED <<ledger, runVars, exit, snap, plan, signalled, workVars,
                   flagVars, userVars, budgetVars>>

\* The turn ends with an error and with it the loop.
TurnError(reason) ==
    /\ leaderPc' = "stopped" /\ exit' = reason /\ plan' = NoPlan
    /\ UNCHANGED <<ledger, runVars, snap, queueVars, workVars, flagVars,
                   userVars>>

\* The model call fails or its coordination stays invalid after a correction.
LeaderModelFails ==
    /\ leaderPc = "model" /\ ~ctxDone
    /\ TurnError("error") /\ UNCHANGED budgetVars

\* The next store or model call of the turn runs under a cancelled context.
LeaderInterrupted ==
    /\ leaderPc \in {"model", "cancel", "cancelAppend"} /\ ctxDone
    /\ TurnError("ctx") /\ UNCHANGED budgetVars

\* Stop(WithImmediate) interrupts the running agent.
LeaderAborted ==
    /\ leaderPc = "model" /\ stopping = "now" /\ ~ctxDone
    /\ \E reason \in {"error", "ctx"} : TurnError(reason)
    /\ UNCHANGED budgetVars

\* A store call of the turn fails for a reason of its own.  completeAnswer
\* goes on past a failed cancellation; everything else ends the turn.
LeaderFault ==
    /\ ~ctxDone /\ faults < MaxFaults /\ faults' = faults + 1
    /\ UNCHANGED <<restarts, unrecorded>>
    /\ \/ /\ leaderPc \in {"cancel", "cancelAppend"}
          /\ ~plan.answer \/ plan.cancel \cup plan.doing = {}
          /\ TurnError("error")
       \/ /\ leaderPc = "model"
          /\ finalizing' = TRUE /\ leaderPc' = "cancel"
          /\ plan' = [NoPlan EXCEPT !.answer = TRUE]
          /\ UNCHANGED <<ledger, runVars, exit, snap, queueVars, workVars,
                         ctxDone, userCancelled, userVars>>
       \/ /\ plan.answer /\ leaderPc' = "cancel"
          /\ \/ /\ leaderPc = "cancel"
                /\ \E w \in plan.cancel : plan' = [plan EXCEPT !.cancel = @ \ {w}]
             \/ /\ leaderPc = "cancelAppend"
                /\ plan' = [plan EXCEPT !.doing = {}]
          /\ UNCHANGED <<ledger, runVars, exit, snap, queueVars, workVars,
                         flagVars, userVars>>

\* The steps the leader takes by itself; the model's choice is apart.
LeaderStep ==
    \/ TurnBegin \/ LoopExit
    \/ \E w \in Work :
          \/ LeaderCancelCheck(w) \/ LeaderCancelAppend(w)
          \/ LeaderCancelSignal(w) \/ LeaderCreate(w)
    \/ LeaderHandoff \/ LeaderSchedule \/ LeaderFinal \/ LeaderStop
    \/ LeaderInterrupted

LeaderChoice ==
    /\ leaderPc = "model"
    /\ \/ LeaderAnswer \/ LeaderModelFails \/ LeaderAborted
       \/ \E create \in {c \in SUBSET Work : FreshWork(c)},
             cancel \in SUBSET {w \in Work : Known(ledger, w)} :
            \/ \E deps \in [create \ Consultation -> SUBSET (Work \ Consultation)] :
                  LeaderDecide(cancel, create, deps, NoAgent)
            \/ \E handoff \in Agent :
                  LeaderDecide(cancel, {}, <<>>, handoff)

-----------------------------------------------------------------------------
(* The goroutine of a work item: executeDelegation or executePeerTurn.     *)

Goto(w, pc) == task' = [task EXCEPT ![w].pc = pc]

\* A step of w's goroutine that changes only where it stands.
LocalStep(w, pc) ==
    /\ Goto(w, pc)
    /\ UNCHANGED <<ledger, runVars, loopVars, queueVars, launched, flagVars,
                   userVars, budgetVars>>

\* Its own context, a child of the run's.
TaskCtxDone(w) == ctxDone \/ task[w].cancelled

WorkerCheck(w) ==
    /\ task[w].pc = "launched"
    /\ LocalStep(w, IF ctxDone \/ ledger.work[w].status \in {"completed", "cancelled"}
                    THEN "done" ELSE "admitted")

\* r.active[id] = cancel.
WorkerRegister(w) ==
    /\ task[w].pc = "admitted"
    /\ LocalStep(w, "registered")

\* The Started event is appended under the goroutine's own context.
WorkerStart(w) ==
    /\ task[w].pc = "registered" /\ ~TaskCtxDone(w)
    /\ ledger' = ApplyStarted(ledger, w, task[w].attempt)
    /\ Goto(w, "running")
    /\ UNCHANGED <<runVars, loopVars, queueVars, launched, flagVars, userVars,
                   budgetVars>>

\* stopWithError ignores a context error.
WorkerStartRefused(w) ==
    /\ task[w].pc = "registered" /\ TaskCtxDone(w)
    /\ LocalStep(w, "done")

\* The model returns a result, fails, or reports its context's cancellation.
WorkerReturn(w) ==
    /\ task[w].pc = "running"
    /\ \/ LocalStep(w, "succeeded")
       \/ LocalStep(w, "broken")
       \/ TaskCtxDone(w) /\ LocalStep(w, "aborted")

\* The Completed event is appended under the run's context.
WorkerComplete(w) ==
    /\ task[w].pc = "succeeded" /\ ~ctxDone
    /\ ledger' = ApplyCompleted(ledger, w, task[w].attempt)
    /\ Goto(w, "reporting")
    /\ UNCHANGED <<runVars, loopVars, queueVars, launched, flagVars, userVars,
                   budgetVars>>

WorkerCompleteRefused(w) ==
    /\ task[w].pc = "succeeded" /\ ctxDone
    /\ LocalStep(w, "done")

\* handleDelegationFailure: silent for cancelled work and for a cancellation
\* the user did not ask for.
WorkerFailCheck(w) ==
    /\ task[w].pc \in {"broken", "aborted"}
    /\ LET silent == \/ ledger.work[w].status = "cancelled"
                     \/ task[w].pc = "aborted" /\ ~userCancelled
       IN  LocalStep(w, IF silent THEN "done" ELSE "failing")

\* The Failed event is appended whatever became of the context.
WorkerFail(w) ==
    /\ task[w].pc = "failing"
    /\ ledger' = ApplyFailed(ledger, w, task[w].attempt, FALSE)
    /\ Goto(w, "notifying")
    /\ UNCHANGED <<runVars, loopVars, queueVars, launched, flagVars, userVars,
                   budgetVars>>

\* mutant: the leader is not signalled
BugNoSignal(w) ==
    /\ task[w].pc \in {"reporting", "notifying"}
    /\ IF task[w].pc = "reporting" /\ w \notin Consultation /\ ~ctxDone
       THEN ScheduleReady([task EXCEPT ![w].pc = "done"])
       ELSE Goto(w, "done") /\ UNCHANGED launched
    /\ UNCHANGED <<ledger, runVars, loopVars, queueVars, flagVars, userVars,
                   budgetVars>>

\* pushSignal; a delegation that completed then runs scheduleReady, whose read
\* fails under a cancelled context.
WorkerReport(w) ==
    /\ task[w].pc \in {"reporting", "notifying"}
    /\ signalled' = Pushed
    /\ IF task[w].pc = "reporting" /\ w \notin Consultation /\ ~ctxDone
       THEN ScheduleReady([task EXCEPT ![w].pc = "done"])
       ELSE Goto(w, "done") /\ UNCHANGED launched
    /\ UNCHANGED <<ledger, runVars, loopVars, stopping, flagVars, userVars,
                   budgetVars>>

\* A store call fails for a reason of its own.  Most often that is
\* stopWithError: r.fail (a read, then SessionFailed) and Stop(WithImmediate).
\* The error of the read in handleDelegationFailure is passed over, and so are
\* those of r.fail's own two calls, after which the loop is stopped with
\* nothing recorded.
WorkerFault(w) ==
    /\ faults < MaxFaults /\ faults' = faults + 1
    /\ \/ /\ \/ task[w].pc \in {"launched", "registered", "succeeded"} /\ ~ctxDone
             \/ task[w].pc = "failing"
          /\ Goto(w, "faulted") /\ UNCHANGED <<signalled, unrecorded>>
       \/ \* the read of scheduleReady, behind a completed delegation
          /\ task[w].pc = "reporting" /\ w \notin Consultation /\ ~ctxDone
          /\ signalled' = Pushed
          /\ Goto(w, "faulted") /\ UNCHANGED unrecorded
       \/ /\ task[w].pc \in {"broken", "aborted"}
          /\ Goto(w, IF task[w].pc = "aborted" /\ ~userCancelled
                     THEN "done" ELSE "failing")
          /\ UNCHANGED <<signalled, unrecorded>>
       \/ /\ task[w].pc \in {"faulted", "recording"}
          /\ Goto(w, "halting")
          /\ unrecorded' = TRUE /\ UNCHANGED signalled
    /\ UNCHANGED <<ledger, runVars, loopVars, stopping, launched, flagVars,
                   userVars, restarts>>

\* mutant: the loop is stopped without recording the failure
BugSilentFault(w) ==
    /\ task[w].pc = "faulted"
    /\ LocalStep(w, "halting")

WorkerFaultRead(w) ==
    /\ task[w].pc = "faulted"
    /\ LocalStep(w, IF ledger.terminal THEN "halting" ELSE "recording")

WorkerFaultRecord(w) ==
    /\ task[w].pc = "recording"
    /\ ledger' = ApplySessionFailed(ledger)
    /\ Goto(w, "halting")
    /\ UNCHANGED <<runVars, loopVars, queueVars, launched, flagVars, userVars,
                   budgetVars>>

WorkerHalt(w) ==
    /\ task[w].pc = "halting"
    /\ stopping' = "now"
    /\ Goto(w, "done")
    /\ UNCHANGED <<ledger, runVars, loopVars, signalled, launched, flagVars,
                   userVars, budgetVars>>

WorkerStep(w) ==
    \/ WorkerCheck(w) \/ WorkerRegister(w) \/ WorkerStart(w)
    \/ WorkerStartRefused(w) \/ WorkerReturn(w) \/ WorkerComplete(w)
    \/ WorkerCompleteRefused(w) \/ WorkerFailCheck(w) \/ WorkerFail(w)
    \/ WorkerReport(w) \/ WorkerFaultRead(w) \/ WorkerFaultRecord(w)
    \/ WorkerHalt(w)

-----------------------------------------------------------------------------
(* The user of this process: Engine.SteerInput, Engine.Cancel, leaving.  An *)
(* Append that fails is told to the caller, and the run's context is         *)
(* cancelled all the same.                                                  *)

SteerCheck ==
    /\ steer = "idle" /\ ledger.instructions < MaxSteers
    /\ RunPresent /\ ~finalizing
    /\ steer' = "checked"
    /\ UNCHANGED <<ledger, runVars, loopVars, queueVars, workVars, flagVars,
                   accepted, canceller, budgetVars>>

SteerAppend ==
    /\ steer = "checked"
    /\ \/ /\ ledger' = ApplyInstruction(ledger) /\ steer' = "saved"
          /\ UNCHANGED faults
       \/ /\ faults < MaxFaults /\ faults' = faults + 1
          /\ steer' = "idle" /\ UNCHANGED ledger
    /\ UNCHANGED <<runVars, loopVars, queueVars, workVars, flagVars, accepted,
                   canceller, restarts, unrecorded>>

\* SteerInput returns nil exactly when the signal was accepted.
SteerPush ==
    /\ steer = "saved"
    /\ signalled' = Pushed
    /\ accepted' = IF PushAccepted THEN ledger.instructions ELSE accepted
    /\ steer' = "idle"
    /\ UNCHANGED <<ledger, runVars, loopVars, stopping, workVars, flagVars,
                   canceller, budgetVars>>

CancelFlag ==
    /\ UserMayCancel /\ canceller = "idle" /\ RunPresent /\ ~userCancelled
    /\ userCancelled' = TRUE /\ canceller' = "flagged"
    /\ UNCHANGED <<ledger, runVars, loopVars, queueVars, workVars, ctxDone,
                   finalizing, steer, accepted, budgetVars>>

CancelAppend ==
    /\ canceller = "flagged"
    /\ canceller' = "appended"
    /\ \/ ledger' = ApplySessionCancelled(ledger) /\ UNCHANGED <<faults, unrecorded>>
       \/ /\ faults < MaxFaults /\ faults' = faults + 1
          /\ unrecorded' = TRUE /\ UNCHANGED ledger
    /\ UNCHANGED <<runVars, loopVars, queueVars, workVars, flagVars, steer,
                   accepted, restarts>>

\* run.cancel().
CancelContext ==
    /\ canceller = "appended"
    /\ ctxDone' = TRUE /\ canceller' = "idle"
    /\ UNCHANGED <<ledger, runVars, loopVars, queueVars, workVars,
                   userCancelled, finalizing, steer, accepted, budgetVars>>

\* Engine.Cancel in a process that does not run the session: it reads the
\* session row, then appends.
OutsideCheck ==
    /\ OthersMayCancel /\ canceller = "idle" /\ ledger.row = "running"
    /\ canceller' = "outside"
    /\ UNCHANGED <<ledger, runVars, loopVars, queueVars, workVars, flagVars,
                   steer, accepted, budgetVars>>

OutsideAppend ==
    /\ canceller = "outside"
    /\ canceller' = "idle"
    /\ \/ ledger' = ApplySessionCancelled(ledger) /\ UNCHANGED faults
       \/ /\ faults < MaxFaults /\ faults' = faults + 1
          /\ UNCHANGED ledger
    /\ UNCHANGED <<runVars, loopVars, queueVars, workVars, flagVars, steer,
                   accepted, restarts, unrecorded>>

\* The application's context ends: every goroutine winds down.
Shutdown ==
    /\ RunPresent /\ ~ctxDone /\ restarts < MaxRestarts
    /\ ctxDone' = TRUE
    /\ UNCHANGED <<ledger, runVars, loopVars, queueVars, workVars,
                   userCancelled, finalizing, userVars, budgetVars>>

\* The process dies, at any point.
Crash ==
    /\ driver # "down" /\ restarts < MaxRestarts
    /\ restarts' = restarts + 1
    /\ driver' = "down" /\ recovered' = TRUE
    /\ leaderPc' = "off" /\ exit' = "none" /\ snap' = NoSnap /\ plan' = NoPlan
    /\ signalled' = FALSE /\ stopping' = "no"
    /\ task' = NoTask /\ launched' = {}
    /\ ctxDone' = FALSE /\ userCancelled' = FALSE /\ finalizing' = FALSE
    /\ steer' = "idle" /\ accepted' = 0
    /\ canceller' = IF canceller = "outside" THEN canceller ELSE "idle"
    /\ unrecorded' = FALSE /\ UNCHANGED <<ledger, faults>>

\* Engine.Resume: only a session whose row says running.
Resume ==
    /\ driver = "down" /\ ledger.row = "running"
    /\ driver' = "enter"
    /\ UNCHANGED <<ledger, recovered, loopVars, queueVars, workVars, flagVars,
                   userVars, budgetVars>>

UserStep ==
    \/ SteerCheck \/ SteerAppend \/ SteerPush
    \/ CancelFlag \/ CancelAppend \/ CancelContext
    \/ OutsideCheck \/ OutsideAppend \/ Shutdown
    \/ Crash \/ Resume

-----------------------------------------------------------------------------
Next ==
    \/ DriverStep \/ DriverFault
    \/ LeaderStep \/ LeaderChoice \/ LeaderFault
    \/ \E w \in Work : WorkerStep(w) \/ WorkerFault(w)
    \/ UserStep

Spec == Init /\ [][Next]_vars

\* Goroutines run, models answer in the end, and a call of Cancel or
\* SteerInput that has begun returns.  Nothing makes a user act, a process
\* die or resume, or a store call fail.
Fairness ==
    /\ WF_vars(DriverStep) /\ WF_vars(LeaderStep) /\ WF_vars(LeaderChoice)
    /\ \A w \in Work : WF_vars(WorkerStep(w))
    /\ WF_vars(SteerAppend) /\ WF_vars(SteerPush)
    /\ WF_vars(CancelAppend) /\ WF_vars(CancelContext) /\ WF_vars(OutsideAppend)

FairSpec == Spec /\ Fairness

-----------------------------------------------------------------------------
(* Properties.                                                             *)

TypeOK ==
    /\ ledger \in ProjectionState
    /\ driver \in DriverPc /\ recovered \in BOOLEAN
    /\ leaderPc \in LeaderPc /\ exit \in ExitReason
    /\ snap \in Snap /\ plan \in Plan
    /\ signalled \in BOOLEAN /\ stopping \in Stopping
    /\ task \in [Work -> Task] /\ launched \subseteq (Work \X Nat)
    /\ ctxDone \in BOOLEAN /\ userCancelled \in BOOLEAN /\ finalizing \in BOOLEAN
    /\ steer \in {"idle", "checked", "saved"} /\ accepted \in Nat
    /\ canceller \in {"idle", "flagged", "appended", "outside"}
    /\ restarts \in Nat /\ faults \in Nat /\ unrecorded \in BOOLEAN

\* The driver waits, the loop is idle with an empty buffer and nothing has
\* been cancelled: only a goroutine or the user can move the session.
Waiting ==
    /\ driver = "wait" /\ leaderPc = "idle" /\ ~signalled
    /\ stopping = "no" /\ ~ctxDone

\* r.launched keeps scheduleReady from starting a second goroutine for work
\* whose goroutine has not returned, however the calls of scheduleReady by
\* the driver, the leader and other goroutines interleave.
OneGoroutinePerWork ==
    [][\A w \in Work : (Live(w) /\ task'[w].pc = "launched") => task[w].pc = "launched"]_vars

\* Attempt numbers never go back, and every Started event carries the successor
\* of the latest one, across interruptions and restarts: no attempt is ever
\* started twice.
AttemptsIncrease ==
    [][\A w \in Work :
         LET was == ledger.work[w]  is == ledger'.work[w]
         IN  /\ is.attempt >= was.attempt
             /\ is.status = "running" /\ is # was => is.attempt = was.attempt + 1]_vars

\* A delegation starts only once the result of each of its prerequisites is
\* in the ledger, whatever was cancelled between scheduling and starting.
StartsAfterPrerequisites ==
    [][\A w \in Work :
         ledger'.work[w].status = "running" /\ ledger.work[w].status # "running"
           => \A d \in ledger.work[w].deps : ledger.work[d].result]_vars

\* state.go: actual failures "are never silently repeated".
FailureNotRepeated ==
    [][\A w \in Work :
         ledger.work[w].status = "failed" /\ ~ledger.work[w].interrupted
           => ledger'.work[w].status # "running"]_vars

\* Work with a recorded result is never run again, not even by a resume.
ResultNotRecomputed ==
    [][\A w \in Work :
         ledger.work[w].result => ledger'.work[w].status # "running"]_vars

\* Seen from the ledger, and whatever goroutines, crashes and cancellations
\* interleave, work lives as WorkLifecycle says: its prerequisites are in the
\* ledger before it is, only an attempt that has started settles and keeps its
\* number, and only an interrupted attempt is repeated.
Lifecycle == INSTANCE WorkLifecycle WITH work <- ledger.work

WorksFollowTheirLifecycle == Lifecycle!Spec

\* The session is answered at most once.
AnsweredOnce == ledger.answers <= 1

\* Leadership moves only by the first election and by a hand-off to a peer in
\* the turn of the agent that leads; a restart leaves it where it was.
LeadershipMovesByHandoff ==
    [][ledger'.leader # ledger.leader =>
         \/ ledger.leader = NoAgent /\ ledger'.leader = Primary
         \/ /\ InTurn /\ snap.leader = ledger.leader
            /\ ledger'.leader \in Peers[snap.leader]]_vars

\* While a run goes on, work the ledger calls running has a goroutine, even
\* right after a resume, unless the leader cancelled the goroutine's context.
\* The run is over once stopWithError has stopped the loop, whether or not its
\* r.fail could record that.
RunningHasGoroutine ==
    (/\ driver \in {"launch", "schedule", "wait"} /\ ~ctxDone
     /\ ~ledger.terminal /\ stopping # "now") =>
        \A w \in Work : ledger.work[w].status = "running"
                           => Live(w) \/ task[w].cancelled

\* A run that got as far as choosing a leader and was not shut down leaves the
\* session answered, failed or cancelled, whichever goroutine gave up and
\* however many store calls failed, with one exception: r.fail drops the errors
\* of its own read and append (runtime.go:1002-1011), and Engine.Cancel ends the
\* run whether its append succeeded or not.  Only a failure of one of those
\* calls can leave the session running with nobody to run it.
RunSettlesSession ==
    driver = "exited" /\ ledger.leader # NoAgent => ledger.terminal \/ unrecorded

\* A cancelled session stays cancelled.
CancelledRowStands ==
    [][ledger.row = "cancelled" => ledger'.row = "cancelled"]_vars

\* Exactly one agent leads: the agent whose turn is running is the leader in
\* the ledger.
ActingAgentLeads == InTurn => snap.leader = ledger.leader /\ snap.leader \in Agent

\* No lost wake-up: while the session waits, the leader has seen every
\* returned work, or the goroutine that will signal it is on its way.
NoLostWakeup ==
    Waiting => \A w \in Work :
        Returned(ledger, w) =>
            w \in snap.seen \/ task[w].pc \in {"reporting", "notifying"}

\* No ready work is left behind: while the session waits, it has a goroutine or
\* the goroutine of a prerequisite is about to schedule it, unless that failed
\* and the goroutine is about to stop the loop.
ReadyWorkIsLaunched ==
    Waiting => \A w \in Work : Ready(ledger, w) =>
        Live(w) \/ \E d \in ledger.work[w].deps :
                      task[d].pc = "reporting" \/ Stops(d)

\* A leader that waits waits for a goroutine.
WaitsForAGoroutine ==
    Waiting /\ HasWork(ledger) => \E w \in Work : Live(w)

\* A goroutine that returns without an event leaves its work "running" only
\* when the run itself is ending.
SilentReturnOnlyAtShutdown ==
    [][\A w \in Work :
         (/\ task[w].pc = "aborted" /\ task'[w].pc = "done"
          /\ ledger.work[w].status = "running")
            => ctxDone \/ leaderPc = "stopped"]_vars

\* An instruction that SteerInput accepted was read by the leader whose
\* answer ended the session.
AcceptedSteerIsObserved ==
    leaderPc = "stopped" /\ ledger.answers > 0 => accepted <= snap.instructions

\* Cancel ends the run.
CancelEndsRun == userCancelled ~> driver \in {"exited", "down"}

\* A signal is served by a turn, or the loop has ended.
SignalServed == signalled ~> (~signalled \/ leaderPc = "stopped" \/ ~RunPresent)
=============================================================================
