----------------------------- MODULE Projection -----------------------------
(***************************************************************************)
(* The state an ALT session derives from its durable event ledger.         *)
(*                                                                         *)
(* internal/orchestrator/state.go replays the events of one session into a *)
(* Projection; internal/store/event.go updates the session's row in the    *)
(* transaction that inserts the event.  Every reader rebuilds the          *)
(* projection from the whole ledger, so the two are one durable value: a   *)
(* record p with one operator per event kind that changes it.  Kinds that  *)
(* neither switch mentions (AgentTurnCompleted, FinalStarted, deltas, ...) *)
(* only advance the sequence number and have no operator.                  *)
(*                                                                         *)
(* Specialist delegations and peer consultations have the same life cycle  *)
(* and the same switch arms under two sets of names; both are "work" here. *)
(* A work item that no event has created has status "absent" (a nil entry  *)
(* of the maps).                                                           *)
(***************************************************************************)
EXTENDS Naturals

CONSTANTS
    Work,       \* ids of delegations and peer turns, ordered by creation
    Agent,      \* leadership-capable agents of the pinned profile
    NoAgent     \* the empty leader id

ASSUME NoAgentAssumption == NoAgent \notin Agent

WorkStatus == {"absent", "pending", "running", "completed", "failed", "cancelled"}
RowStatus  == {"running", "completed", "failed", "cancelled"}

\* result stands for "a result reference has been recorded": the text itself
\* is never interpreted by the runtime.
WorkRecord == [status: WorkStatus, attempt: Nat, interrupted: BOOLEAN,
               result: BOOLEAN, deps: SUBSET Work]

\* row is the status column of the sessions table.  answers counts the
\* FinalCompleted events, of which the code keeps the last one.
ProjectionState ==
    [leader: Agent \cup {NoAgent}, turns: Nat, instructions: Nat,
     work: [Work -> WorkRecord], terminal: BOOLEAN, failed: BOOLEAN,
     cancelled: BOOLEAN, answers: Nat, row: RowStatus]

AbsentWork == [status |-> "absent", attempt |-> 0, interrupted |-> FALSE,
               result |-> FALSE, deps |-> {}]

\* The ledger of a session that holds only its SessionCreated event.
EmptyProjection ==
    [leader |-> NoAgent, turns |-> 0, instructions |-> 0,
     work |-> [w \in Work |-> AbsentWork], terminal |-> FALSE,
     failed |-> FALSE, cancelled |-> FALSE, answers |-> 0, row |-> "running"]

Known(p, w) == p.work[w].status # "absent"

-----------------------------------------------------------------------------
(* The arms of Projection.Apply and applySessionProjection.                *)

SetWork(p, w, record) == [p EXCEPT !.work = [p.work EXCEPT ![w] = record]]

\* An event about a work id the projection does not know is ignored.
UpdateWork(p, w, record) == IF Known(p, w) THEN SetWork(p, w, record) ELSE p

ApplyCreated(p, w, deps) ==
    SetWork(p, w, [AbsentWork EXCEPT !.status = "pending", !.deps = deps])

ApplyStarted(p, w, n) ==
    UpdateWork(p, w, [p.work[w] EXCEPT !.status = "running", !.attempt = n,
                                       !.interrupted = FALSE])

ApplyCompleted(p, w, n) ==
    UpdateWork(p, w, [p.work[w] EXCEPT !.status = "completed", !.attempt = n,
                                       !.interrupted = FALSE, !.result = TRUE])

ApplyFailed(p, w, n, byRecovery) ==
    UpdateWork(p, w, [p.work[w] EXCEPT !.status = "failed", !.attempt = n,
                                       !.interrupted = byRecovery])

\* mutant: the status is spelled the other way
BugSpelling(p, w) ==
    UpdateWork(p, w, [p.work[w] EXCEPT !.status = "canceled",
                                       !.interrupted = FALSE])

ApplyCancelled(p, w) ==
    UpdateWork(p, w, [p.work[w] EXCEPT !.status = "cancelled",
                                       !.interrupted = FALSE])

ApplyLeadership(p, a) == [p EXCEPT !.leader = a]

ApplyTurnStarted(p, n) == [p EXCEPT !.turns = IF n > p.turns THEN n ELSE p.turns]

ApplyInstruction(p) == [p EXCEPT !.instructions = p.instructions + 1]

ApplyFinalCompleted(p) ==
    [p EXCEPT !.terminal = TRUE, !.answers = p.answers + 1, !.row = "completed"]

ApplySessionFailed(p) ==
    [p EXCEPT !.terminal = TRUE, !.failed = TRUE, !.row = "failed"]

ApplySessionCancelled(p) ==
    [p EXCEPT !.terminal = TRUE, !.cancelled = TRUE, !.row = "cancelled"]

-----------------------------------------------------------------------------
(* What the runtime asks of a projection.                                  *)

\* Work whose status is pending or running.
Active(p, w) == p.work[w].status \in {"pending", "running"}

\* Work that counts for WorkCount: active, or failed because its process was
\* interrupted.
Outstanding(p, w) ==
    Active(p, w) \/ (p.work[w].status = "failed" /\ p.work[w].interrupted)

HasWork(p) == \E w \in Work : Outstanding(p, w)

\* mutant: a failed or cancelled prerequisite counts as settled
BugAnyOutcome(p, w) ==
    \A d \in p.work[w].deps : ~Active(p, d)

DependenciesCompleted(p, w) ==
    \A d \in p.work[w].deps : p.work[d].status = "completed"

\* What scheduleReady lets through: neither settled nor running, not failed
\* for a reason of its own, and with every prerequisite completed.
Ready(p, w) ==
    /\ p.work[w].status = "pending"
       \/ (p.work[w].status = "failed" /\ p.work[w].interrupted)
    /\ DependenciesCompleted(p, w)

\* Work that has come back for good, with a result or with a failure of its own:
\* an interrupted attempt comes back again.
Returned(p, w) ==
    \/ p.work[w].status = "completed"
    \/ p.work[w].status = "failed" /\ ~p.work[w].interrupted
=============================================================================
