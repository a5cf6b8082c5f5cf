-------------------------- MODULE ThinkingGraph --------------------------
(***************************************************************************)
(* One turn of the graph the thinking window draws: Turn.apply over the    *)
(* events of a session (internal/thinking/projection.go).  `work' is what  *)
(* the ledger says of each work, whose events come in any order            *)
(* WorkLifecycle allows, also after the turn has ended; the other variables *)
(* are the graph's.  The texts kept in a node's or an edge's metadata are  *)
(* left out.                                                               *)
(***************************************************************************)
EXTENDS Naturals, FiniteSets

CONSTANTS GraphAgents,      \* the first is the primary
          Primary,
          GraphSpecialists,
          Works,            \* ids of delegations and peer turns
          GraphTools,       \* ids of tool calls
          MaxActive         \* bound: starts an edge counts at once

VARIABLES work,         \* id -> kind, caller, actor, collaboration and real state
          toolCalls,    \* id -> real state and the actor that called
          nodes,        \* participant or tool -> status
          edges,        \* id -> status and active count
          currentLeader,
          delegationRunning,
          actorActivity,
          turnStatus

graphVars == <<work, toolCalls, nodes, edges, currentLeader, delegationRunning,
               actorActivity, turnStatus>>

User == "user"
NoOne == "no one"
Actors == GraphAgents \union GraphSpecialists
Everyone == Actors \union {User}
EdgeKinds == {"request", "handoff", "delegation", "result", "failure",
              "peer-result", "answer"}

\* All transfers from one agent to another are one edge here.  The answer has
\* one edge, whoever gives it.
EdgeIds == (EdgeKinds \X Everyone \X Everyone)
             \union ({"peer"} \X Works \X GraphAgents)
             \union ({"tool"} \X Actors \X GraphTools)
             \union ({"tool-result"} \X GraphTools \X Actors)

\* The names of works come from the events there are; no id of a profile is
\* empty; "user", "member:" and "tool:" keep the nodes apart.  An edge is drawn
\* with one call or answer on it.
ASSUME GraphAssumption ==
  /\ IsFiniteSet(Works)
  /\ MaxActive \in Nat \ {0}
  /\ NoOne \notin Actors
  /\ GraphTools \cap Everyone = {}

States == {"idle", "queued", "running", "completed", "failed", "cancelled"}
Pcs == {"none", "queued", "running", "completed", "failed", "interrupted", "cancelled"}
NoWork == [kind |-> "none", caller |-> NoOne, actor |-> NoOne, collab |-> NoOne,
           pc |-> "none", started |-> FALSE, result |-> FALSE]
AnswerEdge == <<"answer", User, User>>
NoEdge == [status |-> "idle", active |-> 0]

GraphTypeOK ==
  /\ work \in [Works -> [kind : {"none", "delegation", "peer"},
                         caller : GraphAgents \union {NoOne}, actor : Actors \union {NoOne},
                         collab : Works \union {NoOne}, pc : Pcs,
                         started : BOOLEAN, result : BOOLEAN]]
  /\ toolCalls \in [GraphTools -> [pc : {"none", "running", "done"},
                                   caller : Actors \union {NoOne}]]
  /\ nodes \in [Everyone \union GraphTools -> States]
  /\ DOMAIN edges \subseteq EdgeIds
  /\ \A e \in DOMAIN edges :
       edges[e].status \in States /\ edges[e].active \in 0 .. MaxActive
  /\ currentLeader \in GraphAgents \union {NoOne}
  /\ delegationRunning \subseteq Works
  /\ actorActivity \in [Actors -> 0 .. Cardinality(Works)]
  /\ turnStatus \in {"running", "completed", "failed", "cancelled"}

\* newTurn draws the team; the edges of what is only allowed never change.
GraphInit ==
  /\ work = [w \in Works |-> NoWork]
  /\ toolCalls = [t \in GraphTools |-> [pc |-> "none", caller |-> NoOne]]
  /\ nodes = [n \in Everyone \union GraphTools |-> IF n = User THEN "running" ELSE "idle"]
  /\ edges = [e \in {} |-> NoEdge]
  /\ currentLeader = NoOne
  /\ delegationRunning = {}
  /\ actorActivity = [a \in Actors |-> 0]
  /\ turnStatus = "running"

-----------------------------------------------------------------------------
(* flow and finishDelegation                                               *)

\* flow draws the edge if it is new, and changes its activity and status.
Flow(es, id, status, delta) ==
  LET old == IF id \in DOMAIN es THEN es[id] ELSE NoEdge
      active == old.active + delta
  IN [e \in DOMAIN es \union {id} |->
        IF e = id THEN [active |-> active,
                        status |-> IF active > 0 /\ status = "queued" THEN "running" ELSE status]
        ELSE es[e]]

\* A consultation has the edge of its collaboration, which may go on for
\* several rounds; all delegations of a caller to a specialist share one.
FlowOf(record) ==
  IF record.kind = "peer" THEN <<"peer", record.collab, record.actor>>
                          ELSE <<"delegation", record.caller, record.actor>>

WorkEdge(w) == FlowOf(work[w])

\* The start of an attempt brightens the edge.
StartEdge(es, id) ==
  IF id \in DOMAIN es
    THEN [es EXCEPT ![id] = [status |-> "running", active |-> @.active + 1]] ELSE es

\* A work that is counted already does not count again.
Started(w) ==
  IF w \in delegationRunning THEN actorActivity
  ELSE [actorActivity EXCEPT ![work[w].actor] = @ + 1]

\* mutant: an end counts whether or not the work was counted
BugFinishTwice(w) ==
  IF actorActivity[work[w].actor] > 0
    THEN [actorActivity EXCEPT ![work[w].actor] = @ - 1] ELSE actorActivity

\* The end of a work that was cancelled before it ended does not count again.
Finished(w) ==
  IF w \in delegationRunning
    THEN [actorActivity EXCEPT ![work[w].actor] = @ - 1] ELSE actorActivity

\* mutant: an edge counts below zero
BugFinishEdge(es, id, status) ==
  [es EXCEPT ![id] = [active |-> @.active - 1,
                      status |-> IF @.active = 1 THEN status ELSE @.status]]

FinishEdge(es, id, status) ==
  LET active == IF es[id].active > 0 THEN es[id].active - 1 ELSE 0
  IN [es EXCEPT ![id] = [active |-> active,
                         status |-> IF active = 0 THEN status ELSE @.status]]

\* mutant: any finished work settles the actor's node
BugSettleNode(w, status) ==
  IF work[w].actor # currentLeader THEN [nodes EXCEPT ![work[w].actor] = status] ELSE nodes

\* The actor's node settles when nothing of it runs and it does not lead.
FinishNode(w, status) ==
  IF Finished(w)[work[w].actor] = 0 /\ work[w].actor # currentLeader
    THEN [nodes EXCEPT ![work[w].actor] = status] ELSE nodes

\* finishDelegation, for a work that ends with `status', its edge apart.
FinishWork(w, pc, status) ==
  /\ work' = [work EXCEPT ![w].pc = pc, ![w].result = @ \/ pc = "completed"]
  /\ delegationRunning' = delegationRunning \ {w}
  /\ actorActivity' = Finished(w)
  /\ nodes' = FinishNode(w, status)
  /\ UNCHANGED <<toolCalls, currentLeader, turnStatus>>

\* mutant: a result flows to whoever leads now
BugReturnToLeader(kind, w) == <<kind, work[w].actor, currentLeader>>

\* delegationCaller, peerCaller: the caller recorded when the work was created.
ReturnEdge(kind, w) == <<kind, work[w].actor, work[w].caller>>

-----------------------------------------------------------------------------
(* Events.  Any of them may come after an end of the turn: attempts still  *)
(* wind down, and a cancellation by another process stops nobody.           *)

\* LeadershipTransferred: the first transfer is the user's request.
TransferLeadership(to) ==
  /\ to # currentLeader
  /\ currentLeader = NoOne => to = Primary
  /\ currentLeader' = to
  /\ nodes' =
       [n \in DOMAIN nodes |->
          IF n = to THEN "running"
          ELSE IF n = currentLeader /\ actorActivity[n] = 0 THEN "completed" ELSE nodes[n]]
  /\ edges' = IF currentLeader = NoOne
                THEN Flow(edges, <<"request", User, to>>, "completed", 0)
                ELSE Flow(edges, <<"handoff", currentLeader, to>>, "completed", 0)
  /\ UNCHANGED <<work, toolCalls, delegationRunning, actorActivity, turnStatus>>

\* AgentTurnStarted: the leader is drawn running, which it is already.
StartTurn ==
  /\ currentLeader # NoOne
  /\ nodes' = [nodes EXCEPT ![currentLeader] = "running"]
  /\ UNCHANGED <<work, toolCalls, edges, currentLeader, delegationRunning,
                 actorActivity, turnStatus>>

\* A collaboration stays with the two who began it, one turn at a time.
Open(collab, caller, actor) ==
  \A v \in Works :
    work[v].kind = "peer" /\ work[v].collab = collab =>
      work[v].caller = caller /\ work[v].actor = actor /\ work[v].pc \notin {"queued", "running"}

\* DelegationCreated, PeerTurnCreated
CreateWork(w, kind, actor, collab) ==
  LET created == [kind |-> kind, caller |-> currentLeader, actor |-> actor,
                  collab |-> collab, pc |-> "queued", started |-> FALSE, result |-> FALSE]
  IN  /\ currentLeader # NoOne
      /\ work[w].pc = "none"
      /\ IF kind = "delegation" THEN actor \in GraphSpecialists /\ collab = w
         ELSE actor \in GraphAgents \ {currentLeader} /\ Open(collab, currentLeader, actor)
      /\ work' = [work EXCEPT ![w] = created]
      /\ edges' = Flow(edges, FlowOf(created), "queued", 0)
      /\ UNCHANGED <<toolCalls, nodes, currentLeader, delegationRunning, actorActivity,
                     turnStatus>>

\* DelegationStarted, PeerTurnStarted: a first attempt, one that a
\* cancellation overtook, or one after an attempt a dead process left behind.
StartWork(w) ==
  /\ work[w].pc \in {"queued", "interrupted", "cancelled"}
  /\ ~work[w].result
  /\ edges[WorkEdge(w)].active < MaxActive
  /\ work' = [work EXCEPT ![w].pc = "running", ![w].started = TRUE]
  /\ delegationRunning' = delegationRunning \union {w}
  /\ actorActivity' = Started(w)
  /\ nodes' = [nodes EXCEPT ![work[w].actor] = "running"]
  /\ edges' = StartEdge(edges, WorkEdge(w))
  /\ UNCHANGED <<toolCalls, currentLeader, turnStatus>>

\* An attempt has started and left no result, cancelled meanwhile or not.
Underway(w) ==
  work[w].pc \in {"running", "cancelled"} /\ work[w].started /\ ~work[w].result

\* DelegationCompleted, PeerTurnCompleted: the work's edge ends and the
\* result flows back.
CompleteWork(w) ==
  LET back == ReturnEdge(IF work[w].kind = "peer" THEN "peer-result" ELSE "result", w)
  IN  /\ Underway(w)
      /\ FinishWork(w, "completed", "completed")
      /\ edges' = Flow(FinishEdge(edges, WorkEdge(w), "completed"), back, "completed", 0)

\* DelegationFailed draws a flow back, PeerTurnFailed does not; the same when
\* recovery fails what a dead process left running.
FailWork(w, pc) ==
  LET ended == FinishEdge(edges, WorkEdge(w), "failed")
  IN  /\ IF pc = "failed" THEN Underway(w) ELSE work[w].pc = "running"
      /\ FinishWork(w, pc, "failed")
      /\ edges' = IF work[w].kind = "peer" THEN ended
                  ELSE Flow(ended, ReturnEdge("failure", w), "failed", 0)

\* DelegationCancelled, PeerTurnCancelled: of any work, for the runtime appends
\* it on a reading of the work that may be old.
CancelWork(w) ==
  /\ work[w].pc # "none"
  /\ FinishWork(w, "cancelled", "cancelled")
  /\ edges' = FinishEdge(edges, WorkEdge(w), "cancelled")

\* ToolCalled: by an attempt under way, or by the leader itself.
CallTool(t, caller) ==
  /\ toolCalls[t].pc = "none"
  /\ caller # NoOne
  /\ caller = currentLeader \/ \E w \in Works : Underway(w) /\ work[w].actor = caller
  /\ toolCalls' = [toolCalls EXCEPT ![t] = [pc |-> "running", caller |-> caller]]
  /\ nodes' = [nodes EXCEPT ![t] = "running"]
  /\ edges' = Flow(edges, <<"tool", caller, t>>, "running", 1)
  /\ UNCHANGED <<work, currentLeader, delegationRunning, actorActivity, turnStatus>>

\* mutant: the result flows to the leader
BugToolOwner(t) == currentLeader

ToolOwner(t) == toolCalls[t].caller

CompleteTool(t, status) ==
  LET call == <<"tool", toolCalls[t].caller, t>> IN
  /\ toolCalls[t].pc = "running"
  /\ toolCalls' = [toolCalls EXCEPT ![t].pc = "done"]
  /\ nodes' = [nodes EXCEPT ![t] = status]
  /\ edges' = Flow([edges EXCEPT ![call] = [status |-> status, active |-> 0]],
                   <<"tool-result", t, ToolOwner(t)>>, status, 0)
  /\ UNCHANGED <<work, currentLeader, delegationRunning, actorActivity, turnStatus>>

\* FinalStarted, by the leader; again after a process that died before the
\* answer was complete.
StartFinal ==
  /\ currentLeader # NoOne
  /\ AnswerEdge \in DOMAIN edges => edges[AnswerEdge].active < MaxActive
  /\ edges' = Flow(edges, AnswerEdge, "running", 1)
  /\ UNCHANGED <<work, toolCalls, nodes, currentLeader, delegationRunning,
                 actorActivity, turnStatus>>

\* FinalCompleted settles the answer's edge; it, SessionFailed and
\* SessionCancelled sweep what runs or waits (terminate).
EndTurn(status) ==
  /\ status = "completed" => AnswerEdge \in DOMAIN edges
  /\ turnStatus' = status
  /\ nodes' = [n \in DOMAIN nodes |->
                 IF nodes[n] \in {"running", "queued"} \/ n = User THEN status ELSE nodes[n]]
  /\ edges' = [e \in DOMAIN edges |->
                 IF \/ edges[e].active > 0 \/ edges[e].status \in {"running", "queued"}
                    \/ status = "completed" /\ e = AnswerEdge
                   THEN [status |-> status, active |-> 0] ELSE edges[e]]
  /\ UNCHANGED <<work, toolCalls, currentLeader, delegationRunning, actorActivity>>

GraphNext ==
  \/ \E a \in GraphAgents : TransferLeadership(a)
  \/ StartTurn
  \/ \E w \in Works :
       \/ \E kind \in {"delegation", "peer"}, actor \in Actors, collab \in Works :
            CreateWork(w, kind, actor, collab)
       \/ StartWork(w) \/ CompleteWork(w) \/ CancelWork(w)
       \/ \E pc \in {"failed", "interrupted"} : FailWork(w, pc)
  \/ \E t \in GraphTools :
       \/ \E caller \in Actors : CallTool(t, caller)
       \/ \E status \in {"completed", "failed"} : CompleteTool(t, status)
  \/ StartFinal
  \/ \E status \in {"completed", "failed", "cancelled"} : EndTurn(status)

GraphSpec == GraphInit /\ [][GraphNext]_graphVars

-----------------------------------------------------------------------------
(* Properties                                                              *)

RunningWorks(a) == {w \in Works : work[w].pc = "running" /\ work[w].actor = a}

\* The graph's count of each participant's running work is the real one, also
\* after attempts that were interrupted and repeated, starts and ends that a
\* cancellation overtook, cancellations of what had ended, and the turn's own
\* end.  While the turn runs, whoever has running work is drawn running.
RunningActorsAreDrawn ==
  \A a \in Actors :
    /\ actorActivity[a] = Cardinality(RunningWorks(a))
    /\ turnStatus = "running" /\ RunningWorks(a) # {} => nodes[a] = "running"

\* The result of a work is drawn back to the participant that asked for it,
\* also after leadership moved on or the work was cancelled.
ResultsReturnToCallers ==
  \A w \in Works :
    work[w].result =>
      <<IF work[w].kind = "peer" THEN "peer-result" ELSE "result",
        work[w].actor, work[w].caller>> \in DOMAIN edges

\* So is the result of a tool.
ToolResultsReturnToCallers ==
  \A t \in GraphTools :
    toolCalls[t].pc = "done" => <<"tool-result", t, toolCalls[t].caller>> \in DOMAIN edges

\* The graph shows the work there is: who is at work, and the result of each
\* delegation, consultation and tool drawn back to the one who asked.
GraphShowsTheWork ==
  RunningActorsAreDrawn /\ ResultsReturnToCallers /\ ToolResultsReturnToCallers

=============================================================================
