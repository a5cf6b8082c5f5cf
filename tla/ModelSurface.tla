-------------------------- MODULE ModelSurface --------------------------
(***************************************************************************)
(* The model surface of one context-bearing agent: the exact conversation  *)
(* tail that agent has seen, kept under a checkpoint key across the turns  *)
(* of a conversation (internal/orchestrator/model_surface.go, tool_lead.go *)
(* and peer.go).  The agent can run twice at once in a session, as leader  *)
(* and as a consulted peer; both goroutines load, extend and save the same *)
(* surface under the runtime's lock for the agent.                         *)
(*                                                                         *)
(* A message is a tagged pair; the system message, the model and the tools *)
(* are one `header'.  Compaction (ContextCompaction) appears by its effect *)
(* on the messages: a brief and a tail.                                    *)
(***************************************************************************)
EXTENDS Naturals, Sequences, SequencesExt

CONSTANTS LeaderTurns,    \* goroutines that run the agent as leader
          Consultations,  \* goroutines that run it as a peer
          Headers,        \* request headers (model, instruction, tools)
          Snapshots,      \* runtime snapshots
          MaxRequests,    \* bound: user requests in the conversation
          MaxRuns         \* bound: runs of the agent

AgentRuns == LeaderTurns \union Consultations

VARIABLES surfaceHead,    \* the checkpoint under modelSurfaceKey
          epochsStarted,  \* ModelCacheEpochStarted events: <<epoch, header>>
          surfaceLock,    \* surfaceLocks[agent]: the goroutine that holds it
          request,        \* the session (user request) being answered
          runsStarted,
          agentRun        \* the goroutines

surfaceVars == <<surfaceHead, epochsStarted, surfaceLock, request, runsStarted,
                 agentRun>>

NoHolder == "free"
NoHeader == "none"
NoSnapshot == "none"

\* A digest of a header or of a snapshot is never empty.
ASSUME SurfaceAssumption ==
  /\ NoHolder \notin AgentRuns /\ NoHeader \notin Headers
  /\ NoSnapshot \notin Snapshots
  /\ MaxRequests \in Nat \ {0} /\ MaxRuns \in Nat

UserMessage(s) == <<"user", s>>
SnapshotMessage(d) == <<"snapshot", d>>
AnswerOf(w) == <<"answer", w>>
Brief == <<"brief", 0>>
Correction == <<"correction", 0>>
ToolResults == <<"tool results", 0>>

\* loadModelSurface without a checkpoint.
FreshSurface == [epoch |-> 0, header |-> NoHeader, messages |-> <<>>,
                 lastSession |-> 0, lastSnapshot |-> NoSnapshot]

IdleRun == [pc |-> "idle", surface |-> FreshSurface, messages |-> <<>>,
            header |-> NoHeader, snapshot |-> NoSnapshot, attempt |-> 0]

SurfaceInit ==
  /\ surfaceHead = FreshSurface /\ epochsStarted = {}
  /\ surfaceLock = NoHolder /\ request = 1 /\ runsStarted = 0
  /\ agentRun = [w \in AgentRuns |-> IdleRun]

Messages ==
  ({"user"} \X (1 .. MaxRequests)) \union ({"snapshot"} \X Snapshots)
    \union ({"answer"} \X AgentRuns) \union {Brief, Correction, ToolResults}

SurfaceTypeOK ==
  /\ surfaceHead.epoch \in 0 .. 2 * MaxRuns
  /\ surfaceHead.header \in Headers \union {NoHeader}
  /\ Range(surfaceHead.messages) \subseteq Messages
  /\ surfaceHead.lastSession \in 0 .. MaxRequests
  /\ surfaceHead.lastSnapshot \in Snapshots \union {NoSnapshot}
  /\ epochsStarted \subseteq (1 .. 2 * MaxRuns) \X Headers
  /\ surfaceLock \in AgentRuns \union {NoHolder}
  /\ request \in 1 .. MaxRequests /\ runsStarted \in 0 .. MaxRuns
  /\ \A w \in AgentRuns :
       /\ agentRun[w].pc \in {"idle", "locked", "before", "model", "after"}
       /\ Range(agentRun[w].messages) \subseteq Messages
       /\ agentRun[w].attempt \in 0 .. 2

-----------------------------------------------------------------------------
\* mutant: every prepared request carries the user's message
BugPrepareAgain(surface, session, snapshot) ==
  surface.messages \o <<UserMessage(session)>>
    \o (IF surface.lastSnapshot # snapshot THEN <<SnapshotMessage(snapshot)>> ELSE <<>>)

\* prepareModelSurfaceMessages: the surface, then the exact request if this
\* session has not been seen, then the snapshot if it changed.  (The system
\* message is replaced: it is part of the header.)
Prepared(surface, session, snapshot) ==
  surface.messages
    \o (IF surface.lastSession # session THEN <<UserMessage(session)>> ELSE <<>>)
    \o (IF surface.lastSnapshot # snapshot THEN <<SnapshotMessage(snapshot)>> ELSE <<>>)

\* mutant: a goroutine does not wait for the other one
BugRunUnlocked(w) ==
  /\ agentRun[w].pc = "idle" /\ runsStarted < MaxRuns
  /\ surfaceLock' = w /\ runsStarted' = runsStarted + 1
  /\ agentRun' = [agentRun EXCEPT ![w].pc = "locked"]
  /\ UNCHANGED <<surfaceHead, epochsStarted, request>>

\* lockModelSurface
RunLock(w) ==
  /\ agentRun[w].pc = "idle" /\ surfaceLock = NoHolder /\ runsStarted < MaxRuns
  /\ surfaceLock' = w /\ runsStarted' = runsStarted + 1
  /\ agentRun' = [agentRun EXCEPT ![w].pc = "locked"]
  /\ UNCHANGED <<surfaceHead, epochsStarted, request>>

\* The surface is loaded and the first request prepared.  The instruction
\* depends on whether the surface has seen the session, the snapshot on the
\* state of the session: either may be any value.
RunPrepare(w) ==
  /\ agentRun[w].pc = "locked"
  /\ \E h \in Headers, d \in Snapshots :
       agentRun' = [agentRun EXCEPT
                      ![w] = [pc |-> "before", surface |-> surfaceHead,
                              messages |-> Prepared(surfaceHead, request, d),
                              header |-> h, snapshot |-> d, attempt |-> 1]]
  /\ UNCHANGED <<surfaceHead, epochsStarted, surfaceLock, request, runsStarted>>

\* The compaction handler runs before the surface handler and may replace the
\* messages by a brief and a tail of them.
RunCompact(w) ==
  /\ agentRun[w].pc = "before" /\ ~Contains(agentRun[w].messages, Brief)
  /\ \E n \in 0 .. Len(agentRun[w].messages) :
       agentRun' = [agentRun EXCEPT
                      ![w].messages = <<Brief>> \o SubSeq(@, n + 1, Len(@))]
  /\ UNCHANGED <<surfaceHead, epochsStarted, surfaceLock, request, runsStarted>>

\* mutant: a changed header stays in its epoch
BugSameEpoch(surface, header, messages) ==
  IF surface.epoch = 0 \/ ~IsPrefix(surface.messages, messages)
    THEN surface.epoch + 1
    ELSE surface.epoch

\* BeforeModelRewriteState: a new epoch begins with the first request, a new
\* header, or messages that do not extend the committed ones.
EpochAfter(surface, header, messages) ==
  IF \/ surface.epoch = 0
     \/ surface.header # NoHeader /\ surface.header # header
     \/ ~IsPrefix(surface.messages, messages)
    THEN surface.epoch + 1
    ELSE surface.epoch

\* ... it is announced in the ledger before the model is called.
BeforeModel(w) ==
  LET run == agentRun[w]
      epoch == EpochAfter(run.surface, run.header, run.messages)
  IN
  /\ run.pc = "before"
  /\ epochsStarted' = IF epoch # run.surface.epoch
                        THEN epochsStarted \union {<<epoch, run.header>>}
                        ELSE epochsStarted
  /\ agentRun' = [agentRun EXCEPT ![w].pc = "model", ![w].surface.epoch = epoch,
                                  ![w].surface.header = run.header]
  /\ UNCHANGED <<surfaceHead, surfaceLock, request, runsStarted>>

\* mutant: the commit forgets which snapshot was shown
BugKeepSnapshot(w) ==
  LET run == agentRun[w]
      committed == [run.surface EXCEPT !.messages = Append(run.messages, AnswerOf(w)),
                                       !.lastSession = request]
  IN
  /\ run.pc = "model"
  /\ surfaceHead' = committed
  /\ agentRun' = [agentRun EXCEPT ![w].pc = "after", ![w].surface = committed,
                                  ![w].messages = committed.messages]
  /\ UNCHANGED <<epochsStarted, surfaceLock, request, runsStarted>>

\* The model answers; AfterModelRewriteState commits what it has seen and said
\* (the save outlives a cancelled context) and saves it unless the digest says
\* that nothing changed.
ModelAnswers(w) ==
  LET run == agentRun[w]
      committed == [run.surface EXCEPT !.messages = Append(run.messages, AnswerOf(w)),
                                       !.lastSession = request,
                                       !.lastSnapshot = run.snapshot]
  IN
  /\ run.pc = "model"
  /\ surfaceHead' = committed
  /\ agentRun' = [agentRun EXCEPT ![w].pc = "after", ![w].surface = committed,
                                  ![w].messages = committed.messages]
  /\ UNCHANGED <<epochsStarted, surfaceLock, request, runsStarted>>

\* The model called tools: their results follow and the model is called again.
\* (Bound: one such cycle between two compactions.)
ToolCycle(w) ==
  /\ agentRun[w].pc = "after" /\ ~Contains(agentRun[w].messages, ToolResults)
  /\ agentRun' = [agentRun EXCEPT ![w].pc = "before",
                                  ![w].messages = Append(@, ToolResults)]
  /\ UNCHANGED <<surfaceHead, epochsStarted, surfaceLock, request, runsStarted>>

\* AfterAgent commits once more.  Only a coordination tool, which returns
\* directly, may have added to the messages since the last save; otherwise the
\* digest is the same and nothing is saved.
AfterAgent(w) ==
  LET run == agentRun[w]
      committed == [run.surface EXCEPT !.messages = Append(run.messages, ToolResults)]
  IN
  /\ w \in LeaderTurns /\ run.pc = "after" /\ ~Contains(run.messages, ToolResults)
  /\ surfaceHead' = committed
  /\ agentRun' = [agentRun EXCEPT ![w].surface = committed,
                                  ![w].messages = committed.messages]
  /\ UNCHANGED <<epochsStarted, surfaceLock, request, runsStarted>>

\* mutant: a leader is corrected as long as it is wrong
BugCorrectForever(w) ==
  LET run == agentRun[w] IN
  /\ w \in LeaderTurns /\ run.pc = "after"
  /\ agentRun' = [agentRun EXCEPT
                    ![w].pc = "before", ![w].attempt = @ + 1,
                    ![w].messages =
                      Append(Prepared(run.surface, request, run.snapshot), Correction)]
  /\ UNCHANGED <<surfaceHead, epochsStarted, surfaceLock, request, runsStarted>>

\* A leader whose coordination was invalid is corrected once: the request is
\* prepared again from the surface in memory, with the defect named.
LeaderCorrects(w) ==
  LET run == agentRun[w] IN
  /\ w \in LeaderTurns /\ run.pc = "after" /\ run.attempt = 1
  /\ agentRun' = [agentRun EXCEPT
                    ![w].pc = "before", ![w].attempt = 2,
                    ![w].messages =
                      Append(Prepared(run.surface, request, run.snapshot), Correction)]
  /\ UNCHANGED <<surfaceHead, epochsStarted, surfaceLock, request, runsStarted>>

\* The goroutine returns, with an outcome or with the error of any step (a
\* failing append, model or save): deferred, it unlocks the surface.
SurfaceRunReturns(w) ==
  /\ agentRun[w].pc \notin {"idle"}
  /\ agentRun' = [agentRun EXCEPT ![w] = IdleRun]
  /\ surfaceLock' = NoHolder
  /\ UNCHANGED <<surfaceHead, epochsStarted, request, runsStarted>>

\* The process dies; the next one resumes the session, or the user continues
\* the conversation with another request.
SurfaceCrash ==
  /\ surfaceLock # NoHolder
  /\ agentRun' = [w \in AgentRuns |-> IdleRun] /\ surfaceLock' = NoHolder
  /\ UNCHANGED <<surfaceHead, epochsStarted, request, runsStarted>>

NextRequest ==
  /\ \A w \in AgentRuns : agentRun[w].pc = "idle"
  /\ request < MaxRequests
  /\ request' = request + 1
  /\ UNCHANGED <<surfaceHead, epochsStarted, surfaceLock, runsStarted, agentRun>>

SurfaceNext ==
  \/ \E w \in AgentRuns :
       \/ RunLock(w) \/ RunPrepare(w) \/ RunCompact(w) \/ BeforeModel(w)
       \/ ModelAnswers(w) \/ ToolCycle(w) \/ AfterAgent(w) \/ LeaderCorrects(w)
       \/ SurfaceRunReturns(w)
  \/ SurfaceCrash \/ NextRequest

SurfaceSpec == SurfaceInit /\ [][SurfaceNext]_surfaceVars

-----------------------------------------------------------------------------
\* "The exact, versioned conversation tail": what is saved extends what was
\* saved, or begins a new epoch.  A consultation and the leader's turn of the
\* same agent do not overwrite each other's exchange (lockModelSurface held
\* from the load to the last save).
SurfaceOnlyGrows ==
  [][surfaceHead' # surfaceHead =>
       \/ IsPrefix(surfaceHead.messages, surfaceHead'.messages)
       \/ surfaceHead'.epoch > surfaceHead.epoch]_surfaceVars

\* Every epoch a saved surface claims was announced in the ledger with the
\* header it was sent under, whatever failed or crashed in between
\* (BeforeModelRewriteState appends before the model is called).
EpochWasAnnounced ==
  surfaceHead.epoch > 0 =>
    <<surfaceHead.epoch, surfaceHead.header>> \in epochsStarted

\* The user's request is in the surface word for word and once, as long as
\* nothing was compacted: not repeated by a second turn of the session, by a
\* consultation, by a correction or by a resume after a crash.
ExactRequestOnce ==
  ~Contains(surfaceHead.messages, Brief) =>
    \A s \in 1 .. MaxRequests :
      LET seen == {i \in DOMAIN surfaceHead.messages :
                     surfaceHead.messages[i] = UserMessage(s)}
      IN /\ \A i, j \in seen : i = j
         /\ surfaceHead.lastSession = s => seen # {}

\* The snapshot the surface believes to be current is the last one the agent
\* was shown: an older snapshot is never the one that "supersedes" the others.
LatestSnapshotIsCurrent ==
  ~Contains(surfaceHead.messages, Brief) /\ surfaceHead.epoch > 0 =>
    \E i \in DOMAIN surfaceHead.messages :
      /\ surfaceHead.messages[i] = SnapshotMessage(surfaceHead.lastSnapshot)
      /\ \A j \in DOMAIN surfaceHead.messages :
           j > i => surfaceHead.messages[j][1] # "snapshot"

\* The saved surface is the conversation the model had: under an announced
\* header, each request once, the current snapshot the last one shown.
SurfaceIsExact == EpochWasAnnounced /\ ExactRequestOnce /\ LatestSnapshotIsCurrent

=============================================================================
