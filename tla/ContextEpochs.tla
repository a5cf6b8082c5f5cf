-------------------------- MODULE ContextEpochs --------------------------
(***************************************************************************)
(* Working views committed before a model call: CommitContextEpoch         *)
(* (internal/store/context.go) and the event that announces the epoch      *)
(* (orchestrator/context_epoch.go), a transaction of its own.  The views   *)
(* of one process take turns at appendMu for each transaction; SQLite      *)
(* refuses the write of a transaction that read before another process     *)
(* committed.                                                              *)
(***************************************************************************)
EXTENDS Naturals, FiniteSets

CONSTANTS ViewProcesses,   \* processes running the session
          ViewScopes,      \* an agent, a delegation, a collaboration
          MaxViewEvents,   \* bound: events of the session
          MaxEpochs        \* bound: epochs of a scope

ASSUME ViewAssumption == MaxViewEvents \in Nat \ {0} /\ MaxEpochs \in Nat

VARIABLES viewEvents,  \* the session's last durable sequence
          epochs,      \* context_epochs
          announced,   \* ContextViewCommitted events
          viewing      \* <<process, scope>> -> what its commitWorkingView does

viewVars == <<viewEvents, epochs, announced, viewing>>

Viewers == ViewProcesses \X ViewScopes
NotViewing == [pc |-> "idle", through |-> 0, epoch |-> 0, stale |-> FALSE]

ViewTypeOK ==
  /\ viewEvents \in 1 .. MaxViewEvents
  /\ epochs \subseteq [scope : ViewScopes, epoch : 1 .. MaxEpochs, through : 1 .. MaxViewEvents]
  /\ announced \subseteq [scope : ViewScopes, epoch : 1 .. MaxEpochs,
                          through : 1 .. MaxViewEvents, sequence : 2 .. MaxViewEvents]
  /\ viewing \in [Viewers -> [pc : {"idle", "insert", "announce"},
                              through : 0 .. MaxViewEvents, epoch : 0 .. MaxEpochs,
                              stale : BOOLEAN]]

ViewInit ==
  /\ viewEvents = 1
  /\ epochs = {}
  /\ announced = {}
  /\ viewing = [w \in Viewers |-> NotViewing]

Overtaken(u, p) ==
  IF u[1] # p /\ viewing[u].pc = "insert" THEN [viewing[u] EXCEPT !.stale = TRUE]
  ELSE viewing[u]

\* w commits; a transaction that another process began before is stale.
ViewCommits(w, next) ==
  viewing' = [u \in Viewers |->
                IF u = w THEN next
                ELSE Overtaken(u, w[1])]

\* appendMu is free: no view of the process is inside CommitContextEpoch.
LaneFree(p) == \A s \in ViewScopes : viewing[<<p, s>>].pc # "insert"

\* Any other event of the session, from process p.
AppendOther(p) ==
  /\ LaneFree(p)
  /\ viewEvents < MaxViewEvents
  /\ viewEvents' = viewEvents + 1
  /\ viewing' = [u \in Viewers |-> Overtaken(u, p)]
  /\ UNCHANGED <<epochs, announced>>

EpochsOf(s) == {e.epoch : e \in {f \in epochs : f.scope = s}}
NextEpoch(s) ==
  IF EpochsOf(s) = {} THEN 1
  ELSE 1 + CHOOSE n \in EpochsOf(s) : \A m \in EpochsOf(s) : m <= n

\* The view was built from a projection of some prefix of the session.
Allocates(w, pc, epoch) ==
  /\ viewing[w].pc = "idle" /\ LaneFree(w[1])
  /\ epoch <= MaxEpochs
  /\ \E through \in 1 .. viewEvents :
       viewing' = [viewing EXCEPT ![w] = [pc |-> pc, through |-> through,
                                          epoch |-> epoch, stale |-> FALSE]]
  /\ UNCHANGED <<viewEvents, epochs, announced>>

\* mutant: the epochs of every scope are counted
BugCountAll(w) == Allocates(w, "insert", Cardinality(epochs) + 1)

\* mutant: an epoch is announced as soon as it is allocated
BugAnnounceEarly(w) == Allocates(w, "announce", NextEpoch(w[2]))

\* mutant: epochs start at zero
BugFromZero(w) == Allocates(w, "insert", NextEpoch(w[2]) - 1)

\* The transaction checks that the source is durable and reads the highest
\* epoch.
AllocateEpoch(w) == Allocates(w, "insert", NextEpoch(w[2]))

InsertEpoch(w) ==
  /\ viewing[w].pc = "insert" /\ ~viewing[w].stale
  /\ epochs' = epochs \union {[scope |-> w[2], epoch |-> viewing[w].epoch,
                               through |-> viewing[w].through]}
  /\ ViewCommits(w, [viewing[w] EXCEPT !.pc = "announce"])
  /\ UNCHANGED <<viewEvents, announced>>

\* Append ContextViewCommitted.
AnnounceEpoch(w) ==
  /\ viewing[w].pc = "announce" /\ LaneFree(w[1])
  /\ viewEvents < MaxViewEvents
  /\ viewEvents' = viewEvents + 1
  /\ announced' = announced \union {[scope |-> w[2], epoch |-> viewing[w].epoch,
                                     through |-> viewing[w].through, sequence |-> viewEvents']}
  /\ ViewCommits(w, NotViewing)
  /\ UNCHANGED epochs

\* A refused write, a failing append, or the end of the run: the caller gets
\* an error and whatever was committed stays.
ViewFails(w) ==
  /\ viewing[w].pc \in {"insert", "announce"}
  /\ viewing' = [viewing EXCEPT ![w] = NotViewing]
  /\ UNCHANGED <<viewEvents, epochs, announced>>

ViewNext ==
  \/ \E p \in ViewProcesses : AppendOther(p)
  \/ \E w \in Viewers :
       AllocateEpoch(w) \/ InsertEpoch(w) \/ AnnounceEpoch(w) \/ ViewFails(w)

ViewSpec == ViewInit /\ [][ViewNext]_viewVars

-----------------------------------------------------------------------------
\* The epochs of a scope are 1, 2, ... with one view each, when independent
\* scopes, failed announcements and a second process interleave ("serializing
\* them also guarantees monotonically allocated epochs", store/context.go:517).
EpochsAreConsecutive ==
  \A s \in ViewScopes :
    LET mine == {e \in epochs : e.scope = s}
    IN EpochsOf(s) = 1 .. Cardinality(mine)

\* An announced view is durable, and was built from events that precede its
\* announcement.
AnnouncedViewsAreDurable ==
  \A a \in announced :
    /\ [scope |-> a.scope, epoch |-> a.epoch, through |-> a.through] \in epochs
    /\ a.through < a.sequence

\* Epochs are numbered in order, one view each, and an announcement names one
\* that is durable.  Announcements come in any order: the two transactions of
\* a view are not one.
EpochsAreInOrder == EpochsAreConsecutive /\ AnnouncedViewsAreDurable

=============================================================================
