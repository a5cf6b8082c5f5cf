---------------------------- MODULE LiveWindow ----------------------------
(***************************************************************************)
(* The thinking window's view of a running conversation (internal/         *)
(* nativegui/service.go and runner.go, internal/tui/native.go, the front   *)
(* of internal/thinking/projection.go).                                    *)
(*                                                                         *)
(* The window is a process of its own.  It loads the conversation from the *)
(* ledger, then follows it from two sides: the terminal pushes every event *)
(* it shows down a pipe, and once a second the host reads the ledger       *)
(* again.  The pipe starts at whatever event the terminal shows when the   *)
(* window is up, it can break, and the terminal may go on to show another  *)
(* conversation; the ledger is read under the same lock as a push.         *)
(*                                                                         *)
(* An event is its turn and its sequence number.  What an event does to    *)
(* the graph is ThinkingGraph's business.                                  *)
(***************************************************************************)
EXTENDS Naturals, Sequences, FiniteSets

CONSTANTS Turns,        \* turns of the conversation the window was opened for
          Foreign,      \* turns of another conversation
          MaxTurnEvents \* bound: events of a turn

\* A turn is created with an event, so it has room for one.
ASSUME WindowAssumption == Turns \cap Foreign = {} /\ MaxTurnEvents \in Nat \ {0}

VARIABLES ledger,       \* durable events of every turn; 0 before it exists
          terminal,      \* events of every turn the terminal has shown
          window,        \* "closed", "loading" (process started), "open", "gone"
          updates,       \* the terminal's queue of pushed events
          pipe,          \* events written and not decoded yet
          receiving,     \* receiveEvents is running
          applied,       \* what the projection applied, per known turn
          known,         \* turns of the projection
          streamError    \* the host shows a stream error

windowVars == <<ledger, terminal, window, updates, pipe, receiving, applied, known, streamError>>

AllTurns == Turns \cup Foreign

\* The turns ConversationSessions returns.
StoredTurns == {t \in Turns : ledger[t] > 0}

\* Turn.Sequence: the last event applied.
Sequence(t) == IF applied[t] = <<>> THEN 0 ELSE applied[t][Len(applied[t])]

(***************************************************************************)
(* The engine and the terminal.                                            *)
(***************************************************************************)
\* The engine appends an event to a turn of either conversation (bound: one
\* event of a foreign turn).
AppendEvent(t) ==
  /\ ledger[t] < IF t \in Foreign THEN 1 ELSE MaxTurnEvents
  /\ ledger' = [ledger EXCEPT ![t] = @ + 1]
  /\ UNCHANGED <<terminal, window, updates, pipe, receiving, applied, known, streamError>>

\* applyEvent: the terminal shows the next event of a turn and pushes it to
\* the window it holds. A queue that was closed takes nothing.
PushShown(t) ==
  /\ terminal[t] < ledger[t]
  /\ terminal' = [terminal EXCEPT ![t] = @ + 1]
  /\ updates' = IF window \in {"loading", "open"} THEN Append(updates, <<t, terminal[t] + 1>>)
                ELSE updates
  /\ UNCHANGED <<ledger, window, pipe, receiving, applied, known, streamError>>

\* launchNativeCmd: /thinking starts the window process for the conversation.
Launch ==
  /\ window = "closed"
  /\ StoredTurns # {}
  /\ window' = "loading"
  /\ UNCHANGED <<ledger, terminal, updates, pipe, receiving, applied, known, streamError>>

\* writeEvents moves the queue into the pipe; writing fails once nobody reads.
WriteEvent ==
  /\ updates # <<>>
  /\ window \in {"loading", "open"}
  /\ updates' = Tail(updates)
  /\ pipe' = Append(pipe, Head(updates))
  /\ UNCHANGED <<ledger, terminal, window, receiving, applied, known, streamError>>

\* The user closes the window, or the terminal stops it: closeUpdates.
CloseWindow ==
  /\ window = "open"
  /\ window' = "gone"
  /\ updates' = <<>>
  /\ pipe' = <<>>
  /\ receiving' = FALSE
  /\ UNCHANGED <<ledger, terminal, applied, known, streamError>>

(***************************************************************************)
(* The host.                                                               *)
(***************************************************************************)
\* mutant: one event more than the ledger holds is read.
BugMissing(t) == [i \in 1..(ledger[t] + 1 - Sequence(t)) |-> Sequence(t) + i]

\* Events(t, after): the durable events of a turn past the last one applied.
Missing(t) == [i \in 1..(ledger[t] - Sequence(t)) |-> Sequence(t) + i]

\* reconcileLocked: every stored turn is known and replayed from where it is.
Replayed == [t \in AllTurns |-> IF t \in StoredTurns THEN applied[t] \o Missing(t) ELSE applied[t]]

\* NewHost reads the conversation; then the event loop and both readers start.
NewHost ==
  /\ window = "loading"
  /\ window' = "open"
  /\ known' = StoredTurns
  /\ applied' = Replayed
  /\ receiving' = TRUE
  /\ UNCHANGED <<ledger, terminal, updates, pipe, streamError>>

\* mutant: an event that was applied already is applied again.
BugApplyAgain(seqs, e) == [ok |-> TRUE, seqs |-> Append(seqs, e)]

\* Projection.Apply: an event that is not past the last one is dropped, one
\* that is not the next is refused.
Apply(seqs, e) ==
  LET last == IF seqs = <<>> THEN 0 ELSE seqs[Len(seqs)]
  IN  IF e <= last THEN [ok |-> TRUE, seqs |-> seqs]
      ELSE IF e = last + 1 THEN [ok |-> TRUE, seqs |-> Append(seqs, e)]
      ELSE [ok |-> FALSE, seqs |-> seqs]

\* mutant: a turn of another conversation is added like any other.
BugPushForeign(t, e) ==
  LET hole   == e > Sequence(t) + 1
      before == IF hole THEN Replayed ELSE applied
      out    == Apply(before[t], e)
  IN  /\ known' = known \cup {t} \cup (IF hole THEN StoredTurns ELSE {})
      /\ applied' = [before EXCEPT ![t] = out.seqs]
      /\ streamError' = ~out.ok

\* PushEvent: an unknown turn is added when it belongs to the conversation. An
\* event past a hole makes the host replay the ledger before it is applied.
PushEvent(t, e) ==
  IF t \notin Turns
  THEN streamError' = TRUE /\ UNCHANGED <<applied, known>>
  ELSE LET hole   == e > Sequence(t) + 1
           before == IF hole THEN Replayed ELSE applied
           out    == Apply(before[t], e)
       IN  /\ known' = known \cup {t} \cup (IF hole THEN StoredTurns ELSE {})
           /\ applied' = [before EXCEPT ![t] = out.seqs]
           /\ streamError' = ~out.ok

\* receiveEvents decodes the next event and pushes it.
Receive ==
  /\ window = "open"
  /\ receiving
  /\ pipe # <<>>
  /\ pipe' = Tail(pipe)
  /\ PushEvent(Head(pipe)[1], Head(pipe)[2])
  /\ UNCHANGED <<ledger, terminal, window, updates, receiving>>

\* The decoder fails: receiveEvents reports it and returns.
BreakPipe ==
  /\ window = "open"
  /\ receiving
  /\ receiving' = FALSE
  /\ streamError' = TRUE
  /\ UNCHANGED <<ledger, terminal, window, updates, pipe, applied, known>>

\* mutant: only the turns the graph knows are read again.
BugReconcileKnown ==
  /\ window = "open"
  /\ applied' = [t \in AllTurns |-> IF t \in known THEN applied[t] \o Missing(t) ELSE applied[t]]
  /\ streamError' = FALSE
  /\ UNCHANGED <<ledger, terminal, window, updates, pipe, receiving, known>>

\* reconcileEvents: the tick replays what the pipe missed, clears the error.
Reconcile ==
  /\ window = "open"
  /\ applied' = Replayed
  /\ known' = known \cup StoredTurns
  /\ streamError' = FALSE
  /\ UNCHANGED <<ledger, terminal, window, updates, pipe, receiving>>

WindowInit ==
  /\ ledger = [t \in AllTurns |-> 0]
  /\ terminal = [t \in AllTurns |-> 0]
  /\ window = "closed"
  /\ updates = <<>>
  /\ pipe = <<>>
  /\ receiving = FALSE
  /\ applied = [t \in AllTurns |-> <<>>]
  /\ known = {}
  /\ streamError = FALSE

WindowNext ==
  \/ \E t \in AllTurns : AppendEvent(t) \/ PushShown(t)
  \/ Launch
  \/ WriteEvent
  \/ CloseWindow
  \/ NewHost
  \/ Receive
  \/ BreakPipe
  \/ Reconcile

\* The ticker fires for as long as the window's context lives, and the window
\* loads. Nothing is assumed of the pipe.
WindowFairness == WF_windowVars(NewHost) /\ WF_windowVars(Reconcile)

WindowSpec == WindowInit /\ [][WindowNext]_windowVars /\ WindowFairness

(***************************************************************************)
(* Properties.                                                             *)
(***************************************************************************)
\* Types of the window state.
WindowTypeOK ==
  /\ window \in {"closed", "loading", "open", "gone"}
  /\ {receiving, streamError} \subseteq BOOLEAN
  /\ \A t \in AllTurns : /\ ledger[t] \in 0..MaxTurnEvents
                         /\ terminal[t] \in 0..ledger[t]
                         /\ applied[t] \in Seq(1..MaxTurnEvents)
  /\ {pipe[i][1] : i \in DOMAIN pipe} \subseteq AllTurns

\* Whatever the pipe and the ledger deliver, twice or with holes, the graph
\* applies each event of a turn once and in order.
AppliedInOrder == \A t \in AllTurns : applied[t] = [i \in 1..Len(applied[t]) |-> i]

\* The graph never takes in a turn of another conversation, and it knows
\* every turn it applied an event of.
GraphIsOfOneConversation ==
  /\ known \subseteq Turns
  /\ \A t \in AllTurns : applied[t] # <<>> => t \in known

\* Every durable event reaches an open window, with or without the pipe.
WindowCatchesUp ==
  \A t \in Turns : \A n \in 1..MaxTurnEvents :
    (window = "open" /\ ledger[t] = n) ~> (window = "gone" \/ Len(applied[t]) >= n)

\* The graph is a prefix of the ledger of its own conversation.
GraphFollowsTheLedger == AppliedInOrder /\ GraphIsOfOneConversation

=============================================================================
