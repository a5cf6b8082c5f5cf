# ALT: a verification development

ALT runs durable, multi-agent coding sessions. A session is an append-only
ledger of events in SQLite; a *leader* agent takes turns, delegates work to
specialists, consults peers, hands leadership over, and answers; the work runs
in goroutines of its own; the user may steer or cancel at any time, and a dead
process is resumed from the ledger. This directory holds TLA+ models of that
program, the TLC configurations that check them, and TLAPS proofs about them.
Line numbers refer to `src/`.

## 1. Inventory

| component | module | state | hard behaviour | what makes it correct |
|---|---|---|---|---|
| **Session runtime** (`orchestrator/engine.go`, `runtime.go`, `peer.go`, `tool_lead.go`, `agent.go`, `decision.go`) | `SessionRuntime` | runs and their flags; turn loop, pending signals, `launched`, one goroutine per work | driver, leader, work and user share the ledger without a common lock; crashes | one goroutine per attempt, no lost wake-up, prerequisites first, one answer, cancel ends the run, every run settles its session unless it cannot be recorded |
| **Session projection** (`orchestrator/state.go`, `store/event.go:76-125`) | `Projection` | none: a fold over the ledger; the session row | Go keeps whatever came last | events about unknown work are ignored; well-typed results |
| **Event ledger** (`store/event.go`, `store.go`) | `EventLedger`, `EventStream` | `events`, subscriptions, cursors | local publication and other processes' appends reach a reader by different routes | each event once, in order, and a reader catches up |
| **Checkpoints** (`store/checkpoint.go`) | `CheckpointStore` | heads and version history | writers in several processes, databases of earlier releases | append-only history that holds every state, the head included |
| **Sessions** (`store/session.go`, `engine.go`) | `Conversations` | `sessions` rows, runs of each process | paging while turns are started, settled, renamed | no reader misses or repeats |
| **Context archive and access** (`store/context.go`, `context_artifact.go`, `orchestrator/context_access.go`, `tooling/tools.go`) | `ContextArchive` | records, transcript files and their index, cursors | authority that grows; cuts to fit an envelope; a crash in a file write | everything in scope is reachable, nothing else is |
| **Context epochs** (`context_epoch.go`, `store/context.go`) | `ContextEpochs` | epochs, announcements | two processes, two transactions | consecutive, announced when durable |
| **Model surface** (`model_surface.go`, `tool_lead.go`, `peer.go`) | `ModelSurface` | the exact conversation of an agent | leader turn and consultation of one agent overlap; crashes | the prefix only grows within an announced epoch |
| **Process manager** (`tooling/process.go`) | `ProcessManager` | handles, running commands, transcripts | close against start, wait and exit | nothing is left behind, nobody waits for ever |
| **Context budget, compaction, recovery** (`tooling/context_budget.go`, `context_compaction.go`) | `ContextBudget`, `ContextCompaction` | messages, observed ceiling | cut, archive, retry | valid requests, archived losses, an end |
| **Teams** (`profile`, `store/profile.go`, `nativegui`) | `TeamProfiles` | revisions, drafts, two-call exchange | several editors and an import | no lost revision, drafts mean their Team |
| **Thinking graph** (`thinking/projection.go`) | `ThinkingGraph` | nodes, edges, activity counts | repeated attempts, late results, moved leadership | the graph shows the work |
| **Thinking window** (`nativegui/service.go`, `runner.go`, `tui/native.go`) | `LiveWindow` | pipe, projection, ticker | push and ledger read overlap | each event once and in order, and all of them in the end |
| **Terminal** (`tui/model.go`, `interaction.go`, `rich_composer.go`, `transcript.go`) | `TerminalSession` | composer, queue, current session | answers and events in any order | a prompt is in one place |
| **Prompt history and pickers** (`tui/history.go`, `picker.go`) | `TerminalHistory` | cursor, cache, pages | late answers | one entry per answer, never stuck |
| providers, credentials, research, file and web tools, command line, native drawing, content, licences | - | - | - | section 7 |

How they interact: the interfaces call the Engine and subscribe to the Store;
the Engine starts one runtime per session; the runtime reads the Store by
replaying it and writes it by `Append`; each agent's model is called with the
surface kept under a checkpoint, compacted when it no longer fits, the lost part
archived first; tools reach the archive and the process manager; the runtime's
goroutines wake the leader by pushing signals into the turn loop. The terminal
shows the events it receives and pushes them to the thinking window, which also
reads the ledger itself.

The hazards of this code, each at its line, are listed in `PROJECT.json`
("hazards") with the properties that cover them.

## 2. Modules

The components meet at narrow interfaces, so each is modelled at its own level
and takes what it needs of another by its effect: `SessionRuntime` appends in
one step what `EventLedger` does in four; `ModelSurface` sees a compaction as a
brief and a tail, `ContextCompaction` says which ones; `ContextCompaction`
archives in one step what `ContextArchive` does in four; `ThinkingGraph` draws
events in every order in which `WorkLifecycle` lets them come, and `LiveWindow` says how they
get there; `TerminalSession` sees sessions end as `SessionRuntime` ends them.

| module | what it is |
|---|---|
| `Projection`, `SessionRuntime`, `WorkLifecycle` | the durable state of a session, its runtime, and what the runtime promises of each work |
| `EventStream`, `EventLedger` | what a subscription promises, and how the store keeps it |
| `CheckpointStore`, `Conversations`, `ContextArchive`, `ContextEpochs`, `ModelSurface`, `ProcessManager` | what processes keep for each other |
| `TeamProfiles`, `ThinkingGraph`, `TerminalSession`, `TerminalHistory` | what a user sits in front of |
| `ContextBudget`, `ContextCompaction`, `LiveWindow` | services with loops of their own |
| `SessionRuntimeProofs`, `SessionRuntimeWaiting` | proofs about the session's projection and its runtime |
| `EventLedgerProofs`, `StoreProofs`, `ArchiveProofs`, `InterfaceProofs`, `TeamProofs` | proofs about the ledger; epochs, surface, requests and commands; checkpoints, sessions and archive; what a user sits in front of; profiles and drafts |
| `CompositionProofs` | the composed instances implement their parts |
| `MCSessionRuntime`, `MCSessionTeam`, `MCEventLedger`, `MCStore`, `MCDesk`, `MCServices` | instances for TLC |

`MCStore`, `MCDesk` and `MCServices` hold several components in one run. A variable
(`storePart`, `deskPart`, `servicePart`) chooses one in the initial state, and only
that one moves: their state spaces add up instead of multiplying, and no statement
relates two parts. `MCSessionTeam` does the same with two scenarios of one
component.

Definitions named `Bug*` are variants of the definition below them that a
plausible mistake would produce; no specification uses them, they show that the
properties can tell the difference (`PROJECT.json`, "mutants"). A property that
is a conjunction has a mutant for each part that matters.

### `Projection`

Every reader (`r.projection(ctx)`) replays the whole ledger, so the ledger is
modelled by the projection it yields, as one record; the session row, updated
in the transaction of the append, is a field of it. Delegations and peer turns
run through the same life cycle under two sets of event names; both are *work*,
and the constant `Consultation` says which ids are peer turns. Texts,
attachments, transcripts and results are left out; `result` is whether one has
been recorded. Events neither switch mentions (`AgentTurnCompleted`,
`FinalStarted`, deltas) change no field and have no operator.

### `SessionRuntime`

| variable | code |
|---|---|
| `ledger` | the events of the session, replayed |
| `driver`, `recovered` | where `execute` stands (`runtime.go:63-181`) and its argument |
| `leaderPc`, `exit` | the Eino turn loop and the leader's turn; the loop's exit reason |
| `snap` | what `runActiveAgent` read when the turn began |
| `plan` | what remains to do of the outcome: cancellations, creations, hand-off, answer |
| `signalled`, `stopping` | the turn loop's buffer (with `r.pending` before it is installed) and `Stop` |
| `task`, `launched` | the goroutine of each work item with its attempt and its context; `r.launched` |
| `ctxDone`, `userCancelled`, `finalizing` | the run's context and flags |
| `steer`, `accepted`, `canceller` | `SteerInput` and `Cancel` in progress |
| `restarts`, `faults` | budgets of the environment |
| `unrecorded` | history: the store call that was to record the end of the session has failed |

A step is atomic where the code is: one Append (a transaction under
`appendMu`), one read of the ledger, one flag. Between a read and the append it
guards any other goroutine may act; that is where the races of section 4 are.
These merges are made, each because nothing another goroutine can see lies
between the parts:

- `scheduleReady` reads the ledger and launches in one step. A launch on a
  stale reading is caught by `launched` and by the goroutine's own second read.
- `AgentTurnStarted` is appended with the read that opens the turn; only the
  turn counter depends on it.
- `finalizing` is set with the read of the work to cancel.
- signals are one bit, "the buffer is not empty": a turn consumes the whole
  buffer, and its reading of the ledger, not the signals, decides what it sees.

Left out of `SessionRuntime`: the per-agent surface lock (`ModelSurface`), the
rounds and speaking order inside a consultation (each peer turn stands for itself),
the correction dialogue inside one model call (`ModelSurface` has it; here a call
answers, coordinates, or fails), and two processes *running* one session. The two
Eino functions the runtime relies on, `TurnLoop.Run` and `Stop(WithImmediate)`, are
marked external and follow the way `runtime.go` uses them.

The actor is in the action's name: `Driver*`, `Leader*` and `Turn*`, `Worker*`,
then `Steer*`, `Cancel*`, `Outside*` (a cancel from another process),
`Shutdown`, `Crash`, `Resume`. `*Fault` actions are failing store calls, and any
call may fail, also those made because another failed: `r.fail` reads the ledger
and appends `SessionFailed`, and drops the errors of both
(`runtime.go:1002-1011`), as `execute` drops that of the read before it
(`runtime.go:163`) and the handler of a failed delegation that of its own. The
goroutine then stops the loop, and the run returns, with nothing recorded:
`unrecorded` remembers it. `Cancel` ends the run whether or not its append succeeded.

### `WorkLifecycle`

The promise `SessionRuntime` keeps to a leader, seen from the ledger alone: no
goroutines, no processes, one record per work. Work is created after its
prerequisites, starts with their results and a new attempt number, is settled by
an attempt that is under way and has left no result, and is repeated only after
its process died. A cancellation may come at any time, and the attempt it overtakes
still starts and settles (the races of section 4). Since a crash may fall between
any two steps, the creation order also says that half a decision makes sense:
no work waits for work that was never created.

### `EventStream` and `EventLedger`

`EventStream` is the promise: events are written, and reader `s` receives
`From[s] + 1`, `From[s] + 2`, ... of those written, at its own pace.
`EventLedger` is how the store keeps it, one level below `SessionRuntime`,
where an append is one step. The refinement mapping of `OrderedStream` is
`written <- Len(log)`, `received <- delivered`.

| variable | code |
|---|---|
| `log` | the `events` rows of the session; the value of row n is the process that wrote it |
| `opened` | the stores that are open (`s.subs` is not nil) |
| `appender` | the append that holds `appendMu`, and the number it has allocated |
| `sub` | a subscription: its queue and signal (`store.go:29-36`), what the watcher has to report, and its goroutine: `lastSequence`, the events it is emitting |
| `delivered` | what has gone through the channel |

An append takes four steps (allocate, write, commit, publish), since readers act
between them; `AppendInput` and `CreateSession` append under the same lock in
the same way. `AppendWrite` takes SQLite's write lock, which is refused if another
commit has outdated the transaction's snapshot, and changes the file, which is what
notifies the watchers of other processes; `AppendCommit` makes the rows visible, in
shared memory nobody is notified of. A goroutine can so be woken, read the table and
find nothing (`event.go:266-281`). It takes one step for each pop, select, table
read and emission. A watcher's error ends the subscription (`SourceFails`). Every
store is a file store: only tests open one in memory, which has no watcher.

### Stores

- `CheckpointStore`: `checkpoints` and `checkpointVersions` are the two tables;
  `checkpointTx` is what each process is doing, with the snapshot a transaction
  reads from. `stale` says another process has committed since: SQLite then
  refuses the write (`SetFails`), which is what makes "maximum plus one" safe.
  `BackfillRead`, `BackfillCommit` and `OpenFails` are `Open` on a database
  whose heads have no version yet.
- `Conversations`: `sessions` is the table in order of allocated ids, and
  `calls` the start, continuation or resume each process has under way; an id is
  allocated before its row is inserted. Three readers (`sessionWalk`,
  `promptWalk`, `promptPin`) record what they listed and what they owed when
  they began; one reader is followed at a time, since readers do not act.
- `ContextArchive`: `records` and `artifacts` are the tables, `files` the
  transcripts on disk, `grants` what a delegation's prompt cites. `InScope` is
  the authority of a reader (`context_access.go`), `FittedPage` and
  `OpenForModel` the fitting of a page to the model's envelope with its searches.
  `seen` records what each reader was ever shown.
- `ContextEpochs`: one viewer per process and scope, a transaction for the epoch
  and one for its announcement.
- `ModelSurface`: `surfaceHead` is the saved surface, `surfaceLock` the per-agent
  mutex, `agentRun` the goroutines of one agent as leader and as consulted peer,
  with the request prepared, compacted, sent, answered, repeated after tools,
  corrected once, and saved, the commit in `AfterAgent` included. A crash may come
  anywhere.
- `ProcessManager`: a step for each section under `m.mu` or `p.mu` and for each
  select. The command itself writes and exits at any time; `wait` and `close`
  are the goroutines the code starts. A command that was killed dies, and with its
  exit lets go of its pipe: a descendant that has left its process group and keeps
  the pipe open would hold `command.Wait` (`process.go:428`), and is left out.

### Desk

- `TeamProfiles`: `revisions` is the table, with the revision a publication was
  made `base`d on and its `parent`; `windows` is each editor with its draft, the
  frozen reply and the answer it shows. A request is a probe that runs it and a
  transfer that fetches it; either may be repeated. The drawn Teams include ones
  that must be refused. A profile also holds what no window shows: `tuned`, the
  models with a reasoning effort or options, and `policy`, whether a disclosure
  policy or metadata is set. An imported profile has them; `DraftOf` has no field for
  them and `ProfileOf` leaves them empty, as the code does.
- `ThinkingGraph`: `work` and `toolCalls` are what the ledger says, the other
  variables what `Turn.apply` keeps. Events come as the runtime appends them: an
  attempt a dead process left is failed and started again (`interrupted`), a start
  or an end follows the cancellation that overtook it, a cancellation decided on an
  old reading follows the end of its work, and all of them may follow the end of the
  turn. A consultation's edge belongs to its collaboration, whose turns come one
  after the other; all delegations of a caller to a specialist share one edge.
- `TerminalSession`: `ui` is the Model, `commands` the goroutines Bubble Tea
  starts, `mail` their messages, handled in any order, `ran` the engine's
  sessions with the events they have emitted; a run leaves the engine's table
  settled or not. When `Subscribe` fails after the session was created
  (`tui/model.go:1154`) the session runs on, not `followed`, and its prompt is
  reported. A steer is saved as an instruction like any other; `late` marks one its
  leader stopped too early to see, which the terminal queues again. `prompts`
  remembers the prompts that were given up or reported back.
- `TerminalHistory`: `history` is the navigation with its token, `answers` the
  lookups under way, `picker` and `pages` the same for paged lists. A key that leaves
  the text as it is, an Up or Down inside the draft among them, is `KeepDraft`.

### Services

- `ContextBudget` is arithmetic and cuts, no state. `ContextCompaction` is one
  agent's run: `conversation` is the state's messages, `outgoing` the request,
  `observedLimit` the ceiling learned from a rejection, `archivedIds` what has
  been written to exact transcripts. The provider answers, rejects and names
  ceilings as it likes.
- `LiveWindow`: `ledger` per turn, `terminal` what the terminal has shown,
  `updates` and `pipe` on the way to the window, `applied` what the window's
  projection took in. The pipe may break, start late, and carry another
  conversation.

## 3. Runs that pass

| run | instance | checks |
|---|---|---|
| `team` | two agents, two delegations (any dependency), one consultation, 3 turns, undisturbed; and two delegations, 2 turns, two failing store calls, one steer, one cancel; a decision cancels one work at most | `TypeOK`, `NoLostWakeup`, `ReadyWorkIsLaunched`, `AnsweredOnce`, `RunSettlesSession`, `OneGoroutinePerWork`, `StartsAfterPrerequisites` |
| `recovery` | two delegations, 3 turns, one process death at any point, one failing store call | `RunningHasGoroutine`, `ResultNotRecomputed`, `WorksFollowTheirLifecycle` |
| `live` | two agents, two delegations, 2 turns, one steer, one cancel, a cancel from another process, fairness | `SignalServed`, `CancelEndsRun` |
| `store` | the stream with one process and readers from 0 and from 1; two processes on each table; one agent's surface; two tool calls on two commands | `StoreTypeOK`, `OrderedStream`, `VersionsAreAppendOnly`, `HistoryIsComplete`, `ReadersMissNothing`, `ExactSourcesAreReachable`, `ReadsStayInScope`, `EpochsAreInOrder`, `SurfaceOnlyGrows`, `SurfaceIsExact`, `NothingIsLeftBehind` |
| `desk` | two editors of one Team and an import; two agents and a specialist with two works, or with one work, a tool and the answer; a terminal with two prompts and two sessions; a history of two prompts | `DeskTypeOK`, `NoLostRevision`, `AnswersAreTruthful`, `DraftsMeanTheirTeam`, `GraphShowsTheWork`, `PromptsHaveOnePlace`, `ComposerIsReleased`, `LookupsStepByOne`, `LateAnswersAreHarmless` |
| `services` | two processes and one reader that may stop reading; two calls on one command; one agent's requests; two turns and a foreign one, all under fairness | `ServicesTypeOK`, `LosesOnlyOvertaken`, `CatchesUp`, `NobodyWaitsForever`, `RequestsStayValid`, `DroppedIsArchived`, `GraphFollowsTheLedger`, `WindowCatchesUp` |

What they say of a session:

- **No lost wake-up.** While the session waits with an empty buffer, every work
  that has come back was seen by the leader's last turn or its goroutine is
  about to signal.
- **Work lives as its leader may assume** (`WorksFollowTheirLifecycle`), through
  interruptions, faults and cancellations; see `WorkLifecycle`.
- **Ready work is launched.** While the session waits, ready work has a
  goroutine, or a prerequisite's goroutine is about to schedule it, or to stop the
  loop because its own scheduling failed: the three callers of `scheduleReady` leave
  no gap between them.
- **One goroutine per work.** A launch never meets a goroutine of the same work
  that has not returned. This also justifies giving each work one slot in
  `task`.
- **Attempts increase**, **results are not recomputed**, **prerequisites first**,
  **one answer**: the history of a session stays sane across cancellations,
  crashes and resumes.
- **Running work has a goroutine** until the run is over or its loop is stopped,
  right after a resume too, unless the leader cancelled its context (the exception
  is the race of `orphan` below).
- **Every run settles its session, or could not record it**: whichever
  goroutine's store calls fail, `execute` does not return with the session neither
  answered, failed nor cancelled, unless the call that was to record the end failed
  itself: the read or the append of `r.fail`, whose errors the code drops, or the
  append of `Cancel`. No other failure, and no combination of them, leaves a session
  running with nobody to run it (a shut-down run leaves it so on purpose, and is
  not in this run).
- **Cancel ends the run**, wherever its goroutines stand. **Signals are served**
  by a later turn, or the loop ends.

Of the stores:

- **A subscription is an ordered stream** while one process writes the session:
  queue, history and table reads overlap without a gap or a repetition.
- **Versions are append-only and the history is complete**: no version changes
  or disappears, neighbours differ, and once a database is open the live value
  of a key is its last version.
- **Readers miss nothing**: whoever pages to the end sees each conversation
  nobody touched, and each prompt that was there, once; Up keeps naming the same
  prompts, unless a turn was being inserted when the snapshot was pinned.
- **Exact sources are reachable**, by cursor, by byte range and by reference;
  **reads stay in scope**: an attempt sees its own transcripts and what its prompt
  cites, nobody sees another conversation.
- **Epochs are in order** for each scope: numbers without a gap, each with one
  view, and announced only when durable. The announcements of two processes may be
  written in either order, and nothing is claimed of that.
- **The surface only grows** within an epoch, **and is exact**: announced header,
  each request once, the snapshot it believes current is the last one shown.
- **Nothing is left behind** by commands: each open transcript, handle and running
  process belongs to somebody.

Of the desk: **no revision is lost** (nobody publishes over what they have not
seen), **answers are truthful** (a publication runs once per request whatever is
probed again); **drafts mean their Team's graph**: what a window accepts the table
accepts, and publishing an untouched revision keeps gateway, members, models, peers
and calls and clears just what a draft does not hold; **the graph shows the work**,
whatever the order of events; **a prompt has one place** between composer, queue,
commands, messages, the sessions the terminal follows and the instructions their
leaders see (a late steer's copy in the ledger and the session whose `Subscribe`
failed are the two exceptions, and the prompt of the latter is reported, not sent
again); **the composer is released**; **late answers are harmless**.

Of the services: **only overtaken events are passed over**, **a reader that keeps
reading catches up** with its own process's events and with everything that an event
follows (another process's last event may be missed, section 4), **nobody waits
for ever** (a closed subscription, a closing runtime, a finished command, a
recovery), **requests stay valid**, **what is dropped is archived**, and the window
**takes each event once, in order, of its own conversation, and catches up** without
its pipe.

**Bounds.** Two delegations are what a dependency and a race between two goroutines
need; the third work adds a consultation, which takes other branches (no
`scheduleReady` on completion). Three turns allow creating, reacting and answering.
The last turn allowed by `MaxTurns` cannot coordinate, it answers or fails, so the
bound never stops the system artificially. One death is enough for a resume, and a
second resume starts from the same kind of ledger. Two faults are a failing store
call and the failure of the call that records it; that more of them, and cancelling
several works at once, change nothing is proved (section 5). An edge of the graph
counts two starts at once (`MaxActive`): two works on one edge, or one work again
after a late cancellation. At the terminal three keys are pressed, one of which may
be a slash command: a start, a failing command and a second start, or a start, a
steer and an edit. Three prompt lookups let an answer to a lookup given up meet a
lookup at another offset; `HistoryMoves` opens both pickers only with two of them.
For the ledger, three events are one in the history, one in the queue and one on
its way; a third process would be a second foreign one. Two versions per key and
two processes are what a stale snapshot needs; a backfill finds heads without
history in the initial states. Pages of one row over two or three rows make every
reader cross a page border, and two milliseconds make update times tie. A record of
code points of one, three and two bytes has cuts inside and between them, and the
rooms of three and six bytes fall on either side. Two requests and two runs let a
second turn, a consultation, a correction and a resume meet one surface. One handle
is used again after its command ends. Message sizes of one and three under a window
of nine leave room to compact, to overflow and to fail. A foreign turn with one
event is enough to be mistaken for one's own. Deadlock checking is off because a
settled session, and each bound, ends a run. Symmetry is used in `desk` alone, of
the graph's two work ids, which no definition orders: that run checks no liveness.
Elsewhere work ids are ordered, the primary agent is distinguished, or liveness is
checked in the same run.

**Fairness.** `FairSpec` of `SessionRuntime` (`live`): weak fairness for the driver,
the leader and each worker, which includes that a model call returns in the end
(providers have request timeouts, and a cancelled context ends a call). Calls of
`SteerInput` and `Cancel` that have begun return. Nothing forces a user to act, a
process to die or resume, or a store call to fail. `ServicesSpec` (`services`): an
append that has begun returns and goroutines run, and one that finds its
subscription ended over and over notices in the end (strong fairness of `Finish`:
Go's `select` picks among the ready cases at random), but readers may stop reading;
the manager's goroutines run on and a killed command dies, but no command exits by
itself, no call is made and nobody closes; a recovery's call comes back in one of
the ways it may; the window's ticker fires while the window is open, but the pipe
owes nothing. The parts that do not move have no step to take, so the conjunction of
their fairness holds for them.

## 4. Runs that find a disagreement

Each checks one property that the repository states and the code does not keep.

| run | what happens |
|---|---|
| `stall` | A delegation whose prerequisite failed or was cancelled is never ready (`runtime.go:666`), yet `WorkCount` counts it. The leader's "wait" is accepted (`runtime.go:429-439` only rejects waiting with no work) and nothing will ever signal it. |
| `orphan` | The leader appends a cancellation between the goroutine's reading (`runtime.go:701-709`) and its `DelegationStarted` (`runtime.go:732`), so cancelled work starts; the leader cancels the goroutine's context; the goroutine returns silently, as if the process were shutting down (`runtime.go:790-793`), and the work stays "running" with nobody running it. |
| `steer` | `SteerInput` reads `finalizing` before its append and push; the leader finalizes in between and `SteerInput` returns nil for an instruction no turn reads (`engine.go:242-258`). |
| `outside` | `alt cancel` from another process appends `SessionCancelled`; the running process never looks, and its answer sets the row to completed. |
| `overtaken` | Another process commits event n and this process then appends n+1. Both announcements wait; the goroutine pops n+1, the cursor moves past n, and the read of the table starts after n+1 (`event.go:240`, `273`). A reader in the running process can so miss a cancel from another one. |
| `starting` | While a session is being created, a failing `/profile` or `/rename` sets `starting` to false (`tui/model.go:676`); the next Enter starts a second session beside the first, which a test calls a failure (`tui/model_test.go:829`). |

Two more divergences are in the models and have no run, since no checked property
claims the opposite:

- The watcher is notified when the file is written, before the commit can be read.
  The goroutine may use up the notification with a read that finds nothing
  (`event.go:266-281`); when no later write follows, as after the last event of a
  session, the event is never delivered. `store/store_test.go:429` calls that a
  failure. `CatchesUp` is false without the part of its premise that leaves this
  event out.
- `collect` reads the transcript and then looks at `done` (`process.go:270`, `274`):
  a command that writes its last bytes and exits in between is released with those
  bytes unread, although `tools.go:225` promises that completed output with more
  pages can be drained. `NothingIsLeftBehind` says that the transcript is removed,
  not that it was read.

## 5. Proofs

Every theorem holds for every value of the constants that satisfies the named
assumptions; the runs show the same property on one small instance. Each
inductive invariant was first checked by TLC on the run of its component.

| theorem | property | for |
|---|---|---|
| `TypeCorrect`, `OneGoroutineCorrect`, `StartsAfterPrerequisitesCorrect`, `ResultNotRecomputedCorrect`, `AnsweredOnceCorrect` | `TypeOK`, `OneGoroutinePerWork`, `StartsAfterPrerequisites`, `ResultNotRecomputed`, `AnsweredOnce` | any work, agents, peer relation, bounds, with deaths, faults, steers and cancels |
| `AttemptsIncreaseCorrect`, `FailureNotRepeatedCorrect`, `ActingAgentLeadsCorrect`, `LeadershipMovesCorrect` | `AttemptsIncrease`, `FailureNotRepeated`, `ActingAgentLeads`, `LeadershipMovesByHandoff` (no run) | the same |
| `NoLostWakeupCorrect`, `RunningHasGoroutineCorrect`, `ReadyWorkIsLaunchedCorrect` | `NoLostWakeup`, `RunningHasGoroutine`, `ReadyWorkIsLaunched` | the same |
| `LifecycleCorrect` | `WorksFollowTheirLifecycle`: `SessionRuntime` implements `WorkLifecycle` | the same |
| `RunSettlesSessionCorrect` | `RunSettlesSession` | the same, in a process that stays (`MaxRestarts = 0`): a shut-down run leaves its session running on purpose |
| `CheckpointTypeCorrect`, `ConversationTypeCorrect`, `ArchiveTypeCorrect`, `ViewTypeCorrect`, `SurfaceTypeCorrect`, `ProcessTypeCorrect`, `CompactionTypeCorrect`, `WindowTypeCorrect`, `GraphTypeCorrect`, `HistoryTypeCorrect`, `TerminalTypeCorrect`, `TeamTypesCorrect` | the type invariant of each component | any instance of it |
| `LedgerTypeCorrect`, `DeliveredInOrderCorrect`, `LosesOnlyOvertakenCorrect` | `TypeOK`, `DeliveredInOrder`, `LosesOnlyOvertaken` | any processes and readers |
| `StreamCorrect` | `OrderedStream` | one process (`Process = {p}`); with more it is false, see `overtaken` |
| `HistoryIsCompleteCorrect`, `VersionsAppendOnlyCorrect` | `HistoryIsComplete`, `VersionsAreAppendOnly` | any processes, keys and values |
| `ReadersMissNothingCorrect` | `ReadersMissNothing` | any processes and sessions, pages of any size |
| `ReadsStayInScopeCorrect`, `ExactSourcesAreReachableCorrect` | `ReadsStayInScope`, `ExactSourcesAreReachable` | any records, attempts and tool calls, code points of any length, requests and envelopes of any size |
| `EpochsAreInOrderCorrect` | `EpochsAreInOrder` | any processes, scopes and events |
| `SurfaceIsExactCorrect`, `SurfaceOnlyGrowsCorrect` | `SurfaceIsExact`, `SurfaceOnlyGrows` | any headers, snapshots and requests, crashes included |
| `NothingIsLeftBehindCorrect` | `NothingIsLeftBehind` | any commands, calls, output and page size |
| `RequestsStayValidCorrect`, `DroppedIsArchivedCorrect` | `RequestsStayValid`, `DroppedIsArchived` | messages of any size, a provider of any ceiling, its rejections and failures included |
| `NoLostRevisionCorrect`, `AnswersAreTruthfulCorrect` | `NoLostRevision`, `AnswersAreTruthful` | any windows and imports |
| `AcceptedDraftsAreValidCorrect`, `DraftsKeepTheTeamCorrect`, `DraftsMeanTheirTeamCorrect` | `DraftsMeanTheirTeam` and its two halves | any Team that can be drawn, any profile that can be imported |
| `GraphShowsTheWorkCorrect` | `GraphShowsTheWork` | any team, works and tool calls |
| `GraphFollowsTheLedgerCorrect` | `GraphFollowsTheLedger` | any turns and events |
| `LateAnswersAreHarmlessCorrect`, `LookupsStepByOneCorrect` | `LateAnswersAreHarmless`, `LookupsStepByOne` | any history and number of lookups |
| `PromptsHaveOnePlaceCorrect`, `ComposerIsReleasedCorrect` | `PromptsHaveOnePlace`, `ComposerIsReleased` | any prompts, sessions, keys and messages |
| `StoreRunsItsParts`, `ServicesRunTheirParts`, `DeskRunsItsParts` | each composed instance implements the specification of every part of it (the services with their fairness) | any constants of the parts |
| `StoreTypeCorrect`, `ServicesTypeCorrect`, `DeskTypeCorrect` | `StoreTypeOK`, `ServicesTypeOK`, `DeskTypeOK` | the same |
| `StoreCorrect`, `ServicesCorrect`, `DeskCorrect` | the safety properties of the runs `store`, `services` and `desk`, together | the same; the stream's with one process |

**Assumptions.** Each is named in the module that declares the constants, and
TLC evaluates it in the component's run. They say that

- ids are not the value that stands for none (`NoAgentAssumption`,
  `WindowAssumption`, `SurfaceAssumption`, `GraphAssumption`, `TeamAssumption`);
- bounds are numbers (`RuntimeAssumption`, `LedgerAssumption`,
  `CheckpointAssumption`, `ViewAssumption`, `ProcessAssumption`,
  `HistoryAssumption`, `ConversationBounds`), and that there is room for what the
  code does without asking: one event of a turn (`WindowAssumption`), one call or
  answer on an edge, and finitely many works (`GraphAssumption`), the prompt of the
  command line (`TerminalAssumption`);
- a page holds at least one row (`ConversationAssumption`: the callers clamp their
  limits);
- a record is a sequence of code points of at least one byte, and negative limits
  are refused before they reach the archive (`ArchiveAssumption`,
  `tooling/tools.go:269-310`);
- headers, instructions and messages have a size, and the ceilings a provider names
  are numbers (`CompactionAssumption`);
- what is decoded from a profile file or a request has the fields of its Go type
  (`TeamShapes`): ids are numbers, lists are lists, a profile has its primary agent.
  It says nothing of what `Validate` checks.

The type invariants bound what the code bounds: the epochs of a surface, for
instance, by two for each run (one that starts with the first request, one after
a compaction).

### The session runtime

The argument is in layers, each an inductive invariant that uses the ones below.

1. `TypeOK` (`TypeCorrect`), from the lemmas about `Projection`: what each
   event arm returns for a well-typed projection.
2. `StartupInv` (`StartupCorrect`): until the driver has scheduled, no goroutine
   exists, so the recovery that rewrites running work into interrupted work
   meets none.
3. `GoroutineInv` (`GoroutinesCorrect`) ties each goroutine to its work's
   record. The action properties alone are not inductive: that a Started event
   carries the next attempt needs to know that the goroutine's attempt is the
   successor of the recorded one *whatever happened since it was launched*. So
   for each work: before its Started event a goroutine holds the next number and
   its work is startable or was cancelled (`BeforeStartOK`); after it, it holds
   the current number and the work is not startable (`AfterStartOK`); every live
   goroutine's attempt is in `launched` (`LaunchedOK`), which is what makes
   `scheduleReady` pass it over; an unstarted goroutine's prerequisites have
   results (`PrerequisitesInv`), and a result is never withdrawn.
4. `LeaderInv` (`LeaderCorrect`): the leader's turn runs under the name in the
   ledger, a planned hand-off goes to its peer, and a run that may still answer
   has not answered.

Each action property then follows from one step of `Next` and the invariant.
`SessionRuntimeWaiting` adds the safety half of progress: nothing waits for a
step nobody is about to take. It first says once, for one work, what any step of
the system can do to it (`TaskSteps`), and for the loop what any step can do to
its buffer (`LoopSteps`); the invariants then follow case by case.

5. `WakeupInv`: while the loop is open it holds a signal, or the latest turn saw
   every work that came back and whose goroutine is past its signal. It is
   stronger than `NoLostWakeup` in that it also speaks of the time a turn runs:
   the reading that opens a turn comes after the buffer is emptied.
6. `RunningInv`: who gives up running work has a cancelled context or an ended
   session behind it, and what a resumed run finds running is marked before its
   loop starts.
7. `ReadyInv`: an attempt `launched` holds back has its goroutine; ready work has
   one, or somebody who ends in `scheduleReady`, or in stopping the loop because that
   failed, is on the way. That needs
   `OutcomeInv` (the outcome creates work only on the path that ends there, and
   peer turns, which do not schedule when they complete, are nobody's
   prerequisite) and `CancelInv` (the leader records a cancellation before it
   cancels the context).
8. `SettledInv`: whatever stops the loop (`Stop`, a cancelled context, an error)
   has ended the session in the ledger first or has failed to (`Over`), or the driver
   goes on to record the failure.
9. `LifecycleInv`, for the refinement of `WorkLifecycle` (`work <- ledger.work`):
   a goroutine between its start and its outcome settles an attempt that has no
   result, though it may have been cancelled meanwhile (`AttemptInv`), and what is
   still to be created comes after its prerequisites (`NewWorkInv`). Each event of
   a work is then one step of `WorkLifecycle`, and every other step a stutter.

### The ledger

For `DeliveredInOrder` the strengthening (`OrderInv`) is that the cursor bounds
everything delivered. For `StreamCorrect` it is `StreamInv`: cursor, items being
emitted, queue and unpublished commit lie end to end. `CursorInv`: the reader has
received exactly the events up to the cursor. `ItemsInv`: what is being emitted
begins at most one after the cursor. `QueueInv`: the queue begins at most one after
that. `PendingInv`: the queue, or else the cursor, ends at the last event published.
The parts may overlap, which is where `emit` skips; they may not leave a gap.
`LockInv`: a transaction that has written is the only one that has, and nobody has
committed since it read, so its event is the next one when it becomes visible. Each
`Receive` is then the next event, and every other step writes or stutters. With
several processes gaps do occur; `LosesOnlyOvertaken` says which, and its invariant
(`SubscribersInv`) accounts for each event at or before the cursor: delivered, or
foreign and followed by a local event that was.

### The stores

- *Checkpoints.* `CheckpointInv`: a head with a history is its last entry
  (`HeadsInv`); what a process that opens the database has found missing is
  every head still without a history, as it was read or deleted since
  (`BackfillOK`); once one process has opened it no head is without a history
  (`OpenedOK`), which later commits of any process keep; and a transaction whose
  snapshot is current knows how its value compares with the last version
  (`SetOK`). A commit of one process makes every other snapshot stale, so `SetOK`
  then asks nothing of the others (`CommitKeepsTx`): that is where the argument
  uses that SQLite refuses a write on an old snapshot. `EpochInv` makes the same
  argument for epochs, with one transaction at a time in each process (`OneLane`,
  `appendMu`).
- *Conversations.* A reader's invariant says where each row it owes is: listed
  once on this side of the cursor, not at all on the other (`SessionWalkInv`,
  `PromptWalkInv`). A page is the first k rows of what is left under a strict
  order, so its last row cuts what was listed from what was not (`PageCut`):
  the lemma holds for update times with ties broken by id, and for ids. An owed
  conversation is one nobody touches, so it keeps its side; a touched one moves
  before every cursor. `PinInv`: the prompts that were committed are those up to
  the newest, unless an id was on its way.
- *Archive.* `SeenInv` keeps of each reader what it was shown as *visible*, which
  only grows as turns begin and a delegation's prompt is made. `WalkInv` is the
  walk's cursor invariant again, with pages that were cut to fit the envelope.
  What a page of a record shows rests on two recursive functions over data, the
  ends of code points and the binary search for the largest page that fits.
  `ProbeValue` says what the search returns: a page that fits and is not empty,
  or a refusal.
- *Surface.* `SurfaceInv` relates the saved head to what the one goroutine that
  holds the lock has in memory at each step between load and save (`RunInv`); an
  announcement lies before the save, so a crash leaves an announced epoch unused
  and never a saved one unannounced.
- *Commands.* `CommandInv`: each command that runs on or has a transcript is in
  somebody's care (`InCare`: a call about to register it, the table, or the close
  that took the table). A reserved handle belongs to one call and no command
  (`CreateInv`), which is why handles of commands that overlap differ.
- *Requests.* `CompactionInv`: the conversation and the request are each headed by
  the system message and place every result behind its call (`Headed`); while
  recovery rebuilds the request everything that was in it is archived, and once it
  has gone out what it lacks of the conversation is. That each cut keeps tool
  exchanges whole rests on what the cuts return (`RebuiltIsHeaded`).

### The desk

- `TeamInv`: between a probe and its transfer the frozen answer is about what the
  request wrote; every other answer claims nothing.
- `ShapeInv` adds that what is stored and edited is well formed. For
  `DraftsKeepTheTeam` two sides are compared member by member: a draft of a
  profile lists each edge once, from its smaller end; writing it back puts each
  edge on an agent that has it (`ProfileTyped`, `DraftWritten`), so the members, the
  models and the neighbours of each agent are those of the profile (`MeaningKept`).
  What no window shows is empty in every profile made from a draft.
- `GraphInv`: every result has its edge, the works the graph counts are those that
  run, and so the activity counts are the cardinalities of the running work, for a
  turn that is over too; a participant with running work is drawn running. An edge's
  own count claims nothing: an attempt that is repeated, or an end that comes late,
  leaves it off.
- `WindowInv`: what is applied of each turn is a prefix `1 .. n` of its ledger, and
  everything in the pipe is durable: a push that is a repetition is dropped, one
  that leaves a hole makes the window read the ledger.
- `LookupInv`: an outstanding lookup is for the entry after the one that is shown;
  `PickerInv`: a loading picker has exactly one page of its own generation on the
  way.
- `PlacesInv`: a typed prompt is at exactly one of eight places, an untyped one at
  none, and each of the queue, the commands, their answers and the sessions' tasks
  holds it once at most (`AloneInv`): without that, taking one payload out would not
  take the prompt out. A command that steers or interrupts is for a session there is
  (`WiringInv`). Each action moves one payload, so one lemma about a payload that
  goes from one place to another (`PayloadMoves`) carries the argument.
  Beside it, `InstructedInv` says that no prompt is an instruction twice, and
  `ReportedInv` that the prompt of a session that runs unfollowed is reported or about
  to be.
- `TerminalTypes` adds that each payload is made of different prompts, so that
  merging the queue into the draft (`FlattenMerged`) repeats none, and that each
  session was opened after one before it, which is why the walk through a
  conversation (`ShowHistory`) ends.
- `ComposerInv`: a composer held back has a command that starts a session, or its
  answer, under way.

### Recursion without induction schemes

The library's induction theorems take an operator as a parameter and cannot be used.
The recursive functions (two of `ContextArchive`, the conversation that recovery
rebuilds, the merged draft of the queue, the terminal's view of a conversation, and
the edges that are written into a profile) are reasoned about by a least
counterexample instead: `LeastElement` and its like (from the well-foundedness of
`<` on the naturals) give the first number at which a *set* of good numbers fails,
and the recursive equation carries goodness past it. A second application shows that
the recursive function exists, since the functions on longer and longer prefixes
agree.

### What is only model-checked

- all liveness (`SignalServed`, `CancelEndsRun`, `CatchesUp`,
  `NobodyWaitsForever`, `WindowCatchesUp`): fairness and
  `ENABLED` are out of the prover's reach.

Every safety invariant and every action property that a run checks is a theorem.
The compositions are proved without an invariant of their own: a step of one part
is a stutter of the others, so each composed specification implies the
specification of each part, and what is proved of the part holds of the whole.

Orderings and filters of lists are written as `Ordered` and `WithIds`, walks over
lists as recursive functions (`ForEach`, `ShowTurn`, `ShowHistory`), since the
provers know no `SortSeq`, `SelectSeq` or fold.

`AttemptsIncrease` (which `WorkLifecycle` implies), `FailureNotRepeated`,
`ActingAgentLeads`, `LeadershipMovesByHandoff` and `DeliveredInOrder` are not checked
by a run any more, having been proved for all instances.

## 6. Plan

The rounds and speaking order of collaborations; two processes running one
session.

## 7. Not modelled

- Wire formats of model services and research services, catalogues and their
  parsing: a request and an answer, no state of this program. The limits and
  models they report are constants here.
- `credential/store.go`: one file, replaced by rename. cline's token refresh is one
  request under a mutex; its only race is with another process, and what it does
  depends on the service.
- File, patch and web tools: one call's input and output; the patch matcher is a
  search in text.
- Rendering, tool cells, selection, the editor and clipboard programs, the native
  window's geometry and drawing, snapshot encoding, argument parsing, generated
  licence texts: no state that several steps could disturb.
- Parts of modelled components: the batching of stream deltas
  (`store/event_buffer.go`), full-text ranking, resolving ids by prefix, images
  stored under their digest, YAML parsing and the wording of diagnostics, the
  collaboration rounds of peer turns, and two processes *running* one session
  (`Conversations` lets them resume it; what they then do to one ledger would be a
  composition of two `SessionRuntime`s).
- Seen in the models but contradicted by no statement of the repository: a
  transcript file left partial by a crash blocks every later archive of the same
  transcript (`context_compaction.go:599`); a low probe of the page search can be
  refused although a larger page would fit (`tools.go:579`); the epoch of a
  surface can be announced twice after a crash (`model_surface.go:185`); a store
  failure that is hit again while it is recorded leaves a session running until
  somebody resumes it (`runtime.go:1004`); a Team imported with reasoning efforts,
  options, a disclosure policy or metadata loses them when a window publishes it,
  though the runtime reads them (`protocol.go:200-238`,
  `provider/openaicompat/factory.go:105`); the prompt of a session whose
  subscription failed is reported as not sent although the session runs
  (`tui/model.go:1154`); a steer refused after the session's last event waits in
  the queue until another session ends (`tui/model.go:672`); the last event of an
  earlier session can end the subscription of the next one (`tui/model.go:553`); a
  lookup's answer overwrites pasted text (`tui/model.go:666`).
