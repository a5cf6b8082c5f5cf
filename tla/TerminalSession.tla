-------------------------- MODULE TerminalSession --------------------------
(***************************************************************************)
(* The terminal's side of a conversation: the composer, the prompt queue,  *)
(* steering, resuming, and the messages the program loop handles one at a  *)
(* time (internal/tui/model.go, interaction.go, rich_composer.go,          *)
(* transcript.go).                                                         *)
(*                                                                         *)
(* Update never blocks.  What takes time is a command: a goroutine of its  *)
(* own that calls the engine and posts its result as a message, in no      *)
(* order.  The events of a session arrive the same way, one waiter per     *)
(* message, while keys are answered from what Update holds and from        *)
(* Engine.Active, which is the engine's present state and not the one the  *)
(* events handled so far describe.                                         *)
(*                                                                         *)
(* A prompt is a number; a payload is the sequence of prompts merged in    *)
(* one draft.  Rendering, pickers, attachments' bytes and status lines are *)
(* left out.                                                               *)
(***************************************************************************)
EXTENDS Naturals, Sequences, FiniteSets, SequencesExt

CONSTANTS MaxPrompts,   \* bound: prompts a user types
          MaxSessions,  \* bound: sessions the engine starts
          MaxOthers,    \* bound: slash commands that fail
          MaxKeys       \* bound: keys and commands other than writing

\* A launch may bring a prompt of its own, the first one.
ASSUME TerminalAssumption ==
  MaxPrompts \in Nat \ {0} /\ {MaxSessions, MaxOthers, MaxKeys} \subseteq Nat

VARIABLES ui,        \* the Model
          prompts,   \* how many prompts were typed, and those that ended unsent
          ran,       \* the engine's sessions, in the order they were created
          commands,  \* commands under way
          mail,      \* messages posted and not handled yet
          streams    \* the event subscription of each session

terminalVars == <<ui, prompts, ran, commands, mail, streams>>

Sessions == 1..MaxSessions
NoSession == 0

(***************************************************************************)
(* The engine, as far as the terminal sees it.                             *)
(***************************************************************************)
\* An event; `late` marks an instruction the leader stopped too early to see,
\* which the ledger does not tell from any other.
Entry(kind, text) == [kind |-> kind, text |-> text, late |-> FALSE]
LateInstruction(text) == [Entry("instruction", text) EXCEPT !.late = TRUE]

IsTerminal(kind) == kind \in {"completed", "failed", "cancelled"}

\* Engine.Active: the run is in the engine's table.
EngineActive(s) == s # NoSession /\ ran[s].active

\* mutant: a new conversation names itself as what it continues
BugOpenedAfterItself(text, previous) ==
  [status |-> "running", active |-> TRUE, followed |-> TRUE,
   previous |-> IF previous = NoSession THEN Len(ran) + 1 ELSE previous, task |-> text,
   events |-> <<Entry("created", text)>>]

\* A new session and its SessionCreated event; `followed` is whether the
\* command that created it could subscribe to it.
Opened(text, previous) ==
  [status |-> "running", active |-> TRUE, followed |-> TRUE, previous |-> previous,
   task |-> text, events |-> <<Entry("created", text)>>]

\* The session settles: the terminal event and the status are one append.
Ended(t, kind) == [t EXCEPT !.status = kind, !.events = Append(@, Entry(kind, <<>>))]

\* A session completes or fails.
EndRun(s, kind) ==
  /\ s \in DOMAIN ran
  /\ ran[s].active
  /\ ran[s].status = "running"
  /\ ran' = [ran EXCEPT ![s] = Ended(@, kind)]
  /\ UNCHANGED <<ui, prompts, commands, mail, streams>>

\* Its run leaves the engine's table some time later, or without settling the
\* session when r.fail could not record the failure.
LeaveTable(s) ==
  /\ s \in DOMAIN ran
  /\ ran[s].active
  /\ ran' = [ran EXCEPT ![s].active = FALSE]
  /\ UNCHANGED <<ui, prompts, commands, mail, streams>>

(***************************************************************************)
(* Commands.                                                               *)
(***************************************************************************)
Command(op, text, s) == [op |-> op, text |-> text, session |-> s]

\* `event` is the event's place in its session, 0 in any other message.
PlainMessage(kind, text, s) == [kind |-> kind, text |-> text, session |-> s, event |-> 0]

\* A command ends and posts its messages; infoMsg changes nothing here.
Post(c, messages) ==
  /\ commands' = commands \ {c}
  /\ mail' = mail \cup messages
  /\ UNCHANGED <<ui, prompts, streams>>

Failure(c) == {PlainMessage("error", c.text, c.session)}

\* startSessionCmd and continueSessionCmd: the engine creates the session,
\* or refuses; a continuation of a running session is always refused. When
\* Subscribe fails after that, the session runs on and the command fails.
RunStart(c) ==
  /\ c.op \in {"start", "continue"}
  /\ \/ /\ c.op = "continue" => c.session # NoSession /\ ran[c.session].status # "running"
        /\ Len(ran) < MaxSessions
        /\ \/ /\ ran' = Append(ran, Opened(c.text, c.session))
              /\ Post(c, {PlainMessage("started", c.text, Len(ran) + 1)})
           \/ /\ ran' = Append(ran, [Opened(c.text, c.session) EXCEPT !.followed = FALSE])
              /\ Post(c, Failure(c))
     \/ Post(c, Failure(c)) /\ UNCHANGED ran

\* Engine.Resume: a session still running is in the table again.
Resumed(t) == [t EXCEPT !.active = @ \/ t.status = "running"]

\* resolveConversationCmd and openSessionCmd: the session is found, and
\* resumed when it runs, or not; Subscribe may fail here as well.
RunOpen(c) ==
  /\ c.op = "open"
  /\ \/ /\ c.session # NoSession
        /\ ran' = [ran EXCEPT ![c.session] = Resumed(@)]
        /\ Post(c, {PlainMessage("opened", <<>>, c.session)}) \/ Post(c, Failure(c))
     \/ Post(c, Failure(c)) /\ UNCHANGED ran

\* steerSessionCmd: refused once the run left the table, settled or is
\* finalizing; saved otherwise as an instruction like any other, and refused
\* all the same when the leader stopped before it could observe it.
RunSteer(c) ==
  /\ c.op = "steer"
  /\ \/ /\ EngineActive(c.session) /\ ran[c.session].status = "running"
        /\ \/ Post(c, {})
              /\ ran' = [ran EXCEPT ![c.session].events = Append(@, Entry("instruction", c.text))]
           \/ Post(c, {PlainMessage("rejected", c.text, c.session)})
              /\ ran' = [ran EXCEPT ![c.session].events = Append(@, LateInstruction(c.text))]
     \/ Post(c, {PlainMessage("rejected", c.text, c.session)}) /\ UNCHANGED ran

\* cancelSessionCmd: appending to a session that settled meanwhile fails,
\* unless its run is gone too.
RunCancel(c) ==
  LET t == ran[c.session]
  IN  /\ c.op = "cancel"
      /\ IF t.status = "running"
         THEN ran' = [ran EXCEPT ![c.session] = Ended(@, "cancelled")] /\ Post(c, {})
         ELSE UNCHANGED ran /\ Post(c, IF t.active THEN Failure(c) ELSE {})

\* Another command that fails: a profile that is not there, a refused rename.
RunOther(c) ==
  /\ c.op = "other"
  /\ Post(c, Failure(c))
  /\ UNCHANGED ran

\* waitEventCmd takes the next event of its channel. Once the subscription
\* is cancelled its goroutine may still send an event or close the channel.
TakeEvent(s) ==
  /\ streams[s].waiters > 0
  /\ \/ /\ streams[s].at < Len(ran[s].events)
        /\ streams' = [streams EXCEPT ![s].waiters = @ - 1, ![s].at = @ + 1]
        /\ mail' = mail \cup {[kind |-> "event", text |-> <<>>, session |-> s,
                               event |-> streams[s].at + 1]}
     \/ /\ streams[s].closed
        /\ streams' = [streams EXCEPT ![s].waiters = 0]
        /\ UNCHANGED mail
  /\ UNCHANGED <<ui, prompts, ran, commands>>

(***************************************************************************)
(* The transcript and the queue.                                           *)
(***************************************************************************)
\* A turn of the transcript.
TurnView(s, status, shown) == [session |-> s, status |-> status, shown |-> shown]

LastTurn(u) == Len(u.turns)

\* m.active(): the session shown is in the engine's table.
ShownActive(u) == EngineActive(u.session)

\* beginTurn
BeginTurn(u, text) ==
  [u EXCEPT !.turns = Append(@, TurnView(NoSession, "running", <<text>>)), !.starting = TRUE]

\* applyEvent and sessionStartedMsg open a turn of their own unless the
\* current one is this session's or has none yet.
TurnFor(u, s) ==
  IF LastTurn(u) = 0 \/ u.turns[LastTurn(u)].session \notin {NoSession, s}
  THEN [u EXCEPT !.turns = Append(@, TurnView(s, "running", <<>>))]
  ELSE u

\* What an event does to the turn it is shown in.
ShowEvent(u0, s, item) ==
  LET u == TurnFor(u0, s)
      n == LastTurn(u)
  IN  CASE item.kind = "created" ->
             IF u.turns[n].shown = <<>> THEN [u EXCEPT !.turns[n].shown = <<item.text>>] ELSE u
        [] item.kind = "instruction" ->
             IF u.optimistic # <<>> /\ Head(u.optimistic) = item.text
             THEN [u EXCEPT !.optimistic = Tail(@)]
             ELSE [u EXCEPT !.turns[n].shown = Append(@, item.text)]
        [] OTHER -> [u EXCEPT !.turns[n].status = item.kind]

\* The events of the turn t, applied in order.
ShowTurn(u, t) ==
  LET view[i \in 0..Len(ran[t].events)] ==
        IF i = 0 THEN u ELSE ShowEvent(view[i - 1], t, ran[t].events[i])
  IN  view[Len(ran[t].events)]

\* The turns before s in its conversation, shown oldest first; events change
\* the turns and the optimistic prompts alone.
ShowHistory(u, s) ==
  LET view[t \in 0..Len(ran)] ==
        IF t = NoSession THEN u ELSE ShowTurn(view[ran[t].previous], t)
      after == view[ran[s].previous]
  IN  [u EXCEPT !.turns = after.turns, !.optimistic = after.optimistic]

\* appendQueued, prependQueued
AppendQueued(u, text) == [u EXCEPT !.queued = Append(@, text)]
PrependQueued(u, text) == [u EXCEPT !.queued = <<text>> \o @]

\* mutant: the prompt that is sent stays in the queue
BugPopKeepsPrompt(u) == u

\* popQueued
PopQueued(u) == [u EXCEPT !.queued = Tail(@)]

\* restoreQueuedDraft: the queue and what is being written become one draft.
RestoreQueued(u) == [u EXCEPT !.queued = <<>>, !.draft = FlattenSeq(u.queued) \o @]

\* resetSessionView: the subscription held is cancelled and the queue dropped.
ResetView(u) ==
  [u EXCEPT !.starting = FALSE, !.session = NoSession, !.stream = NoSession,
            !.subscribed = NoSession, !.turns = <<>>, !.queued = <<>>, !.optimistic = <<>>]

CancelStream(s) == IF s = NoSession THEN streams ELSE [streams EXCEPT ![s].closed = TRUE]

Wait(ss, s) == IF s = NoSession THEN ss ELSE [ss EXCEPT ![s].waiters = @ + 1]

\* A key that gives up the prompts of some payloads.
PressKey(texts) ==
  /\ prompts.keys < MaxKeys
  /\ prompts' = [prompts EXCEPT !.keys = @ + 1, !.discarded = @ \cup ToSet(FlattenSeq(texts))]

\* A key is answered: the new Model and the commands it starts.
Answered(u, started) == ui' = u /\ commands' = commands \cup started

(***************************************************************************)
(* Keys.                                                                   *)
(***************************************************************************)
\* The user writes a prompt into an empty composer.
TypePrompt ==
  /\ ui.draft = <<>>
  /\ prompts.typed < MaxPrompts
  /\ prompts' = [prompts EXCEPT !.typed = @ + 1]
  /\ ui' = [ui EXCEPT !.draft = <<prompts.typed + 1>>]
  /\ UNCHANGED <<ran, commands, mail, streams>>

\* submit: enter sends, or steers a run in progress; tab queues while one is
\* in progress; both queue while a session is being created.
Submit(queue) ==
  LET text  == ui.draft
      empty == [ui EXCEPT !.draft = <<>>]
  IN  /\ text # <<>>
      /\ IF ui.starting \/ (ShownActive(ui) /\ queue)
         THEN Answered(AppendQueued(empty, text), {})
         ELSE IF ShownActive(ui)
         THEN Answered(IF LastTurn(ui) = 0 THEN empty
                       ELSE [empty EXCEPT !.turns[LastTurn(ui)].shown = Append(@, text),
                                          !.optimistic = Append(@, text)],
                       {Command("steer", text, ui.session)})
         ELSE Answered(BeginTurn(empty, text),
                       {Command(IF ui.session = NoSession THEN "start" ELSE "continue",
                                text, ui.session)})
      /\ PressKey(<<>>)
      /\ UNCHANGED <<ran, mail, streams>>

\* editLastQueued: alt+up puts the last queued payload in the composer, over
\* whatever was there.
EditLastQueued ==
  /\ ui.queued # <<>>
  /\ ui' = [ui EXCEPT !.draft = Last(ui.queued), !.queued = Front(@)]
  /\ PressKey(<<ui.draft>>)
  /\ UNCHANGED <<ran, commands, mail, streams>>

\* esc and ctrl+c interrupt the run shown.
Interrupt ==
  /\ ShownActive(ui)
  /\ commands' = commands \cup {Command("cancel", <<>>, ui.session)}
  /\ PressKey(<<>>)
  /\ UNCHANGED <<ui, ran, mail, streams>>

\* /new and /resume drop the transcript and the queue; both are refused while
\* a session runs or is being created. A resume does not count as a start.
ChangeConversation(target) ==
  /\ ~ShownActive(ui) /\ ~ui.starting
  /\ Answered(ResetView(ui), IF target = NoSession THEN {} ELSE {Command("open", <<>>, target)})
  /\ streams' = CancelStream(ui.subscribed)
  /\ PressKey(ui.queued)
  /\ UNCHANGED <<ran, mail>>

\* A slash command that will fail; it is a key as well.
OtherCommand ==
  /\ prompts.others < MaxOthers /\ prompts.keys < MaxKeys
  /\ prompts' = [prompts EXCEPT !.others = @ + 1, !.keys = @ + 1]
  /\ commands' = commands \cup {Command("other", <<>>, NoSession)}
  /\ UNCHANGED <<ui, ran, mail, streams>>

(***************************************************************************)
(* Messages.                                                               *)
(***************************************************************************)
\* sessionStartedMsg: the session becomes the one shown, after its history,
\* and its stream the one waited for. The subscription held before is not
\* cancelled.
HandleStarted(m) ==
  LET s == m.session
      u == TurnFor(IF m.kind = "opened" THEN ShowHistory(ui, s) ELSE ui, s)
  IN  /\ m.kind \in {"started", "opened"}
      /\ ui' = [u EXCEPT !.starting = FALSE, !.session = s, !.stream = s, !.subscribed = s,
                         !.turns[LastTurn(u)].session = s]
      /\ streams' = [streams EXCEPT ![s] = [waiters |-> 1, at |-> 0, closed |-> FALSE]]
      /\ mail' = mail \ {m}
      /\ UNCHANGED <<prompts, ran, commands>>

\* eventMsg: the event is shown; a terminal one cancels the subscription and
\* sends the next queued prompt, or restores the queue when the run did not
\* complete.
HandleEvent(m) ==
  LET item == ran[m.session].events[m.event]
      u    == ShowEvent(ui, m.session, item)
      done == [u EXCEPT !.subscribed = NoSession]
      next == Head(u.queued)
  IN  /\ m.kind = "event"
      /\ mail' = mail \ {m}
      /\ streams' = IF IsTerminal(item.kind) THEN CancelStream(u.subscribed) ELSE Wait(streams, u.stream)
      /\ IF ~IsTerminal(item.kind) THEN Answered(u, {})
         ELSE IF u.queued = <<>> THEN Answered(done, {})
         ELSE IF item.kind = "completed"
         THEN Answered(BeginTurn(PopQueued(done), next), {Command("continue", next, u.session)})
         ELSE Answered(RestoreQueued(done), {})
      /\ UNCHANGED <<prompts, ran>>

\* steerRejectedMsg: the prompt goes to the front of the queue.
HandleRejected(m) ==
  /\ m.kind = "rejected"
  /\ ui' = PrependQueued([ui EXCEPT !.optimistic = RemoveFirst(@, m.text)], m.text)
  /\ mail' = mail \ {m}
  /\ UNCHANGED <<prompts, ran, commands, streams>>

\* mutant: the error does not end the start
BugErrorKeepsStarting(m) ==
  /\ m.kind = "error"
  /\ ui' = IF LastTurn(ui) = 0 THEN ui ELSE [ui EXCEPT !.turns[LastTurn(ui)].status = "failed"]
  /\ prompts' = [prompts EXCEPT !.reported = @ \cup ToSet(m.text)]
  /\ mail' = mail \ {m}
  /\ UNCHANGED <<ran, commands, streams>>

\* errorMsg, whichever command it comes from: nothing is starting any more
\* and the current turn is shown as failed.
HandleError(m) ==
  /\ m.kind = "error"
  /\ ui' = IF LastTurn(ui) = 0 THEN [ui EXCEPT !.starting = FALSE]
           ELSE [ui EXCEPT !.starting = FALSE, !.turns[LastTurn(ui)].status = "failed"]
  /\ prompts' = [prompts EXCEPT !.reported = @ \cup ToSet(m.text)]
  /\ mail' = mail \ {m}
  /\ UNCHANGED <<ran, commands, streams>>

(***************************************************************************)
(* The specification.                                                      *)
(***************************************************************************)
\* NewWithOptions: a plain launch, or one that resumes a conversation that
\* is not there and holds the prompt of the command line.
TerminalInit ==
  /\ \E resuming \in BOOLEAN :
       /\ ui = [starting |-> resuming, session |-> NoSession, stream |-> NoSession,
                subscribed |-> NoSession, turns |-> <<>>, optimistic |-> <<>>, draft |-> <<>>,
                queued |-> IF resuming THEN <<<<1>>>> ELSE <<>>]
       /\ prompts = [typed |-> IF resuming THEN 1 ELSE 0, discarded |-> {}, reported |-> {},
                     others |-> 0, keys |-> 0]
       /\ commands = IF resuming THEN {Command("open", <<>>, NoSession)} ELSE {}
  /\ ran = <<>>
  /\ mail = {}
  /\ streams = [s \in Sessions |-> [waiters |-> 0, at |-> 0, closed |-> FALSE]]

TerminalNext ==
  \/ \E s \in Sessions : \/ EndRun(s, "completed") \/ EndRun(s, "failed")
                         \/ LeaveTable(s) \/ TakeEvent(s)
  \/ \E c \in commands : RunStart(c) \/ RunOpen(c) \/ RunSteer(c) \/ RunCancel(c) \/ RunOther(c)
  \/ TypePrompt \/ Submit(TRUE) \/ Submit(FALSE)
  \/ EditLastQueued \/ Interrupt \/ OtherCommand
  \/ \E target \in {NoSession} \cup DOMAIN ran : ChangeConversation(target)
  \/ \E m \in mail : HandleStarted(m) \/ HandleEvent(m) \/ HandleRejected(m) \/ HandleError(m)

TerminalSpec == TerminalInit /\ [][TerminalNext]_terminalVars

(***************************************************************************)
(* Properties.                                                             *)
(***************************************************************************)
Payloads == SeqOf(1..MaxPrompts, MaxPrompts)

\* Type invariant: prompts, sessions and messages are drawn from their bounds.
TerminalTypeOK ==
  /\ ui.starting \in BOOLEAN
  /\ {ui.session, ui.stream, ui.subscribed} \subseteq {NoSession} \cup DOMAIN ran
  /\ ToSet(ui.queued) \cup ToSet(ui.optimistic) \cup {ui.draft} \subseteq Payloads
  /\ Len(ran) \in 0..MaxSessions
  /\ \A s \in DOMAIN ran : ran[s].task \in Payloads /\ ran[s].previous \in 0..(s - 1)
  /\ \A m \in mail : m.kind \in {"started", "opened", "event", "rejected", "error"}
  /\ \A c \in commands : c.op \in {"start", "continue", "open", "steer", "cancel", "other"}

\* The prompt is an instruction of a session, which its leader saw or not.
Instructions(p, late) ==
  UNION {{<<s, i>> : i \in {j \in DOMAIN ran[s].events :
                               /\ ran[s].events[j].kind = "instruction"
                               /\ ran[s].events[j].late = late
                               /\ p \in ToSet(ran[s].events[j].text)}} : s \in DOMAIN ran}

\* The places a prompt can be in: the composer, the queue, a command under
\* way, the answer to one, the task of a session the terminal follows, an
\* instruction its leader sees, given up or reported.
PlacesOf(p) ==
  (IF p \in ToSet(ui.draft) THEN {<<"draft", 0>>} ELSE {})
    \cup {<<"queue", i>> : i \in {j \in DOMAIN ui.queued : p \in ToSet(ui.queued[j])}}
    \cup {<<"command", c>> : c \in {d \in commands : p \in ToSet(d.text)}}
    \cup {<<"answer", m>> : m \in {n \in mail : n.kind \in {"rejected", "error"} /\ p \in ToSet(n.text)}}
    \cup {<<"task", s>> : s \in {t \in DOMAIN ran : ran[t].followed /\ p \in ToSet(ran[t].task)}}
    \cup {<<"instruction", at>> : at \in Instructions(p, FALSE)}
    \cup {<<f, 0>> : f \in {g \in {"discarded", "reported"} : p \in prompts[g]}}

\* A session that runs without the terminal has the prompt as its task.
RunsUnfollowed(p) == \E s \in DOMAIN ran : ~ran[s].followed /\ p \in ToSet(ran[s].task)

\* A prompt the user sent is in exactly one place whatever the order of keys,
\* answers and events: it is never dropped on the way from the composer
\* through the queue, a refused steer or a failed run to a session, and never
\* becomes the task of two sessions the terminal follows, two instructions,
\* or both (submit, popQueued, prependQueued, restoreQueuedDraft,
\* editLastQueued).
\* The two copies the code does leave behind are not counted: a steer saved
\* for a leader that had stopped goes to the queue although it stays in the
\* ledger, and a session whose Subscribe failed runs although its prompt is
\* reported. Such a prompt, says the second part, is reported and nothing
\* else: the terminal never sends it again by itself.
PromptsHaveOnePlace ==
  \A p \in 1..prompts.typed :
    /\ Cardinality(PlacesOf(p)) = 1
    /\ RunsUnfollowed(p) =>
         \/ p \in prompts.reported
         \/ \E m \in mail : m.kind = "error" /\ p \in ToSet(m.text)

\* While the composer holds prompts back because a session is being created,
\* the command that creates it is under way or its answer is on its way, so
\* the composer is released whatever becomes of the start (beginTurn,
\* sessionStartedMsg, errorMsg).
ComposerIsReleased ==
  ui.starting =>
    \/ \E c \in commands : c.op \in {"start", "continue", "open"}
    \/ \E m \in mail : m.kind \in {"started", "opened", "error"}

\* Doc claim (internal/tui/model_test.go, TestPromptSubmittedDuringSession-
\* CreationQueuesInsteadOfStartingAnotherRun): a prompt submitted while a
\* session is being created is queued instead of starting a second one.
\* False: the error of any other command ends the `starting` state.
OneStartAtATime ==
  Cardinality({c \in commands : c.op \in {"start", "continue"}}
                \cup {m \in mail : m.kind = "started"}) <= 1
=============================================================================
