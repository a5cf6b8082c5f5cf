-------------------------- MODULE Conversations --------------------------
(***************************************************************************)
(* The sessions table (internal/store/session.go) under the engines of     *)
(* several processes that start, continue, resume, cancel and settle turns *)
(* (internal/orchestrator/engine.go), and the readers that page through    *)
(* it: the session picker, the prompt picker and the Up/Down history.      *)
(* Session ids are numbers in the order in which they are allocated        *)
(* (UUIDv7); times are milliseconds, the resolution of julianday().        *)
(***************************************************************************)
EXTENDS Naturals, Sequences, FiniteSets

CONSTANTS EngineProcesses, \* processes with an engine on one database
          PageSize,        \* rows a page asks for
          MaxTurns,        \* bound: sessions
          MaxClock,        \* bound: milliseconds
          MaxRenames       \* bound: RenameSession calls

\* A page of less than one row is refused.
ASSUME ConversationAssumption == PageSize \in Nat \ {0}

\* There is a first millisecond.
ASSUME ConversationBounds ==
  MaxTurns \in Nat /\ MaxClock \in Nat \ {0} /\ MaxRenames \in Nat

VARIABLES sessions,   \* committed rows: session id -> row
          clock,
          allocated,  \* session ids handed out
          renames,
          engines,    \* process -> ids of its runs
          calls,      \* process -> its Start, Continue or Resume under way
          sessionWalk, promptWalk, promptPin

convVars == <<sessions, clock, allocated, renames, engines, calls,
              sessionWalk, promptWalk, promptPin>>

Ids == 1 .. MaxTurns
Statuses == {"running", "settled"}
NoCall == [pc |-> "idle", id |-> 0, previous |-> 0, conversation |-> 0, title |-> 0, at |-> 0]
NotWalking == [pc |-> "idle", cursor |-> <<0, 0>>, listed |-> <<>>, owed |-> {}]
NoPin == [count |-> 0, newest |-> 0, ids |-> {}, inFlight |-> FALSE]

\* Titles are 0, derived from the first task, and 1 .. for each rename.
ConversationTypeOK ==
  /\ DOMAIN sessions \subseteq Ids
  /\ \A s \in DOMAIN sessions :
       sessions[s] \in [conversation : Ids, title : 0 .. MaxRenames,
                        status : Statuses, updated : 1 .. MaxClock]
  /\ clock \in 1 .. MaxClock
  /\ allocated \in 0 .. MaxTurns
  /\ renames \in 0 .. MaxRenames
  /\ engines \in [EngineProcesses -> SUBSET Ids]
  /\ \A p \in EngineProcesses :
       calls[p].pc \in {"idle", "checked", "insert", "start"}
  /\ promptPin.count \in 0 .. MaxTurns

ConversationInit ==
  /\ sessions = <<>>
  /\ clock = 1
  /\ allocated = 0
  /\ renames = 0
  /\ engines = [p \in EngineProcesses |-> {}]
  /\ calls = [p \in EngineProcesses |-> NoCall]
  /\ sessionWalk = NotWalking
  /\ promptWalk = NotWalking
  /\ promptPin = NoPin

readers == <<sessionWalk, promptWalk, promptPin>>

Tick ==
  /\ clock < MaxClock
  /\ clock' = clock + 1
  /\ UNCHANGED <<sessions, allocated, renames, engines, calls, readers>>

Running(s) == s \in DOMAIN sessions /\ sessions[s].status = "running"
Calls(p, call) == calls' = [calls EXCEPT ![p] = call]

-----------------------------------------------------------------------------
(* Turns                                                                   *)

\* mutant: a new session keeps the empty conversation id
BugNoConversation(p, conversation, title) ==
  /\ allocated < MaxTurns
  /\ allocated' = allocated + 1
  /\ Calls(p, [NoCall EXCEPT !.pc = "insert", !.id = allocated + 1,
                 !.conversation = conversation, !.title = title, !.at = clock])

\* createSession takes the id and the time before it waits for appendMu.
Allocate(p, conversation, title) ==
  /\ allocated < MaxTurns
  /\ allocated' = allocated + 1
  /\ Calls(p, [NoCall EXCEPT !.pc = "insert", !.id = allocated + 1,
                 !.conversation = IF conversation = 0 THEN allocated + 1 ELSE conversation,
                 !.title = title, !.at = clock])

\* StartInputAt
StartSession(p) ==
  /\ calls[p].pc = "idle"
  /\ Allocate(p, 0, 0)
  /\ UNCHANGED <<sessions, clock, renames, engines, readers>>

\* ContinueInput reads the previous turn and its profile ...
CheckPrevious(p, s) ==
  /\ calls[p].pc = "idle"
  /\ s \in DOMAIN sessions /\ ~Running(s)
  /\ Calls(p, [NoCall EXCEPT !.pc = "checked", !.previous = s])
  /\ UNCHANGED <<sessions, clock, allocated, renames, engines, readers>>

\* ... and CreateContinuationInput reads it again for the conversation, the
\* workspace and the title.
ContinueSession(p) ==
  LET previous == calls[p].previous IN
  /\ calls[p].pc = "checked"
  /\ ~Running(previous)
  /\ Allocate(p, sessions[previous].conversation, sessions[previous].title)
  /\ UNCHANGED <<sessions, clock, renames, engines, readers>>

\* The row and the first two events, in one transaction.
InsertSession(p) ==
  LET call == calls[p] IN
  /\ call.pc = "insert"
  /\ sessions' = [s \in DOMAIN sessions \union {call.id} |->
                    IF s = call.id
                      THEN [conversation |-> call.conversation, title |-> call.title,
                            status |-> "running", updated |-> call.at]
                      ELSE sessions[s]]
  /\ Calls(p, [call EXCEPT !.pc = "start"])
  /\ UNCHANGED <<clock, allocated, renames, engines, readers>>

\* Resume, also for every row of RecoverableSessions in ResumeAll.
ResumeSession(p, s) ==
  /\ calls[p].pc = "idle"
  /\ Running(s)
  /\ Calls(p, [NoCall EXCEPT !.pc = "start", !.id = s])
  /\ UNCHANGED <<sessions, clock, allocated, renames, engines, readers>>

\* startSession returns the run the engine already has.
StartRun(p) ==
  /\ calls[p].pc = "start"
  /\ engines' = [engines EXCEPT ![p] = @ \union {calls[p].id}]
  /\ Calls(p, NoCall)
  /\ UNCHANGED <<sessions, clock, allocated, renames, readers>>

\* A call fails: a profile or provider error, a status that changed, a
\* failing transaction.
CallFails(p) ==
  /\ calls[p].pc \in {"checked", "insert"}
  /\ Calls(p, NoCall)
  /\ UNCHANGED <<sessions, clock, allocated, renames, engines, readers>>

\* Every event of a session moves its updated_at; a terminal one its status.
SessionEvent(p, s, status) ==
  /\ s \in engines[p]
  /\ Running(s)
  /\ status = "running" => sessions[s].updated < clock
  /\ sessions' = [sessions EXCEPT ![s].updated = clock, ![s].status = status]
  /\ UNCHANGED <<clock, allocated, renames, engines, calls, readers>>

\* The run's goroutine returns; its row is settled, or it lost the database.
RunReturns(p, s) ==
  /\ s \in engines[p]
  /\ engines' = [engines EXCEPT ![p] = @ \ {s}]
  /\ UNCHANGED <<sessions, clock, allocated, renames, calls, readers>>

\* Cancel of a session this engine does not run.
CancelElsewhere(p, s) ==
  /\ s \notin engines[p]
  /\ Running(s)
  /\ sessions' = [sessions EXCEPT ![s].updated = clock, ![s].status = "settled"]
  /\ UNCHANGED <<clock, allocated, renames, engines, calls, readers>>

\* RenameSession: one statement over the turns of the conversation.
RenameSession(s) ==
  /\ renames < MaxRenames
  /\ s \in DOMAIN sessions
  /\ renames' = renames + 1
  /\ sessions' =
       [t \in DOMAIN sessions |->
          IF sessions[t].conversation = sessions[s].conversation
            THEN [sessions[t] EXCEPT !.title = renames + 1, !.updated = clock]
            ELSE sessions[t]]
  /\ UNCHANGED <<clock, allocated, engines, calls, readers>>

EngineDies(p) ==
  /\ engines[p] # {} \/ calls[p].pc # "idle"
  /\ engines' = [engines EXCEPT ![p] = {}]
  /\ Calls(p, NoCall)
  /\ UNCHANGED <<sessions, clock, allocated, renames, readers>>

-----------------------------------------------------------------------------
(* Readers                                                                 *)

\* The latest turn of each conversation, by id.
LatestTurns ==
  {s \in DOMAIN sessions :
     \A t \in DOMAIN sessions : sessions[t].conversation = sessions[s].conversation => t <= s}

Newer(a, b) == a[1] > b[1] \/ (a[1] = b[1] /\ a[2] > b[2])
SortKey(s) == <<sessions[s].updated, sessions[s].conversation>>

\* mutant: the cursor remembers the update time alone
BugTimeCursor(cursor) ==
  {s \in LatestTurns : cursor = <<0, 0>> \/ sessions[s].updated < cursor[1]}

\* The conversations after a cursor; <<0, 0>> stands for the first page.
AfterCursor(cursor) ==
  {s \in LatestTurns : cursor = <<0, 0>> \/ Newer(cursor, SortKey(s))}

\* ListSessionPage and ListSessions; the pair <<page, next>>.
SessionPage(cursor) ==
  LET rest == AfterCursor(cursor)
      page == {s \in rest : Cardinality({t \in rest : Newer(SortKey(t), SortKey(s))}) < PageSize}
      last == CHOOSE s \in page : \A t \in page : t = s \/ Newer(SortKey(t), SortKey(s))
  IN [items |-> {sessions[s].conversation : s \in page},
      next |-> IF rest = page THEN <<0, 0>> ELSE SortKey(last)]

\* One reader is followed at a time.
NoReader == sessionWalk.pc = "idle" /\ promptWalk.pc = "idle" /\ promptPin.count = 0

OpenPicker ==
  /\ NoReader
  /\ sessionWalk' =
       [pc |-> IF SessionPage(<<0, 0>>).next = <<0, 0>> THEN "done" ELSE "walk",
        cursor |-> SessionPage(<<0, 0>>).next,
        listed |-> <<SessionPage(<<0, 0>>).items>>,
        owed |-> {<<sessions[s].conversation, sessions[s].updated>> : s \in LatestTurns}]
  /\ UNCHANGED <<sessions, clock, allocated, renames, engines, calls, promptWalk, promptPin>>

\* The picker asks for the next page; a conversation that was touched since it
\* opened is no longer owed.
NextSessions ==
  LET p == SessionPage(sessionWalk.cursor) IN
  /\ sessionWalk.pc = "walk"
  /\ sessionWalk' =
       [pc |-> IF p.next = <<0, 0>> THEN "done" ELSE "walk",
        cursor |-> p.next,
        listed |-> Append(sessionWalk.listed, p.items),
        owed |-> {o \in sessionWalk.owed :
                    \E s \in LatestTurns : SortKey(s) = <<o[2], o[1]>>}]
  /\ UNCHANGED <<sessions, clock, allocated, renames, engines, calls, promptWalk, promptPin>>

\* mutant: the page starts at the cursor's row again
BugPromptAtCursor(before) ==
  {s \in DOMAIN sessions : before = 0 \/ s <= before}

PromptsBefore(before) == {s \in DOMAIN sessions : before = 0 \/ s < before}

\* ListPromptPage; next is 0 after the last page.
PromptPage(before) ==
  LET rest == PromptsBefore(before)
      page == {s \in rest : Cardinality({t \in rest : t > s}) < PageSize}
  IN [items |-> page,
      next |-> IF rest = page THEN 0 ELSE CHOOSE s \in page : \A t \in page : s <= t]

PromptPicker ==
  LET before == promptWalk.cursor[1]
      p == PromptPage(before)
  IN
  /\ NoReader \/ promptWalk.pc = "walk"
  /\ promptWalk' =
       [pc |-> IF p.next = 0 THEN "done" ELSE "walk",
        cursor |-> <<p.next, 0>>,
        listed |-> Append(promptWalk.listed, p.items),
        owed |-> IF promptWalk.pc = "idle" THEN DOMAIN sessions ELSE promptWalk.owed]
  /\ UNCHANGED <<sessions, clock, allocated, renames, engines, calls, sessionWalk, promptPin>>

\* PromptSnapshot, when a terminal starts.  `ids' and `inFlight' record what
\* was committed and whether an id was allocated and not yet committed.
PinPrompts ==
  /\ NoReader /\ DOMAIN sessions # {}
  /\ promptPin' = [count |-> Cardinality(DOMAIN sessions),
                   newest |-> CHOOSE s \in DOMAIN sessions : \A t \in DOMAIN sessions : t <= s,
                   ids |-> DOMAIN sessions,
                   inFlight |-> \E p \in EngineProcesses : calls[p].pc = "insert"]
  /\ UNCHANGED <<sessions, clock, allocated, renames, engines, calls, sessionWalk, promptWalk>>

\* mutant: the offset counts from the newest prompt of today
BugPromptAt(offset) ==
  {s \in DOMAIN sessions : Cardinality({t \in DOMAIN sessions : t > s}) = offset}

\* The row PromptAt finds at an offset of the snapshot.
PromptAt(offset) ==
  {s \in DOMAIN sessions :
     /\ s <= promptPin.newest
     /\ Cardinality({t \in DOMAIN sessions : s < t /\ t <= promptPin.newest}) = offset}

ConversationNext ==
  \/ Tick
  \/ \E p \in EngineProcesses :
       \/ StartSession(p) \/ ContinueSession(p) \/ InsertSession(p)
       \/ StartRun(p) \/ CallFails(p) \/ EngineDies(p)
       \/ \E s \in DOMAIN sessions :
            \/ CheckPrevious(p, s) \/ ResumeSession(p, s)
            \/ RunReturns(p, s) \/ CancelElsewhere(p, s)
            \/ \E status \in Statuses : SessionEvent(p, s, status)
  \/ \E s \in DOMAIN sessions : RenameSession(s)
  \/ OpenPicker \/ NextSessions \/ PromptPicker \/ PinPrompts

ConversationSpec == ConversationInit /\ [][ConversationNext]_convVars

-----------------------------------------------------------------------------
(* Properties                                                              *)

Times(walk, x) == Cardinality({i \in DOMAIN walk.listed : x \in walk.listed[i]})

\* A picker that reads to the end lists every conversation nobody touched
\* meanwhile exactly once, also when several share an update time.
PickerListsUntouchedOnce ==
  sessionWalk.pc = "done" => \A o \in sessionWalk.owed : Times(sessionWalk, o[1]) = 1

\* A prompt picker that reads to the end lists every prompt that was there
\* when it began exactly once, and no prompt twice, while turns are appended.
PromptsAreListedOnce ==
  /\ promptWalk.pc = "done" => \A s \in promptWalk.owed : Times(promptWalk, s) = 1
  /\ \A s \in DOMAIN sessions : Times(promptWalk, s) <= 1

\* An offset of the pinned history keeps naming the prompt it named when the
\* terminal started, provided no turn was being inserted at that moment.
PinnedOffsetsStay ==
  promptPin.count > 0 /\ ~promptPin.inFlight =>
    \A offset \in 0 .. promptPin.count - 1 :
      PromptAt(offset) =
        {s \in promptPin.ids : Cardinality({t \in promptPin.ids : s < t}) = offset}

\* A reader that pages through conversations, prompts or the pinned history
\* while turns are started, settled and renamed misses and repeats nothing.
ReadersMissNothing == PickerListsUntouchedOnce /\ PromptsAreListedOnce /\ PinnedOffsetsStay

=============================================================================
