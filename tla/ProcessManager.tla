------------------------- MODULE ProcessManager -------------------------
(***************************************************************************)
(* The shell commands a model runs through exec_command and write_stdin:   *)
(* processManager of internal/tooling/process.go and Runtime.Close.  Tool  *)
(* calls are goroutines of their own, so every step between two            *)
(* acquisitions of a lock, and every select, is an action here.            *)
(*                                                                         *)
(* The i-th byte of a transcript is the number i: `written' counts what    *)
(* the process has written to the file and `offset' what has been paged    *)
(* out of it.  A processSession object is known by the order in which the  *)
(* commands were started; its handle (session id) is a separate number,    *)
(* allocated without coming near MaxInt, where the code would wrap it.     *)
(***************************************************************************)
EXTENDS Naturals, FiniteSets

CONSTANTS ToolCalls,    \* concurrent exec_command and write_stdin calls of one
                        \* assignment: another one's handle is an unknown one
          MaxProcesses, \* bound: commands started in one run
          MaxOutput,    \* bound: bytes one command writes
          PageBytes     \* modelVisibleProcessBytes: the limit of one reply

ASSUME ProcessAssumption ==
  MaxProcesses \in Nat /\ MaxOutput \in Nat /\ PageBytes \in Nat

VARIABLES nextID,       \* processManager.nextID
          reserved,     \* processManager.reserved
          registered,   \* processManager.sessions: a set of <<handle, process>>
          managerClosed,\* processManager.closed
          process,      \* the processSession objects
          toolCall,     \* the goroutine of each tool call
          closer,       \* Runtime.Close: "open" "cancelled" "closing" "closed"
          toClose       \* the sessions close() still has to terminate

procTables == <<nextID, reserved, registered, managerClosed>>
closeVars == <<closer, toClose>>
processVars == <<procTables, process, toolCall, closeVars>>

ProcessIds == 1 .. MaxProcesses
NoProcess == 0

\* A processSession before its command is started.  `output' is the state of
\* the transcript file, `done' the channel wait() closes.
Unstarted == [state |-> "unstarted", handle |-> 0, output |-> "none",
              written |-> 0, offset |-> 0, outputNotify |-> FALSE,
              killed |-> FALSE, waited |-> FALSE, done |-> FALSE]

IdleCall == [pc |-> "idle", handle |-> 0, process |-> NoProcess,
             hasMore |-> FALSE]

Handles == 0 .. MaxProcesses

ProcessTypeOK ==
  /\ nextID \in Handles
  /\ reserved \subseteq Handles
  /\ registered \subseteq Handles \X ProcessIds
  /\ managerClosed \in BOOLEAN
  /\ process \in
       [ProcessIds ->
         [state : {"unstarted", "running", "exited"}, handle : Handles,
          output : {"none", "open", "removed"}, written : 0 .. MaxOutput,
          offset : 0 .. MaxOutput, outputNotify : BOOLEAN, killed : BOOLEAN,
          waited : BOOLEAN, done : BOOLEAN]]
  /\ toolCall \in
       [ToolCalls ->
         [pc : {"idle", "create", "register", "wait", "read", "check"},
          handle : Handles, process : ProcessIds \union {NoProcess},
          hasMore : BOOLEAN]]
  /\ closer \in {"open", "cancelled", "closing", "closed"}
  /\ toClose \subseteq ProcessIds

ProcessInit ==
  /\ nextID = 0 /\ reserved = {} /\ registered = {} /\ managerClosed = FALSE
  /\ process = [p \in ProcessIds |-> Unstarted]
  /\ toolCall = [c \in ToolCalls |-> IdleCall]
  /\ closer = "open" /\ toClose = {}

-----------------------------------------------------------------------------
(* start                                                                   *)

\* mutant: the handle counts the handles in use
BugCountHandles(c) ==
  /\ toolCall[c].pc = "idle" /\ ~managerClosed
  /\ nextID < MaxProcesses
  /\ toolCall' = [toolCall EXCEPT ![c] =
                    [IdleCall EXCEPT !.pc = "create", !.handle = Cardinality(reserved) + 1]]
  /\ nextID' = nextID + 1
  /\ reserved' = reserved \union {Cardinality(reserved) + 1}
  /\ UNCHANGED <<registered, managerClosed, process, closeVars>>

\* reserveSessionID: the next handle, unless the manager is closed.
StartReserve(c) ==
  /\ toolCall[c].pc = "idle" /\ ~managerClosed
  /\ nextID < MaxProcesses
  /\ toolCall' = [toolCall EXCEPT ![c] =
                    [IdleCall EXCEPT !.pc = "create", !.handle = nextID + 1]]
  /\ nextID' = nextID + 1
  /\ reserved' = reserved \union {nextID + 1}
  /\ UNCHANGED <<registered, managerClosed, process, closeVars>>

\* The transcript file is created and the command started.  Once the context
\* of the runtime is cancelled exec refuses to start it; opening the file,
\* the pipe or the terminal may fail at any time.  A failure removes the file
\* and the deferred releaseSessionID gives the handle back.
StartCommand(c) ==
  LET started == {p \in ProcessIds : process[p].state # "unstarted"}
      p == Cardinality(started) + 1
  IN
  /\ toolCall[c].pc = "create" /\ closer = "open"
  /\ process' = [process EXCEPT ![p] =
                   [Unstarted EXCEPT !.state = "running", !.output = "open",
                                     !.handle = toolCall[c].handle]]
  /\ toolCall' = [toolCall EXCEPT ![c].pc = "register", ![c].process = p]
  /\ UNCHANGED <<procTables, closeVars>>

ReleaseHandle(h) ==
  /\ registered' = {entry \in registered : entry[1] # h}
  /\ reserved' = reserved \ {h}

StartFailed(c) ==
  /\ toolCall[c].pc = "create"
  /\ ReleaseHandle(toolCall[c].handle)
  /\ toolCall' = [toolCall EXCEPT ![c] = IdleCall]
  /\ UNCHANGED <<nextID, managerClosed, process, closeVars>>

\* mutant: the manager is not looked at again after the start
BugStartClosed(c) ==
  LET p == toolCall[c].process IN
  /\ toolCall[c].pc = "register"
  /\ registered' = registered \union {<<toolCall[c].handle, p>>}
  /\ process' = [process EXCEPT ![p].waited = TRUE]
  /\ toolCall' = [toolCall EXCEPT ![c].pc = "wait"]
  /\ UNCHANGED <<nextID, reserved, managerClosed, closeVars>>

\* The session enters the table and its wait goroutine is launched ...
StartRegister(c) ==
  LET p == toolCall[c].process IN
  /\ toolCall[c].pc = "register" /\ ~managerClosed
  /\ registered' = registered \union {<<toolCall[c].handle, p>>}
  /\ process' = [process EXCEPT ![p].waited = TRUE]
  /\ toolCall' = [toolCall EXCEPT ![c].pc = "wait"]
  /\ UNCHANGED <<nextID, reserved, managerClosed, closeVars>>

\* ... unless the manager was closed meanwhile: the command is killed and its
\* transcript removed on the spot, and nothing ever waits for it.
StartTooLate(c) ==
  LET p == toolCall[c].process IN
  /\ toolCall[c].pc = "register" /\ managerClosed
  /\ process' = [process EXCEPT ![p].killed = TRUE, ![p].output = "removed"]
  /\ ReleaseHandle(toolCall[c].handle)
  /\ toolCall' = [toolCall EXCEPT ![c] = IdleCall]
  /\ UNCHANGED <<nextID, managerClosed, closeVars>>

-----------------------------------------------------------------------------
(* write and collect                                                       *)

\* write: the table is read under the lock and used after it.  Another
\* assignment's handle is answered like an unknown one.  Input for a command
\* that is already done turns the call into a collection without a wait.
WriteStdin(c) ==
  /\ toolCall[c].pc = "idle"
  /\ \E entry \in registered, next \in {"wait", "read"} :
       /\ next = "read" => process[entry[2]].done
       /\ toolCall' = [toolCall EXCEPT ![c] =
                         [IdleCall EXCEPT !.pc = next, !.handle = entry[1],
                                          !.process = entry[2]]]
  /\ UNCHANGED <<procTables, process, closeVars>>

\* mutant: only the notification ends the wait
BugIgnoreDone(c) ==
  /\ toolCall[c].pc = "wait" /\ process[toolCall[c].process].done
  /\ process[toolCall[c].process].outputNotify
  /\ toolCall' = [toolCall EXCEPT ![c].pc = "read"]
  /\ UNCHANGED <<procTables, process, closeVars>>

\* collect's select: the exit, a notification (which this call consumes), the
\* timer of a positive yield.  A cancelled call just leaves.
CollectDone(c) ==
  /\ toolCall[c].pc = "wait" /\ process[toolCall[c].process].done
  /\ toolCall' = [toolCall EXCEPT ![c].pc = "read"]
  /\ UNCHANGED <<procTables, process, closeVars>>

CollectNotified(c) ==
  LET p == toolCall[c].process IN
  /\ toolCall[c].pc = "wait" /\ process[p].outputNotify
  /\ process' = [process EXCEPT ![p].outputNotify = FALSE]
  /\ toolCall' = [toolCall EXCEPT ![c].pc = "read"]
  /\ UNCHANGED <<procTables, closeVars>>

CollectTimer(c) ==
  /\ toolCall[c].pc = "wait"
  /\ toolCall' = [toolCall EXCEPT ![c].pc = "read"]
  /\ UNCHANGED <<procTables, process, closeVars>>

CollectCancelled(c) ==
  /\ toolCall[c].pc = "wait"
  /\ toolCall' = [toolCall EXCEPT ![c] = IdleCall]
  /\ UNCHANGED <<procTables, process, closeVars>>

Smaller(a, b) == IF a < b THEN a ELSE b

\* mutant: the offset moves by a whole page, whatever was there
BugReadPast(c) ==
  LET p == toolCall[c].process IN
  /\ toolCall[c].pc = "read" /\ process[p].output = "open"
  /\ process' = [process EXCEPT ![p].offset = @ + PageBytes]
  /\ toolCall' = [toolCall EXCEPT ![c].pc = "check", ![c].hasMore = FALSE]
  /\ UNCHANGED <<procTables, closeVars>>

\* readNew, under readMu: one page from offset on, and whether more of the
\* file was there when it was inspected.  A removed transcript is an error.
CollectRead(c) ==
  LET p == toolCall[c].process
      read == Smaller(process[p].written, process[p].offset + PageBytes)
  IN
  /\ toolCall[c].pc = "read"
  /\ IF process[p].output = "open"
       THEN /\ process' = [process EXCEPT ![p].offset = read]
            /\ toolCall' = [toolCall EXCEPT
                              ![c].pc = "check",
                              ![c].hasMore = read < process[p].written]
       ELSE /\ toolCall' = [toolCall EXCEPT ![c] = IdleCall]
            /\ UNCHANGED process
  /\ UNCHANGED <<procTables, closeVars>>

\* mutant: the last page drops the handle but not the transcript
BugKeepTranscript(c) ==
  LET p == toolCall[c].process
      final == process[p].done /\ ~toolCall[c].hasMore
  IN
  /\ toolCall[c].pc = "check"
  /\ toolCall' = [toolCall EXCEPT ![c] = IdleCall]
  /\ IF final THEN ReleaseHandle(process[p].handle)
       ELSE UNCHANGED <<registered, reserved>>
  /\ UNCHANGED <<nextID, managerClosed, process, closeVars>>

\* The second look at done: a finished command with nothing more to page is
\* dropped from the tables and its transcript removed; otherwise the handle
\* stays good for the next call.
CollectReply(c) ==
  LET p == toolCall[c].process
      final == process[p].done /\ ~toolCall[c].hasMore
  IN
  /\ toolCall[c].pc = "check"
  /\ toolCall' = [toolCall EXCEPT ![c] = IdleCall]
  /\ IF final
       THEN /\ ReleaseHandle(process[p].handle)
            /\ process' = [process EXCEPT ![p].output = "removed"]
       ELSE UNCHANGED <<registered, reserved, process>>
  /\ UNCHANGED <<nextID, managerClosed, closeVars>>

-----------------------------------------------------------------------------
(* the command itself, its output and its exit                             *)

\* processCapture.Write: the bytes reach the file, then one notification is
\* left in the channel of capacity one.
ProcessWrites(p) ==
  /\ process[p].state = "running" /\ process[p].written < MaxOutput
  /\ process' = [process EXCEPT ![p].written = @ + 1, ![p].outputNotify = TRUE]
  /\ UNCHANGED <<procTables, toolCall, closeVars>>

\* A command exits by itself, or because it was killed or the context of the
\* runtime was cancelled.
ProcessExits(p) ==
  /\ process[p].state = "running"
  /\ process' = [process EXCEPT ![p].state = "exited"]
  /\ UNCHANGED <<procTables, toolCall, closeVars>>

\* mutant: wait returns without closing done when the command was killed
BugKilledNotDone(p) ==
  /\ process[p].state = "exited" /\ process[p].waited /\ ~process[p].done
  /\ ~process[p].killed
  /\ process' = [process EXCEPT ![p].done = TRUE]
  /\ UNCHANGED <<procTables, toolCall, closeVars>>

\* wait: all output has been copied before done is closed.
ProcessWaited(p) ==
  /\ process[p].state = "exited" /\ process[p].waited /\ ~process[p].done
  /\ process' = [process EXCEPT ![p].done = TRUE]
  /\ UNCHANGED <<procTables, toolCall, closeVars>>

-----------------------------------------------------------------------------
(* Runtime.Close                                                           *)

CloseCancel ==
  /\ closer = "open"
  /\ closer' = "cancelled"
  /\ UNCHANGED <<procTables, process, toolCall, toClose>>

\* processManager.close takes the registered sessions out of the table ...
CloseTables ==
  /\ closer = "cancelled"
  /\ managerClosed' = TRUE /\ closer' = "closing"
  /\ toClose' = {entry[2] : entry \in registered}
  /\ registered' = {} /\ reserved' = {}
  /\ UNCHANGED <<nextID, process, toolCall>>

\* ... and, one after the other, kills each, waits for done and removes its
\* transcript.
CloseKill ==
  /\ closer = "closing"
  /\ \E p \in toClose :
       /\ ~process[p].killed
       /\ \A other \in toClose : process[other].killed => process[other].done
       /\ process' = [process EXCEPT ![p].killed = TRUE]
  /\ UNCHANGED <<procTables, toolCall, closeVars>>

CloseCleanup ==
  /\ closer = "closing"
  /\ \E p \in toClose :
       /\ process[p].killed /\ process[p].done
       /\ process' = [process EXCEPT ![p].output = "removed"]
       /\ toClose' = toClose \ {p}
  /\ UNCHANGED <<procTables, toolCall, closer>>

\* os.RemoveAll of the private directory takes with it every transcript a
\* start in flight still has open.
CloseReturn ==
  /\ closer = "closing" /\ toClose = {}
  /\ closer' = "closed"
  /\ process' = [p \in ProcessIds |->
                   IF process[p].output = "open"
                     THEN [process[p] EXCEPT !.output = "removed"] ELSE process[p]]
  /\ UNCHANGED <<procTables, toolCall, toClose>>

ProcessClose == CloseCancel \/ CloseTables \/ CloseKill \/ CloseCleanup \/ CloseReturn

ProcessNext ==
  \/ \E c \in ToolCalls :
       \/ StartReserve(c) \/ StartCommand(c) \/ StartFailed(c)
       \/ StartRegister(c) \/ StartTooLate(c)
       \/ WriteStdin(c)
       \/ CollectDone(c) \/ CollectNotified(c) \/ CollectTimer(c)
       \/ CollectCancelled(c) \/ CollectRead(c) \/ CollectReply(c)
  \/ \E p \in ProcessIds :
       ProcessWrites(p) \/ ProcessExits(p) \/ ProcessWaited(p)
  \/ ProcessClose

\* The goroutines of the manager run on, a killed command dies, and the
\* selects of collect do not starve; nothing is assumed of a command that
\* nobody killed, of new calls, or of Close being called.
ProcessFairness ==
  /\ \A p \in ProcessIds :
       /\ WF_processVars((process[p].killed \/ closer # "open") /\ ProcessExits(p))
       /\ WF_processVars(ProcessWaited(p))
  /\ \A c \in ToolCalls :
       WF_processVars(\/ StartRegister(c) \/ StartTooLate(c) \/ StartFailed(c)
                      \/ CollectDone(c) \/ CollectRead(c) \/ CollectReply(c))
  /\ WF_processVars(CloseTables \/ CloseKill \/ CloseCleanup \/ CloseReturn)

ProcessSpec == ProcessInit /\ [][ProcessNext]_processVars /\ ProcessFairness

-----------------------------------------------------------------------------
\* Of the commands started, each is accounted for: registered, being closed,
\* still in the hands of the start that created it, or its transcript file is
\* gone.  Nothing the early returns of start, the last page of collect and
\* close do in any interleaving leaks a transcript in the private directory.
TranscriptsAreReclaimed ==
  \A p \in ProcessIds :
    process[p].output = "open" =>
      \/ \E entry \in registered : entry[2] = p
      \/ p \in toClose
      \/ \E c \in ToolCalls : toolCall[c].pc = "register" /\ toolCall[c].process = p

\* A numeric handle designates one session: write_stdin cannot reach another
\* command than the one exec_command returned it for, however starts, last
\* pages and Close interleave (reserveSessionID, releaseSessionID, collect).
HandlesAreUnique ==
  /\ \A a, b \in registered : a[1] = b[1] => a = b
  /\ \A c \in ToolCalls :
       toolCall[c].pc \in {"create", "register"} =>
         \A other \in ToolCalls \ {c} :
           toolCall[other].pc # "idle" =>
             toolCall[other].handle # toolCall[c].handle

\* Close is final: once it has returned, a command still running was killed or
\* is in the hands of a start that is about to find the manager closed, and
\* no session is ever registered again (the check of closed after the start).
ClosedRuntimeRunsNothing ==
  closer = "closed" =>
    /\ registered = {}
    /\ \A p \in ProcessIds :
         process[p].state = "running" =>
           \/ process[p].killed
           \/ \E c \in ToolCalls :
                toolCall[c].pc = "register" /\ toolCall[c].process = p

\* Runtime.Close returns: every session it terminates has a wait goroutine
\* that closes done, whatever calls are collecting it at the time.
CloseReturns == closer = "closing" ~> closer = "closed"

\* A call that waits on a command that has been waited for comes back, even
\* when another call consumed the only output notification.
FinishedCommandIsCollected ==
  \A c \in ToolCalls :
    (toolCall[c].pc = "wait" /\ process[toolCall[c].process].done)
      ~> (toolCall[c].pc = "idle")

\* Whatever calls, exits and Close interleave, no transcript, handle or
\* running command is left to nobody.
NothingIsLeftBehind ==
  TranscriptsAreReclaimed /\ HandlesAreUnique /\ ClosedRuntimeRunsNothing

=============================================================================
