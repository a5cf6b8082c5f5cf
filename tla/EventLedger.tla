----------------------------- MODULE EventLedger -----------------------------
(***************************************************************************)
(* The event ledger of one session and its subscribers: internal/store,     *)
(* Append, Subscribe, Close.                                                *)
(*                                                                         *)
(* Several processes open the same SQLite file.  Within a process appendMu  *)
(* serializes the appends from the allocation of a sequence number to the   *)
(* publication; between processes only SQLite does.  A subscriber's         *)
(* goroutine has two sources: the queue that local appends publish to, and  *)
(* a file watcher that tells it to read the table.                          *)
(*                                                                         *)
(* Events are their sequence numbers; log remembers which process wrote     *)
(* each.  What notifies the watcher is the writing of the file, and SQLite  *)
(* makes the transaction visible only after it, in shared memory that       *)
(* nobody is notified of: a subscriber that is quick finds nothing yet.     *)
(***************************************************************************)
EXTENDS Naturals, Sequences

CONSTANTS
    Process,
    Subscriber,
    Home,           \* Home[s]: the process of subscriber s
    From,           \* From[s]: the sequence number s subscribes after
    MaxEvents,      \* bound on the events of the session
    SourcesMayFail  \* whether a watcher or a read may fail

ASSUME LedgerAssumption ==
    /\ Home \in [Subscriber -> Process]
    /\ From \in [Subscriber -> Nat]
    /\ MaxEvents \in Nat
    /\ SourcesMayFail \in BOOLEAN

VARIABLES
    log,        \* durable: log[n] is the process that wrote event n
    opened,     \* processes whose store is open
    appender,   \* appender[p]: the append that holds p's appendMu
    sub,        \* sub[s]: the subscriber and its goroutine
    delivered   \* delivered[s]: what s's reader has received

vars == <<log, opened, appender, sub, delivered>>

\* seq is the sequence number the append has allocated.
Appender == [pc: {"idle", "allocated", "written", "committed"}, seq: Nat]

\* queue, signal: the subscriber's queue and its one-place channel; changed:
\* the watcher has something to report; items: what the goroutine is about to
\* emit; cursor: lastSequence; done: the subscription has been closed.
SubscriberState ==
    [pc: {"off", "watching", "loop", "select", "emit", "closed"},
     queue: Seq(Nat), signal: BOOLEAN, changed: BOOLEAN, items: Seq(Nat),
     cursor: Nat, done: BOOLEAN]

Init ==
    /\ log = <<>>
    /\ opened = Process
    /\ appender = [p \in Process |-> [pc |-> "idle", seq |-> 0]]
    /\ sub = [s \in Subscriber |->
                [pc |-> "off", queue |-> <<>>, signal |-> FALSE,
                 changed |-> FALSE, items |-> <<>>, cursor |-> From[s],
                 done |-> FALSE]]
    /\ delivered = [s \in Subscriber |-> <<>>]

\* s is among the subscribers of its process's store.
Subscribed(s) == sub[s].pc \in {"loop", "select", "emit"} /\ ~sub[s].done

\* Events(ctx, session, after): the numbers of the events after n.
EventsAfter(n) ==
    [i \in 1..(IF Len(log) > n THEN Len(log) - n ELSE 0) |-> n + i]

-----------------------------------------------------------------------------
(* Append.                                                                 *)

\* BEGIN, then SELECT MAX(sequence) + 1, under appendMu.
AppendAllocate(p) ==
    /\ p \in opened /\ appender[p].pc = "idle" /\ Len(log) < MaxEvents
    /\ appender' = [appender EXCEPT ![p] = [pc |-> "allocated", seq |-> Len(log) + 1]]
    /\ UNCHANGED <<log, opened, sub, delivered>>

\* The inserts take SQLite's write lock, which is refused if anybody has
\* committed since this transaction's read; then the file is written, and
\* every watcher of it hears so.
AppendWrite(p) ==
    /\ appender[p].pc = "allocated" /\ appender[p].seq = Len(log) + 1
    /\ \A q \in Process : appender[q].pc # "written"
    /\ appender' = [appender EXCEPT ![p].pc = "written"]
    /\ sub' = [s \in Subscriber |->
                 IF sub[s].pc \in {"off", "closed"} THEN sub[s]
                 ELSE [sub[s] EXCEPT !.changed = TRUE]]
    /\ UNCHANGED <<log, opened, delivered>>

\* COMMIT becomes visible.
AppendCommit(p) ==
    /\ appender[p].pc = "written"
    /\ log' = Append(log, p)
    /\ appender' = [appender EXCEPT ![p].pc = "committed"]
    /\ UNCHANGED <<opened, sub, delivered>>

\* mutant: a failed append keeps a state of its own
BugFail(p) ==
    /\ appender[p].pc \in {"allocated", "written"}
    /\ appender' = [appender EXCEPT ![p].pc = "failed"]
    /\ UNCHANGED <<log, opened, sub, delivered>>

\* Otherwise, or on any other error, Append returns it and nothing is kept.
AppendFail(p) ==
    /\ appender[p].pc \in {"allocated", "written"}
    /\ appender' = [appender EXCEPT ![p].pc = "idle"]
    /\ UNCHANGED <<log, opened, sub, delivered>>

\* mutant: a queue that nobody empties keeps its latest event only
BugShortQueue(p) ==
    /\ appender[p].pc = "committed"
    /\ sub' = [s \in Subscriber |->
                 IF Home[s] = p /\ Subscribed(s)
                 THEN [sub[s] EXCEPT !.queue = <<appender[p].seq>>, !.signal = TRUE]
                 ELSE sub[s]]
    /\ appender' = [appender EXCEPT ![p].pc = "idle"]
    /\ UNCHANGED <<log, opened, delivered>>

\* publish enqueues the event for every subscriber of this process.
Publish(p) ==
    /\ appender[p].pc = "committed"
    /\ sub' = [s \in Subscriber |->
                 IF Home[s] = p /\ Subscribed(s)
                 THEN [sub[s] EXCEPT !.queue = Append(@, appender[p].seq),
                                     !.signal = TRUE]
                 ELSE sub[s]]
    /\ appender' = [appender EXCEPT ![p].pc = "idle"]
    /\ UNCHANGED <<log, opened, delivered>>

-----------------------------------------------------------------------------
(* Subscribe and the subscriber's goroutine.                               *)

\* The subscriber's state becomes r; nothing else changes.
Turn(s, r) ==
    /\ sub' = [sub EXCEPT ![s] = r]
    /\ UNCHANGED <<log, opened, appender, delivered>>

\* The watcher is installed first.
Watch(s) ==
    /\ sub[s].pc = "off"
    /\ Turn(s, [sub[s] EXCEPT !.pc = "watching"])

\* mutant: the history is read before appendMu is taken, some events ago
BugRegisterBehind(s) ==
    /\ sub[s].pc = "watching" /\ appender[Home[s]].pc = "idle"
    /\ Home[s] \in opened
    /\ \E k \in 0..Len(EventsAfter(From[s])) :
          Turn(s, [sub[s] EXCEPT !.pc = "loop",
                                 !.queue = SubSeq(EventsAfter(From[s]), 1, k)])

\* mutant: subscribing to a closed store is accepted
BugRegisterClosed(s) ==
    /\ sub[s].pc = "watching" /\ appender[Home[s]].pc = "idle"
    /\ Turn(s, [sub[s] EXCEPT !.pc = "loop", !.queue = EventsAfter(From[s])])

\* Under appendMu: the history becomes the queue, and the subscription is
\* registered.
Register(s) ==
    /\ sub[s].pc = "watching" /\ appender[Home[s]].pc = "idle"
    /\ Home[s] \in opened
    /\ Turn(s, [sub[s] EXCEPT !.pc = "loop", !.queue = EventsAfter(From[s])])

\* The store has been closed: Subscribe returns an error.
RegisterRefused(s) ==
    /\ sub[s].pc = "watching" /\ appender[Home[s]].pc = "idle"
    /\ Home[s] \notin opened
    /\ Turn(s, [sub[s] EXCEPT !.pc = "closed"])

Pop(s) ==
    /\ sub[s].pc = "loop" /\ sub[s].queue # <<>>
    /\ Turn(s, [sub[s] EXCEPT !.pc = "emit",
                              !.items = <<Head(sub[s].queue)>>,
                              !.queue = Tail(sub[s].queue)])

QueueEmpty(s) ==
    /\ sub[s].pc = "loop" /\ sub[s].queue = <<>>
    /\ Turn(s, [sub[s] EXCEPT !.pc = "select"])

Signalled(s) ==
    /\ sub[s].pc = "select" /\ sub[s].signal
    /\ Turn(s, [sub[s] EXCEPT !.pc = "loop", !.signal = FALSE])

\* mutant: a change wakes the goroutine but the table is not read
BugReadStale(s) ==
    /\ sub[s].pc = "select" /\ sub[s].changed
    /\ Turn(s, [sub[s] EXCEPT !.pc = "loop", !.changed = FALSE])

\* A change of the file: read everything after the cursor.
FileChanged(s) ==
    /\ sub[s].pc = "select" /\ sub[s].changed
    /\ Turn(s, [sub[s] EXCEPT !.pc = "emit",
                              !.changed = FALSE,
                              !.items = EventsAfter(sub[s].cursor)])

\* emit passes over what the cursor has passed ...
EmitSkips(s) ==
    /\ sub[s].pc = "emit" /\ sub[s].items # <<>>
    /\ Head(sub[s].items) <= sub[s].cursor
    /\ Turn(s, [sub[s] EXCEPT !.items = Tail(sub[s].items)])

\* s's goroutine has an event for its reader.
Offers(s) ==
    /\ sub[s].pc = "emit" /\ sub[s].items # <<>>
    /\ Head(sub[s].items) > sub[s].cursor

\* ... and hands the rest to the reader when the reader is ready.
Emit(s) ==
    /\ Offers(s)
    /\ sub' = [sub EXCEPT ![s] = [sub[s] EXCEPT !.cursor = Head(sub[s].items),
                                               !.items = Tail(sub[s].items)]]
    /\ delivered' = [delivered EXCEPT ![s] = Append(@, Head(sub[s].items))]
    /\ UNCHANGED <<log, opened, appender>>

Emitted(s) ==
    /\ sub[s].pc = "emit" /\ sub[s].items = <<>>
    /\ Turn(s, [sub[s] EXCEPT !.pc = "loop"])

\* A closed subscription ends the goroutine where it selects or waits for the
\* reader.
Finish(s) ==
    /\ sub[s].done
    /\ sub[s].pc = "select" \/ Offers(s)
    /\ Turn(s, [sub[s] EXCEPT !.pc = "closed"])

\* The watcher reports an error, or the read of the table fails.
SourceFails(s) ==
    /\ SourcesMayFail /\ sub[s].pc = "select"
    /\ Turn(s, [sub[s] EXCEPT !.pc = "closed"])

\* The reader leaves: unsubscribe, or the end of its context.
Unsubscribe(s) ==
    /\ Subscribed(s)
    /\ Turn(s, [sub[s] EXCEPT !.done = TRUE])

\* Store.Close ends every subscription of the process and admits no new
\* append; one in flight still owns its connection.
Close(p) ==
    /\ p \in opened
    /\ opened' = opened \ {p}
    /\ sub' = [s \in Subscriber |->
                 IF Home[s] = p /\ Subscribed(s) THEN [sub[s] EXCEPT !.done = TRUE]
                 ELSE sub[s]]
    /\ UNCHANGED <<log, appender, delivered>>

-----------------------------------------------------------------------------
AppendStep(p) ==
    \/ AppendAllocate(p) \/ AppendWrite(p) \/ AppendCommit(p) \/ AppendFail(p)
    \/ Publish(p)

\* What the goroutine does by itself; Emit needs the reader.
GoroutineStep(s) ==
    \/ Register(s) \/ RegisterRefused(s) \/ Pop(s) \/ QueueEmpty(s)
    \/ Signalled(s) \/ FileChanged(s) \/ EmitSkips(s) \/ Emitted(s) \/ Finish(s)

Next ==
    \/ \E p \in Process : AppendStep(p) \/ Close(p)
    \/ \E s \in Subscriber :
          Watch(s) \/ GoroutineStep(s) \/ Emit(s) \/ SourceFails(s) \/ Unsubscribe(s)

Spec == Init /\ [][Next]_vars

\* Goroutines run and an append that has begun returns; readers need not read.
\* Go's select takes a ready case at random: the end of the subscription is
\* not passed over for ever, however often the file is written.
Fairness ==
    /\ \A p \in Process :
          WF_vars(AppendWrite(p) \/ AppendCommit(p) \/ AppendFail(p) \/ Publish(p))
    /\ \A s \in Subscriber : WF_vars(GoroutineStep(s)) /\ SF_vars(Finish(s))

FairSpec == Spec /\ Fairness

-----------------------------------------------------------------------------
(* Properties.                                                             *)

TypeOK ==
    /\ log \in Seq(Process) /\ opened \subseteq Process
    /\ appender \in [Process -> Appender]
    /\ sub \in [Subscriber -> SubscriberState]
    /\ delivered \in [Subscriber -> Seq(Nat)]

\* A reader never receives an event twice or after a later one, although
\* local events reach it by two routes.
DeliveredInOrder ==
    \A s \in Subscriber : \A i, j \in 1..Len(delivered[s]) :
        i < j => delivered[s][i] < delivered[s][j]

\* An event the cursor has passed without delivering it was written by
\* another process, and an event of the reader's own process overtook it.
LosesOnlyOvertaken ==
    \A s \in Subscriber : \A n \in (From[s] + 1)..sub[s].cursor :
        \/ \E i \in 1..Len(delivered[s]) : delivered[s][i] = n
        \/ /\ log[n] # Home[s]
           /\ \E m \in (n + 1)..sub[s].cursor : log[m] = Home[s]

\* Every event up to the latest one received has been received, whichever
\* process wrote it.
NothingSkipped ==
    \A s \in Subscriber : sub[s].cursor = From[s] + Len(delivered[s])

\* s is past event n, or about to offer its reader one, or has ended.
Reaches(s, n) ==
    \/ sub[s].cursor >= n \/ Offers(s)
    \/ sub[s].done \/ sub[s].pc = "closed"

\* A reader that keeps reading catches up, by the queue or by the table, with
\* every event of its own process and with everything before the latest event:
\* only another process's event that nothing follows may be left unread, since
\* its notification can come before the commit is visible and none comes after.
CatchesUp ==
    \A s \in Subscriber : \A n \in 1..MaxEvents :
        (Subscribed(s) /\ n <= Len(log) /\ (n < Len(log) \/ log[n] = Home[s]))
            ~> Reaches(s, n)

\* Closing a subscription, or the store, ends the goroutine even if its reader
\* reads no more.
GoroutineEnds ==
    \A s \in Subscriber :
        (sub[s].done \/ Home[s] \notin opened) ~> sub[s].pc \in {"off", "closed"}

\* With one process, a subscription is the stream of all events in order.
Stream == INSTANCE EventStream WITH written <- Len(log), received <- delivered

OrderedStream == Stream!Spec
=============================================================================
