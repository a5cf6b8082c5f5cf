-------------------------- MODULE EventLedgerProofs --------------------------
(***************************************************************************)
(* Proofs about EventLedger: types; the order of delivery and which events  *)
(* a reader may miss, however many processes write; and, for a ledger that  *)
(* one process writes, that a subscription is the stream EventStream        *)
(* specifies.                                                               *)
(***************************************************************************)
EXTENDS EventLedger, Integers, SequenceTheorems, TLAPS

-----------------------------------------------------------------------------
(* Lists of consecutive sequence numbers.                                  *)

\* The last number of a list that begins with Head(q).
LastOf(q) == Head(q) - 1 + Len(q)

Consecutive(q) == \A i \in 1..Len(q) : q[i] = Head(q) - 1 + i

LEMMA TailConsecutive ==
    ASSUME NEW q \in Seq(Nat), Consecutive(q), q # <<>>
    PROVE  /\ Head(q) \in Nat /\ Tail(q) \in Seq(Nat) /\ Consecutive(Tail(q))
           /\ Tail(q) # <<>> => /\ Head(Tail(q)) = Head(q) + 1
                                /\ LastOf(Tail(q)) = LastOf(q)
           /\ Tail(q) = <<>> => LastOf(q) = Head(q)
<1>1. Len(q) \in Nat \ {0} /\ Head(q) = q[1] /\ Head(q) \in Nat
  BY EmptySeq
<1>2. /\ Tail(q) \in Seq(Nat) /\ Len(Tail(q)) = Len(q) - 1
      /\ \A i \in 1..Len(Tail(q)) : Tail(q)[i] = q[i + 1]
  BY HeadTailProperties
<1>3. ASSUME NEW i \in 1..Len(Tail(q))
      PROVE  Tail(q)[i] = Head(q) + i
  <2>1. i + 1 \in 1..Len(q) /\ Tail(q)[i] = q[i + 1] /\ i \in Nat
    BY <1>1, <1>2
  <2>2. q[i + 1] = Head(q) - 1 + (i + 1)
    BY <2>1 DEF Consecutive
  <2> QED BY <1>1, <2>1, <2>2
<1>4. CASE Tail(q) = <<>>
  <2>1. Consecutive(<<>>)
    BY DEF Consecutive
  <2>2. Consecutive(Tail(q))
    BY <1>4, <2>1, Zenon
  <2>3. Len(Tail(q)) = 0
    BY <1>4, EmptySeq, Zenon
  <2>4. Len(q) - 1 = 0
    BY <1>2, <2>3, Zenon
  <2>5. LastOf(q) = Head(q)
    BY <1>1, <2>4 DEF LastOf
  <2> QED BY <1>1, <1>2, <1>4, <2>2, <2>5, Zenon
<1>5. CASE Tail(q) # <<>>
  <2>1. Len(Tail(q)) \in Nat \ {0}
    BY <1>2, <1>5, EmptySeq
  <2>2. Head(Tail(q)) = Head(q) + 1
    BY <1>2, <1>3, <2>1
  <2>3. Consecutive(Tail(q))
    BY <1>1, <1>3, <2>2, SMTT(30) DEF Consecutive
  <2> QED BY <1>1, <1>2, <1>5, <2>2, <2>3, SMTT(30) DEF LastOf
<1> QED BY <1>4, <1>5

LEMMA AppendConsecutive ==
    ASSUME NEW q \in Seq(Nat), NEW n \in Nat, Consecutive(q),
           q # <<>> => n = LastOf(q) + 1
    PROVE  /\ Append(q, n) \in Seq(Nat) /\ Append(q, n) # <<>>
           /\ Consecutive(Append(q, n)) /\ LastOf(Append(q, n)) = n
           /\ Head(Append(q, n)) = IF q = <<>> THEN n ELSE Head(q)
<1>1. /\ Append(q, n) \in Seq(Nat) /\ Len(Append(q, n)) = Len(q) + 1
      /\ Append(q, n)[Len(q) + 1] = n
      /\ \A i \in 1..Len(q) : Append(q, n)[i] = q[i]
  OBVIOUS
<1>2. CASE q = <<>>
  BY <1>1, <1>2 DEF Consecutive, LastOf
<1>3. CASE q # <<>>
  <2>1. Len(q) \in Nat \ {0} /\ Head(q) = q[1] /\ Head(q) \in Nat
    BY <1>3
  <2>2. Append(q, n) # <<>> /\ Head(Append(q, n)) = Head(q)
    BY <1>1, <2>1
  <2>3. n = Head(q) + Len(q)
    BY <1>3, <2>1 DEF LastOf
  <2>4. LastOf(Append(q, n)) = n
    BY <1>1, <2>1, <2>2, <2>3 DEF LastOf
  <2>5. ASSUME NEW i \in 1..Len(q) + 1
        PROVE  Append(q, n)[i] = Head(q) - 1 + i
    BY <1>1, <2>1, <2>3 DEF Consecutive
  <2> QED BY <1>1, <1>3, <2>1, <2>2, <2>4, <2>5 DEF Consecutive
<1> QED BY <1>2, <1>3

LEMMA EventsAfterConsecutive ==
    ASSUME NEW n \in Nat, log \in Seq(Process)
    PROVE  /\ EventsAfter(n) \in Seq(Nat) /\ Consecutive(EventsAfter(n))
           /\ EventsAfter(n) # <<>> => /\ Head(EventsAfter(n)) = n + 1
                                       /\ LastOf(EventsAfter(n)) = Len(log)
           /\ EventsAfter(n) = <<>> => Len(log) <= n
<1> DEFINE k == IF Len(log) > n THEN Len(log) - n ELSE 0
<1>1. k \in Nat /\ Len(log) \in Nat
  OBVIOUS
<1>2. EventsAfter(n) = [i \in 1..k |-> n + i]
  BY DEF EventsAfter
<1>3. k = 0 <=> Len(log) <= n
  BY <1>1
<1>4. k # 0 => n + k = Len(log)
  BY <1>1
<1> HIDE DEF k
<1>5. EventsAfter(n) \in Seq(Nat) /\ Len(EventsAfter(n)) = k
  BY <1>1, <1>2
<1>6. EventsAfter(n) = <<>> <=> k = 0
  BY <1>1, <1>2, <1>5
<1>7. k # 0 => Head(EventsAfter(n)) = n + 1
  BY <1>1, <1>2, <1>5
<1>8. Consecutive(EventsAfter(n))
  BY <1>1, <1>2, <1>5, <1>7 DEF Consecutive
<1> QED BY <1>1, <1>3, <1>4, <1>5, <1>6, <1>7, <1>8 DEF LastOf

-----------------------------------------------------------------------------
(* Types.                                                                  *)

LEMMA TurnResult ==
    ASSUME TypeOK, NEW s \in Subscriber, NEW r \in SubscriberState, Turn(s, r)
    PROVE  /\ TypeOK' /\ sub'[s] = r
           /\ \A x \in Subscriber \ {s} : sub'[x] = sub[x]
           /\ UNCHANGED <<log, opened, appender, delivered>>
BY DEF Turn, TypeOK

LEMMA SubscriberFields ==
    ASSUME TypeOK, NEW s \in Subscriber
    PROVE  /\ sub[s] \in SubscriberState
           /\ sub[s].queue \in Seq(Nat) /\ sub[s].items \in Seq(Nat)
           /\ sub[s].cursor \in Nat /\ log \in Seq(Process) /\ From[s] \in Nat
           /\ delivered[s] \in Seq(Nat) /\ Len(log) \in Nat
BY LedgerAssumption DEF TypeOK, SubscriberState

\* The steps of appenders and stores.
LEMMA StoreTypes ==
    ASSUME TypeOK, NEW p \in Process, AppendStep(p) \/ Close(p)
    PROVE  TypeOK'
<1> USE DEF TypeOK, Appender
<1>1. CASE AppendAllocate(p)
  BY <1>1 DEF AppendAllocate
<1>2. CASE AppendWrite(p)
  <2>1. ASSUME NEW s \in Subscriber
        PROVE  [sub[s] EXCEPT !.changed = TRUE] \in SubscriberState
    BY ZenonT(60) DEF SubscriberState
  <2> QED BY <1>2, <2>1 DEF AppendWrite
<1>3. CASE AppendCommit(p)
  <2>1. appender' \in [Process -> Appender]
    BY <1>3 DEF AppendCommit
  <2>2. Append(log, p) \in Seq(Process)
    OBVIOUS
  <2> QED BY <1>3, <2>1, <2>2 DEF AppendCommit
<1>4. CASE AppendFail(p)
  BY <1>4 DEF AppendFail
<1>5. CASE Publish(p)
  <2>1. ASSUME NEW s \in Subscriber
        PROVE  [sub[s] EXCEPT !.queue = Append(@, appender[p].seq), !.signal = TRUE]
                  \in SubscriberState
    <3>1. Append(sub[s].queue, appender[p].seq) \in Seq(Nat)
      BY DEF SubscriberState
    <3> QED BY <3>1, ZenonT(60) DEF SubscriberState
  <2> QED BY <1>5, <2>1 DEF Publish
<1>6. CASE Close(p)
  <2>1. ASSUME NEW s \in Subscriber
        PROVE  [sub[s] EXCEPT !.done = TRUE] \in SubscriberState
    BY DEF SubscriberState
  <2> QED BY <1>6, <2>1 DEF Close
<1> QED BY <1>1, <1>2, <1>3, <1>4, <1>5, <1>6 DEF AppendStep

\* The steps of a subscriber that only move its goroutine on.
Moves(s) ==
    \/ Watch(s) \/ RegisterRefused(s) \/ QueueEmpty(s) \/ Signalled(s)
    \/ Emitted(s) \/ Finish(s) \/ SourceFails(s) \/ Unsubscribe(s)

\* A goroutine is active while it neither waits to start nor has ended.
Active(s) == sub[s].pc \in {"loop", "select", "emit"}

\* What such a step may do to its subscriber.
MovesTo(s, r) ==
    /\ r.queue = sub[s].queue /\ r.items = sub[s].items /\ r.cursor = sub[s].cursor
    /\ sub[s].done => r.done
    /\ \/ r.pc = sub[s].pc
       \/ sub[s].pc = "off" /\ r.pc = "watching"
       \/ /\ Active(s) /\ r.pc \in {"loop", "select"}
          /\ sub[s].pc = "emit" => sub[s].items = <<>>
       \/ r.pc = "closed"

LEMMA MoveResult ==
    ASSUME TypeOK, NEW s \in Subscriber, Moves(s)
    PROVE  /\ TypeOK' /\ MovesTo(s, sub'[s])
           /\ \A x \in Subscriber \ {s} : sub'[x] = sub[x]
           /\ UNCHANGED <<log, opened, appender, delivered>>
<1>1. sub[s] \in SubscriberState
  BY SubscriberFields
<1>2. SUFFICES ASSUME NEW r \in SubscriberState, MovesTo(s, r), Turn(s, r)
               PROVE  /\ TypeOK' /\ MovesTo(s, sub'[s])
                      /\ \A x \in Subscriber \ {s} : sub'[x] = sub[x]
                      /\ UNCHANGED <<log, opened, appender, delivered>>
  <2> DEFINE Possible(r) == r \in SubscriberState /\ MovesTo(s, r) /\ Turn(s, r)
  <2>0. SUFFICES \E r : Possible(r)
    OBVIOUS
  <2> USE <1>1 DEF SubscriberState, MovesTo, Active
  <2>1. CASE Watch(s)
    <3> WITNESS [sub[s] EXCEPT !.pc = "watching"]
    <3> QED BY <2>1 DEF Watch
  <2>2. CASE RegisterRefused(s) \/ Finish(s) \/ SourceFails(s)
    <3> WITNESS [sub[s] EXCEPT !.pc = "closed"]
    <3> QED BY <2>2 DEF RegisterRefused, Finish, Offers, SourceFails
  <2>3. CASE QueueEmpty(s)
    <3> WITNESS [sub[s] EXCEPT !.pc = "select"]
    <3> QED BY <2>3 DEF QueueEmpty
  <2>4. CASE Signalled(s)
    <3> WITNESS [sub[s] EXCEPT !.pc = "loop", !.signal = FALSE]
    <3> QED BY <2>4 DEF Signalled
  <2>5. CASE Emitted(s)
    <3> WITNESS [sub[s] EXCEPT !.pc = "loop"]
    <3> QED BY <2>5 DEF Emitted
  <2>6. CASE Unsubscribe(s)
    <3> WITNESS [sub[s] EXCEPT !.done = TRUE]
    <3> QED BY <2>6 DEF Unsubscribe
  <2> QED BY <2>1, <2>2, <2>3, <2>4, <2>5, <2>6 DEF Moves
<1> QED BY <1>2, TurnResult

\* The steps that move events through a subscriber: what each leaves in it.
LEMMA RegisterResult ==
    ASSUME TypeOK, NEW s \in Subscriber, Register(s)
    PROVE  /\ TypeOK' /\ UNCHANGED <<log, opened, appender, delivered>>
           /\ \A x \in Subscriber \ {s} : sub'[x] = sub[x]
           /\ sub[s].pc = "watching" /\ appender[Home[s]].pc = "idle"
           /\ Home[s] \in opened
           /\ sub'[s].pc = "loop" /\ sub'[s].queue = EventsAfter(From[s])
           /\ sub'[s].items = sub[s].items /\ sub'[s].cursor = sub[s].cursor
           /\ sub'[s].done = sub[s].done
<1> DEFINE r == [sub[s] EXCEPT !.pc = "loop", !.queue = EventsAfter(From[s])]
<1>1. EventsAfter(From[s]) \in Seq(Nat)
  BY SubscriberFields, EventsAfterConsecutive
<1>2. /\ r \in SubscriberState /\ r.pc = "loop" /\ r.queue = EventsAfter(From[s])
      /\ r.items = sub[s].items /\ r.cursor = sub[s].cursor /\ r.done = sub[s].done
  BY <1>1, SubscriberFields DEF SubscriberState
<1>3. Turn(s, r)
  BY DEF Register
<1> HIDE DEF r
<1> QED BY <1>2, <1>3, TurnResult DEF Register

LEMMA PopResult ==
    ASSUME TypeOK, NEW s \in Subscriber, Pop(s)
    PROVE  /\ TypeOK' /\ UNCHANGED <<log, opened, appender, delivered>>
           /\ \A x \in Subscriber \ {s} : sub'[x] = sub[x]
           /\ sub[s].pc = "loop" /\ sub[s].queue # <<>>
           /\ sub'[s].pc = "emit" /\ sub'[s].items = <<Head(sub[s].queue)>>
           /\ sub'[s].queue = Tail(sub[s].queue)
           /\ sub'[s].cursor = sub[s].cursor /\ sub'[s].done = sub[s].done
<1> DEFINE one == <<Head(sub[s].queue)>>
<1> DEFINE r == [sub[s] EXCEPT !.pc = "emit", !.items = one,
                               !.queue = Tail(sub[s].queue)]
<1>1. one \in Seq(Nat) /\ Tail(sub[s].queue) \in Seq(Nat)
  BY SubscriberFields DEF Pop
<1>2. Turn(s, r)
  BY DEF Pop
<1> HIDE DEF one
<1>3. /\ r \in SubscriberState /\ r.pc = "emit" /\ r.queue = Tail(sub[s].queue)
      /\ r.items = one /\ r.cursor = sub[s].cursor
      /\ r.done = sub[s].done
  BY <1>1, SubscriberFields DEF SubscriberState
<1> HIDE DEF r
<1> QED BY <1>2, <1>3, TurnResult DEF Pop, one

LEMMA FileChangedResult ==
    ASSUME TypeOK, NEW s \in Subscriber, FileChanged(s)
    PROVE  /\ TypeOK' /\ UNCHANGED <<log, opened, appender, delivered>>
           /\ \A x \in Subscriber \ {s} : sub'[x] = sub[x]
           /\ sub[s].pc = "select" /\ sub'[s].pc = "emit"
           /\ sub'[s].items = EventsAfter(sub[s].cursor)
           /\ sub'[s].queue = sub[s].queue
           /\ sub'[s].cursor = sub[s].cursor /\ sub'[s].done = sub[s].done
<1> DEFINE r == [sub[s] EXCEPT !.pc = "emit", !.changed = FALSE,
                               !.items = EventsAfter(sub[s].cursor)]
<1>1. EventsAfter(sub[s].cursor) \in Seq(Nat)
  BY SubscriberFields, EventsAfterConsecutive
<1>2. /\ r \in SubscriberState /\ r.pc = "emit" /\ r.queue = sub[s].queue
      /\ r.items = EventsAfter(sub[s].cursor) /\ r.cursor = sub[s].cursor
      /\ r.done = sub[s].done
  BY <1>1, SubscriberFields DEF SubscriberState
<1>3. Turn(s, r)
  BY DEF FileChanged
<1> HIDE DEF r
<1> QED BY <1>2, <1>3, TurnResult DEF FileChanged

LEMMA EmitSkipsResult ==
    ASSUME TypeOK, NEW s \in Subscriber, EmitSkips(s)
    PROVE  /\ TypeOK' /\ UNCHANGED <<log, opened, appender, delivered>>
           /\ \A x \in Subscriber \ {s} : sub'[x] = sub[x]
           /\ sub[s].pc = "emit" /\ sub'[s].pc = "emit" /\ sub[s].items # <<>>
           /\ Head(sub[s].items) <= sub[s].cursor
           /\ sub'[s].items = Tail(sub[s].items) /\ sub'[s].queue = sub[s].queue
           /\ sub'[s].cursor = sub[s].cursor /\ sub'[s].done = sub[s].done
<1> DEFINE r == [sub[s] EXCEPT !.items = Tail(sub[s].items)]
<1>1. Tail(sub[s].items) \in Seq(Nat)
  BY SubscriberFields DEF EmitSkips
<1>2. /\ r \in SubscriberState /\ r.pc = sub[s].pc /\ r.queue = sub[s].queue
      /\ r.items = Tail(sub[s].items) /\ r.cursor = sub[s].cursor
      /\ r.done = sub[s].done
  BY <1>1, SubscriberFields DEF SubscriberState
<1>3. Turn(s, r)
  BY DEF EmitSkips
<1> HIDE DEF r
<1> QED BY <1>2, <1>3, TurnResult DEF EmitSkips

LEMMA EmitResult ==
    ASSUME TypeOK, NEW s \in Subscriber, Emit(s)
    PROVE  /\ TypeOK' /\ UNCHANGED <<log, opened, appender>>
           /\ \A x \in Subscriber \ {s} : sub'[x] = sub[x] /\ delivered'[x] = delivered[x]
           /\ sub[s].pc = "emit" /\ sub'[s].pc = "emit" /\ sub[s].items # <<>>
           /\ Head(sub[s].items) \in Nat /\ Head(sub[s].items) > sub[s].cursor
           /\ sub'[s].items = Tail(sub[s].items) /\ sub'[s].queue = sub[s].queue
           /\ sub'[s].cursor = Head(sub[s].items) /\ sub'[s].done = sub[s].done
           /\ delivered'[s] = Append(delivered[s], Head(sub[s].items))
<1> DEFINE r == [sub[s] EXCEPT !.cursor = Head(sub[s].items), !.items = Tail(sub[s].items)]
<1> DEFINE d == Append(delivered[s], Head(sub[s].items))
<1>1. /\ Tail(sub[s].items) \in Seq(Nat) /\ Head(sub[s].items) \in Nat
      /\ Head(sub[s].items) > sub[s].cursor /\ sub[s].items # <<>> /\ sub[s].pc = "emit"
  BY SubscriberFields DEF Emit, Offers
<1>2. /\ r \in SubscriberState /\ r.pc = sub[s].pc /\ r.queue = sub[s].queue
      /\ r.items = Tail(sub[s].items) /\ r.cursor = Head(sub[s].items)
      /\ r.done = sub[s].done
  BY <1>1, SubscriberFields DEF SubscriberState
<1>3. d \in Seq(Nat)
  BY <1>1, SubscriberFields
<1>4. /\ sub' = [sub EXCEPT ![s] = r] /\ delivered' = [delivered EXCEPT ![s] = d]
      /\ UNCHANGED <<log, opened, appender>>
  BY DEF Emit
<1> HIDE DEF r, d
<1>5. TypeOK' /\ sub'[s] = r /\ delivered'[s] = d
  BY <1>2, <1>3, <1>4 DEF TypeOK
<1>6. \A x \in Subscriber \ {s} : sub'[x] = sub[x] /\ delivered'[x] = delivered[x]
  BY <1>4 DEF TypeOK
<1> QED BY <1>1, <1>2, <1>4, <1>5, <1>6 DEF d

\* The steps of a subscriber.
LEMMA SubscriberSteps ==
    ASSUME NEW s \in Subscriber,
           Watch(s) \/ GoroutineStep(s) \/ Emit(s) \/ SourceFails(s) \/ Unsubscribe(s)
    PROVE  \/ Moves(s) \/ Register(s) \/ Pop(s) \/ FileChanged(s)
           \/ EmitSkips(s) \/ Emit(s)
BY DEF GoroutineStep, Moves

LEMMA TypeOKStep ==
    ASSUME TypeOK, [Next]_vars
    PROVE  TypeOK'
<1>1. CASE UNCHANGED vars
  BY <1>1 DEF vars, TypeOK
<1>2. ASSUME NEW p \in Process, AppendStep(p) \/ Close(p)
      PROVE  TypeOK'
  BY <1>2, StoreTypes
<1>3. ASSUME NEW s \in Subscriber,
             Moves(s) \/ Register(s) \/ Pop(s) \/ FileChanged(s) \/ EmitSkips(s) \/ Emit(s)
      PROVE  TypeOK'
  BY <1>3, MoveResult, RegisterResult, PopResult, FileChangedResult,
     EmitSkipsResult, EmitResult
<1> QED BY <1>1, <1>2, <1>3, SubscriberSteps DEF Next

\* Every state is well typed, the queues and the events read included.
THEOREM LedgerTypeCorrect == Spec => []TypeOK
<1>1. Init => TypeOK
  BY LedgerAssumption DEF Init, TypeOK, Appender, SubscriberState
<1> QED BY <1>1, TypeOKStep, PTL DEF Spec

\* A transaction that has written holds the lock: nobody else has written, and
\* nobody has committed since it read.
LockInv ==
    \A p \in Process : appender[p].pc = "written" =>
        /\ appender[p].seq = Len(log) + 1
        /\ \A q \in Process : appender[q].pc = "written" => q = p

LEMMA LockStep ==
    ASSUME TypeOK, LockInv, [Next]_vars
    PROVE  LockInv'
<1> USE DEF LockInv, TypeOK, Appender
<1>1. CASE UNCHANGED <<log, appender>>
  BY <1>1
<1>2. ASSUME NEW p \in Process, AppendStep(p)
      PROVE  LockInv'
  <2>1. CASE AppendAllocate(p)
    BY <2>1 DEF AppendAllocate
  <2>2. CASE AppendWrite(p)
    BY <2>2 DEF AppendWrite
  <2>3. CASE AppendCommit(p)
    BY <2>3 DEF AppendCommit
  <2>4. CASE AppendFail(p) \/ Publish(p)
    BY <2>4 DEF AppendFail, Publish
  <2> QED BY <1>2, <2>1, <2>2, <2>3, <2>4 DEF AppendStep
<1>3. CASE UNCHANGED vars
  BY <1>1, <1>3 DEF vars
<1>4. ASSUME NEW p \in Process, Close(p)
      PROVE  LockInv'
  BY <1>1, <1>4 DEF Close
<1>5. ASSUME NEW s \in Subscriber,
             Moves(s) \/ Register(s) \/ Pop(s) \/ FileChanged(s) \/ EmitSkips(s) \/ Emit(s)
      PROVE  LockInv'
  BY <1>1, <1>5, MoveResult, RegisterResult, PopResult, FileChangedResult,
     EmitSkipsResult, EmitResult
<1> QED BY <1>2, <1>3, <1>4, <1>5, SubscriberSteps DEF Next

LEMMA WriterHoldsTheLock == Spec => []LockInv
<1>1. Init => LockInv
  BY DEF Init, LockInv
<1> QED BY <1>1, LockStep, LedgerTypeCorrect, PTL DEF Spec

-----------------------------------------------------------------------------
(* Order.                                                                  *)

\* The steps of appenders and stores leave every goroutine where it is and
\* only add to the queues.
LEMMA StoreResult ==
    ASSUME TypeOK, NEW p \in Process, AppendStep(p) \/ Close(p), NEW s \in Subscriber
    PROVE  /\ delivered' = delivered
           /\ sub'[s].pc = sub[s].pc /\ sub'[s].items = sub[s].items
           /\ sub'[s].cursor = sub[s].cursor
<1> USE SubscriberFields DEF SubscriberState
<1>1. CASE AppendAllocate(p) \/ AppendFail(p)
  BY <1>1 DEF AppendAllocate, AppendFail
<1>2. CASE AppendWrite(p)
  BY <1>2 DEF AppendWrite
<1>3. CASE AppendCommit(p)
  BY <1>3 DEF AppendCommit
<1>4. CASE Publish(p)
  BY <1>4 DEF Publish
<1>5. CASE Close(p)
  BY <1>5 DEF Close
<1> QED BY <1>1, <1>2, <1>3, <1>4, <1>5 DEF AppendStep

\* What s has received never goes beyond the cursor, and increases.
OrderInv ==
    \A s \in Subscriber : \A i \in 1..Len(delivered[s]) :
        /\ delivered[s][i] <= sub[s].cursor
        /\ \A j \in 1..Len(delivered[s]) : i < j => delivered[s][i] < delivered[s][j]

LEMMA OrderInvStep ==
    ASSUME TypeOK, OrderInv, [Next]_vars
    PROVE  OrderInv'
<1>1. ASSUME \A s \in Subscriber :
                delivered'[s] = delivered[s] /\ sub'[s].cursor = sub[s].cursor
      PROVE  OrderInv'
  BY <1>1 DEF OrderInv
<1>2. CASE UNCHANGED vars
  BY <1>1, <1>2 DEF vars
<1>3. ASSUME NEW p \in Process, AppendStep(p) \/ Close(p)
      PROVE  OrderInv'
  BY <1>1, <1>3, StoreResult
<1>4. ASSUME NEW s \in Subscriber,
             Moves(s) \/ Register(s) \/ Pop(s) \/ FileChanged(s) \/ EmitSkips(s)
      PROVE  OrderInv'
  <2>1. delivered' = delivered
    BY <1>4, MoveResult, RegisterResult, PopResult, FileChangedResult, EmitSkipsResult
  <2>2. sub'[s].cursor = sub[s].cursor
    BY <1>4, MoveResult, RegisterResult, PopResult, FileChangedResult, EmitSkipsResult
       DEF MovesTo
  <2>3. \A x \in Subscriber \ {s} : sub'[x] = sub[x]
    BY <1>4, MoveResult, RegisterResult, PopResult, FileChangedResult, EmitSkipsResult
  <2> QED BY <1>1, <2>1, <2>2, <2>3
<1>5. ASSUME NEW s \in Subscriber, Emit(s)
      PROVE  OrderInv'
  <2> SUFFICES ASSUME NEW x \in Subscriber, NEW i \in 1..Len(delivered'[x])
               PROVE  /\ delivered'[x][i] <= sub'[x].cursor
                      /\ \A j \in 1..Len(delivered'[x]) :
                            i < j => delivered'[x][i] < delivered'[x][j]
    BY DEF OrderInv
  <2>1. CASE x # s
    BY <1>5, <2>1, EmitResult DEF OrderInv
  <2>2. CASE x = s
    <3> DEFINE d == delivered[s]  n == Head(sub[s].items)
    <3>1. /\ d \in Seq(Nat) /\ n \in Nat /\ sub[s].cursor \in Nat /\ n > sub[s].cursor
          /\ sub'[s].cursor = n /\ delivered'[s] = Append(d, n)
      BY <1>5, EmitResult, SubscriberFields
    <3>2. \A k \in 1..Len(d) :
             /\ d[k] <= sub[s].cursor
             /\ \A j \in 1..Len(d) : k < j => d[k] < d[j]
      BY DEF OrderInv
    <3>3. \A k \in 1..Len(d) : d[k] \in Nat /\ d[k] < n
      BY <3>1, <3>2, SMTT(30)
    <3> HIDE DEF d, n
    <3> QED BY <2>2, <3>1, <3>2, <3>3
  <2> QED BY <2>1, <2>2
<1> QED BY <1>2, <1>3, <1>4, <1>5, SubscriberSteps DEF Next

\* No reader receives an event twice or out of order, however many processes
\* append and whichever of the two routes each event takes.
THEOREM DeliveredInOrderCorrect == Spec => []DeliveredInOrder
<1>1. Init => OrderInv
  BY DEF Init, OrderInv
<1>2. OrderInv => DeliveredInOrder
  BY DEF OrderInv, DeliveredInOrder
<1> QED BY <1>1, <1>2, OrderInvStep, LedgerTypeCorrect, PTL DEF Spec

-----------------------------------------------------------------------------
(* A ledger written by one process, p: nothing is lost.                    *)

\* How far s has got: what its cursor has passed or is about to pass.
AheadOf(s) ==
    IF sub[s].items # <<>> /\ LastOf(sub[s].items) > sub[s].cursor
    THEN LastOf(sub[s].items) ELSE sub[s].cursor

\* The events that p has published: all, or all but the one it has committed.
Published(p) ==
    IF appender[p].pc = "committed" THEN Len(log) - 1 ELSE Len(log)

AppenderInv(p) ==
    appender[p].pc = "committed" => appender[p].seq = Len(log) /\ log # <<>>

\* s has received the events from From[s] to its cursor.
CursorInv(s) ==
    /\ sub[s].cursor = From[s] + Len(delivered[s])
    /\ sub[s].pc \in {"off", "watching"} => sub[s].cursor = From[s]

\* What the goroutine is emitting leaves no gap after the cursor.
ItemsInv(s) ==
    /\ Consecutive(sub[s].items)
    /\ sub[s].items # <<>> =>
          /\ sub[s].pc \in {"emit", "closed"}
          /\ Head(sub[s].items) <= sub[s].cursor + 1
          /\ LastOf(sub[s].items) <= Len(log)

\* The queue leaves no gap after that.
QueueInv(s) ==
    /\ Consecutive(sub[s].queue)
    /\ sub[s].queue # <<>> =>
          /\ Head(sub[s].queue) <= AheadOf(s) + 1
          /\ LastOf(sub[s].queue) <= Len(log)

\* Nothing published is beyond the end of the queue.
PendingInv(s, p) ==
    Subscribed(s) =>
       /\ sub[s].queue = <<>> => Published(p) <= AheadOf(s)
       /\ sub[s].queue # <<>> => LastOf(sub[s].queue) = Published(p)

SubscriberInv(s, p) ==
    CursorInv(s) /\ ItemsInv(s) /\ QueueInv(s) /\ PendingInv(s, p)

StreamInv(p) == AppenderInv(p) /\ \A s \in Subscriber : SubscriberInv(s, p)

\* A step of another subscriber.
LEMMA Unmoved ==
    ASSUME NEW s, NEW p, SubscriberInv(s, p), sub'[s] = sub[s],
           delivered'[s] = delivered[s], log' = log, appender' = appender
    PROVE  SubscriberInv(s, p)'
BY DEF SubscriberInv, CursorInv, ItemsInv, QueueInv, PendingInv, Subscribed, AheadOf, Published

LEMMA MovesStream ==
    ASSUME TypeOK, NEW s \in Subscriber, NEW p, SubscriberInv(s, p), Moves(s)
    PROVE  SubscriberInv(s, p)'
<1>1. /\ UNCHANGED <<log, appender, delivered>> /\ MovesTo(s, sub'[s])
  BY MoveResult
<1>2. AheadOf(s)' = AheadOf(s) /\ Published(p)' = Published(p)
  BY <1>1 DEF MovesTo, AheadOf, Published
<1>3. CursorInv(s)'
  BY <1>1 DEF SubscriberInv, CursorInv, MovesTo, Active
<1>4. ItemsInv(s)'
  BY <1>1 DEF SubscriberInv, ItemsInv, MovesTo, Active
<1>5. QueueInv(s)'
  BY <1>1, <1>2 DEF SubscriberInv, QueueInv, MovesTo
<1>6. Subscribed(s)' => Subscribed(s)
  BY <1>1 DEF Subscribed, MovesTo, Active
<1>7. PendingInv(s, p)'
  BY <1>1, <1>2, <1>6 DEF SubscriberInv, PendingInv, MovesTo
<1> QED BY <1>3, <1>4, <1>5, <1>7 DEF SubscriberInv

LEMMA RegisterStream ==
    ASSUME TypeOK, NEW s \in Subscriber, NEW p, p = Home[s], SubscriberInv(s, p), Register(s)
    PROVE  SubscriberInv(s, p)'
<1> DEFINE q == EventsAfter(From[s])
<1>1. /\ UNCHANGED <<log, appender, delivered>> /\ sub[s].pc = "watching"
      /\ appender[p].pc = "idle"
      /\ sub'[s].pc = "loop" /\ sub'[s].queue = q
      /\ sub'[s].items = sub[s].items /\ sub'[s].cursor = sub[s].cursor
  BY RegisterResult
<1>2. sub[s].items = <<>> /\ sub[s].cursor = From[s]
  BY <1>1 DEF SubscriberInv, ItemsInv, CursorInv
<1>3. /\ Consecutive(q)
      /\ q # <<>> => Head(q) = From[s] + 1 /\ LastOf(q) = Len(log)
      /\ q = <<>> => Len(log) <= From[s]
  BY SubscriberFields, EventsAfterConsecutive
<1> HIDE DEF q
<1>4. AheadOf(s)' = From[s] /\ Published(p)' = Len(log)
  BY <1>1, <1>2 DEF AheadOf, Published
<1>5. CursorInv(s)' /\ ItemsInv(s)'
  BY <1>1, <1>2 DEF SubscriberInv, CursorInv, ItemsInv
<1>6. QueueInv(s)' /\ PendingInv(s, p)'
  BY <1>1, <1>3, <1>4, SubscriberFields DEF QueueInv, PendingInv
<1> QED BY <1>5, <1>6 DEF SubscriberInv

LEMMA PopStream ==
    ASSUME TypeOK, NEW s \in Subscriber, NEW p, SubscriberInv(s, p), Pop(s)
    PROVE  SubscriberInv(s, p)'
<1> DEFINE q == sub[s].queue
<1> DEFINE c == sub[s].cursor
<1>1. /\ UNCHANGED <<log, appender, delivered>> /\ sub[s].pc = "loop"
      /\ sub'[s].pc = "emit" /\ q # <<>>
      /\ sub'[s].queue = Tail(q) /\ sub'[s].items = <<Head(q)>>
      /\ sub'[s].cursor = c /\ sub'[s].done = sub[s].done
  BY PopResult
<1>2. sub[s].items = <<>>
  BY <1>1 DEF SubscriberInv, ItemsInv
<1>3. /\ q \in Seq(Nat) /\ Consecutive(q) /\ c \in Nat
      /\ Head(q) <= c + 1 /\ LastOf(q) <= Len(log)
  BY <1>1, <1>2, SubscriberFields DEF SubscriberInv, QueueInv, AheadOf
<1>4. /\ Head(q) \in Nat /\ Consecutive(Tail(q)) /\ LastOf(q) \in Int /\ Head(q) <= LastOf(q)
      /\ Tail(q) # <<>> => Head(Tail(q)) = Head(q) + 1 /\ LastOf(Tail(q)) = LastOf(q)
      /\ Tail(q) = <<>> => LastOf(q) = Head(q)
  <2>1. Len(q) \in Nat \ {0}
    BY <1>1, <1>3, EmptySeq
  <2>2. Head(q) \in Nat
    BY <1>1, <1>3, TailConsecutive
  <2>3. LastOf(q) \in Int /\ Head(q) <= LastOf(q)
    BY <2>1, <2>2 DEF LastOf
  <2> QED BY <1>1, <1>3, <2>3, TailConsecutive
<1>5. Published(p)' = Published(p) /\ (Subscribed(s) => Published(p) = LastOf(q))
  BY <1>1 DEF SubscriberInv, PendingInv, Published
<1>6. Subscribed(s)' => Subscribed(s)
  BY <1>1 DEF Subscribed
<1> DEFINE one == <<Head(q)>>
<1>7. one # <<>> /\ Head(one) = Head(q) /\ LastOf(one) = Head(q) /\ Consecutive(one)
  BY <1>4 DEF LastOf, Consecutive
<1>8. sub'[s].items = one
  BY <1>1
<1> HIDE DEF one, q, c
<1>9. AheadOf(s)' = IF Head(q) > c THEN Head(q) ELSE c
  BY <1>1, <1>7, <1>8 DEF AheadOf
<1>10. CursorInv(s)'
  BY <1>1 DEF SubscriberInv, CursorInv, c
<1>11. ItemsInv(s)'
  <2>1. Len(log) \in Nat
    BY SubscriberFields
  <2>2. Head(q) <= Len(log) /\ Head(q) <= c + 1
    BY <1>3, <1>4, <2>1
  <2> QED BY <1>1, <1>7, <1>8, <2>2 DEF ItemsInv
<1>12. QueueInv(s)'
  <2>1. CASE Tail(q) = <<>>
    BY <1>1, <1>4, <2>1 DEF QueueInv
  <2>2. CASE Tail(q) # <<>>
    BY <1>1, <1>3, <1>4, <1>9, <2>2, SMTT(30) DEF QueueInv
  <2> QED BY <2>1, <2>2
<1>13. PendingInv(s, p)'
  BY <1>1, <1>3, <1>4, <1>5, <1>6, <1>9 DEF PendingInv
<1> QED BY <1>10, <1>11, <1>12, <1>13 DEF SubscriberInv

LEMMA FileChangedStream ==
    ASSUME TypeOK, NEW s \in Subscriber, NEW p, SubscriberInv(s, p), FileChanged(s)
    PROVE  SubscriberInv(s, p)'
<1> DEFINE q == EventsAfter(sub[s].cursor)
<1> DEFINE c == sub[s].cursor
<1>1. /\ UNCHANGED <<log, appender, delivered>> /\ sub[s].pc = "select"
      /\ sub'[s].pc = "emit" /\ sub'[s].items = q /\ sub'[s].queue = sub[s].queue
      /\ sub'[s].cursor = c /\ sub'[s].done = sub[s].done
  BY FileChangedResult
<1>2. sub[s].items = <<>>
  BY <1>1 DEF SubscriberInv, ItemsInv
<1>3. /\ q \in Seq(Nat) /\ Consecutive(q) /\ c \in Nat /\ Len(log) \in Nat
      /\ q # <<>> => Head(q) = c + 1 /\ LastOf(q) = Len(log)
  BY SubscriberFields, EventsAfterConsecutive
<1>4. AheadOf(s) = c
  BY <1>2 DEF AheadOf
<1> HIDE DEF q, c
<1>5. AheadOf(s)' \in Nat /\ AheadOf(s)' >= c
  BY <1>1, <1>3 DEF AheadOf
<1>6. CursorInv(s)'
  BY <1>1 DEF SubscriberInv, CursorInv, c
<1>7. ItemsInv(s)'
  BY <1>1, <1>3 DEF ItemsInv
<1>8. QueueInv(s)'
  <2>1. CASE sub[s].queue = <<>>
    BY <1>1, <2>1 DEF SubscriberInv, QueueInv
  <2>2. CASE sub[s].queue # <<>>
    <3>1. Head(sub[s].queue) \in Nat /\ Head(sub[s].queue) <= c + 1
      BY <1>4, <2>2, SubscriberFields DEF SubscriberInv, QueueInv
    <3> QED BY <1>1, <1>3, <1>5, <2>2, <3>1 DEF SubscriberInv, QueueInv
  <2> QED BY <2>1, <2>2
<1>9. PendingInv(s, p)'
  <2>1. Published(p)' = Published(p) /\ Published(p) \in Int
    BY <1>1, <1>3 DEF Published
  <2>2. Subscribed(s)' => Subscribed(s)
    BY <1>1 DEF Subscribed
  <2> QED BY <1>1, <1>3, <1>4, <1>5, <2>1, <2>2 DEF SubscriberInv, PendingInv
<1> QED BY <1>6, <1>7, <1>8, <1>9 DEF SubscriberInv

\* What is left after the first of the items, once the cursor is at least there.
LEMMA RestOfItems ==
    ASSUME TypeOK, NEW s \in Subscriber, ItemsInv(s), sub[s].items # <<>>
    PROVE  /\ Head(sub[s].items) \in Nat /\ LastOf(sub[s].items) \in Int
           /\ Head(sub[s].items) <= LastOf(sub[s].items)
           /\ Consecutive(Tail(sub[s].items))
           /\ Tail(sub[s].items) # <<>> =>
                 /\ Head(Tail(sub[s].items)) = Head(sub[s].items) + 1
                 /\ LastOf(Tail(sub[s].items)) = LastOf(sub[s].items)
           /\ Tail(sub[s].items) = <<>> => LastOf(sub[s].items) = Head(sub[s].items)
<1> DEFINE q == sub[s].items
<1>1. q \in Seq(Nat) /\ Consecutive(q) /\ q # <<>>
  BY SubscriberFields DEF ItemsInv
<1>2. Len(q) \in Nat \ {0}
  BY <1>1, EmptySeq
<1> HIDE DEF q
<1>3. Head(q) \in Nat
  BY <1>1, TailConsecutive
<1>4. LastOf(q) \in Int /\ Head(q) <= LastOf(q)
  BY <1>2, <1>3 DEF LastOf
<1> QED BY <1>1, <1>3, <1>4, TailConsecutive DEF q

\* Taking the first item off, the cursor having moved to it or being past it.
LEMMA TakeItem ==
    ASSUME TypeOK, NEW s \in Subscriber, NEW p, SubscriberInv(s, p),
           sub[s].items # <<>>, UNCHANGED <<log, appender>>,
           sub'[s].pc = "emit", sub[s].pc = "emit", sub'[s].queue = sub[s].queue,
           sub'[s].items = Tail(sub[s].items), sub'[s].done = sub[s].done,
           sub'[s].cursor = IF Head(sub[s].items) > sub[s].cursor
                            THEN Head(sub[s].items) ELSE sub[s].cursor
    PROVE  ItemsInv(s)' /\ QueueInv(s)' /\ PendingInv(s, p)'
<1> DEFINE q == sub[s].items
<1> DEFINE t == Tail(q)
<1> DEFINE c == sub[s].cursor
<1>1. /\ Head(q) \in Nat /\ LastOf(q) \in Int /\ Head(q) <= LastOf(q)
      /\ Consecutive(t)
      /\ t # <<>> => Head(t) = Head(q) + 1 /\ LastOf(t) = LastOf(q)
      /\ t = <<>> => LastOf(q) = Head(q)
  BY RestOfItems DEF SubscriberInv
<1>2. /\ c \in Nat /\ Len(log) \in Nat /\ Head(q) <= c + 1 /\ LastOf(q) <= Len(log)
      /\ sub'[s].items = t
      /\ sub'[s].cursor = IF Head(q) > c THEN Head(q) ELSE c
  BY SubscriberFields DEF SubscriberInv, ItemsInv
<1>3. AheadOf(s) = IF LastOf(q) > c THEN LastOf(q) ELSE c
  BY DEF AheadOf
<1> HIDE DEF q, c, t
<1> DEFINE d == IF Head(q) > c THEN Head(q) ELSE c
<1>3a. d \in Nat /\ Head(q) <= d /\ sub'[s].cursor = d /\ c <= d
  BY <1>1, <1>2
<1>3b. (IF LastOf(q) > c THEN LastOf(q) ELSE c) = IF LastOf(q) > d THEN LastOf(q) ELSE d
  BY <1>1, <1>2
<1> HIDE DEF d
<1>4. AheadOf(s)' = AheadOf(s)
  <2>1. CASE t = <<>>
    BY <1>1, <1>2, <1>3, <1>3a, <1>3b, <2>1 DEF AheadOf
  <2>2. CASE t # <<>>
    BY <1>1, <1>2, <1>3, <1>3a, <1>3b, <2>2 DEF AheadOf
  <2> QED BY <2>1, <2>2
<1>5. ItemsInv(s)'
  <2>1. CASE t = <<>>
    BY <1>1, <1>2, <1>3a, <2>1 DEF ItemsInv
  <2>2. CASE t # <<>>
    <3>1. Head(t) <= d + 1 /\ LastOf(t) <= Len(log)
      BY <1>1, <1>2, <1>3a, <2>2
    <3> QED BY <1>1, <1>2, <1>3a, <3>1 DEF ItemsInv
  <2> QED BY <2>1, <2>2
<1>6. QueueInv(s)'
  BY <1>4 DEF SubscriberInv, QueueInv
<1>7. Published(p)' = Published(p) /\ (Subscribed(s)' => Subscribed(s))
  BY DEF Published, Subscribed
<1>8. PendingInv(s, p)'
  BY <1>4, <1>7 DEF SubscriberInv, PendingInv
<1> QED BY <1>5, <1>6, <1>8

LEMMA EmitSkipsStream ==
    ASSUME TypeOK, NEW s \in Subscriber, NEW p, SubscriberInv(s, p), EmitSkips(s)
    PROVE  SubscriberInv(s, p)'
<1>1. /\ UNCHANGED <<log, appender, delivered>> /\ sub[s].pc = "emit"
      /\ sub'[s].pc = "emit" /\ sub[s].items # <<>>
      /\ Head(sub[s].items) <= sub[s].cursor
      /\ sub'[s].items = Tail(sub[s].items) /\ sub'[s].queue = sub[s].queue
      /\ sub'[s].cursor = sub[s].cursor /\ sub'[s].done = sub[s].done
  BY EmitSkipsResult
<1>2. Head(sub[s].items) \in Nat /\ sub[s].cursor \in Nat
  BY <1>1, RestOfItems, SubscriberFields DEF SubscriberInv
<1>3. CursorInv(s)'
  BY <1>1 DEF SubscriberInv, CursorInv
<1>4. sub'[s].cursor = IF Head(sub[s].items) > sub[s].cursor
                       THEN Head(sub[s].items) ELSE sub[s].cursor
  BY <1>1, <1>2
<1>5. ItemsInv(s)' /\ QueueInv(s)' /\ PendingInv(s, p)'
  BY <1>1, <1>4, TakeItem
<1> QED BY <1>3, <1>5 DEF SubscriberInv

\* What s receives is the event after the last one it received.
LEMMA EmitStream ==
    ASSUME TypeOK, NEW s \in Subscriber, NEW p, SubscriberInv(s, p), Emit(s)
    PROVE  /\ SubscriberInv(s, p)'
           /\ Head(sub[s].items) = From[s] + Len(delivered[s]) + 1
           /\ Head(sub[s].items) <= Len(log)
<1>1. /\ UNCHANGED <<log, appender>> /\ sub[s].pc = "emit"
      /\ sub'[s].pc = "emit" /\ sub[s].items # <<>>
      /\ Head(sub[s].items) > sub[s].cursor
      /\ sub'[s].items = Tail(sub[s].items) /\ sub'[s].queue = sub[s].queue
      /\ sub'[s].cursor = Head(sub[s].items) /\ sub'[s].done = sub[s].done
      /\ delivered'[s] = Append(delivered[s], Head(sub[s].items))
  BY EmitResult
<1>2. /\ Head(sub[s].items) \in Nat /\ sub[s].cursor \in Nat /\ From[s] \in Nat
      /\ delivered[s] \in Seq(Nat) /\ Len(delivered[s]) \in Nat /\ Len(log) \in Nat
      /\ LastOf(sub[s].items) \in Int /\ Head(sub[s].items) <= LastOf(sub[s].items)
  BY <1>1, RestOfItems, SubscriberFields DEF SubscriberInv
<1>3. /\ Head(sub[s].items) <= sub[s].cursor + 1 /\ LastOf(sub[s].items) <= Len(log)
      /\ sub[s].cursor = From[s] + Len(delivered[s])
  BY <1>1 DEF SubscriberInv, ItemsInv, CursorInv
<1>4. Len(delivered'[s]) = Len(delivered[s]) + 1
  BY <1>1, <1>2
<1>5. CursorInv(s)'
  <2>1. Head(sub[s].items) = From[s] + (Len(delivered[s]) + 1)
    <3> DEFINE h == Head(sub[s].items)
    <3> DEFINE c == sub[s].cursor
    <3> DEFINE f == From[s]
    <3> DEFINE l == Len(delivered[s])
    <3>1. h \in Nat /\ c \in Nat /\ f \in Nat /\ l \in Nat
      BY <1>2
    <3>2. h > c
      BY <1>1
    <3>3. h <= c + 1 /\ c = f + l
      BY <1>3
    <3> HIDE DEF h, c, f, l
    <3>4. h = f + (l + 1)
      BY <3>1, <3>2, <3>3
    <3> QED BY <3>4 DEF h, f, l
  <2>2. sub'[s].pc = "emit" /\ sub'[s].cursor = Head(sub[s].items)
    BY <1>1
  <2> QED BY <1>2, <1>4, <2>1, <2>2 DEF CursorInv
<1>6. sub'[s].cursor = IF Head(sub[s].items) > sub[s].cursor
                       THEN Head(sub[s].items) ELSE sub[s].cursor
  BY <1>1
<1>7. ItemsInv(s)' /\ QueueInv(s)' /\ PendingInv(s, p)'
  BY <1>1, <1>6, TakeItem
<1> QED BY <1>2, <1>3, <1>1, <1>5, <1>7 DEF SubscriberInv

\* A step that leaves the subscriber's events alone, and publishes nothing.
LEMMA KeptStream ==
    ASSUME TypeOK, NEW s \in Subscriber, NEW p, SubscriberInv(s, p),
           Published(p)' = Published(p), Len(log') \in Nat, Len(log) <= Len(log'),
           delivered' = delivered, sub'[s].pc = sub[s].pc,
           sub'[s].items = sub[s].items, sub'[s].cursor = sub[s].cursor,
           sub'[s].queue = sub[s].queue, sub[s].done => sub'[s].done
    PROVE  SubscriberInv(s, p)'
<1>1. AheadOf(s)' = AheadOf(s)
  BY DEF AheadOf
<1>2. CursorInv(s)'
  BY DEF SubscriberInv, CursorInv
<1>3. ItemsInv(s)'
  <2>1. CASE sub[s].items = <<>>
    BY <2>1 DEF SubscriberInv, ItemsInv
  <2>2. CASE sub[s].items # <<>>
    <3>1. LastOf(sub[s].items) <= Len(log')
      BY <2>2, RestOfItems, SubscriberFields DEF SubscriberInv, ItemsInv
    <3> QED BY <2>2, <3>1 DEF SubscriberInv, ItemsInv
  <2> QED BY <2>1, <2>2
<1>4. QueueInv(s)'
  <2>1. CASE sub[s].queue = <<>>
    BY <2>1 DEF SubscriberInv, QueueInv
  <2>2. CASE sub[s].queue # <<>>
    <3> DEFINE q == sub[s].queue
    <3>1. q \in Seq(Nat) /\ Consecutive(q) /\ LastOf(q) <= Len(log) /\ Len(log) \in Nat
      BY <2>2, SubscriberFields DEF SubscriberInv, QueueInv
    <3>2. Len(q) \in Nat /\ Head(q) \in Nat
      BY <2>2, <3>1, EmptySeq, TailConsecutive
    <3> HIDE DEF q
    <3>3. LastOf(q) <= Len(log')
      BY <3>1, <3>2 DEF LastOf
    <3> QED BY <1>1, <2>2, <3>3 DEF SubscriberInv, QueueInv, q
  <2> QED BY <2>1, <2>2
<1>5. PendingInv(s, p)'
  BY <1>1 DEF SubscriberInv, PendingInv, Subscribed
<1> QED BY <1>2, <1>3, <1>4, <1>5 DEF SubscriberInv

\* Publication puts the next event at the end of the queue.
LEMMA PublishStream ==
    ASSUME TypeOK, NEW p \in Process, AppenderInv(p), NEW s \in Subscriber, Home[s] = p,
           SubscriberInv(s, p), Publish(p)
    PROVE  SubscriberInv(s, p)'
<1> DEFINE n == appender[p].seq
<1> DEFINE q == sub[s].queue
<1>1. /\ n = Len(log) /\ n \in Nat /\ appender[p].pc = "committed" /\ log' = log
      /\ delivered' = delivered /\ appender'[p].pc = "idle"
  BY SubscriberFields DEF Publish, AppenderInv, TypeOK, Appender
<1>2. Published(p) = n - 1 /\ Published(p)' = n
  BY <1>1 DEF Published
<1>3. CASE ~Subscribed(s)
  <2>1. sub'[s] = sub[s]
    BY <1>3 DEF Publish
  <2> QED BY <1>1, <1>3, <2>1
          DEF SubscriberInv, CursorInv, ItemsInv, QueueInv, PendingInv, Subscribed, AheadOf
<1>4. CASE Subscribed(s)
  <2>1. sub'[s] = [sub[s] EXCEPT !.queue = Append(q, n), !.signal = TRUE]
    BY <1>4 DEF Publish
  <2>2. /\ sub'[s].queue = Append(q, n) /\ sub'[s].items = sub[s].items
        /\ sub'[s].cursor = sub[s].cursor /\ sub'[s].pc = sub[s].pc
    BY <2>1, SubscriberFields DEF SubscriberState
  <2>3. /\ q \in Seq(Nat) /\ Consecutive(q)
        /\ q # <<>> => LastOf(q) = n - 1
        /\ q # <<>> => Head(q) <= AheadOf(s) + 1
        /\ q = <<>> => n - 1 <= AheadOf(s)
    BY <1>2, <1>4, SubscriberFields DEF SubscriberInv, QueueInv, PendingInv
  <2> HIDE DEF n, q
  <2>4. /\ Append(q, n) # <<>> /\ Consecutive(Append(q, n))
        /\ LastOf(Append(q, n)) = n /\ Head(Append(q, n)) = IF q = <<>> THEN n ELSE Head(q)
    <3>1. q # <<>> => n = LastOf(q) + 1
      BY <1>1, <2>3
    <3> QED BY <1>1, <2>3, <3>1, AppendConsecutive
  <2>5. AheadOf(s)' = AheadOf(s) /\ AheadOf(s) \in Int
    <3>1. AheadOf(s) \in Int
      BY RestOfItems, SubscriberFields DEF SubscriberInv, AheadOf
    <3> QED BY <2>2, <3>1 DEF AheadOf
  <2>6. CursorInv(s)' /\ ItemsInv(s)'
    BY <1>1, <2>2 DEF SubscriberInv, CursorInv, ItemsInv
  <2>7. Head(Append(q, n)) <= AheadOf(s) + 1
    BY <1>1, <2>3, <2>4, <2>5
  <2>8. QueueInv(s)'
    BY <1>1, <2>2, <2>4, <2>5, <2>7 DEF QueueInv
  <2>9. PendingInv(s, p)'
    BY <1>2, <2>2, <2>4 DEF PendingInv
  <2> QED BY <2>6, <2>8, <2>9 DEF SubscriberInv
<1> QED BY <1>3, <1>4

LEMMA StoreStream ==
    ASSUME TypeOK, LockInv, NEW p \in Process, Process = {p}, StreamInv(p),
           AppendStep(p) \/ Close(p)
    PROVE  /\ StreamInv(p)' /\ delivered' = delivered
           /\ Len(log') = Len(log) \/ Len(log') = Len(log) + 1
<1>0. /\ Len(log) \in Nat /\ log \in Seq(Process) /\ appender[p] \in Appender
      /\ \A s \in Subscriber : Home[s] = p
  BY LedgerAssumption DEF TypeOK
<1>1. delivered' = delivered
  BY DEF AppendStep, AppendAllocate, AppendWrite, AppendCommit, AppendFail, Publish, Close
<1>2. CASE AppendAllocate(p) \/ AppendWrite(p) \/ AppendFail(p) \/ Close(p)
  <2>1. log' = log /\ AppenderInv(p)' /\ Published(p)' = Published(p)
    <3>1. CASE AppendAllocate(p)
      BY <1>0, <3>1 DEF AppendAllocate, AppenderInv, Published, TypeOK
    <3>2. CASE AppendFail(p)
      BY <1>0, <3>2 DEF AppendFail, AppenderInv, Published, TypeOK
    <3>3. CASE Close(p)
      BY <1>0, <3>3 DEF Close, StreamInv, AppenderInv, Published, TypeOK
    <3>4. CASE AppendWrite(p)
      BY <1>0, <3>4 DEF AppendWrite, AppenderInv, Published, TypeOK
    <3> QED BY <1>2, <3>1, <3>2, <3>3, <3>4
  <2>2. ASSUME NEW s \in Subscriber
        PROVE  sub'[s].queue = sub[s].queue /\ (sub[s].done => sub'[s].done)
    <3>1. CASE AppendAllocate(p) \/ AppendFail(p)
      BY <3>1 DEF AppendAllocate, AppendFail
    <3>2. CASE Close(p)
      BY <3>2, SubscriberFields DEF Close, SubscriberState
    <3>3. CASE AppendWrite(p)
      BY <3>3, SubscriberFields DEF AppendWrite, SubscriberState
    <3> QED BY <1>2, <3>1, <3>2, <3>3
  <2>3. ASSUME NEW s \in Subscriber
        PROVE  SubscriberInv(s, p)'
    <3>1. Len(log') \in Nat /\ Len(log) <= Len(log') /\ SubscriberInv(s, p)
      BY <1>0, <2>1 DEF StreamInv
    <3>2. /\ delivered' = delivered
          /\ sub'[s].pc = sub[s].pc /\ sub'[s].items = sub[s].items
          /\ sub'[s].cursor = sub[s].cursor
      BY StoreResult
    <3> QED BY <2>1, <2>2, <3>1, <3>2, KeptStream
  <2> QED BY <1>0, <1>1, <2>1, <2>3 DEF StreamInv
<1>3. CASE AppendCommit(p)
  <2>1. /\ log' = Append(log, p) /\ Len(log') = Len(log) + 1 /\ log' # <<>>
        /\ appender[p].pc = "written" /\ appender[p].seq = Len(log) + 1
        /\ appender'[p].pc = "committed" /\ appender'[p].seq = appender[p].seq
    BY <1>0, <1>3 DEF AppendCommit, LockInv, TypeOK, Appender
  <2>2. AppenderInv(p)' /\ Published(p)' = Published(p)
    BY <1>0, <2>1 DEF AppenderInv, Published
  <2>3. ASSUME NEW s \in Subscriber
        PROVE  sub'[s].queue = sub[s].queue /\ (sub[s].done => sub'[s].done)
    BY <1>3 DEF AppendCommit
  <2>4. ASSUME NEW s \in Subscriber
        PROVE  SubscriberInv(s, p)'
    <3>1. Len(log') \in Nat /\ Len(log) <= Len(log') /\ SubscriberInv(s, p)
      BY <1>0, <2>1 DEF StreamInv
    <3>2. /\ delivered' = delivered
          /\ sub'[s].pc = sub[s].pc /\ sub'[s].items = sub[s].items
          /\ sub'[s].cursor = sub[s].cursor
      BY StoreResult
    <3> QED BY <2>2, <2>3, <3>1, <3>2, KeptStream
  <2> QED BY <1>1, <2>1, <2>2, <2>4 DEF StreamInv
<1>4. CASE Publish(p)
  <2>1. log' = log /\ delivered' = delivered /\ AppenderInv(p)'
    BY <1>0, <1>4 DEF Publish, AppenderInv, TypeOK, Appender
  <2> QED BY <1>0, <1>4, <2>1, PublishStream DEF StreamInv
<1> QED BY <1>2, <1>3, <1>4 DEF AppendStep

LEMMA SubscriberStream ==
    ASSUME TypeOK, NEW p \in Process, Process = {p}, StreamInv(p), NEW s \in Subscriber,
           Moves(s) \/ Register(s) \/ Pop(s) \/ FileChanged(s) \/ EmitSkips(s) \/ Emit(s)
    PROVE  /\ StreamInv(p)' /\ log' = log
           /\ delivered' = delivered \/ Stream!Receive(s)
<1>1. Home[s] = p /\ SubscriberInv(s, p)
  BY LedgerAssumption DEF StreamInv
<1>2. /\ UNCHANGED <<log, appender>>
      /\ \A x \in Subscriber \ {s} : sub'[x] = sub[x] /\ delivered'[x] = delivered[x]
  BY MoveResult, RegisterResult, PopResult, FileChangedResult, EmitSkipsResult, EmitResult
<1>3. SubscriberInv(s, p)'
  BY <1>1, MovesStream, RegisterStream, PopStream, FileChangedStream, EmitSkipsStream,
     EmitStream
<1>4. ASSUME NEW x \in Subscriber \ {s}
      PROVE  SubscriberInv(x, p)'
  BY <1>2, Unmoved DEF StreamInv
<1>5. StreamInv(p)'
  BY <1>2, <1>3, <1>4 DEF StreamInv, AppenderInv
<1>6. CASE Moves(s) \/ Register(s) \/ Pop(s) \/ FileChanged(s) \/ EmitSkips(s)
  BY <1>2, <1>5, <1>6, MoveResult, RegisterResult, PopResult, FileChangedResult,
     EmitSkipsResult
<1>7. CASE Emit(s)
  <2>1. /\ Head(sub[s].items) = From[s] + Len(delivered[s]) + 1
        /\ Head(sub[s].items) <= Len(log)
    BY <1>1, <1>7, EmitStream
  <2>2. delivered' = [delivered EXCEPT ![s] = Append(@, Head(sub[s].items))]
    BY <1>7 DEF Emit
  <2>3. Stream!Receive(s)
    BY <1>2, <2>1, <2>2 DEF Stream!Receive
  <2> QED BY <1>2, <1>5, <2>3
<1> QED BY <1>6, <1>7

\* While one process writes the ledger, every subscription is the stream of
\* the events after From[s], each once, in order, none missing, whatever the
\* reader's pace and however queue, history and file watcher interleave.
THEOREM StreamCorrect ==
    ASSUME NEW p \in Process, Process = {p}
    PROVE  Spec => OrderedStream
<1>1. Init => StreamInv(p) /\ Stream!Init
  BY LedgerAssumption
     DEF Init, StreamInv, AppenderInv, SubscriberInv, CursorInv, ItemsInv, QueueInv,
         PendingInv, Subscribed, Consecutive, Stream!Init
<1>2. ASSUME TypeOK, LockInv, StreamInv(p), [Next]_vars
      PROVE  StreamInv(p)' /\ [Stream!Next]_<<Len(log), delivered>>
  <2>1. CASE UNCHANGED vars
    BY <1>2, <2>1
       DEF vars, StreamInv, AppenderInv, SubscriberInv, CursorInv, ItemsInv, QueueInv,
           PendingInv, Subscribed, AheadOf, Published
  <2>2. ASSUME NEW x \in Process, AppendStep(x) \/ Close(x)
        PROVE  StreamInv(p)' /\ [Stream!Next]_<<Len(log), delivered>>
    <3>1. x = p
      OBVIOUS
    <3> QED BY <1>2, <2>2, <3>1, StoreStream DEF Stream!Next, Stream!Write
  <2>3. ASSUME NEW s \in Subscriber,
               Moves(s) \/ Register(s) \/ Pop(s) \/ FileChanged(s) \/ EmitSkips(s) \/ Emit(s)
        PROVE  StreamInv(p)' /\ [Stream!Next]_<<Len(log), delivered>>
    BY <1>2, <2>3, SubscriberStream DEF Stream!Next
  <2> QED BY <1>2, <2>1, <2>2, <2>3, SubscriberSteps DEF Next
<1> QED BY <1>1, <1>2, LedgerTypeCorrect, WriterHoldsTheLock, PTL
    DEF Spec, OrderedStream, Stream!Spec

-----------------------------------------------------------------------------
(* A ledger that several processes write: which events a reader misses.    *)

In(q, n) == \E i \in 1..Len(q) : q[i] = n

Increasing(q) == \A i, j \in 1..Len(q) : i < j => q[i] < q[j]

LEMMA InTail ==
    ASSUME NEW q \in Seq(Nat), q # <<>>
    PROVE  /\ Head(q) \in Nat /\ Tail(q) \in Seq(Nat)
           /\ \A n : In(q, n) <=> n = Head(q) \/ In(Tail(q), n)
           /\ Increasing(q) => /\ Increasing(Tail(q))
                               /\ \A n : In(Tail(q), n) => n > Head(q)
<1>1. Len(q) \in Nat \ {0} /\ Head(q) = q[1] /\ Head(q) \in Nat
  BY EmptySeq
<1>2. /\ Tail(q) \in Seq(Nat) /\ Len(Tail(q)) = Len(q) - 1
      /\ \A i \in 1..Len(Tail(q)) : Tail(q)[i] = q[i + 1]
  BY HeadTailProperties
<1>3. ASSUME NEW n, In(Tail(q), n)
      PROVE  In(q, n) /\ (Increasing(q) => n > Head(q))
  <2>1. PICK i \in 1..Len(Tail(q)) : Tail(q)[i] = n
    BY <1>3 DEF In
  <2>2. i + 1 \in 1..Len(q) /\ q[i + 1] = n /\ i + 1 > 1 /\ 1 \in 1..Len(q)
    BY <1>1, <1>2, <2>1
  <2> QED BY <1>1, <2>2 DEF In, Increasing
<1>4. ASSUME NEW n, In(q, n), n # Head(q)
      PROVE  In(Tail(q), n)
  <2>1. PICK i \in 1..Len(q) : q[i] = n
    BY <1>4 DEF In
  <2>2. i - 1 \in 1..Len(Tail(q)) /\ Tail(q)[i - 1] = n
    BY <1>1, <1>2, <1>4, <2>1
  <2> QED BY <2>2 DEF In
<1>5. In(q, Head(q))
  BY <1>1 DEF In
<1>6. Increasing(q) => Increasing(Tail(q))
  BY <1>1, <1>2 DEF Increasing
<1> QED BY <1>1, <1>2, <1>3, <1>4, <1>5, <1>6

LEMMA InAppend ==
    ASSUME NEW q \in Seq(Nat), NEW m \in Nat
    PROVE  /\ Append(q, m) \in Seq(Nat)
           /\ \A n : In(Append(q, m), n) <=> In(q, n) \/ n = m
           /\ Increasing(q) /\ (\A n : In(q, n) => n < m) => Increasing(Append(q, m))
<1>1. /\ Append(q, m) \in Seq(Nat) /\ Len(Append(q, m)) = Len(q) + 1
      /\ Append(q, m)[Len(q) + 1] = m /\ Len(q) \in Nat
      /\ \A i \in 1..Len(q) : Append(q, m)[i] = q[i] /\ q[i] \in Nat
  OBVIOUS
<1> DEFINE a == Append(q, m)
<1> HIDE DEF a
<1>2. ASSUME NEW n
      PROVE  In(a, n) <=> In(q, n) \/ n = m
  BY <1>1 DEF In, a
<1>3. ASSUME Increasing(q), \A n : In(q, n) => n < m
      PROVE  Increasing(a)
  <2>1. \A i \in 1..Len(q) : q[i] < m
    BY <1>3 DEF In
  <2> QED BY <1>1, <1>3, <2>1 DEF Increasing, a
<1> QED BY <1>1, <1>2, <1>3 DEF a

LEMMA InEventsAfter ==
    ASSUME NEW n \in Nat, log \in Seq(Process)
    PROVE  /\ \A k : In(EventsAfter(n), k) <=> k \in (n + 1)..Len(log)
           /\ Increasing(EventsAfter(n))
<1> DEFINE l == IF Len(log) > n THEN Len(log) - n ELSE 0
<1>1. l \in Nat /\ Len(log) \in Nat /\ (l = 0 => Len(log) <= n) /\ (l # 0 => n + l = Len(log))
  OBVIOUS
<1>2. EventsAfter(n) = [i \in 1..l |-> n + i]
  BY DEF EventsAfter
<1> HIDE DEF l
<1> DEFINE q == EventsAfter(n)
<1>3. Len(q) = l /\ \A i \in 1..l : q[i] = n + i
  BY <1>1, <1>2
<1> HIDE DEF q
<1>4. ASSUME NEW k \in (n + 1)..Len(log)
      PROVE  In(q, k)
  <2>1. k - n \in 1..l /\ n + (k - n) = k
    BY <1>1
  <2> QED BY <1>3, <2>1 DEF In
<1>5. ASSUME NEW k, In(q, k)
      PROVE  k \in (n + 1)..Len(log)
  BY <1>1, <1>3, <1>5 DEF In
<1>6. Increasing(q)
  BY <1>1, <1>3 DEF Increasing
<1> QED BY <1>4, <1>5, <1>6 DEF q

LEMMA InSingle ==
    ASSUME NEW x \in Nat
    PROVE  /\ Consecutive(<<x>>) /\ Len(<<x>>) = 1 /\ Head(<<x>>) = x /\ <<x>> # <<>>
           /\ \A n : In(<<x>>, n) <=> n = x
BY DEF Consecutive, In

LEMMA InEmpty == Consecutive(<<>>) /\ \A n : ~In(<<>>, n)
BY DEF Consecutive, In

\* s's goroutine has event n in hand, or will find it in its queue.
Holds(s, n) == In(sub[s].items, n) \/ In(sub[s].queue, n)

\* The event p has committed and not yet published.
Unpublished(p, n) == appender[p].pc = "committed" /\ appender[p].seq = n

\* The next item is at most the event after the cursor (it was read from the
\* table), or it is the only one, popped off the queue before all that follows.
NextItem(s) ==
    \/ Head(sub[s].items) <= sub[s].cursor + 1
    \/ /\ Len(sub[s].items) = 1
       /\ \A n : In(sub[s].queue, n) \/ Unpublished(Home[s], n) => n > Head(sub[s].items)

ListsInv(s) ==
    /\ Increasing(sub[s].queue) /\ Consecutive(sub[s].items)
    /\ \A n : Holds(s, n) => n \in 1..Len(log)
    /\ sub[s].items # <<>> => NextItem(s)
    /\ sub[s].pc \in {"off", "watching"} =>
          sub[s].queue = <<>> /\ sub[s].cursor = From[s]
    /\ sub[s].pc \notin {"emit", "closed"} => sub[s].items = <<>>
    /\ sub[s].cursor > From[s] => sub[s].cursor <= Len(log)

\* An event of another process is held together with the one before it.
LinkedInv(s) ==
    \A n : Holds(s, n) /\ log[n] # Home[s] => n - 1 <= sub[s].cursor \/ Holds(s, n - 1)

\* An event of s's own process is held before any later one is.
OwnInv(s) ==
    \A n \in (sub[s].cursor + 1)..Len(log) :
        log[n] = Home[s] => Holds(s, n) \/ \A m : Holds(s, m) => m < n

\* All that s's process has published to it is held.
OwnHeldInv(s) ==
    Subscribed(s) =>
        \A n \in (sub[s].cursor + 1)..Len(log) :
            log[n] = Home[s] => Holds(s, n) \/ Unpublished(Home[s], n)

\* What is published next comes after everything in the queue.
PublishInv(s) ==
    \A n : Unpublished(Home[s], n) =>
        n \in 1..Len(log) /\ log[n] = Home[s] /\ \A m : In(sub[s].queue, m) => m < n

\* s received event n, or another process wrote it and one of its own
\* process's overtook it.
Accounted(s, n) ==
    \/ \E i \in 1..Len(delivered[s]) : delivered[s][i] = n
    \/ /\ log[n] # Home[s]
       /\ \E m \in (n + 1)..sub[s].cursor : log[m] = Home[s]

AccountedInv(s) == \A n \in (From[s] + 1)..sub[s].cursor : Accounted(s, n)

ReaderInv(s) ==
    /\ ListsInv(s) /\ LinkedInv(s) /\ OwnInv(s) /\ OwnHeldInv(s)
    /\ PublishInv(s) /\ AccountedInv(s)

SubscribersInv == \A s \in Subscriber : ReaderInv(s)

\* The ledger keeps its events; new ones come at its end.
LogGrows ==
    /\ Len(log') \in Nat /\ Len(log) <= Len(log')
    /\ \A n \in 1..Len(log) : log'[n] = log[n]

\* Received events stay accounted for.
LEMMA AccountedKept ==
    ASSUME TypeOK, NEW s \in Subscriber, ReaderInv(s), LogGrows,
           delivered'[s] = delivered[s], sub'[s].cursor = sub[s].cursor
    PROVE  AccountedInv(s)'
<1>1. sub[s].cursor \in Nat /\ From[s] \in Nat /\ Len(log) \in Nat
  BY SubscriberFields
<1>2. ASSUME NEW n \in (From[s] + 1)..sub[s].cursor
      PROVE  Accounted(s, n)'
  <2>1. Accounted(s, n) /\ sub[s].cursor <= Len(log) /\ n \in Nat /\ n >= 1
    BY <1>1 DEF ReaderInv, ListsInv, AccountedInv
  <2>2. \A m \in n..sub[s].cursor : m \in 1..Len(log)
    BY <1>1, <2>1
  <2>3. \A m \in n..sub[s].cursor : log'[m] = log[m]
    BY <2>2 DEF LogGrows
  <2>4. n \in n..sub[s].cursor /\ \A m \in (n + 1)..sub[s].cursor : m \in n..sub[s].cursor
    BY <1>1, <2>1
  <2> QED BY <2>1, <2>3, <2>4 DEF Accounted
<1> QED BY <1>2 DEF AccountedInv

\* A step that leaves the events of s where they are: its goroutine only moves
\* on, or the ledger grows by an event of another process or by one that s's
\* own process has yet to publish.
LEMMA ReaderKept ==
    ASSUME TypeOK, NEW s \in Subscriber, ReaderInv(s), LogGrows,
           delivered'[s] = delivered[s], sub'[s].cursor = sub[s].cursor,
           sub'[s].items = sub[s].items, sub'[s].queue = sub[s].queue,
           \/ sub'[s].pc = sub[s].pc
           \/ sub[s].pc = "off" /\ sub'[s].pc = "watching"
           \/ /\ sub[s].pc \in {"loop", "select", "emit"}
              /\ sub'[s].pc \in {"loop", "select"}
              /\ sub[s].pc = "emit" => sub[s].items = <<>>
           \/ sub'[s].pc = "closed",
           sub[s].done => sub'[s].done,
           \A n \in (Len(log) + 1)..Len(log') :
              log'[n] # Home[s] \/ Unpublished(Home[s], n)',
           Subscribed(s)' => \A n : Unpublished(Home[s], n) => Unpublished(Home[s], n)',
           \A n : Unpublished(Home[s], n)' => Unpublished(Home[s], n) \/ n = Len(log) + 1,
           PublishInv(s)'
    PROVE  ReaderInv(s)'
<1>1. /\ sub[s].cursor \in Nat /\ From[s] \in Nat /\ Len(log) \in Nat /\ Len(log') \in Nat
      /\ Len(log) <= Len(log')
  BY SubscriberFields DEF LogGrows
<1>2. \A n : Holds(s, n)' <=> Holds(s, n)
  BY DEF Holds
<1>3. \A n : Holds(s, n) => n \in 1..Len(log) /\ n \in 1..Len(log') /\ log'[n] = log[n]
  <2>1. \A n : Holds(s, n) => n \in 1..Len(log)
    BY DEF ReaderInv, ListsInv
  <2>2. \A n \in 1..Len(log) : n \in 1..Len(log')
    BY <1>1
  <2> QED BY <2>1, <2>2 DEF LogGrows
<1>4. ListsInv(s)'
  <2>1. sub[s].items # <<>> => NextItem(s)'
    <3> SUFFICES ASSUME sub[s].items # <<>>
                 PROVE  NextItem(s)'
      OBVIOUS
    <3>1. NextItem(s)
      BY DEF ReaderInv, ListsInv
    <3>2. Head(sub[s].items) \in 1..Len(log)
      <4>1. In(sub[s].items, Head(sub[s].items))
        BY SubscriberFields, InTail
      <4> QED BY <1>3, <4>1 DEF Holds
    <3>3. Len(log) + 1 > Head(sub[s].items)
      BY <1>1, <3>2
    <3> QED BY <3>1, <3>3 DEF NextItem
  <2>2. sub[s].cursor > From[s] => sub[s].cursor <= Len(log')
    BY <1>1 DEF ReaderInv, ListsInv
  <2>3. /\ sub'[s].pc \in {"off", "watching"} =>
              sub[s].queue = <<>> /\ sub[s].cursor = From[s]
        /\ sub'[s].pc \notin {"emit", "closed"} => sub[s].items = <<>>
    BY DEF ReaderInv, ListsInv
  <2>4. Increasing(sub[s].queue) /\ Consecutive(sub[s].items)
    BY DEF ReaderInv, ListsInv
  <2> QED BY <1>2, <1>3, <2>1, <2>2, <2>3, <2>4 DEF ListsInv
<1>5. LinkedInv(s)'
  BY <1>2, <1>3 DEF ReaderInv, LinkedInv
<1>6. ASSUME NEW n \in (sub[s].cursor + 1)..Len(log')
      PROVE  \/ n \in (sub[s].cursor + 1)..Len(log) /\ log'[n] = log[n]
             \/ n \in (Len(log) + 1)..Len(log')
  <2>1. CASE n <= Len(log)
    <3>1. n \in (sub[s].cursor + 1)..Len(log) /\ n \in 1..Len(log)
      BY <1>1, <2>1
    <3> QED BY <3>1 DEF LogGrows
  <2>2. CASE ~(n <= Len(log))
    BY <1>1, <2>2
  <2> QED BY <2>1, <2>2
<1>7. OwnInv(s)'
  <2> SUFFICES ASSUME NEW n \in (sub[s].cursor + 1)..Len(log'), log'[n] = Home[s]
               PROVE  Holds(s, n) \/ \A m : Holds(s, m) => m < n
    BY <1>2 DEF OwnInv
  <2>1. CASE n \in (Len(log) + 1)..Len(log')
    BY <1>1, <1>3, <2>1
  <2>2. CASE n \in (sub[s].cursor + 1)..Len(log) /\ log'[n] = log[n]
    BY <2>2 DEF ReaderInv, OwnInv
  <2> QED BY <1>6, <2>1, <2>2
<1>8. OwnHeldInv(s)'
  <2> SUFFICES ASSUME Subscribed(s)',
                      NEW n \in (sub[s].cursor + 1)..Len(log'), log'[n] = Home[s]
               PROVE  Holds(s, n) \/ Unpublished(Home[s], n)'
    BY <1>2 DEF OwnHeldInv
  <2>1. Subscribed(s)
    BY DEF Subscribed
  <2>2. CASE n \in (Len(log) + 1)..Len(log')
    BY <2>2
  <2>3. CASE n \in (sub[s].cursor + 1)..Len(log) /\ log'[n] = log[n]
    BY <2>1, <2>3 DEF ReaderInv, OwnHeldInv
  <2> QED BY <1>6, <2>2, <2>3
<1>9. AccountedInv(s)'
  BY AccountedKept
<1> QED BY <1>4, <1>5, <1>7, <1>8, <1>9 DEF ReaderInv

LEMMA RegisterReader ==
    ASSUME TypeOK, NEW s \in Subscriber, ReaderInv(s), Register(s)
    PROVE  ReaderInv(s)'
<1> DEFINE q == EventsAfter(From[s])
<1>1. /\ UNCHANGED <<log, appender, delivered>> /\ sub[s].pc = "watching"
      /\ appender[Home[s]].pc = "idle"
      /\ sub'[s].pc = "loop" /\ sub'[s].queue = q
      /\ sub'[s].items = sub[s].items /\ sub'[s].cursor = sub[s].cursor
  BY RegisterResult
<1>2. /\ sub[s].items = <<>> /\ sub[s].cursor = From[s]
      /\ From[s] \in Nat /\ log \in Seq(Process) /\ Len(log) \in Nat
  BY <1>1, SubscriberFields DEF ReaderInv, ListsInv
<1>3. Increasing(q) /\ \A n : In(q, n) <=> n \in (From[s] + 1)..Len(log)
  BY <1>2, InEventsAfter
<1> HIDE DEF q
<1>4. \A n : Holds(s, n)' <=> n \in (From[s] + 1)..Len(log)
  BY <1>1, <1>2, <1>3, InEmpty DEF Holds
<1>5. \A n \in (From[s] + 1)..Len(log) : n \in 1..Len(log)
  BY <1>2
<1>6. ListsInv(s)'
  BY <1>1, <1>2, <1>3, <1>4, <1>5, InEmpty DEF ListsInv
<1>7. LinkedInv(s)'
  <2> SUFFICES ASSUME NEW n \in (From[s] + 1)..Len(log)
               PROVE  n - 1 <= From[s] \/ n - 1 \in (From[s] + 1)..Len(log)
    BY <1>1, <1>2, <1>4 DEF LinkedInv
  <2> QED BY <1>2
<1>8. OwnInv(s)' /\ OwnHeldInv(s)'
  BY <1>1, <1>2, <1>4 DEF OwnInv, OwnHeldInv
<1>9. PublishInv(s)'
  BY <1>1 DEF PublishInv, Unpublished
<1>10. AccountedInv(s)'
  BY <1>1 DEF ReaderInv, AccountedInv, Accounted
<1> QED BY <1>6, <1>7, <1>8, <1>9, <1>10 DEF ReaderInv

\* A step that keeps the set of events s holds, or its part beyond the cursor.
LEMMA ReaderHolds ==
    ASSUME TypeOK, NEW s \in Subscriber, ReaderInv(s), UNCHANGED <<log, appender>>,
           delivered'[s] = delivered[s], sub'[s].cursor = sub[s].cursor,
           Subscribed(s)' => Subscribed(s),
           \A n : Holds(s, n)' => Holds(s, n),
           \A n : Holds(s, n) /\ n > sub[s].cursor => Holds(s, n)',
           \A n : In(sub'[s].queue, n) => In(sub[s].queue, n)
    PROVE  LinkedInv(s)' /\ OwnInv(s)' /\ OwnHeldInv(s)' /\ PublishInv(s)' /\ AccountedInv(s)'
<1>1. sub[s].cursor \in Nat /\ Len(log) \in Nat
  BY SubscriberFields
<1>2. LinkedInv(s)'
  <2> SUFFICES ASSUME NEW n, Holds(s, n), log[n] # Home[s], ~(n - 1 <= sub[s].cursor)
               PROVE  Holds(s, n - 1)'
    BY DEF LinkedInv
  <2>1. n \in 1..Len(log) /\ Holds(s, n - 1)
    BY DEF ReaderInv, ListsInv, LinkedInv
  <2>2. n - 1 > sub[s].cursor
    BY <1>1, <2>1
  <2> QED BY <2>1, <2>2
<1>3. OwnInv(s)' /\ OwnHeldInv(s)'
  <2>1. \A n \in (sub[s].cursor + 1)..Len(log) : n > sub[s].cursor
    BY <1>1
  <2>2. OwnInv(s)'
    BY <2>1 DEF ReaderInv, OwnInv
  <2>3. OwnHeldInv(s)'
    BY <2>1 DEF ReaderInv, OwnHeldInv, Unpublished
  <2> QED BY <2>2, <2>3
<1>4. PublishInv(s)'
  BY DEF ReaderInv, PublishInv, Unpublished
<1>5. AccountedInv(s)'
  BY DEF ReaderInv, AccountedInv, Accounted
<1> QED BY <1>2, <1>3, <1>4, <1>5

LEMMA PopReader ==
    ASSUME TypeOK, NEW s \in Subscriber, ReaderInv(s), Pop(s)
    PROVE  ReaderInv(s)'
<1> DEFINE q == sub[s].queue
<1> DEFINE h == Head(q)
<1> DEFINE t == Tail(q)
<1>1. /\ UNCHANGED <<log, appender, delivered>> /\ sub[s].pc = "loop"
      /\ sub'[s].pc = "emit" /\ sub'[s].queue = t /\ q # <<>>
      /\ sub'[s].items = <<h>> /\ sub'[s].cursor = sub[s].cursor
      /\ sub'[s].done = sub[s].done
  BY PopResult
<1>2. /\ sub[s].items = <<>> /\ q \in Seq(Nat) /\ Increasing(q)
      /\ \A n : Holds(s, n) => n \in 1..Len(log)
      /\ sub[s].cursor > From[s] => sub[s].cursor <= Len(log)
  BY <1>1, SubscriberFields DEF ReaderInv, ListsInv
<1>3. /\ h \in Nat /\ \A n : In(q, n) <=> n = h \/ In(t, n)
      /\ Increasing(t) /\ \A n : In(t, n) => n > h
  BY <1>1, <1>2, InTail
<1>4. \A n : Holds(s, n) <=> In(q, n)
  BY <1>2, InEmpty DEF Holds
<1> HIDE DEF q, h, t
<1>5. /\ Consecutive(<<h>>) /\ Len(<<h>>) = 1 /\ Head(<<h>>) = h /\ <<h>> # <<>>
      /\ \A n : In(<<h>>, n) <=> n = h
  BY <1>3, InSingle
<1>6. \A n : Holds(s, n)' <=> Holds(s, n)
  BY <1>1, <1>3, <1>4, <1>5 DEF Holds
<1>7. ListsInv(s)'
  <2>1. \A n : Unpublished(Home[s], n) => n > h
    BY <1>2, <1>3 DEF ReaderInv, PublishInv, q
  <2>2. NextItem(s)'
    BY <1>1, <1>3, <1>5, <2>1 DEF NextItem, Unpublished
  <2> QED BY <1>1, <1>2, <1>3, <1>5, <1>6, <2>2 DEF ListsInv
<1>8. Subscribed(s)' => Subscribed(s)
  BY <1>1 DEF Subscribed
<1>9. \A n : In(sub'[s].queue, n) => In(sub[s].queue, n)
  BY <1>1, <1>3 DEF q
<1> QED BY <1>1, <1>6, <1>7, <1>8, <1>9, ReaderHolds DEF ReaderInv

LEMMA FileChangedReader ==
    ASSUME TypeOK, NEW s \in Subscriber, ReaderInv(s), FileChanged(s)
    PROVE  ReaderInv(s)'
<1> DEFINE c == sub[s].cursor
<1> DEFINE q == EventsAfter(c)
<1>1. /\ UNCHANGED <<log, appender, delivered>> /\ sub[s].pc = "select"
      /\ sub'[s].pc = "emit" /\ sub'[s].queue = sub[s].queue
      /\ sub'[s].items = q /\ sub'[s].cursor = c
      /\ sub'[s].done = sub[s].done
  BY FileChangedResult
<1>2. /\ sub[s].items = <<>> /\ c \in Nat /\ Len(log) \in Nat /\ log \in Seq(Process)
      /\ \A n : Holds(s, n) => n \in 1..Len(log)
      /\ Increasing(sub[s].queue) /\ (c > From[s] => c <= Len(log))
  BY <1>1, SubscriberFields DEF ReaderInv, ListsInv
<1>3. /\ Consecutive(q) /\ (q # <<>> => Head(q) = c + 1)
      /\ \A n : In(q, n) <=> n \in (c + 1)..Len(log)
  BY <1>2, EventsAfterConsecutive, InEventsAfter
<1>4. \A n : Holds(s, n) <=> In(sub[s].queue, n)
  BY <1>2, InEmpty DEF Holds
<1> HIDE DEF q
<1>5. \A n : Holds(s, n)' <=> Holds(s, n) \/ n \in (c + 1)..Len(log)
  BY <1>1, <1>3, <1>4 DEF Holds
<1>6. ListsInv(s)'
  <2>1. \A n \in (c + 1)..Len(log) : n \in 1..Len(log)
    BY <1>2
  <2>2. q # <<>> => NextItem(s)'
    BY <1>1, <1>2, <1>3 DEF NextItem
  <2> QED BY <1>1, <1>2, <1>3, <1>5, <2>1, <2>2 DEF ListsInv
<1>7. LinkedInv(s)'
  <2> SUFFICES ASSUME NEW n, n \in 1..Len(log)
               PROVE  n - 1 <= c \/ n - 1 \in (c + 1)..Len(log)
    BY <1>1, <1>5, <1>6 DEF LinkedInv, ListsInv
  <2> QED BY <1>2
<1>8. OwnInv(s)' /\ OwnHeldInv(s)'
  BY <1>1, <1>5 DEF OwnInv, OwnHeldInv
<1>9. PublishInv(s)' /\ AccountedInv(s)'
  BY <1>1 DEF ReaderInv, PublishInv, Unpublished, AccountedInv, Accounted
<1> QED BY <1>6, <1>7, <1>8, <1>9 DEF ReaderInv

\* The goroutine takes its first item off: what that leaves in its hands.
LEMMA ItemTaken ==
    ASSUME TypeOK, NEW s \in Subscriber, ReaderInv(s), sub[s].items # <<>>,
           sub'[s].items = Tail(sub[s].items), sub'[s].queue = sub[s].queue
    PROVE  /\ Head(sub[s].items) \in 1..Len(log) /\ Holds(s, Head(sub[s].items))
           /\ \A n : Holds(s, n)' => Holds(s, n)
           /\ \A n : Holds(s, n) /\ n # Head(sub[s].items) => Holds(s, n)'
           /\ Consecutive(sub'[s].items)
           /\ sub'[s].items # <<>> =>
                 /\ Head(sub'[s].items) = Head(sub[s].items) + 1
                 /\ Head(sub[s].items) <= sub[s].cursor + 1
           /\ Len(sub[s].items) = 1 => \A n : Holds(s, n)' <=> In(sub[s].queue, n)
<1> DEFINE q == sub[s].items
<1> DEFINE t == Tail(q)
<1>1. q \in Seq(Nat) /\ Consecutive(q) /\ q # <<>> /\ NextItem(s) /\ Len(log) \in Nat
  BY SubscriberFields DEF ReaderInv, ListsInv
<1>2. /\ \A n : In(q, n) <=> n = Head(q) \/ In(t, n)
      /\ Consecutive(t) /\ (t # <<>> => Head(t) = Head(q) + 1)
  BY <1>1, InTail, TailConsecutive
<1>3. Len(q) = 1 => t = <<>>
  <2>1. t \in Seq(Nat) /\ Len(t) = Len(q) - 1
    BY <1>1, HeadTailProperties
  <2> HIDE DEF t, q
  <2>2. Len(q) = 1 => Len(t) = 0
    BY <2>1
  <2> QED BY <2>1, <2>2, EmptySeq
<1>4. NextItem(s) => Head(q) <= sub[s].cursor + 1 \/ Len(q) = 1
  BY DEF NextItem
<1> HIDE DEF q, t
<1>5. \A n : Holds(s, n) <=> n = Head(q) \/ Holds(s, n)'
  BY <1>2 DEF Holds, q, t
<1>6. Head(q) \in 1..Len(log)
  BY <1>5 DEF ReaderInv, ListsInv
<1>7. Len(q) = 1 => \A n : Holds(s, n)' <=> In(sub[s].queue, n)
  BY <1>3, InEmpty DEF Holds, q, t
<1> QED BY <1>1, <1>2, <1>3, <1>4, <1>5, <1>6, <1>7 DEF q, t

LEMMA EmitSkipsReader ==
    ASSUME TypeOK, NEW s \in Subscriber, ReaderInv(s), EmitSkips(s)
    PROVE  ReaderInv(s)'
<1> DEFINE h == Head(sub[s].items)
<1> DEFINE c == sub[s].cursor
<1>1. /\ UNCHANGED <<log, appender, delivered>> /\ sub[s].pc = "emit"
      /\ sub'[s].pc = "emit" /\ sub[s].items # <<>> /\ h <= c
      /\ sub'[s].items = Tail(sub[s].items) /\ sub'[s].queue = sub[s].queue
      /\ sub'[s].cursor = c /\ sub'[s].done = sub[s].done
  BY EmitSkipsResult
<1>2. /\ h \in 1..Len(log) /\ \A n : Holds(s, n)' => Holds(s, n)
      /\ \A n : Holds(s, n) /\ n # h => Holds(s, n)'
      /\ Consecutive(sub'[s].items)
      /\ sub'[s].items # <<>> => Head(sub'[s].items) = h + 1
  BY <1>1, ItemTaken
<1>3. /\ c \in Nat /\ Len(log) \in Nat /\ Increasing(sub[s].queue)
      /\ \A n : Holds(s, n) => n \in 1..Len(log)
      /\ c > From[s] => c <= Len(log)
  BY SubscriberFields DEF ReaderInv, ListsInv
<1> HIDE DEF h
<1>4. \A n : Holds(s, n) /\ n > c => Holds(s, n)'
  BY <1>1, <1>2, <1>3
<1>5. ListsInv(s)'
  <2>1. sub'[s].items # <<>> => NextItem(s)'
    BY <1>1, <1>2, <1>3, SMTT(30) DEF NextItem
  <2> QED BY <1>1, <1>2, <1>3, <2>1 DEF ListsInv
<1>6. Subscribed(s)' => Subscribed(s)
  BY <1>1 DEF Subscribed
<1> QED BY <1>1, <1>2, <1>4, <1>5, <1>6, ReaderHolds DEF ReaderInv

\* What the cursor jumps over was written by others, and it jumps to an event
\* of s's own process.
LEMMA EmitReader ==
    ASSUME TypeOK, NEW s \in Subscriber, ReaderInv(s), Emit(s)
    PROVE  ReaderInv(s)'
<1> DEFINE h == Head(sub[s].items)
<1> DEFINE c == sub[s].cursor
<1> DEFINE d == delivered[s]
<1>1. /\ UNCHANGED <<log, appender>> /\ sub[s].pc = "emit"
      /\ sub'[s].pc = "emit" /\ sub[s].items # <<>> /\ h > c
      /\ sub'[s].items = Tail(sub[s].items) /\ sub'[s].queue = sub[s].queue
      /\ sub'[s].cursor = h /\ sub'[s].done = sub[s].done
      /\ delivered'[s] = Append(d, h)
  BY EmitResult
<1>2. /\ h \in 1..Len(log) /\ Holds(s, h) /\ \A n : Holds(s, n)' => Holds(s, n)
      /\ \A n : Holds(s, n) /\ n # h => Holds(s, n)'
      /\ Consecutive(sub'[s].items)
      /\ sub'[s].items # <<>> => Head(sub'[s].items) = h + 1
      /\ Len(sub[s].items) = 1 => \A n : Holds(s, n)' <=> In(sub[s].queue, n)
  BY <1>1, ItemTaken
<1>3. /\ c \in Nat /\ From[s] \in Nat /\ Len(log) \in Nat /\ Increasing(sub[s].queue)
      /\ \A n : Holds(s, n) => n \in 1..Len(log)
      /\ d \in Seq(Nat)
  BY SubscriberFields DEF ReaderInv, ListsInv
<1>4. h <= c + 1 \/ (Len(sub[s].items) = 1 /\ \A n : In(sub[s].queue, n) => n > h)
  BY <1>1 DEF ReaderInv, ListsInv, NextItem
<1> HIDE DEF h
<1>5. ListsInv(s)'
  <2>1. sub'[s].items # <<>> => NextItem(s)'
    BY <1>1, <1>2, <1>3, SMTT(30) DEF NextItem
  <2>2. h <= Len(log)
    BY <1>2, <1>3
  <2> QED BY <1>1, <1>2, <1>3, <2>1, <2>2 DEF ListsInv
<1>6. LinkedInv(s)'
  <2> SUFFICES ASSUME NEW n, Holds(s, n), log[n] # Home[s], ~(n - 1 <= h)
               PROVE  Holds(s, n - 1)'
    BY <1>1, <1>2 DEF LinkedInv
  <2>1. n \in 1..Len(log) /\ (n - 1 <= c \/ Holds(s, n - 1))
    BY <1>3 DEF ReaderInv, LinkedInv
  <2>2. n - 1 # h /\ ~(n - 1 <= c)
    BY <1>1, <1>2, <1>3, <2>1
  <2> QED BY <1>2, <2>1, <2>2
<1>7. \A n \in (h + 1)..Len(log) : n \in (c + 1)..Len(log) /\ n # h
  BY <1>1, <1>2, <1>3
<1>8. OwnInv(s)'
  BY <1>1, <1>2, <1>7 DEF ReaderInv, OwnInv
<1>9. OwnHeldInv(s)'
  <2>1. Subscribed(s)' => Subscribed(s)
    BY <1>1 DEF Subscribed
  <2> QED BY <1>1, <1>2, <1>7, <2>1 DEF ReaderInv, OwnHeldInv, Unpublished
<1>10. PublishInv(s)'
  BY <1>1 DEF ReaderInv, PublishInv, Unpublished
<1>11. ASSUME NEW n \in (From[s] + 1)..h
       PROVE  Accounted(s, n)'
  <2>1. /\ Len(Append(d, h)) = Len(d) + 1 /\ Len(d) \in Nat
        /\ Append(d, h)[Len(d) + 1] = h
        /\ \A i \in 1..Len(d) : Append(d, h)[i] = d[i]
    BY <1>2, <1>3
  <2>2. CASE n <= c
    <3>1. n \in (From[s] + 1)..c /\ \A m \in (n + 1)..c : m \in (n + 1)..h
      BY <1>1, <1>2, <1>3, <2>2
    <3>2. Accounted(s, n)
      BY <3>1 DEF ReaderInv, AccountedInv
    <3>3. \A i \in 1..Len(d) : i \in 1..(Len(d) + 1)
      BY <2>1
    <3> QED BY <1>1, <2>1, <3>1, <3>2, <3>3 DEF Accounted
  <2>3. CASE n = h
    BY <1>1, <2>1, <2>3 DEF Accounted
  <2>4. CASE ~(n <= c) /\ n # h
    <3>1. /\ n \in (c + 1)..Len(log) /\ n < h /\ ~(h <= c + 1) /\ ~(h - 1 <= c)
          /\ h - 1 < h /\ h \in (n + 1)..h
      <4>1. h > c /\ c \in Nat /\ From[s] \in Nat /\ Len(log) \in Nat /\ h \in 1..Len(log)
        BY <1>1, <1>2, <1>3
      <4> HIDE DEF c
      <4>2. n \in Nat /\ n <= h /\ n > c
        BY <2>4, <4>1
      <4> QED BY <2>4, <4>1, <4>2
    <3>2. \A m : Holds(s, m) /\ m # h => m > h
      BY <1>2, <1>4, <3>1
    <3>3. ~Holds(s, n) /\ ~Holds(s, h - 1)
      BY <1>2, <1>3, <3>1, <3>2
    <3>4. log[n] # Home[s]
      <4> SUFFICES ASSUME log[n] = Home[s]
                   PROVE  FALSE
        OBVIOUS
      <4>1. \A m : Holds(s, m) => m < n
        BY <3>1, <3>3 DEF ReaderInv, OwnInv
      <4>2. h < n
        BY <1>2, <4>1
      <4> QED BY <1>2, <1>3, <3>1, <4>2
    <3>5. log[h] = Home[s]
      BY <1>2, <3>1, <3>3 DEF ReaderInv, LinkedInv
    <3> QED BY <1>1, <3>1, <3>4, <3>5 DEF Accounted
  <2> QED BY <2>2, <2>3, <2>4
<1>12. AccountedInv(s)'
  BY <1>1, <1>11 DEF AccountedInv
<1> QED BY <1>5, <1>6, <1>8, <1>9, <1>10, <1>12 DEF ReaderInv

\* Publication puts the event behind everything s holds in its queue.
LEMMA PublishReader ==
    ASSUME TypeOK, NEW s \in Subscriber, ReaderInv(s), Publish(Home[s]), Subscribed(s)
    PROVE  ReaderInv(s)'
<1> DEFINE k == appender[Home[s]].seq
<1> DEFINE q == sub[s].queue
<1>1. /\ Home[s] \in Process /\ k \in Nat /\ q \in Seq(Nat) /\ Unpublished(Home[s], k)
      /\ log' = log /\ delivered' = delivered /\ appender'[Home[s]].pc = "idle"
  BY SubscriberFields, LedgerAssumption DEF Publish, TypeOK, Appender, Unpublished
<1>2. sub'[s] = [sub[s] EXCEPT !.queue = Append(q, k), !.signal = TRUE]
  BY DEF Publish
<1>3. /\ sub'[s].queue = Append(q, k) /\ sub'[s].items = sub[s].items
      /\ sub'[s].cursor = sub[s].cursor /\ sub'[s].pc = sub[s].pc
  BY <1>2, SubscriberFields DEF SubscriberState
<1>4. /\ k \in 1..Len(log) /\ log[k] = Home[s] /\ \A m : In(q, m) => m < k
      /\ \A n : Unpublished(Home[s], n) <=> n = k
  BY <1>1 DEF ReaderInv, PublishInv, Unpublished
<1>5. /\ Increasing(q) /\ Consecutive(sub[s].items)
      /\ sub[s].cursor > From[s] => sub[s].cursor <= Len(log)
      /\ \A n : Holds(s, n) => n \in 1..Len(log)
      /\ sub[s].items # <<>> => NextItem(s)
      /\ sub[s].pc \notin {"emit", "closed"} => sub[s].items = <<>>
      /\ sub[s].pc \notin {"off", "watching"}
  BY DEF ReaderInv, ListsInv, Subscribed
<1> HIDE DEF k, q
<1>6. Increasing(Append(q, k)) /\ \A n : In(Append(q, k), n) <=> In(q, n) \/ n = k
  BY <1>1, <1>4, <1>5, InAppend
<1>7. \A n : Holds(s, n)' <=> Holds(s, n) \/ n = k
  BY <1>3, <1>6 DEF Holds, q
<1>8. \A n \in (sub[s].cursor + 1)..Len(log) : log[n] = Home[s] => Holds(s, n)'
  BY <1>4, <1>7 DEF ReaderInv, OwnHeldInv
<1>9. ListsInv(s)'
  <2>1. sub[s].items # <<>> => NextItem(s)'
    <3> SUFFICES ASSUME sub[s].items # <<>>, ~(Head(sub[s].items) <= sub[s].cursor + 1)
                 PROVE  \A n : In(Append(q, k), n) => n > Head(sub[s].items)
      <4>1. \A n : ~Unpublished(Home[s], n)'
        BY <1>1 DEF Unpublished
      <4>2. NextItem(s)' <=>
              \/ Head(sub[s].items) <= sub[s].cursor + 1
              \/ /\ Len(sub[s].items) = 1
                 /\ \A n : In(Append(q, k), n) => n > Head(sub[s].items)
        BY <1>3, <4>1 DEF NextItem
      <4> QED BY <1>5, <4>2 DEF NextItem
    <3>1. NextItem(s) /\ Unpublished(Home[s], k)
      BY <1>1, <1>5 DEF k
    <3> QED BY <1>6, <3>1 DEF NextItem, q
  <2> QED BY <1>1, <1>3, <1>4, <1>5, <1>6, <1>7, <2>1 DEF ListsInv
<1>10. LinkedInv(s)'
  BY <1>1, <1>3, <1>4, <1>7 DEF ReaderInv, LinkedInv
<1>11. OwnInv(s)' /\ OwnHeldInv(s)'
  BY <1>1, <1>3, <1>8 DEF OwnInv, OwnHeldInv
<1>12. PublishInv(s)'
  BY <1>1 DEF PublishInv, Unpublished
<1>13. AccountedInv(s)'
  BY <1>1, <1>3 DEF ReaderInv, AccountedInv, Accounted
<1> QED BY <1>9, <1>10, <1>11, <1>12, <1>13 DEF ReaderInv

\* A step of an appender or a store.
LEMMA StoreReader ==
    ASSUME TypeOK, LockInv, NEW p \in Process, NEW s \in Subscriber, ReaderInv(s),
           AppendStep(p) \/ Close(p)
    PROVE  ReaderInv(s)'
<1>0. /\ Len(log) \in Nat /\ log \in Seq(Process) /\ Home[s] \in Process
      /\ \A x \in Process : appender[x] \in Appender
      /\ \A n : Holds(s, n) => n \in 1..Len(log)
  BY LedgerAssumption DEF TypeOK, ReaderInv, ListsInv
<1>1. /\ delivered' = delivered /\ sub'[s].pc = sub[s].pc
      /\ sub'[s].items = sub[s].items /\ sub'[s].cursor = sub[s].cursor
  BY StoreResult
<1>2. CASE AppendAllocate(p) \/ AppendWrite(p) \/ AppendFail(p) \/ Close(p)
  <2>1. log' = log /\ \A n : Unpublished(Home[s], n)' <=> Unpublished(Home[s], n)
    <3>1. CASE AppendAllocate(p)
      BY <1>0, <3>1 DEF AppendAllocate, Unpublished, TypeOK
    <3>2. CASE AppendFail(p)
      BY <1>0, <3>2 DEF AppendFail, Unpublished, TypeOK, Appender
    <3>3. CASE Close(p)
      BY <3>3 DEF Close, Unpublished
    <3>4. CASE AppendWrite(p)
      BY <1>0, <3>4 DEF AppendWrite, Unpublished, TypeOK, Appender
    <3> QED BY <1>2, <3>1, <3>2, <3>3, <3>4
  <2>2. sub'[s].queue = sub[s].queue /\ (sub[s].done => sub'[s].done)
    <3>1. CASE AppendAllocate(p) \/ AppendFail(p)
      BY <3>1 DEF AppendAllocate, AppendFail
    <3>2. CASE Close(p)
      BY <3>2, SubscriberFields DEF Close, SubscriberState
    <3>3. CASE AppendWrite(p)
      BY <3>3, SubscriberFields DEF AppendWrite, SubscriberState
    <3> QED BY <1>2, <3>1, <3>2, <3>3
  <2>3. LogGrows /\ (Len(log) + 1)..Len(log') = {}
    BY <1>0, <2>1 DEF LogGrows
  <2>4. PublishInv(s)'
    BY <2>1, <2>2 DEF ReaderInv, PublishInv
  <2> QED BY <1>1, <2>1, <2>2, <2>3, <2>4, ReaderKept
<1>3. CASE AppendCommit(p)
  <2> DEFINE l == Len(log) + 1
  <2>1. /\ log' = Append(log, p) /\ appender[p].pc = "written" /\ appender[p].seq = l
        /\ appender' = [appender EXCEPT ![p].pc = "committed"]
    BY <1>3 DEF AppendCommit, LockInv
  <2>2. /\ Len(log') = l /\ log'[l] = p /\ l \in Nat
        /\ \A n \in 1..Len(log) : log'[n] = log[n]
    BY <1>0, <2>1
  <2>3. LogGrows /\ \A n \in (Len(log) + 1)..Len(log') : n = l
    BY <1>0, <2>2 DEF LogGrows
  <2>4. sub'[s].queue = sub[s].queue /\ (sub[s].done => sub'[s].done)
    BY <1>3 DEF AppendCommit
  <2> HIDE DEF l
  <2>5. CASE p = Home[s]
    <3>1. \A n : Unpublished(Home[s], n)' <=> n = l
      BY <1>0, <2>1, <2>5 DEF Unpublished, TypeOK, Appender
    <3>2. \A n : ~Unpublished(Home[s], n)
      BY <2>1, <2>5 DEF Unpublished
    <3>3. PublishInv(s)'
      <4>1. \A m : In(sub[s].queue, m) => m < l
        BY <1>0 DEF Holds, l
      <4>2. l \in 1..Len(log')
        BY <1>0, <2>2 DEF l
      <4> QED BY <2>2, <2>4, <2>5, <3>1, <4>1, <4>2 DEF PublishInv
    <3> QED BY <1>1, <2>3, <2>4, <3>1, <3>2, <3>3, ReaderKept DEF l
  <2>6. CASE p # Home[s]
    <3>1. \A n : Unpublished(Home[s], n)' <=> Unpublished(Home[s], n)
      BY <1>0, <2>1, <2>6 DEF Unpublished, TypeOK
    <3>2. \A n \in (Len(log) + 1)..Len(log') : log'[n] # Home[s]
      BY <2>2, <2>3, <2>6
    <3>3. PublishInv(s)'
      <4>1. \A n \in 1..Len(log) : n \in 1..Len(log')
        BY <1>0, <2>2 DEF l
      <4> QED BY <2>2, <2>4, <3>1, <4>1 DEF ReaderInv, PublishInv
    <3> QED BY <1>1, <2>3, <2>4, <3>1, <3>2, <3>3, ReaderKept
  <2> QED BY <2>5, <2>6
<1>4. CASE Publish(p)
  <2>1. CASE p = Home[s] /\ Subscribed(s)
    BY <1>4, <2>1, PublishReader
  <2>2. CASE ~(p = Home[s] /\ Subscribed(s))
    <3>1. sub'[s] = sub[s] /\ log' = log
      BY <1>4, <2>2 DEF Publish
    <3>2. /\ \A n : Unpublished(Home[s], n)' => Unpublished(Home[s], n)
          /\ Subscribed(s) => \A n : Unpublished(Home[s], n) => Unpublished(Home[s], n)'
      BY <1>0, <1>4, <2>2 DEF Publish, Unpublished, TypeOK, Appender
    <3>3. LogGrows /\ (Len(log) + 1)..Len(log') = {}
      BY <1>0, <3>1 DEF LogGrows
    <3>4. PublishInv(s)' /\ (Subscribed(s)' => Subscribed(s))
      BY <3>1, <3>2 DEF ReaderInv, PublishInv, Subscribed
    <3> QED BY <1>1, <3>1, <3>2, <3>3, <3>4, ReaderKept
  <2> QED BY <2>1, <2>2
<1> QED BY <1>2, <1>3, <1>4 DEF AppendStep

\* A step of a subscriber.
LEMMA SubscriberReader ==
    ASSUME TypeOK, SubscribersInv, NEW s \in Subscriber,
           Moves(s) \/ Register(s) \/ Pop(s) \/ FileChanged(s) \/ EmitSkips(s) \/ Emit(s)
    PROVE  SubscribersInv'
<1>0. ReaderInv(s) /\ Len(log) \in Nat
  BY SubscriberFields DEF SubscribersInv
<1>1. /\ UNCHANGED <<log, appender>>
      /\ \A x \in Subscriber \ {s} : sub'[x] = sub[x] /\ delivered'[x] = delivered[x]
  BY MoveResult, RegisterResult, PopResult, FileChangedResult, EmitSkipsResult, EmitResult
<1>2. LogGrows /\ (Len(log) + 1)..Len(log') = {}
  BY <1>0, <1>1 DEF LogGrows
<1>3. \A x \in Subscriber : \A n : Unpublished(Home[x], n)' <=> Unpublished(Home[x], n)
  BY <1>1 DEF Unpublished
<1>4. ASSUME NEW x \in Subscriber \ {s}
      PROVE  ReaderInv(x)'
  <2>1. ReaderInv(x) /\ PublishInv(x)'
    BY <1>1, <1>3 DEF SubscribersInv, ReaderInv, PublishInv
  <2> QED BY <1>1, <1>2, <1>3, <2>1, ReaderKept
<1>5. CASE Moves(s)
  <2>1. MovesTo(s, sub'[s]) /\ delivered' = delivered
    BY <1>5, MoveResult
  <2>2. PublishInv(s)'
    BY <1>0, <1>1, <1>3, <2>1 DEF ReaderInv, PublishInv, MovesTo
  <2>3. ReaderInv(s)'
    BY <1>0, <1>2, <1>3, <2>1, <2>2, ReaderKept DEF MovesTo, Active
  <2> QED BY <1>4, <2>3 DEF SubscribersInv
<1>6. CASE Register(s) \/ Pop(s) \/ FileChanged(s) \/ EmitSkips(s) \/ Emit(s)
  <2>1. ReaderInv(s)'
    BY <1>0, <1>6, RegisterReader, PopReader, FileChangedReader, EmitSkipsReader, EmitReader
  <2> QED BY <1>4, <2>1 DEF SubscribersInv
<1> QED BY <1>5, <1>6

\* However many processes append to the session: an event the reader's cursor
\* has passed was delivered, or it was written by another process and an event
\* of the reader's own process overtook it.  The reader's own process loses
\* nothing of what it wrote.
THEOREM LosesOnlyOvertakenCorrect == Spec => []LosesOnlyOvertaken
<1>1. Init => SubscribersInv
  <2> SUFFICES ASSUME Init, NEW s \in Subscriber
               PROVE  ReaderInv(s)
    BY DEF SubscribersInv
  <2>1. /\ sub[s].pc = "off" /\ sub[s].queue = <<>> /\ sub[s].items = <<>>
        /\ sub[s].cursor = From[s] /\ log = <<>> /\ From[s] \in Nat
        /\ appender[Home[s]].pc = "idle"
    BY LedgerAssumption DEF Init
  <2>2. \A n : ~Holds(s, n) /\ ~Unpublished(Home[s], n)
    BY <2>1, InEmpty DEF Holds, Unpublished
  <2>3. Len(log) = 0 /\ Increasing(<<>>) /\ Consecutive(<<>>)
    BY <2>1 DEF Increasing, Consecutive
  <2> QED BY <2>1, <2>2, <2>3
          DEF ReaderInv, ListsInv, LinkedInv, OwnInv, OwnHeldInv, PublishInv,
              AccountedInv, Subscribed
<1>2. ASSUME TypeOK, LockInv, SubscribersInv, [Next]_vars
      PROVE  SubscribersInv'
  <2>1. CASE UNCHANGED vars
    <3> SUFFICES ASSUME NEW s \in Subscriber
                 PROVE  ReaderInv(s)'
      BY DEF SubscribersInv
    <3>1. /\ LogGrows /\ (Len(log) + 1)..Len(log') = {}
          /\ UNCHANGED <<log, appender, sub, delivered>>
      BY <1>2, <2>1, SubscriberFields DEF vars, LogGrows
    <3>2. \A n : Unpublished(Home[s], n)' <=> Unpublished(Home[s], n)
      BY <3>1 DEF Unpublished
    <3>3. ReaderInv(s) /\ PublishInv(s)'
      BY <1>2, <3>1, <3>2 DEF SubscribersInv, ReaderInv, PublishInv
    <3> QED BY <1>2, <3>1, <3>2, <3>3, ReaderKept
  <2>2. ASSUME NEW p \in Process, AppendStep(p) \/ Close(p)
        PROVE  SubscribersInv'
    BY <1>2, <2>2, StoreReader DEF SubscribersInv
  <2>3. ASSUME NEW s \in Subscriber,
               Moves(s) \/ Register(s) \/ Pop(s) \/ FileChanged(s) \/ EmitSkips(s) \/ Emit(s)
        PROVE  SubscribersInv'
    BY <1>2, <2>3, SubscriberReader
  <2> QED BY <1>2, <2>1, <2>2, <2>3, SubscriberSteps DEF Next
<1>3. SubscribersInv => LosesOnlyOvertaken
  BY DEF SubscribersInv, ReaderInv, AccountedInv, Accounted, LosesOnlyOvertaken
<1> QED BY <1>1, <1>2, <1>3, LedgerTypeCorrect, WriterHoldsTheLock, PTL DEF Spec
=============================================================================
