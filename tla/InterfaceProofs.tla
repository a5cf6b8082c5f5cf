--------------------------- MODULE InterfaceProofs ---------------------------
(***************************************************************************)
(* Proofs about what a user sits in front of: the thinking window that      *)
(* follows a conversation (LiveWindow), the prompt history and the pickers  *)
(* (TerminalHistory), the graph of one turn (ThinkingGraph), the composer   *)
(* and the places of its prompts (TerminalSession).                         *)
(***************************************************************************)
EXTENDS ThinkingGraph, TerminalSession, TerminalHistory, LiveWindow,
        FiniteSetTheorems, SequenceTheorems, WellFoundedInduction, TLAPS

-----------------------------------------------------------------------------
(* The window that follows a conversation.                                 *)

\* The first n events of a turn.
Upto(n) == [i \in 1 .. n |-> i]

\* What the terminal pushes is durable.
Durable(events) ==
  /\ events \in Seq(AllTurns \X Nat)
  /\ \A i \in DOMAIN events : events[i][2] <= ledger[events[i][1]]

WindowInv ==
  /\ ledger \in [AllTurns -> Nat] /\ terminal \in [AllTurns -> Nat]
  /\ \A t \in AllTurns : terminal[t] <= ledger[t]
  /\ Durable(updates) /\ Durable(pipe)
  /\ applied \in [AllTurns -> {Upto(n) : n \in Nat}]
  /\ \A t \in AllTurns : Len(applied[t]) <= ledger[t]
  /\ GraphIsOfOneConversation
  /\ window \in {"closed", "loading"} => known = {}

LEMMA UptoProperties ==
  /\ Upto(0) = <<>>
  /\ \A n \in Nat : Upto(n) \in Seq(Nat) /\ Len(Upto(n)) = n /\ (n > 0 => Upto(n)[n] = n)
  /\ \A n \in Nat : Append(Upto(n), n + 1) = Upto(n + 1)
  /\ \A m, n \in Nat : n <= m => Upto(n) \o [i \in 1 .. (m - n) |-> n + i] = Upto(m)
<1>1. Upto(0) = <<>>
  BY DEF Upto
<1>2. \A n \in Nat : Upto(n) \in Seq(Nat) /\ Len(Upto(n)) = n /\ (n > 0 => Upto(n)[n] = n)
  BY DEF Upto
<1>3. \A n \in Nat : Append(Upto(n), n + 1) = Upto(n + 1)
  BY DEF Upto
<1>4. ASSUME NEW m \in Nat, NEW n \in Nat, n <= m
      PROVE  Upto(n) \o [i \in 1 .. (m - n) |-> n + i] = Upto(m)
  <2> DEFINE s == [i \in 1 .. (m - n) |-> n + i]
  <2>1. s \in Seq(Nat) /\ Len(s) = m - n /\ \A i \in 1 .. (m - n) : s[i] = n + i
    BY <1>4
  <2>2. /\ Upto(n) \in Seq(Nat) /\ Len(Upto(n)) = n /\ \A i \in 1 .. n : Upto(n)[i] = i
        /\ Upto(m) \in Seq(Nat) /\ Len(Upto(m)) = m /\ \A i \in 1 .. m : Upto(m)[i] = i
    BY DEF Upto
  <2> HIDE DEF s
  <2>3. /\ Upto(n) \o s \in Seq(Nat) /\ Len(Upto(n) \o s) = m
        /\ \A i \in 1 .. m : (Upto(n) \o s)[i] = i
    BY <1>4, <2>1, <2>2, SMTT(30)
  <2>4. Upto(n) \o s = Upto(m)
    BY <2>2, <2>3, SeqEqual, Zenon
  <2> QED BY <2>4 DEF s
<1> QED BY <1>1, <1>2, <1>3, <1>4

LEMMA SequenceOfTurn ==
  ASSUME WindowInv, NEW t \in AllTurns
  PROVE  /\ Sequence(t) \in 0 .. ledger[t] /\ applied[t] = Upto(Sequence(t))
         /\ Len(applied[t]) = Sequence(t)
<1>1. PICK n \in Nat : applied[t] = Upto(n)
  BY DEF WindowInv
<1>2. Len(applied[t]) = n /\ n <= ledger[t] /\ ledger[t] \in Nat
  BY <1>1, UptoProperties DEF WindowInv
<1>3. Sequence(t) = n
  <2>1. CASE n = 0
    BY <1>1, <2>1, UptoProperties DEF Sequence
  <2>2. CASE n > 0
    <3>1. Len(Upto(n)) = n /\ Upto(n)[n] = n
      BY <2>2 DEF Upto
    <3>2. applied[t] # <<>>
      BY <1>2, <2>2, Len(<<>>) = 0
    <3>3. applied[t][Len(applied[t])] = n
      BY <1>1, <1>2, <3>1
    <3> QED BY <3>2, <3>3 DEF Sequence
  <2> QED BY <2>1, <2>2
<1> QED BY <1>1, <1>2, <1>3

\* A replay brings every stored turn up to the ledger.
LEMMA ReplayedIsPrefix ==
  ASSUME WindowInv
  PROVE  /\ Replayed \in [AllTurns -> {Upto(n) : n \in Nat}]
         /\ \A t \in AllTurns : /\ Len(Replayed[t]) <= ledger[t]
                                /\ Replayed[t] # <<>> => t \in known \union StoredTurns
<1>1. ASSUME NEW t \in AllTurns
      PROVE  \E n \in Nat : /\ Replayed[t] = Upto(n) /\ n <= ledger[t]
                            /\ n > 0 => t \in known \union StoredTurns
  <2>1. /\ Sequence(t) \in Nat /\ Sequence(t) <= ledger[t] /\ ledger[t] \in Nat
        /\ applied[t] = Upto(Sequence(t))
    BY SequenceOfTurn DEF WindowInv
  <2>2. CASE t \in StoredTurns
    <3>1. Replayed[t] = Upto(ledger[t])
      BY <2>1, <2>2, UptoProperties DEF Replayed, Missing
    <3> QED BY <2>1, <2>2, <3>1
  <2>3. CASE t \notin StoredTurns
    <3>1. Sequence(t) > 0 => applied[t] # <<>>
      BY <2>1, SequenceOfTurn
    <3>2. Replayed[t] = applied[t]
      BY <2>3 DEF Replayed
    <3> QED BY <2>1, <3>1, <3>2 DEF WindowInv, GraphIsOfOneConversation
  <2> QED BY <2>2, <2>3
<1>2. Replayed = [t \in AllTurns |-> IF t \in StoredTurns THEN applied[t] \o Missing(t)
                                                      ELSE applied[t]]
  BY DEF Replayed
<1>3. \A t \in AllTurns : Replayed[t] \in {Upto(n) : n \in Nat}
  BY <1>1
<1>4. ASSUME NEW t \in AllTurns
      PROVE  Len(Replayed[t]) <= ledger[t] /\ (Replayed[t] # <<>> => t \in known \union StoredTurns)
  <2>1. PICK n \in Nat : /\ Replayed[t] = Upto(n) /\ n <= ledger[t]
                         /\ n > 0 => t \in known \union StoredTurns
    BY <1>1
  <2>2. Len(Replayed[t]) = n /\ (n = 0 => Replayed[t] = <<>>)
    BY <2>1, UptoProperties
  <2> QED BY <2>1, <2>2
<1> QED BY <1>2, <1>3, <1>4

\* What a push or a replay leaves of the graph.
GraphAfter(seqs, turns) ==
  /\ seqs \in [AllTurns -> {Upto(n) : n \in Nat}]
  /\ \A t \in AllTurns : Len(seqs[t]) <= ledger[t] /\ (seqs[t] # <<>> => t \in turns)
  /\ turns \subseteq Turns

LEMMA AppliedEvent ==
  ASSUME NEW n \in Nat, NEW e \in Nat
  PROVE  \E m \in Nat : /\ Apply(Upto(n), e).seqs = Upto(m)
                        /\ m = n \/ (m = e /\ m = n + 1)
<1>1. Upto(n) \in Seq(Nat) /\ Len(Upto(n)) = n /\ (n > 0 => Upto(n)[n] = n)
      /\ Append(Upto(n), n + 1) = Upto(n + 1)
  BY UptoProperties
<1>2. (IF Upto(n) = <<>> THEN 0 ELSE Upto(n)[Len(Upto(n))]) = n
  BY <1>1
<1>3. CASE e <= n
  BY <1>2, <1>3 DEF Apply
<1>4. CASE e = n + 1
  <2>1. Apply(Upto(n), e).seqs = Append(Upto(n), e)
    BY <1>2, <1>4 DEF Apply
  <2> QED BY <1>1, <1>4, <2>1
<1>5. CASE e > n + 1
  BY <1>2, <1>5 DEF Apply
<1> QED BY <1>3, <1>4, <1>5

LEMMA PushEventGraph ==
  ASSUME WindowInv, NEW t \in AllTurns, NEW e \in Nat, e <= ledger[t], PushEvent(t, e)
  PROVE  GraphAfter(applied', known')
<1>1. GraphAfter(applied, known)
  BY DEF GraphAfter, WindowInv, GraphIsOfOneConversation
<1>2. CASE t \notin Turns
  BY <1>1, <1>2 DEF PushEvent
<1>3. CASE t \in Turns
  <2> DEFINE hole == e > Sequence(t) + 1
             before == IF hole THEN Replayed ELSE applied
             turns == known \union (IF hole THEN StoredTurns ELSE {})
  <2>1. /\ known' = turns \union {t}
        /\ applied' = [before EXCEPT ![t] = Apply(before[t], e).seqs]
    BY <1>3 DEF PushEvent
  <2>2. GraphAfter(before, turns)
    <3>1. GraphAfter(Replayed, known \union StoredTurns)
      BY <1>1, ReplayedIsPrefix DEF GraphAfter, StoredTurns
    <3> QED BY <1>1, <3>1
  <2> HIDE DEF hole, before, turns
  <2>3. PICK n \in Nat : before[t] = Upto(n)
    BY <2>2 DEF GraphAfter
  <2>4. PICK m \in Nat : /\ Apply(before[t], e).seqs = Upto(m)
                         /\ m = n \/ (m = e /\ m = n + 1)
    BY <2>3, AppliedEvent
  <2>5. Len(Upto(m)) <= ledger[t]
    <3>1. Len(Upto(m)) = m /\ Len(Upto(n)) = n /\ n <= ledger[t]
      BY <2>2, <2>3, UptoProperties DEF GraphAfter
    <3> QED BY <2>4, <3>1
  <2>6. /\ applied' \in [AllTurns -> {Upto(k) : k \in Nat}] /\ applied'[t] = Upto(m)
        /\ \A u \in AllTurns : u # t => applied'[u] = before[u]
    BY <2>1, <2>2, <2>4 DEF GraphAfter
  <2> QED BY <1>3, <2>1, <2>2, <2>5, <2>6 DEF GraphAfter
<1> QED BY <1>2, <1>3

\* The ledger only grows, so what was pushed or applied stays durable.
LEMMA LedgerGrows ==
  ASSUME WindowInv, NEW t \in AllTurns, ledger' = [ledger EXCEPT ![t] = @ + 1]
  PROVE  /\ ledger' \in [AllTurns -> Nat]
         /\ \A u \in AllTurns : ledger[u] <= ledger'[u]
BY DEF WindowInv

LEMMA WindowStep ==
  ASSUME WindowInv, [WindowNext]_windowVars
  PROVE  WindowInv'
<1>0. GraphAfter(applied, known)
  BY DEF GraphAfter, WindowInv, GraphIsOfOneConversation
<1>1. CASE UNCHANGED windowVars
  BY <1>1 DEF windowVars, WindowInv, Durable, GraphIsOfOneConversation
<1>2. ASSUME NEW t \in AllTurns, AppendEvent(t)
      PROVE  WindowInv'
  <2>1. /\ ledger' \in [AllTurns -> Nat]
        /\ \A u \in AllTurns : ledger[u] <= ledger'[u]
        /\ UNCHANGED <<terminal, updates, pipe, applied, known>>
    BY <1>2, LedgerGrows DEF AppendEvent
  <2>2. ASSUME NEW events, Durable(events)
        PROVE  events \in Seq(AllTurns \X Nat)
               /\ \A i \in DOMAIN events : events[i][2] <= ledger'[events[i][1]]
    <3>1. \A i \in DOMAIN events : events[i] \in AllTurns \X Nat
      BY <2>2 DEF Durable
    <3>2. \A i \in DOMAIN events : /\ events[i][1] \in AllTurns /\ events[i][2] \in Nat
                                   /\ events[i][2] <= ledger[events[i][1]]
      BY <2>2, <3>1 DEF Durable
    <3>3. \A u \in AllTurns : ledger[u] \in Nat /\ ledger'[u] \in Nat
      BY <2>1 DEF WindowInv
    <3> QED BY <2>1, <2>2, <3>2, <3>3 DEF Durable
  <2>3. Durable(updates)' /\ Durable(pipe)'
    BY <2>1, <2>2 DEF WindowInv, Durable
  <2>4. ASSUME NEW u \in AllTurns
        PROVE  terminal'[u] <= ledger'[u] /\ Len(applied'[u]) <= ledger'[u]
    <3>1. Len(applied[u]) \in Nat /\ terminal[u] \in Nat /\ ledger[u] \in Nat
          /\ ledger'[u] \in Nat
      BY <2>1, SequenceOfTurn DEF WindowInv
    <3> QED BY <2>1, <3>1 DEF WindowInv
  <2> QED BY <1>2, <2>1, <2>3, <2>4 DEF AppendEvent, WindowInv, GraphIsOfOneConversation
<1>3. ASSUME NEW t \in AllTurns, PushShown(t)
      PROVE  WindowInv'
  <2>1. /\ terminal[t] \in Nat /\ ledger[t] \in Nat /\ terminal[t] < ledger[t]
        /\ terminal' = [terminal EXCEPT ![t] = @ + 1]
        /\ UNCHANGED <<ledger, pipe, applied, known>>
        /\ updates' \in {updates, Append(updates, <<t, terminal[t] + 1>>)}
    BY <1>3 DEF PushShown, WindowInv
  <2>2. /\ terminal' \in [AllTurns -> Nat]
        /\ \A u \in AllTurns : terminal'[u] <= ledger[u]
    BY <2>1 DEF WindowInv
  <2>3. Durable(updates')
    <3> DEFINE e == <<t, terminal[t] + 1>>
    <3>1. e \in AllTurns \X Nat /\ e[1] = t /\ e[2] = terminal[t] + 1
      BY <2>1
    <3>2. updates \in Seq(AllTurns \X Nat) /\ Durable(updates)
      BY DEF WindowInv, Durable
    <3> HIDE DEF e
    <3>3. e[2] <= ledger[e[1]]
      BY <2>1, <3>1
    <3>4. Durable(Append(updates, e))
      BY <3>1, <3>2, <3>3 DEF Durable
    <3> QED BY <2>1, <3>2, <3>4 DEF e
  <2>4. Durable(updates)' /\ Durable(pipe)'
    BY <2>1, <2>3 DEF Durable, WindowInv
  <2> QED BY <1>3, <2>1, <2>2, <2>4 DEF PushShown, WindowInv, GraphIsOfOneConversation
<1>4. CASE Launch
  BY <1>4 DEF Launch, WindowInv, Durable, GraphIsOfOneConversation
<1>5. CASE WriteEvent
  <2>1. /\ updates # <<>> /\ updates' = Tail(updates) /\ pipe' = Append(pipe, Head(updates))
        /\ UNCHANGED <<ledger, terminal, applied, known>>
        /\ Durable(updates) /\ Durable(pipe)
    BY <1>5 DEF WriteEvent, WindowInv
  <2>2. /\ updates \in Seq(AllTurns \X Nat) /\ Head(updates) = updates[1]
        /\ 1 \in DOMAIN updates /\ Head(updates) \in AllTurns \X Nat
    BY <2>1 DEF Durable
  <2>3. Durable(Tail(updates)) /\ Durable(Append(pipe, Head(updates)))
    BY <2>1, <2>2, SMTT(30) DEF Durable
  <2> QED BY <1>5, <2>1, <2>3 DEF WriteEvent, WindowInv, Durable, GraphIsOfOneConversation
<1>6. CASE CloseWindow
  <2>1. Durable(<<>>)
    BY DEF Durable
  <2> QED BY <1>6, <2>1 DEF CloseWindow, WindowInv, Durable, GraphIsOfOneConversation
<1>7. CASE NewHost \/ Reconcile
  <2>1. /\ applied' = Replayed /\ (known' = StoredTurns \/ known' = known \union StoredTurns)
        /\ UNCHANGED <<ledger, terminal, updates, pipe>>
    BY <1>7 DEF NewHost, Reconcile
  <2>2. \A t \in AllTurns : Replayed[t] # <<>> => t \in known'
    BY <1>7, <2>1, ReplayedIsPrefix DEF NewHost, Reconcile, WindowInv
  <2> QED BY <1>7, <2>1, <2>2, ReplayedIsPrefix DEF NewHost, Reconcile, WindowInv, Durable, GraphIsOfOneConversation, StoredTurns
<1>8. CASE Receive
  <2>1. /\ pipe # <<>> /\ pipe' = Tail(pipe) /\ PushEvent(Head(pipe)[1], Head(pipe)[2])
        /\ UNCHANGED <<ledger, terminal, updates>> /\ Durable(pipe)
    BY <1>8 DEF Receive, WindowInv
  <2>2. /\ pipe \in Seq(AllTurns \X Nat) /\ Head(pipe) = pipe[1] /\ 1 \in DOMAIN pipe
        /\ Head(pipe) \in AllTurns \X Nat
    BY <2>1 DEF Durable
  <2>3. /\ Head(pipe)[1] \in AllTurns /\ Head(pipe)[2] \in Nat
        /\ Head(pipe)[2] <= ledger[Head(pipe)[1]]
    BY <2>1, <2>2 DEF Durable
  <2>4. GraphAfter(applied', known')
    BY <2>1, <2>3, PushEventGraph
  <2>5. Durable(Tail(pipe))
    BY <2>1, <2>2 DEF Durable
  <2> QED BY <1>8, <2>1, <2>4, <2>5 DEF Receive, WindowInv, Durable, GraphIsOfOneConversation, GraphAfter
<1>9. CASE BreakPipe
  BY <1>9 DEF BreakPipe, WindowInv, Durable, GraphIsOfOneConversation
<1> QED BY <1>1, <1>2, <1>3, <1>4, <1>5, <1>6, <1>7, <1>8, <1>9 DEF WindowNext

LEMMA WindowInitInv ==
  ASSUME WindowInit
  PROVE  WindowInv
<1>1. /\ ledger \in [AllTurns -> Nat] /\ terminal \in [AllTurns -> Nat]
      /\ \A t \in AllTurns : terminal[t] <= ledger[t]
  BY DEF WindowInit
<1>2. Durable(updates) /\ Durable(pipe)
  BY DEF WindowInit, Durable
<1>3. /\ applied \in [AllTurns -> {Upto(n) : n \in Nat}]
      /\ \A t \in AllTurns : Len(applied[t]) <= ledger[t]
      /\ GraphIsOfOneConversation
  <2>1. <<>> \in {Upto(n) : n \in Nat} /\ Len(<<>>) = 0
    BY UptoProperties
  <2> QED BY <2>1 DEF WindowInit, GraphIsOfOneConversation
<1> QED BY <1>1, <1>2, <1>3 DEF WindowInit, WindowInv

\* The thinking window's graph is a prefix of the ledger of its conversation:
\* every event of a turn once and in order, and none of another conversation,
\* however many events the pipe delivers, repeats or loses and whenever the
\* ledger is read again (PushEvent, reconcileEvents, Projection.Apply).
THEOREM GraphFollowsTheLedgerCorrect == WindowSpec => []GraphFollowsTheLedger
<1>1. WindowInit => WindowInv
  BY WindowInitInv
<1>2. WindowInv /\ [WindowNext]_windowVars => WindowInv'
  BY WindowStep
<1>3. WindowInv => GraphFollowsTheLedger
  <2> SUFFICES ASSUME WindowInv
               PROVE  GraphFollowsTheLedger
    OBVIOUS
  <2>1. AppliedInOrder
    BY SequenceOfTurn DEF AppliedInOrder, Upto
  <2> QED BY <2>1 DEF WindowInv, GraphFollowsTheLedger
<1> QED BY <1>1, <1>2, <1>3, PTL DEF WindowSpec

-----------------------------------------------------------------------------
(* The window: types.                                                      *)

WindowFlags ==
  /\ window \in {"closed", "loading", "open", "gone"}
  /\ receiving \in BOOLEAN /\ streamError \in BOOLEAN
  /\ \A t \in AllTurns : ledger[t] <= MaxTurnEvents

LEMMA PushEventReports ==
  ASSUME NEW t, NEW e, PushEvent(t, e)
  PROVE  streamError' \in BOOLEAN
<1>1. \A seqs : Apply(seqs, e).ok \in BOOLEAN
  BY DEF Apply
<1>2. CASE t \notin Turns
  BY <1>2 DEF PushEvent
<1>3. CASE t \in Turns
  <2>1. \E seqs : streamError' = ~Apply(seqs, e).ok
    BY <1>3, Zenon DEF PushEvent
  <2> QED BY <1>1, <2>1
<1> QED BY <1>2, <1>3

LEMMA WindowFlagsStep ==
  ASSUME WindowInv, WindowFlags, [WindowNext]_windowVars
  PROVE  WindowFlags'
<1>1. CASE UNCHANGED windowVars
  BY <1>1 DEF windowVars, WindowFlags
<1>2. ASSUME NEW t \in AllTurns, AppendEvent(t)
      PROVE  WindowFlags'
  <2>1. ledger[t] \in Nat /\ MaxTurnEvents \in Nat /\ 1 <= MaxTurnEvents
    BY WindowAssumption DEF WindowInv
  <2>2. /\ ledger[t] + 1 <= MaxTurnEvents
        /\ ledger' = [ledger EXCEPT ![t] = ledger[t] + 1]
    BY <1>2, <2>1 DEF AppendEvent
  <2>3. \A u \in AllTurns : ledger'[u] <= MaxTurnEvents
    BY <2>2 DEF WindowInv, WindowFlags
  <2> QED BY <1>2, <2>3 DEF AppendEvent, WindowFlags
<1>3. ASSUME NEW t \in AllTurns, PushShown(t)
      PROVE  WindowFlags'
  BY <1>3 DEF PushShown, WindowFlags
<1>4. CASE Receive
  <2>1. streamError' \in BOOLEAN
    BY <1>4, PushEventReports, Zenon DEF Receive
  <2> QED BY <1>4, <2>1 DEF Receive, WindowFlags
<1>5. CASE Launch \/ WriteEvent \/ CloseWindow \/ NewHost \/ BreakPipe \/ Reconcile
  BY <1>5 DEF Launch, WriteEvent, CloseWindow, NewHost, BreakPipe, Reconcile, WindowFlags
<1> QED BY <1>1, <1>2, <1>3, <1>4, <1>5 DEF WindowNext

LEMMA WindowIsTyped ==
  ASSUME WindowInv, WindowFlags
  PROVE  WindowTypeOK
<1>1. ASSUME NEW t \in AllTurns
      PROVE  /\ ledger[t] \in 0 .. MaxTurnEvents /\ terminal[t] \in 0 .. ledger[t]
             /\ applied[t] \in Seq(1 .. MaxTurnEvents)
  <2>1. /\ ledger[t] \in Nat /\ terminal[t] \in Nat /\ terminal[t] <= ledger[t]
        /\ ledger[t] <= MaxTurnEvents /\ MaxTurnEvents \in Nat
    BY WindowAssumption DEF WindowInv, WindowFlags
  <2>2. PICK n \in Nat : n = Sequence(t) /\ n <= MaxTurnEvents /\ applied[t] = Upto(n)
    BY <2>1, SequenceOfTurn
  <2>3. Upto(n) \in Seq(1 .. MaxTurnEvents)
    BY <2>1, <2>2 DEF Upto
  <2> QED BY <2>1, <2>2, <2>3
<1>2. \A i \in DOMAIN pipe : pipe[i][1] \in AllTurns
  <2>1. pipe \in Seq(AllTurns \X Nat)
    BY DEF WindowInv, Durable
  <2>2. \A i \in DOMAIN pipe : pipe[i] \in AllTurns \X Nat
    BY <2>1
  <2> QED BY <2>2
<1> QED BY <1>1, <1>2 DEF WindowTypeOK, WindowFlags

\* What the window keeps has its type, however many turns there are and
\* whatever arrives: the terminal has shown no event the ledger does not hold,
\* and no turn has applied an event past the last one it could have.
THEOREM WindowTypeCorrect == WindowSpec => []WindowTypeOK
<1>1. WindowInit => WindowFlags
  <2>1. MaxTurnEvents >= 0
    BY WindowAssumption
  <2> QED BY <2>1 DEF WindowInit, WindowFlags
<1>2. WindowInv /\ WindowFlags /\ [WindowNext]_windowVars => WindowInv' /\ WindowFlags'
  BY WindowStep, WindowFlagsStep
<1>3. WindowInv /\ WindowFlags => WindowTypeOK
  BY WindowIsTyped
<1> QED BY <1>1, <1>2, <1>3, WindowInitInv, PTL DEF WindowSpec

-----------------------------------------------------------------------------
(* What the terminal reads while the user goes on typing.                  *)

Lookups == [token : Nat \ {0}, offset : Nat]

HistoryRecords ==
  [count : Nat, persistent : {history.persistent}, local : Seq(Int), cursor : Int, draft : Int,
   active : BOOLEAN, nextToken : Nat, pending : Lookups \union {NothingPending}]

\* An outstanding lookup is for the entry after the one that is shown, and is
\* under way.
LookupInv ==
  /\ input \in Int /\ drafted \in Nat /\ answers \subseteq Lookups
  /\ history \in HistoryRecords /\ history.cursor >= -1
  /\ \A k \in DOMAIN history.persistent : history.persistent[k] \in Int
  /\ NavigationIsNotStuck
  /\ history.pending # NothingPending =>
       history.cursor + 1 = Len(history.local) + history.pending.offset

\* The pages on their way to the picker that is open.
OwnPages == {g \in pages : g.generation = picker.generation /\ g.kind = picker.kind}

PageRecords == [kind : {"session", "history"}, generation : Nat, cursor : {g.cursor : g \in pages}]

PickerRecords ==
  [kind : {"none", "session", "history"}, generation : Nat, loading : BOOLEAN,
   exhausted : BOOLEAN, cursor : {picker.cursor}, listed : {picker.listed}]

PickerInv ==
  /\ picker \in PickerRecords /\ pages \subseteq PageRecords
  /\ \A g \in pages : g.generation <= picker.generation
  /\ picker.loading => \E g \in pages : OwnPages = {g}
  /\ ~picker.loading => OwnPages = {}
  /\ picker.kind = "none" => ~picker.loading

LEMMA PickerStep ==
  ASSUME PickerInv, [HistoryNext]_historyVars
  PROVE  PickerInv'
<1>1. CASE UNCHANGED <<picker, pages>>
  BY <1>1 DEF PickerInv, PickerRecords, PageRecords, OwnPages
<1>2. ASSUME NEW kind \in {"session", "history"}, OpenPagedPicker(kind)
      PROVE  PickerInv'
  <2> DEFINE n == picker.generation + 1
             asked == [kind |-> kind, generation |-> n, cursor |-> 0]
  <2>1. /\ picker.generation \in Nat
        /\ picker' = [kind |-> kind, generation |-> n, loading |-> TRUE, exhausted |-> FALSE,
                      cursor |-> 0, listed |-> <<>>]
        /\ pages' = pages \union {asked}
    BY <1>2 DEF OpenPagedPicker, LoadPage, NoPicker, PickerInv, PickerRecords
  <2>2. \A g \in pages : g.kind \in {"session", "history"} /\ g.generation \in Nat
                         /\ g.generation < n /\ g \in [kind : {g.kind}, generation : {g.generation}, cursor : {g.cursor}]
    <3>1. \A g \in pages : g \in PageRecords /\ g.generation <= picker.generation
      BY DEF PickerInv
    <3>2. \A g \in pages : /\ g.kind \in {"session", "history"} /\ g.generation \in Nat
                           /\ g = [kind |-> g.kind, generation |-> g.generation, cursor |-> g.cursor]
      BY <3>1 DEF PageRecords
    <3>3. \A g \in pages : g.generation < n
      BY <2>1, <3>1, <3>2
    <3> QED BY <3>2, <3>3
  <2>3. OwnPages' = {asked}
    BY <2>1, <2>2 DEF OwnPages
  <2>4. pages' \subseteq PageRecords'
    BY <2>1, <2>2 DEF PageRecords
  <2>5. picker' \in PickerRecords'
    BY <2>1 DEF PickerRecords
  <2>6. \A g \in pages' : g.generation <= n
    BY <2>1, <2>2
  <2> QED BY <2>1, <2>3, <2>4, <2>5, <2>6 DEF PickerInv
<1>3. CASE NextPickerPage
  <2> DEFINE asked == [kind |-> picker.kind, generation |-> picker.generation,
                       cursor |-> picker.cursor]
  <2>1. /\ picker.kind \in {"session", "history"} /\ picker.generation \in Nat
        /\ picker' = [picker EXCEPT !.loading = TRUE] /\ pages' = pages \union {asked}
        /\ OwnPages = {}
    BY <1>3 DEF NextPickerPage, LoadPage, PickerInv, PickerRecords
  <2>2. /\ picker'.kind = picker.kind /\ picker'.generation = picker.generation
        /\ picker'.loading /\ picker' \in PickerRecords'
    BY <2>1 DEF PickerInv, PickerRecords
  <2>3. asked.kind = picker.kind /\ asked.generation = picker.generation
        /\ asked.cursor = picker.cursor
    OBVIOUS
  <2>4. pages' \subseteq PageRecords'
    <3>1. \A g \in pages : g.kind \in {"session", "history"} /\ g.generation \in Nat
                           /\ g \in [kind : {g.kind}, generation : {g.generation}, cursor : {g.cursor}]
      BY DEF PickerInv, PageRecords
    <3> QED BY <2>1, <3>1 DEF PageRecords
  <2> HIDE DEF asked
  <2>5. OwnPages' = {asked}
    BY <2>1, <2>2, <2>3 DEF OwnPages
  <2>6. \A g \in pages' : g.generation <= picker.generation
    BY <2>1, <2>3 DEF PickerInv
  <2> QED BY <2>1, <2>2, <2>4, <2>5, <2>6 DEF PickerInv
<1>4. ASSUME NEW g \in pages, NEW outcome \in {"found", "failed"}, ApplyPage(g, outcome)
      PROVE  PickerInv'
  <2>1. pages' = pages \ {g} /\ pages' \subseteq PageRecords'
    <3>1. \A f \in pages : f.kind \in {"session", "history"} /\ f.generation \in Nat
                           /\ f \in [kind : {f.kind}, generation : {f.generation}, cursor : {f.cursor}]
      BY DEF PickerInv, PageRecords
    <3>2. pages' = pages \ {g}
      BY <1>4 DEF ApplyPage
    <3> QED BY <3>1, <3>2 DEF PageRecords
  <2>2. CASE g \notin OwnPages
    <3>1. picker' = picker
      BY <1>4, <2>2 DEF ApplyPage, OwnPages
    <3>2. OwnPages' = OwnPages
      BY <2>1, <2>2, <3>1 DEF OwnPages
    <3>3. \A f \in OwnPages : f \in pages'
      BY <2>1, <2>2 DEF OwnPages
    <3> QED BY <2>1, <3>1, <3>2, <3>3 DEF PickerInv, PickerRecords
  <2>3. CASE g \in OwnPages
    <3> DEFINE last == IF g.cursor + RowsPerPage < StoredPrompts THEN g.cursor + RowsPerPage
                       ELSE StoredPrompts
               rows == SelectSeq([i \in 1..(last - g.cursor) |-> g.cursor + i],
                                 LAMBDA row : row \notin ToSet(picker.listed))
               listed == picker.listed \o rows
    <3>0. picker' = IF outcome = "failed"
                    THEN [picker EXCEPT !.loading = FALSE, !.exhausted = TRUE]
                    ELSE [picker EXCEPT !.loading = FALSE, !.listed = listed, !.cursor = last,
                                        !.exhausted = last = StoredPrompts]
      BY <1>4, <2>3 DEF ApplyPage, OwnPages
    <3> HIDE DEF last, rows, listed
    <3>1. picker \in PickerRecords
      BY DEF PickerInv
    <3>2. /\ picker'.kind = picker.kind /\ picker'.generation = picker.generation
          /\ ~picker'.loading /\ picker' \in PickerRecords'
      BY <3>0, <3>1 DEF PickerRecords
    <3>3. OwnPages' = {}
      BY <2>1, <2>3, <3>2 DEF OwnPages, PickerInv
    <3> QED BY <2>1, <3>2, <3>3 DEF PickerInv
  <2> QED BY <2>2, <2>3
<1>5. ASSUME NEW row, ClosePicker(row)
      PROVE  PickerInv'
  <2>1. picker' = NoPicker(picker.generation) /\ pages' = pages /\ picker.generation \in Nat
    BY <1>5 DEF ClosePicker, PickerInv, PickerRecords
  <2>2. /\ picker'.kind = "none" /\ picker'.generation = picker.generation
        /\ picker'.loading = FALSE /\ picker' \in PickerRecords'
    BY <2>1 DEF NoPicker, PickerRecords
  <2>3. OwnPages' = {}
    BY <2>1, <2>2 DEF OwnPages, PickerInv, PageRecords
  <2> QED BY <2>1, <2>2, <2>3 DEF PickerInv, PageRecords
<1> QED BY <1>1, <1>2, <1>3, <1>4, <1>5 DEF HistoryNext, historyVars, WriteDraft, PasteDraft,
      SubmitDraft, KeepDraft, OlderPrompt, NewerPrompt, InitializeHistory, Resolve

LEMMA ResetKeepsTypes ==
  ASSUME NEW h \in HistoryRecords
  PROVE  /\ ResetNavigation(h) \in HistoryRecords
         /\ ResetNavigation(h).cursor = -1 /\ ResetNavigation(h).pending = NothingPending
         /\ ResetNavigation(h).persistent = history.persistent
<1>1. h.persistent = history.persistent
  BY DEF HistoryRecords
<1>2. ResetNavigation(h) \in HistoryRecords
  <2>1. -1 \in Int /\ 0 \in Int /\ FALSE \in BOOLEAN
    OBVIOUS
  <2> QED BY <2>1 DEF ResetNavigation, HistoryRecords
<1>3. /\ ResetNavigation(h).cursor = -1 /\ ResetNavigation(h).pending = NothingPending
      /\ ResetNavigation(h).persistent = h.persistent
  BY DEF ResetNavigation, HistoryRecords
<1> QED BY <1>1, <1>2, <1>3

\* A step that ends with the navigation reset.
LEMMA ResetStep ==
  ASSUME LookupInv, NEW h \in HistoryRecords, history' = ResetNavigation(h),
         input' \in Int, drafted' \in Nat, answers' = answers
  PROVE  LookupInv'
<1>1. /\ history' \in HistoryRecords /\ history'.persistent = history.persistent
      /\ history'.cursor = -1 /\ history'.pending = NothingPending
  BY ResetKeepsTypes
<1>2. history' \in HistoryRecords'
  BY <1>1 DEF HistoryRecords
<1> QED BY <1>1, <1>2 DEF LookupInv, NavigationIsNotStuck

\* Showing an entry that is known.
LEMMA ShowStep ==
  ASSUME LookupInv, NEW h \in HistoryRecords, h.pending = NothingPending,
         NEW index \in Int, IsKnown(h, index), Show(h, index), drafted' = drafted
  PROVE  LookupInv'
<1>1. /\ history' \in HistoryRecords /\ history'.persistent = history.persistent
      /\ history'.cursor = index /\ history'.pending = NothingPending /\ index >= 0
  BY DEF Show, HistoryRecords, IsKnown
<1>2. history' \in HistoryRecords'
  BY <1>1 DEF HistoryRecords
<1>3. ValueAt(h, index) \in Int
  <2>1. h.local \in Seq(Int) /\ h.persistent = history.persistent
    BY DEF HistoryRecords
  <2>2. CASE index < Len(h.local)
    <3>1. Len(h.local) - index \in 1..Len(h.local)
      BY <1>1, <2>1, <2>2
    <3> QED BY <2>1, <2>2, <3>1 DEF ValueAt
  <2>3. CASE ~(index < Len(h.local))
    BY <2>1, <2>3 DEF ValueAt, IsKnown, LookupInv
  <2> QED BY <2>2, <2>3
<1>4. input' \in Int /\ answers' = answers
  BY <1>3 DEF Show
<1> QED BY <1>1, <1>2, <1>4 DEF LookupInv, NavigationIsNotStuck

LEMMA OlderStep ==
  ASSUME LookupInv, OlderPrompt
  PROVE  LookupInv'
<1> DEFINE h == IF history.active THEN history
                ELSE [history EXCEPT !.draft = input, !.cursor = -1, !.active = TRUE]
           target == h.cursor + 1
           lookup == [token |-> h.nextToken + 1, offset |-> target - Len(h.local)]
<1>1. /\ h \in HistoryRecords /\ h.cursor \in Int /\ h.cursor >= -1 /\ h.active
      /\ h.persistent = history.persistent /\ h.pending = history.pending
  <2>1. history \in HistoryRecords /\ history.cursor >= -1 /\ input \in Int
    BY DEF LookupInv
  <2>2. CASE history.active
    BY <2>1, <2>2 DEF HistoryRecords
  <2>3. CASE ~history.active
    <3>1. h = [history EXCEPT !.draft = input, !.cursor = -1, !.active = TRUE]
      BY <2>3
    <3>2. /\ h.cursor = -1 /\ h.active /\ h.persistent = history.persistent
          /\ h.pending = history.pending
      BY <2>1, <3>1 DEF HistoryRecords
    <3> HIDE DEF h
    <3>3. h \in HistoryRecords
      <4>1. input \in Int /\ -1 \in Int /\ TRUE \in BOOLEAN
        BY <2>1
      <4> QED BY <2>1, <3>1, <4>1 DEF HistoryRecords
    <3> QED BY <3>2, <3>3
  <2> QED BY <2>2, <2>3
<1>2. drafted' = drafted
  BY DEF OlderPrompt
<1>3. CASE FallThrough
  BY <1>2, <1>3, ResetStep DEF FallThrough, LookupInv
<1>4. ASSUME history.pending = NothingPending, NEW index \in Int, IsKnown(h, index), Show(h, index)
      PROVE  LookupInv'
  <2> HIDE DEF h
  <2> QED BY <1>1, <1>2, <1>4, ShowStep
<1>5. ASSUME ~IsKnown(h, target), history.pending = NothingPending,
             history' = [h EXCEPT !.nextToken = @ + 1, !.pending = lookup],
             answers' = answers \union {lookup}, input' = input
      PROVE  LookupInv'
  <2> HIDE DEF h
  <2>1. /\ h.local \in Seq(Int) /\ Len(h.local) \in Nat /\ h.nextToken \in Nat /\ target \in Nat
    BY <1>1 DEF HistoryRecords
  <2>2. target >= Len(h.local)
    BY <1>5, <2>1 DEF IsKnown
  <2>3. lookup.token = h.nextToken + 1 /\ lookup.offset = target - Len(h.local)
    OBVIOUS
  <2>4. lookup \in Lookups
    BY <2>1, <2>2 DEF Lookups
  <2> HIDE DEF lookup
  <2>5. /\ history' \in HistoryRecords /\ history'.cursor = h.cursor
        /\ history'.local = h.local /\ history'.pending = lookup /\ history'.active
        /\ history'.persistent = history.persistent
    <3>1. h.nextToken + 1 \in Nat /\ h.active = TRUE
      BY <1>1, <2>1 DEF HistoryRecords
    <3>2. history' = [h EXCEPT !.nextToken = h.nextToken + 1, !.pending = lookup]
      BY <1>5
    <3>3. history' \in HistoryRecords
      BY <1>1, <3>1, <3>2, <2>4 DEF HistoryRecords
    <3>4. /\ history'.cursor = h.cursor /\ history'.local = h.local /\ history'.pending = lookup
          /\ history'.active = h.active /\ history'.persistent = h.persistent
      BY <1>1, <3>2 DEF HistoryRecords
    <3> QED BY <1>1, <3>1, <3>3, <3>4
  <2>6. history' \in HistoryRecords'
    BY <2>5 DEF HistoryRecords
  <2>7. history'.cursor + 1 = Len(history'.local) + history'.pending.offset
    BY <1>1, <2>1, <2>3, <2>5
  <2> QED BY <1>1, <1>2, <1>5, <2>4, <2>5, <2>6, <2>7 DEF LookupInv, NavigationIsNotStuck
<1>6. \/ FallThrough
      \/ history.pending = NothingPending /\ IsKnown(h, h.cursor) /\ Show(h, h.cursor)
      \/ history.pending = NothingPending /\ IsKnown(h, target) /\ Show(h, target)
      \/ /\ ~IsKnown(h, target) /\ history.pending = NothingPending
         /\ history' = [h EXCEPT !.nextToken = @ + 1, !.pending = lookup]
         /\ answers' = answers \union {lookup} /\ input' = input
  BY DEF OlderPrompt
<1>7. target \in Int
  BY <1>1
<1> HIDE DEF h, target, lookup
<1> QED BY <1>1, <1>3, <1>4, <1>5, <1>6, <1>7

LEMMA NewerStep ==
  ASSUME LookupInv, NewerPrompt
  PROVE  LookupInv'
<1> DEFINE h == [history EXCEPT !.pending = NothingPending]
<1>1. /\ h \in HistoryRecords /\ h.cursor \in Int /\ h.pending = NothingPending /\ h.draft \in Int
  BY DEF LookupInv, HistoryRecords
<1>2. drafted' = drafted
  BY DEF NewerPrompt
<1>3. CASE FallThrough
  BY <1>2, <1>3, ResetStep DEF FallThrough, LookupInv
<1>4. \/ FallThrough
      \/ IsKnown(h, h.cursor - 1) /\ Show(h, h.cursor - 1)
      \/ input' = h.draft /\ history' = ResetNavigation(h) /\ answers' = answers
  BY DEF NewerPrompt
<1>5. h.cursor - 1 \in Int
  BY <1>1
<1> HIDE DEF h
<1>6. ASSUME input' = h.draft, history' = ResetNavigation(h), answers' = answers
      PROVE  LookupInv'
  BY <1>1, <1>2, <1>6, ResetStep DEF LookupInv
<1>7. ASSUME IsKnown(h, h.cursor - 1), Show(h, h.cursor - 1)
      PROVE  LookupInv'
  BY <1>1, <1>2, <1>5, <1>7, ShowStep
<1> QED BY <1>3, <1>4, <1>6, <1>7

LEMMA ResolveStep ==
  ASSUME LookupInv, NEW a \in answers, NEW outcome, Resolve(a, outcome)
  PROVE  LookupInv'
<1> DEFINE h == [history EXCEPT !.pending = NothingPending]
           place == Len(h.local) + history.pending.offset
           cached == Remember(h.persistent, history.pending.offset, StoredAt(a.offset))
<1>1. /\ history \in HistoryRecords /\ history.cursor >= -1 /\ answers \subseteq Lookups
      /\ input \in Int /\ drafted' = drafted /\ answers' = answers \ {a}
      /\ \A k \in DOMAIN history.persistent : history.persistent[k] \in Int
  BY DEF LookupInv, Resolve
<1>2. a.token \in Nat \ {0} /\ a.offset \in Nat /\ StoredAt(a.offset) \in Int
  BY <1>1 DEF Lookups, StoredAt
<1>3. CASE UNCHANGED <<history, input>> /\ history.pending.token # a.token
  <2>1. history.pending # a
    BY <1>3
  <2> QED BY <1>1, <1>3, <2>1 DEF LookupInv, HistoryRecords, NavigationIsNotStuck
<1>4. h \in HistoryRecords /\ h.cursor = history.cursor /\ h.pending = NothingPending
      /\ h.persistent = history.persistent /\ h.local = history.local
  BY <1>1 DEF HistoryRecords
<1>5. CASE history' = h /\ input' = input
  <2> HIDE DEF h
  <2>1. history' \in HistoryRecords'
    BY <1>4, <1>5 DEF HistoryRecords
  <2> QED BY <1>1, <1>4, <1>5, <2>1 DEF LookupInv, NavigationIsNotStuck
<1>6. CASE /\ history.pending.token = a.token
           /\ history' = [h EXCEPT !.persistent = cached, !.cursor = place, !.active = TRUE]
           /\ input' = StoredAt(a.offset)
  <2>1. history.pending \in Lookups
    BY <1>1, <1>2, <1>6 DEF HistoryRecords, NothingPending
  <2>2. history.pending.offset \in Nat /\ Len(h.local) \in Nat /\ place \in Nat
    BY <1>4, <2>1 DEF Lookups, HistoryRecords
  <2>3. \A k \in DOMAIN cached : cached[k] \in Int
    BY <1>1, <1>2, <1>4 DEF Remember
  <2> HIDE DEF h, place, cached
  <2>4. /\ history'.persistent = cached /\ history'.cursor = place
        /\ history'.pending = NothingPending
    BY <1>4, <1>6 DEF HistoryRecords
  <2>5. history' \in [count : Nat, persistent : {cached}, local : Seq(Int), cursor : Int,
                      draft : Int, active : BOOLEAN, nextToken : Nat,
                      pending : Lookups \union {NothingPending}]
    <3>1. place \in Int /\ TRUE \in BOOLEAN
      BY <2>2
    <3> QED BY <1>4, <1>6, <3>1 DEF HistoryRecords
  <2>6. history' \in HistoryRecords'
    BY <2>4, <2>5 DEF HistoryRecords
  <2> QED BY <1>1, <1>2, <1>6, <2>2, <2>3, <2>4, <2>6 DEF LookupInv, NavigationIsNotStuck
<1> QED BY <1>3, <1>5, <1>6 DEF Resolve

LEMMA LookupStep ==
  ASSUME LookupInv, [HistoryNext]_historyVars
  PROVE  LookupInv'
<1>1. CASE UNCHANGED <<input, drafted, history, answers>>
  BY <1>1 DEF LookupInv, HistoryRecords, NavigationIsNotStuck
<1>2. CASE WriteDraft
  BY <1>2, ResetStep DEF WriteDraft, LookupInv
<1>3. CASE PasteDraft
  BY <1>3 DEF PasteDraft, LookupInv, HistoryRecords, NavigationIsNotStuck
<1>4. CASE SubmitDraft
  <2>1. PICK h : h = IF history.local # <<>> /\ Last(history.local) = input THEN history
                     ELSE [history EXCEPT !.local = Append(@, input)]
    OBVIOUS
  <2>2. history \in HistoryRecords /\ Append(history.local, input) \in Seq(Int)
    BY DEF LookupInv, HistoryRecords
  <2>3. h \in HistoryRecords
    BY <2>1, <2>2 DEF HistoryRecords
  <2>4. history' = ResetNavigation(h) /\ input' = 0 /\ drafted' = drafted /\ answers' = answers
    BY <1>4, <2>1 DEF SubmitDraft, RecordPrompt
  <2> QED BY <2>3, <2>4, ResetStep DEF LookupInv
<1>5. CASE InitializeHistory
  <2>1. PICK h : h = [history EXCEPT !.count = StoredPrompts]
    OBVIOUS
  <2>2. h \in HistoryRecords
    BY <2>1, HistoryAssumption DEF LookupInv, HistoryRecords
  <2>3. history' = ResetNavigation(h) /\ input' = input /\ drafted' = drafted /\ answers' = answers
    BY <1>5, <2>1 DEF InitializeHistory
  <2> QED BY <2>2, <2>3, ResetStep DEF LookupInv
<1>6. ASSUME NEW row \in 0..StoredPrompts, ClosePicker(row)
      PROVE  LookupInv'
  <2>1. UNCHANGED <<drafted, history, answers>> /\ input' \in Int
    BY <1>6, HistoryAssumption DEF ClosePicker, StoredAt, LookupInv
  <2> QED BY <2>1 DEF LookupInv, HistoryRecords, NavigationIsNotStuck
<1>7. CASE KeepDraft
  BY <1>7, ResetStep DEF KeepDraft, FallThrough, LookupInv
<1> QED BY <1>1, <1>2, <1>3, <1>4, <1>5, <1>6, <1>7, OlderStep, NewerStep, ResolveStep
        DEF HistoryNext, historyVars, OpenPagedPicker, NextPickerPage, ApplyPage

LEMMA HistoryInitInv ==
  ASSUME HistoryInit
  PROVE  LookupInv /\ PickerInv
<1>1. history \in HistoryRecords /\ history.cursor = -1 /\ DOMAIN history.persistent = {}
      /\ history.pending = NothingPending
  BY DEF HistoryInit, HistoryRecords
<1>2. LookupInv
  BY <1>1 DEF HistoryInit, LookupInv, NavigationIsNotStuck
<1>3. PickerInv
  BY DEF HistoryInit, NoPicker, PickerInv, PickerRecords, OwnPages
<1> QED BY <1>2, <1>3

\* What the navigation and the pickers wait for is under way.
THEOREM HistoryCorrect == HistorySpec => [](LookupInv /\ PickerInv)
<1>1. HistoryInit => LookupInv /\ PickerInv
  BY HistoryInitInv
<1> QED BY <1>1, LookupStep, PickerStep, PTL DEF HistorySpec

\* An answer that comes late, or never, leaves neither the prompt history nor a
\* picker waiting for something that is not under way (older, resolve,
\* pickerGeneration, pickerPage.loading).
THEOREM LateAnswersAreHarmlessCorrect == HistorySpec => []LateAnswersAreHarmless
<1>1. LookupInv /\ PickerInv => LateAnswersAreHarmless
  <2> SUFFICES ASSUME LookupInv, PickerInv
               PROVE  LateAnswersAreHarmless
    OBVIOUS
  <2>1. NavigationIsNotStuck
    BY DEF LookupInv
  <2>2. Cardinality(OwnPages) = IF picker.loading THEN 1 ELSE 0
    BY FS_Singleton, FS_EmptySet DEF PickerInv
  <2> QED BY <2>1, <2>2 DEF LateAnswersAreHarmless, PickerLoadsOnePage, OwnPages
<1> QED BY <1>1, HistoryCorrect, PTL

\* An answer moves the prompt history by one entry, to the one after the entry
\* that was shown when it was asked for, and shows what is stored there
\* (resolve: the pinned snapshot's offset against the prompts of this process).
THEOREM LookupsStepByOneCorrect == HistorySpec => LookupsStepByOne
<1> DEFINE OneStep == \A a \in answers \ answers' :
                        input' # input /\ history'.cursor # history.cursor =>
                          /\ history'.cursor = history.cursor + 1
                          /\ input' = ValueAt(history', history'.cursor)
<1>1. LookupInv /\ [HistoryNext]_historyVars => [OneStep]_historyVars
  <2> SUFFICES ASSUME LookupInv, HistoryNext, NEW b \in answers \ answers',
                      input' # input, history'.cursor # history.cursor
               PROVE  /\ history'.cursor = history.cursor + 1
                      /\ input' = ValueAt(history', history'.cursor)
    BY DEF historyVars
  <2>1. PICK a \in answers, outcome \in {"found", "failed"} : Resolve(a, outcome)
    BY DEF HistoryNext, WriteDraft, PasteDraft, SubmitDraft, KeepDraft, OlderPrompt, NewerPrompt,
           InitializeHistory, FallThrough, Show, OpenPagedPicker, NextPickerPage, LoadPage,
           ApplyPage, ClosePicker
  <2> DEFINE h == [history EXCEPT !.pending = NothingPending]
             place == Len(h.local) + history.pending.offset
             cached == Remember(h.persistent, history.pending.offset, StoredAt(a.offset))
  <2>2. /\ history \in HistoryRecords /\ answers \subseteq Lookups
    BY DEF LookupInv
  <2>3. h \in HistoryRecords /\ h.local = history.local
    BY <2>2 DEF HistoryRecords
  <2>4. /\ history.pending.token = a.token
        /\ history' = [h EXCEPT !.persistent = cached, !.cursor = place, !.active = TRUE]
        /\ input' = StoredAt(a.offset)
    BY <2>1 DEF Resolve
  <2>5. history.pending \in Lookups /\ history.pending # NothingPending
    BY <2>2, <2>4 DEF HistoryRecords, NothingPending, Lookups
  <2>6. /\ history.pending.offset \in Nat /\ Len(h.local) \in Nat
        /\ place = history.cursor + 1
    BY <2>2, <2>3, <2>5 DEF LookupInv, Lookups, HistoryRecords
  <2>7. cached[history.pending.offset] = StoredAt(a.offset)
    BY DEF Remember
  <2> HIDE DEF h, cached
  <2>8. /\ history'.cursor = place /\ history'.persistent = cached
        /\ history'.local = h.local
    BY <2>3, <2>4 DEF HistoryRecords
  <2>9. ValueAt(history', place) = cached[history.pending.offset]
    BY <2>6, <2>8 DEF ValueAt
  <2> QED BY <2>4, <2>6, <2>7, <2>8, <2>9
<1> QED BY <1>1, HistoryCorrect, PTL DEF HistorySpec, LookupsStepByOne

-----------------------------------------------------------------------------
(* What the terminal reads: types.                                         *)

\* What the composer may hold: nothing, a draft or a stored prompt.
Written == -StoredPrompts .. MaxWritten

\* The entries and the place of a history.
HistoryOK(h) ==
  /\ h.draft \in Written /\ h.count \in {0, StoredPrompts}
  /\ h.cursor < Len(h.local) + h.count
  /\ DOMAIN h.persistent \subseteq 0 .. (h.count - 1)
  /\ \A k \in DOMAIN h.persistent : h.persistent[k] = StoredAt(k)
  /\ h.local \in Seq(Written)
  /\ h.nextToken <= MaxLookups
  /\ h.pending # NothingPending => h.pending.offset < h.count

\* No two lookups have the same token, and the next has another one.
AnswersOK ==
  /\ \A a \in answers : a.token <= history.nextToken
  /\ \A a, b \in answers : a.token = b.token => a = b

HistoryBounds ==
  /\ HistoryOK(history) /\ AnswersOK
  /\ drafted <= MaxWritten /\ input \in Written

HistoryTypes == LookupInv /\ PickerInv /\ HistoryBounds /\ picker.generation <= MaxPickers

LEMMA SomeWritten ==
  /\ StoredPrompts \in Nat /\ MaxWritten \in Nat /\ MaxLookups \in Nat /\ MaxPickers \in Nat
  /\ 0 \in Written /\ \A n \in 1 .. MaxWritten : n \in Written
  /\ \A k \in 0 .. (StoredPrompts - 1) : StoredAt(k) \in Written
BY HistoryAssumption DEF Written, StoredAt

LEMMA ResetOK ==
  ASSUME NEW h \in HistoryRecords, HistoryOK(h)
  PROVE  HistoryOK(ResetNavigation(h)) /\ ResetNavigation(h).nextToken = h.nextToken
<1>1. PICK r : r = ResetNavigation(h)
  OBVIOUS
<1>2. /\ r.draft = 0 /\ r.count = h.count /\ r.cursor = -1 /\ r.local = h.local
      /\ r.persistent = h.persistent /\ r.nextToken = h.nextToken /\ r.pending = NothingPending
  BY <1>1 DEF ResetNavigation, HistoryRecords
<1>3. Len(h.local) \in Nat /\ h.count \in Nat
  BY DEF HistoryRecords
<1>4. HistoryOK(r)
  BY <1>2, <1>3, SomeWritten DEF HistoryOK
<1> QED BY <1>1, <1>2, <1>4

LEMMA KnownOK ==
  ASSUME NEW h \in HistoryRecords, HistoryOK(h), NEW index \in Int, IsKnown(h, index)
  PROVE  ValueAt(h, index) \in Written /\ index < Len(h.local) + h.count
<1>1. index >= 0 /\ Len(h.local) \in Nat /\ h.count \in Nat /\ StoredPrompts \in Nat
      /\ h.local \in Seq(Written) /\ h.count <= StoredPrompts
  BY SomeWritten DEF IsKnown, HistoryRecords, HistoryOK
<1>2. CASE index < Len(h.local)
  <2>1. Len(h.local) - index \in 1 .. Len(h.local)
    BY <1>1, <1>2
  <2> QED BY <1>1, <1>2, <2>1 DEF ValueAt
<1>3. CASE ~(index < Len(h.local))
  <2>1. PICK k : k = index - Len(h.local)
    OBVIOUS
  <2>2. k \in DOMAIN h.persistent /\ k \in 0 .. (h.count - 1) /\ h.persistent[k] = StoredAt(k)
    BY <1>3, <2>1 DEF IsKnown, HistoryOK
  <2>3. ValueAt(h, index) = h.persistent[k]
    BY <1>3, <2>1 DEF ValueAt
  <2>4. k \in 0 .. (StoredPrompts - 1)
    BY <1>1, <2>2
  <2> QED BY <1>1, <2>1, <2>2, <2>3, <2>4, SomeWritten
<1> QED BY <1>2, <1>3

LEMMA ShowOK ==
  ASSUME NEW h \in HistoryRecords, HistoryOK(h), NEW index \in Int, IsKnown(h, index),
         Show(h, index)
  PROVE  /\ HistoryOK(history') /\ input' \in Written /\ answers' = answers
         /\ history'.nextToken = h.nextToken
<1>1. PICK r : r = [h EXCEPT !.cursor = index]
  OBVIOUS
<1>2. /\ r.draft = h.draft /\ r.count = h.count /\ r.cursor = index /\ r.local = h.local
      /\ r.persistent = h.persistent /\ r.nextToken = h.nextToken /\ r.pending = h.pending
  BY <1>1 DEF HistoryRecords
<1>3. HistoryOK(r)
  BY <1>2, KnownOK DEF HistoryOK
<1>4. history' = r /\ input' = ValueAt(h, index) /\ answers' = answers
  BY <1>1 DEF Show
<1> QED BY <1>2, <1>3, <1>4, KnownOK

\* A step that ends with the navigation reset, or shows an entry.
LEMMA SettledOK ==
  ASSUME HistoryTypes, NEW h \in HistoryRecords, HistoryOK(h), h.nextToken = history.nextToken,
         UNCHANGED <<drafted, picker>>,
         \/ history' = ResetNavigation(h) /\ answers' = answers /\ input' \in {input, h.draft, 0}
         \/ \E index \in Int : IsKnown(h, index) /\ Show(h, index)
  PROVE  HistoryBounds'
<1>1. /\ HistoryOK(history') /\ input' \in Written /\ answers' = answers
      /\ history'.nextToken = history.nextToken
  <2>1. CASE history' = ResetNavigation(h) /\ answers' = answers /\ input' \in {input, h.draft, 0}
    <3>1. input \in Written /\ h.draft \in Written /\ 0 \in Written
      BY SomeWritten DEF HistoryTypes, HistoryBounds, HistoryOK
    <3> QED BY <2>1, <3>1, ResetOK
  <2>2. CASE \E index \in Int : IsKnown(h, index) /\ Show(h, index)
    BY <2>2, ShowOK
  <2> QED BY <2>1, <2>2
<1> QED BY <1>1 DEF HistoryTypes, HistoryBounds, AnswersOK, HistoryOK

LEMMA OlderTypes ==
  ASSUME HistoryTypes, OlderPrompt
  PROVE  HistoryBounds'
<1> DEFINE h == IF history.active THEN history
                ELSE [history EXCEPT !.draft = input, !.cursor = -1, !.active = TRUE]
           target == h.cursor + 1
           lookup == [token |-> h.nextToken + 1, offset |-> target - Len(h.local)]
<1>1. /\ h \in HistoryRecords /\ HistoryOK(h) /\ h.cursor >= -1
      /\ h.nextToken = history.nextToken
  <2>1. /\ history \in HistoryRecords /\ history.cursor >= -1 /\ input \in Int
        /\ HistoryOK(history) /\ input \in Written
    BY DEF HistoryTypes, LookupInv, HistoryBounds
  <2>2. CASE history.active
    BY <2>1, <2>2
  <2>3. CASE ~history.active
    <3>1. h = [history EXCEPT !.draft = input, !.cursor = -1, !.active = TRUE]
      BY <2>3
    <3> HIDE DEF h
    <3>2. h \in HistoryRecords
      <4>1. -1 \in Int /\ TRUE \in BOOLEAN
        OBVIOUS
      <4> QED BY <2>1, <3>1, <4>1 DEF HistoryRecords
    <3>3. /\ h.draft = input /\ h.cursor = -1 /\ h.count = history.count
          /\ h.local = history.local /\ h.persistent = history.persistent
          /\ h.nextToken = history.nextToken /\ h.pending = history.pending
      BY <2>1, <3>1 DEF HistoryRecords
    <3>4. Len(h.local) \in Nat /\ h.count \in Nat
      BY <3>2 DEF HistoryRecords
    <3>5. HistoryOK(h)
      BY <2>1, <3>3, <3>4 DEF HistoryOK
    <3> QED BY <3>2, <3>3, <3>5
  <2> QED BY <2>2, <2>3
<1>2. /\ UNCHANGED <<drafted, picker>>
      /\ \/ FallThrough
         \/ IsKnown(h, h.cursor) /\ Show(h, h.cursor)
         \/ IsKnown(h, target) /\ Show(h, target)
         \/ /\ ~IsKnown(h, target) /\ h.nextToken < MaxLookups /\ target < Len(h.local) + h.count
            /\ history' = [h EXCEPT !.nextToken = @ + 1, !.pending = lookup]
            /\ answers' = answers \union {lookup} /\ input' = input
  <2> HIDE DEF h
  <2>1. Len(h.local) \in Nat /\ h.count \in Nat /\ target \in Int
    BY <1>1 DEF HistoryRecords
  <2> HIDE DEF target
  <2> QED BY <2>1 DEF OlderPrompt, h, target
<1>3. h.cursor \in Int /\ target \in Int
  BY <1>1 DEF HistoryRecords
<1>4. CASE FallThrough
  BY <1>2, <1>4, SettledOK DEF FallThrough, HistoryTypes, LookupInv, HistoryBounds
<1>5. ASSUME NEW index \in Int, IsKnown(h, index), Show(h, index)
      PROVE  HistoryBounds'
  <2> HIDE DEF h
  <2> QED BY <1>1, <1>2, <1>5, SettledOK
<1>6. ASSUME h.nextToken < MaxLookups, target < Len(h.local) + h.count,
             history' = [h EXCEPT !.nextToken = @ + 1, !.pending = lookup],
             answers' = answers \union {lookup}, input' = input
      PROVE  HistoryBounds'
  <2>1. lookup.token = h.nextToken + 1 /\ lookup.offset = target - Len(h.local)
    OBVIOUS
  <2> HIDE DEF h
  <2>2. Len(h.local) \in Nat /\ h.count \in Nat /\ h.nextToken \in Nat
    BY <1>1 DEF HistoryRecords
  <2> HIDE DEF target, lookup
  <2>3. /\ history'.draft = h.draft /\ history'.cursor = h.cursor /\ history'.count = h.count
        /\ history'.local = h.local /\ history'.persistent = h.persistent
        /\ history'.nextToken = h.nextToken + 1 /\ history'.pending = lookup
    BY <1>1, <1>6 DEF HistoryRecords
  <2>4. lookup.offset < h.count /\ h.nextToken + 1 <= MaxLookups
    BY <1>3, <1>6, <2>1, <2>2, SomeWritten
  <2>5. HistoryOK(history')
    BY <1>1, <2>3, <2>4 DEF HistoryOK
  <2>6. AnswersOK'
    <3>1. \A a \in answers : a.token \in Nat /\ a.token <= h.nextToken
      BY <1>1 DEF HistoryTypes, HistoryBounds, AnswersOK, LookupInv, Lookups
    <3>2. \A a, b \in answers : a.token = b.token => a = b
      BY DEF HistoryTypes, HistoryBounds, AnswersOK
    <3> QED BY <1>6, <2>1, <2>2, <2>3, <3>1, <3>2 DEF AnswersOK
  <2> QED BY <1>2, <1>6, <2>5, <2>6 DEF HistoryTypes, HistoryBounds
<1> HIDE DEF h, target, lookup
<1> QED BY <1>2, <1>3, <1>4, <1>5, <1>6

LEMMA NewerTypes ==
  ASSUME HistoryTypes, NewerPrompt
  PROVE  HistoryBounds'
<1>1. PICK h : h = [history EXCEPT !.pending = NothingPending]
  OBVIOUS
<1>2. /\ h \in HistoryRecords /\ HistoryOK(h) /\ h.nextToken = history.nextToken /\ h.cursor \in Int
  <2>1. history \in HistoryRecords /\ HistoryOK(history)
    BY DEF HistoryTypes, LookupInv, HistoryBounds
  <2>2. h \in HistoryRecords /\ h.cursor \in Int
    BY <1>1, <2>1 DEF HistoryRecords
  <2>3. /\ h.draft = history.draft /\ h.cursor = history.cursor /\ h.count = history.count
        /\ h.local = history.local /\ h.persistent = history.persistent
        /\ h.nextToken = history.nextToken /\ h.pending = NothingPending
    BY <1>1, <2>1 DEF HistoryRecords
  <2> QED BY <2>1, <2>2, <2>3 DEF HistoryOK
<1>3. /\ UNCHANGED <<drafted, picker>>
      /\ \/ FallThrough
         \/ IsKnown(h, h.cursor - 1) /\ Show(h, h.cursor - 1)
         \/ input' = h.draft /\ history' = ResetNavigation(h) /\ answers' = answers
  BY <1>1 DEF NewerPrompt
<1>4. CASE FallThrough
  BY <1>3, <1>4, SettledOK DEF FallThrough, HistoryTypes, LookupInv, HistoryBounds
<1>5. h.cursor - 1 \in Int
  BY <1>2
<1> QED BY <1>2, <1>3, <1>4, <1>5, SettledOK

LEMMA ResolveTypes ==
  ASSUME HistoryTypes, NEW a \in answers, NEW outcome, Resolve(a, outcome)
  PROVE  HistoryBounds'
<1>1. PICK h : h = [history EXCEPT !.pending = NothingPending]
  OBVIOUS
<1>2. /\ history \in HistoryRecords /\ HistoryOK(history) /\ AnswersOK
      /\ drafted <= MaxWritten /\ input \in Written /\ answers \subseteq Lookups
      /\ answers' = answers \ {a} /\ UNCHANGED <<drafted, picker>>
  BY DEF HistoryTypes, LookupInv, HistoryBounds, Resolve
<1>3. /\ h.draft = history.draft /\ h.cursor = history.cursor /\ h.count = history.count
      /\ h.local = history.local /\ h.persistent = history.persistent
      /\ h.nextToken = history.nextToken /\ h.pending = NothingPending
      /\ h \in HistoryRecords /\ HistoryOK(h)
  <2>1. h \in HistoryRecords
    BY <1>1, <1>2 DEF HistoryRecords
  <2>2. /\ h.draft = history.draft /\ h.cursor = history.cursor /\ h.count = history.count
        /\ h.local = history.local /\ h.persistent = history.persistent
        /\ h.nextToken = history.nextToken /\ h.pending = NothingPending
    BY <1>1, <1>2 DEF HistoryRecords
  <2> QED BY <1>2, <2>1, <2>2 DEF HistoryOK
<1>4. CASE history' \in {history, h} /\ input' = input
  BY <1>2, <1>3, <1>4 DEF HistoryBounds, AnswersOK
<1>5. CASE /\ history.pending.token = a.token
           /\ history' = [h EXCEPT !.persistent = Remember(@, history.pending.offset, StoredAt(a.offset)),
                                   !.cursor = Len(h.local) + history.pending.offset, !.active = TRUE]
           /\ input' = StoredAt(a.offset)
  <2>1. history.pending \in answers /\ history.pending = a
    <3>1. a.token # 0 /\ NothingPending.token = 0
      BY <1>2 DEF Lookups, NothingPending
    <3>2. history.pending \in answers
      BY <1>5, <3>1 DEF HistoryTypes, LookupInv, NavigationIsNotStuck
    <3> QED BY <1>2, <1>5, <3>2 DEF AnswersOK
  <2>2. PICK k : k = a.offset
    OBVIOUS
  <2>3. history.pending # NothingPending
    BY <1>2, <2>1 DEF Lookups, NothingPending
  <2>4. /\ k \in Nat /\ k < h.count /\ h.count \in Nat /\ h.count <= StoredPrompts
        /\ Len(h.local) \in Nat /\ StoredPrompts \in Nat
    BY <1>2, <1>3, <2>1, <2>2, <2>3, SomeWritten DEF HistoryOK, Lookups, HistoryRecords
  <2>5. k \in 0 .. (h.count - 1) /\ StoredAt(k) \in Written
    <3>1. k \in 0 .. (h.count - 1) /\ k \in 0 .. (StoredPrompts - 1)
      BY <2>4
    <3> QED BY <3>1, SomeWritten
  <2>6. PICK cached : cached = Remember(h.persistent, k, StoredAt(k))
    OBVIOUS
  <2>7. /\ DOMAIN cached \subseteq 0 .. (h.count - 1)
        /\ \A i \in DOMAIN cached : cached[i] = StoredAt(i)
    BY <1>3, <2>5, <2>6 DEF HistoryOK, Remember
  <2>8. history' = [h EXCEPT !.persistent = cached, !.cursor = Len(h.local) + k, !.active = TRUE]
    BY <1>3, <1>5, <2>1, <2>2, <2>6
  <2>9. /\ history'.draft = h.draft /\ history'.cursor = Len(h.local) + k /\ history'.count = h.count
        /\ history'.local = h.local /\ history'.persistent = cached
        /\ history'.nextToken = h.nextToken /\ history'.pending = NothingPending
    BY <1>3, <2>8 DEF HistoryRecords
  <2>10. HistoryOK(history')
    BY <1>3, <2>4, <2>7, <2>9 DEF HistoryOK
  <2>11. AnswersOK'
    BY <1>2, <1>3, <2>9 DEF AnswersOK
  <2> QED BY <1>2, <1>5, <2>2, <2>5, <2>10, <2>11 DEF HistoryBounds
<1> QED BY <1>1, <1>4, <1>5 DEF Resolve

LEMMA SubmitTypes ==
  ASSUME HistoryTypes, SubmitDraft
  PROVE  HistoryBounds'
<1>1. PICK h : h = IF history.local # <<>> /\ Last(history.local) = input THEN history
                   ELSE [history EXCEPT !.local = Append(@, input)]
  OBVIOUS
<1>2. /\ history \in HistoryRecords /\ HistoryOK(history) /\ input \in Int /\ input \in Written
  BY DEF HistoryTypes, LookupInv, HistoryBounds
<1>3. h \in HistoryRecords /\ HistoryOK(h) /\ h.nextToken = history.nextToken
  <2>1. CASE h = history
    BY <1>2, <2>1
  <2>2. CASE h = [history EXCEPT !.local = Append(@, input)]
    <3>1. PICK more : more = Append(history.local, input)
      OBVIOUS
    <3>2. /\ more \in Seq(Int) /\ more \in Seq(Written) /\ Len(more) = Len(history.local) + 1
          /\ Len(history.local) \in Nat
      <4>1. history.local \in Seq(Int) /\ history.local \in Seq(Written)
        BY <1>2 DEF HistoryRecords, HistoryOK
      <4> QED BY <1>2, <3>1, <4>1, AppendProperties
    <3>3. h = [history EXCEPT !.local = more]
      BY <2>2, <3>1
    <3>4. /\ h.draft = history.draft /\ h.cursor = history.cursor /\ h.count = history.count
          /\ h.local = more /\ h.persistent = history.persistent
          /\ h.nextToken = history.nextToken /\ h.pending = history.pending
          /\ h \in HistoryRecords /\ history.cursor \in Int /\ history.count \in Nat
      BY <1>2, <3>2, <3>3 DEF HistoryRecords
    <3>5. HistoryOK(h)
      BY <1>2, <3>2, <3>4 DEF HistoryOK
    <3> QED BY <3>4, <3>5
  <2> QED BY <1>1, <2>1, <2>2
<1>4. /\ UNCHANGED <<drafted, picker, answers>> /\ input' = 0 /\ history' = ResetNavigation(h)
  BY <1>1 DEF SubmitDraft, RecordPrompt
<1> QED BY <1>3, <1>4, SettledOK

LEMMA InitializeTypes ==
  ASSUME HistoryTypes, InitializeHistory
  PROVE  HistoryBounds'
<1>1. PICK h : h = [history EXCEPT !.count = StoredPrompts]
  OBVIOUS
<1>2. /\ history \in HistoryRecords /\ HistoryOK(history) /\ history.count = 0
  BY DEF HistoryTypes, LookupInv, HistoryBounds, InitializeHistory
<1>3. /\ h.draft = history.draft /\ h.cursor = history.cursor /\ h.count = StoredPrompts
      /\ h.local = history.local /\ h.persistent = history.persistent
      /\ h.nextToken = history.nextToken /\ h.pending = history.pending
      /\ h \in HistoryRecords /\ history.cursor \in Int /\ Len(history.local) \in Nat
  <2>1. StoredPrompts \in Nat
    BY SomeWritten
  <2>2. history.cursor \in Int /\ history.local \in Seq(Int)
    BY <1>2 DEF HistoryRecords
  <2>3. h \in HistoryRecords /\ h.count = StoredPrompts
    BY <1>1, <1>2, <2>1 DEF HistoryRecords
  <2>4. /\ h.draft = history.draft /\ h.cursor = history.cursor
        /\ h.local = history.local /\ h.persistent = history.persistent
        /\ h.nextToken = history.nextToken /\ h.pending = history.pending
    BY <1>1, <1>2 DEF HistoryRecords
  <2> QED BY <2>2, <2>3, <2>4
<1>4. HistoryOK(h)
  <2>1. history.pending = NothingPending
    <3>1. history.pending # NothingPending => history.pending.offset \in Nat
      BY <1>2 DEF HistoryRecords, Lookups
    <3> QED BY <1>2, <3>1 DEF HistoryOK
  <2> QED BY <1>2, <1>3, <2>1, SomeWritten DEF HistoryOK
<1>5. UNCHANGED <<drafted, picker, answers, input>> /\ history' = ResetNavigation(h)
  BY <1>1 DEF InitializeHistory
<1> QED BY <1>3, <1>4, <1>5, SettledOK

LEMMA HistoryTypesStep ==
  ASSUME HistoryTypes, [HistoryNext]_historyVars
  PROVE  HistoryTypes'
<1>1. LookupInv' /\ PickerInv'
  BY LookupStep, PickerStep DEF HistoryTypes
<1>2. /\ history \in HistoryRecords /\ HistoryOK(history) /\ AnswersOK /\ drafted \in Nat
      /\ drafted <= MaxWritten /\ input \in Written /\ picker.generation <= MaxPickers
  BY DEF HistoryTypes, LookupInv, HistoryBounds
<1>3. CASE UNCHANGED <<input, drafted, history, answers>> /\ picker'.generation <= MaxPickers
  BY <1>1, <1>2, <1>3 DEF HistoryTypes, HistoryBounds, AnswersOK
<1>4. CASE WriteDraft \/ PasteDraft
  <2>1. /\ drafted' = drafted + 1 /\ input' = drafted + 1 /\ drafted < MaxWritten
        /\ UNCHANGED <<answers, picker>> /\ history' \in {history, ResetNavigation(history)}
    BY <1>4 DEF WriteDraft, PasteDraft
  <2>2. drafted + 1 \in 1 .. MaxWritten
    BY <1>2, <2>1, SomeWritten
  <2>3. drafted' <= MaxWritten /\ input' \in Written
    BY <2>1, <2>2, SomeWritten
  <2>4. HistoryOK(history') /\ history'.nextToken = history.nextToken
    BY <1>2, <2>1, ResetOK
  <2> QED BY <1>1, <1>2, <2>1, <2>3, <2>4 DEF HistoryTypes, HistoryBounds, AnswersOK
<1>5. CASE SubmitDraft \/ OlderPrompt \/ NewerPrompt \/ InitializeHistory
  <2>1. picker' = picker
    BY <1>5 DEF SubmitDraft, OlderPrompt, NewerPrompt, InitializeHistory
  <2> QED BY <1>1, <1>2, <1>5, <2>1, SubmitTypes, OlderTypes, NewerTypes, InitializeTypes
          DEF HistoryTypes
<1>6. ASSUME NEW a \in answers, NEW outcome, Resolve(a, outcome)
      PROVE  HistoryTypes'
  <2>1. picker' = picker
    BY <1>6 DEF Resolve
  <2> QED BY <1>1, <1>2, <1>6, <2>1, ResolveTypes DEF HistoryTypes
<1>7. ASSUME NEW kind \in {"session", "history"}, OpenPagedPicker(kind)
      PROVE  HistoryTypes'
  <2>1. /\ picker.generation \in Nat /\ picker.generation < MaxPickers
        /\ picker'.generation = picker.generation + 1
        /\ UNCHANGED <<input, drafted, history, answers>>
    BY <1>7 DEF OpenPagedPicker, LoadPage, NoPicker, HistoryTypes, PickerInv, PickerRecords
  <2>2. picker'.generation <= MaxPickers
    BY <2>1, SomeWritten
  <2> QED BY <1>3, <2>1, <2>2
<1>8. CASE NextPickerPage
  <2>1. picker'.generation = picker.generation /\ UNCHANGED <<input, drafted, history, answers>>
    BY <1>8 DEF NextPickerPage, LoadPage, HistoryTypes, PickerInv, PickerRecords
  <2> QED BY <1>2, <1>3, <2>1
<1>9. ASSUME NEW g \in pages, NEW outcome, ApplyPage(g, outcome)
      PROVE  HistoryTypes'
  <2>1. PICK last, listed :
          \/ picker' = picker
          \/ picker' = [picker EXCEPT !.loading = FALSE, !.exhausted = TRUE]
          \/ picker' = [picker EXCEPT !.loading = FALSE, !.listed = listed, !.cursor = last,
                                     !.exhausted = last = StoredPrompts]
    BY <1>9, Zenon DEF ApplyPage
  <2>2. UNCHANGED <<input, drafted, history, answers>>
    BY <1>9 DEF ApplyPage
  <2>3. picker \in PickerRecords
    BY DEF HistoryTypes, PickerInv
  <2>4. picker'.generation = picker.generation
    BY <2>1, <2>3 DEF PickerRecords
  <2> QED BY <1>2, <1>3, <2>2, <2>4
<1>10. ASSUME NEW row \in 0 .. StoredPrompts, ClosePicker(row)
       PROVE  HistoryTypes'
  <2>1. picker'.generation = picker.generation /\ UNCHANGED <<drafted, history, answers>>
        /\ input' \in {input, IF row > 0 THEN StoredAt(row - 1) ELSE input}
    BY <1>10 DEF ClosePicker, NoPicker
  <2>2. input' \in Written
    <3>1. StoredPrompts \in Nat
      BY SomeWritten
    <3>2. row > 0 => row - 1 \in 0 .. (StoredPrompts - 1)
      BY <3>1
    <3> QED BY <1>2, <2>1, <3>2, SomeWritten
  <2> QED BY <1>1, <1>2, <2>1, <2>2 DEF HistoryTypes, HistoryBounds, AnswersOK
<1>11. CASE UNCHANGED historyVars
  BY <1>2, <1>3, <1>11 DEF historyVars
<1>12. CASE KeepDraft
  <2>1. UNCHANGED <<drafted, picker, answers, input>> /\ history' = ResetNavigation(history)
    BY <1>12 DEF KeepDraft, FallThrough
  <2> QED BY <1>1, <1>2, <2>1, SettledOK DEF HistoryTypes
<1> QED BY <1>4, <1>5, <1>6, <1>7, <1>8, <1>9, <1>10, <1>11, <1>12 DEF HistoryNext

LEMMA HistoryTypesInit ==
  ASSUME HistoryInit
  PROVE  HistoryTypes
<1>1. LookupInv /\ PickerInv
  BY HistoryInitInv
<1>2. HistoryOK(history)
  <2>1. <<>> \in Seq(Written) /\ Len(<<>>) = 0
    OBVIOUS
  <2> QED BY <2>1, SomeWritten DEF HistoryInit, HistoryOK
<1> QED BY <1>1, <1>2, SomeWritten DEF HistoryInit, HistoryTypes, HistoryBounds, AnswersOK, NoPicker

LEMMA HistoryIsTyped ==
  ASSUME HistoryTypes
  PROVE  HistoryTypeOK
<1>1. /\ history \in HistoryRecords /\ HistoryOK(history) /\ history.cursor >= -1
      /\ input \in Written /\ picker.generation <= MaxPickers
      /\ picker.generation \in Nat /\ picker.kind \in {"none", "session", "history"}
  BY DEF HistoryTypes, LookupInv, HistoryBounds, PickerInv, PickerRecords
<1>2. /\ history.count \in 0 .. StoredPrompts /\ Len(history.local) \in Nat
      /\ history.cursor \in Int /\ history.nextToken \in Nat
  BY <1>1, SomeWritten DEF HistoryRecords, HistoryOK
<1>3. history.cursor \in -1 .. (Len(history.local) + history.count - 1)
  BY <1>1, <1>2 DEF HistoryOK
<1>4. DOMAIN history.persistent \subseteq 0 .. (StoredPrompts - 1)
  <2>1. \A k \in 0 .. (history.count - 1) : k \in 0 .. (StoredPrompts - 1)
    BY <1>2, SomeWritten
  <2> QED BY <1>1, <2>1 DEF HistoryOK
<1>5. history.nextToken \in 0 .. MaxLookups /\ picker.generation \in 0 .. MaxPickers
  BY <1>1, <1>2, SomeWritten DEF HistoryOK
<1> QED BY <1>1, <1>3, <1>4, <1>5 DEF HistoryTypeOK, HistoryOK, Written

\* The cursor names an entry there is and every cached prompt is the one stored
\* at its offset, however many lookups are outstanding, fail or are answered
\* late: an answer is kept only for the offset that was asked for (older,
\* resolve, promptLookupMsg).
THEOREM HistoryTypeCorrect == HistorySpec => []HistoryTypeOK
<1>1. HistoryInit => HistoryTypes
  BY HistoryTypesInit
<1>2. HistoryTypes /\ [HistoryNext]_historyVars => HistoryTypes'
  BY HistoryTypesStep
<1>3. HistoryTypes => HistoryTypeOK
  BY HistoryIsTyped
<1> QED BY <1>1, <1>2, <1>3, PTL DEF HistorySpec

-----------------------------------------------------------------------------
(* The graph of one turn.                                                  *)

WorkRecords ==
  [kind : {"none", "delegation", "peer"}, caller : GraphAgents \union {NoOne},
   actor : Actors \union {NoOne}, collab : Works \union {NoOne}, pc : Pcs,
   started : BOOLEAN, result : BOOLEAN]

\* Work that was created has an actor, and its result is drawn.
WorksInv ==
  /\ work \in [Works -> WorkRecords]
  /\ \A w \in Works : work[w].pc # "none" => work[w].actor \in Actors
  /\ currentLeader \in GraphAgents \union {NoOne}
  /\ ResultsReturnToCallers

ToolsInv ==
  /\ DOMAIN toolCalls = GraphTools
  /\ \A t \in GraphTools : toolCalls[t] \in [pc : {"none", "running", "done"},
                                            caller : Actors \union {NoOne}]
  /\ ToolResultsReturnToCallers

\* The graph counts the running work of each participant, also in a turn that
\* is over.
ActivityInv ==
  /\ delegationRunning = {w \in Works : work[w].pc = "running"}
  /\ DOMAIN actorActivity = Actors
  /\ \A a \in Actors : actorActivity[a] = Cardinality(RunningWorks(a))

NodesInv ==
  /\ DOMAIN nodes = Everyone \union GraphTools
  /\ turnStatus = "running" =>
       \A a \in Actors : RunningWorks(a) # {} => nodes[a] = "running"

GraphInv == WorksInv /\ ToolsInv /\ ActivityInv /\ NodesInv

\* Edges are drawn and never taken back.
LEMMA EdgesOnlyGrow ==
  ASSUME [GraphNext]_graphVars
  PROVE  DOMAIN edges \subseteq DOMAIN edges'
<1>1. CASE edges' = edges
  BY <1>1
<1>2. ASSUME NEW a \in GraphAgents, TransferLeadership(a)
      PROVE  DOMAIN edges \subseteq DOMAIN edges'
  BY <1>2 DEF TransferLeadership, Flow
<1>3. ASSUME NEW w, NEW kind, NEW actor, NEW collab, CreateWork(w, kind, actor, collab)
      PROVE  DOMAIN edges \subseteq DOMAIN edges'
  BY <1>3 DEF CreateWork, Flow
<1>4. ASSUME NEW w, StartWork(w)
      PROVE  DOMAIN edges \subseteq DOMAIN edges'
  BY <1>4 DEF StartWork, StartEdge
<1>5. ASSUME NEW w, CompleteWork(w)
      PROVE  DOMAIN edges \subseteq DOMAIN edges'
  BY <1>5 DEF CompleteWork, Flow, FinishEdge
<1>6. ASSUME NEW w, NEW pc, FailWork(w, pc)
      PROVE  DOMAIN edges \subseteq DOMAIN edges'
  BY <1>6 DEF FailWork, Flow, FinishEdge
<1>7. ASSUME NEW w, CancelWork(w)
      PROVE  DOMAIN edges \subseteq DOMAIN edges'
  BY <1>7 DEF CancelWork, FinishEdge
<1>8. ASSUME NEW t, NEW caller, CallTool(t, caller)
      PROVE  DOMAIN edges \subseteq DOMAIN edges'
  BY <1>8 DEF CallTool, Flow
<1>9. ASSUME NEW t, NEW status, CompleteTool(t, status)
      PROVE  DOMAIN edges \subseteq DOMAIN edges'
  BY <1>9 DEF CompleteTool, Flow
<1>10. CASE StartFinal
  BY <1>10 DEF StartFinal, Flow
<1>11. ASSUME NEW status, EndTurn(status)
       PROVE  DOMAIN edges \subseteq DOMAIN edges'
  BY <1>11 DEF EndTurn
<1> QED BY <1>1, <1>2, <1>3, <1>4, <1>5, <1>6, <1>7, <1>8, <1>9, <1>10, <1>11
        DEF GraphNext, graphVars, StartTurn

LEMMA RunningFinite ==
  ASSUME NEW a
  PROVE  /\ IsFiniteSet(RunningWorks(a)) /\ Cardinality(RunningWorks(a)) \in Nat
         /\ Cardinality(RunningWorks(a)) = 0 <=> RunningWorks(a) = {}
BY GraphAssumption, FS_Subset, FS_EmptySet, FS_CardinalityType DEF RunningWorks

\* The record of a work that starts or ends, and the running work of each
\* participant.
LEMMA OneStarts ==
  ASSUME WorksInv, NEW w \in Works,
         work' = [work EXCEPT ![w].pc = "running", ![w].started = TRUE]
  PROVE  /\ work' \in [Works -> WorkRecords] /\ work'[w].pc = "running"
         /\ work'[w].actor = work[w].actor /\ work'[w].caller = work[w].caller
         /\ work'[w].kind = work[w].kind /\ work'[w].result = work[w].result
         /\ \A v \in Works : v # w => work'[v] = work[v]
         /\ \A a \in Actors :
              RunningWorks(a)' = IF a = work[w].actor THEN RunningWorks(a) \union {w} ELSE RunningWorks(a)
<1>1. PICK record : record = [work[w] EXCEPT !.pc = "running", !.started = TRUE]
  OBVIOUS
<1>2. work \in [Works -> WorkRecords] /\ work[w] \in WorkRecords
  BY DEF WorksInv
<1>3. work' = [work EXCEPT ![w] = record]
  BY <1>1, <1>2
<1>4. /\ record \in WorkRecords /\ record.pc = "running" /\ record.actor = work[w].actor
      /\ record.caller = work[w].caller /\ record.kind = work[w].kind
      /\ record.result = work[w].result
  BY <1>1, <1>2 DEF WorkRecords, Pcs
<1>5. /\ work' \in [Works -> WorkRecords] /\ work'[w] = record
      /\ \A v \in Works : v # w => work'[v] = work[v]
  BY <1>2, <1>3, <1>4
<1>6. \A a \in Actors :
        RunningWorks(a)' = IF a = work[w].actor THEN RunningWorks(a) \union {w} ELSE RunningWorks(a)
  BY <1>4, <1>5 DEF RunningWorks
<1> QED BY <1>4, <1>5, <1>6

LEMMA OneEnds ==
  ASSUME WorksInv, NEW w \in Works, NEW pc \in Pcs, pc # "running",
         work' = [work EXCEPT ![w].pc = pc, ![w].result = @ \/ pc = "completed"]
  PROVE  /\ work' \in [Works -> WorkRecords] /\ work'[w].pc = pc
         /\ work'[w].actor = work[w].actor /\ work'[w].caller = work[w].caller
         /\ work'[w].kind = work[w].kind
         /\ (work'[w].result => work[w].result \/ pc = "completed")
         /\ \A v \in Works : v # w => work'[v] = work[v]
         /\ \A a \in Actors : RunningWorks(a)' = RunningWorks(a) \ {w}
<1>1. PICK result \in BOOLEAN : result = (work[w].result \/ pc = "completed")
  OBVIOUS
<1>2. PICK record : record = [work[w] EXCEPT !.pc = pc, !.result = result]
  OBVIOUS
<1>3. work \in [Works -> WorkRecords] /\ work[w] \in WorkRecords
  BY DEF WorksInv
<1>4. work' = [work EXCEPT ![w] = record]
  BY <1>1, <1>2, <1>3
<1>5. /\ record \in WorkRecords /\ record.pc = pc /\ record.actor = work[w].actor
      /\ record.caller = work[w].caller /\ record.kind = work[w].kind
      /\ record.result = result
  BY <1>2, <1>3 DEF WorkRecords
<1>6. /\ work' \in [Works -> WorkRecords] /\ work'[w] = record
      /\ \A v \in Works : v # w => work'[v] = work[v]
  BY <1>3, <1>4, <1>5
<1>7. \A a \in Actors : RunningWorks(a)' = RunningWorks(a) \ {w}
  BY <1>5, <1>6 DEF RunningWorks
<1>8. work'[w].result => work[w].result \/ pc = "completed"
  BY <1>1, <1>5, <1>6
<1> QED BY <1>5, <1>6, <1>7, <1>8

\* A step of no work, no tool and no participant that is at work.
LEMMA QuietStep ==
  ASSUME GraphInv, UNCHANGED <<work, delegationRunning, actorActivity>>,
         UNCHANGED toolCalls, currentLeader' \in GraphAgents \union {NoOne},
         DOMAIN edges \subseteq DOMAIN edges', DOMAIN nodes' = DOMAIN nodes,
         turnStatus' = "running" =>
           /\ turnStatus = "running"
           /\ \A a \in Actors : RunningWorks(a) # {} => nodes'[a] = "running"
  PROVE  GraphInv'
<1>1. \A a \in Actors : RunningWorks(a)' = RunningWorks(a)
  BY DEF RunningWorks
<1>2. WorksInv' /\ ToolsInv'
  BY DEF GraphInv, WorksInv, WorkRecords, ResultsReturnToCallers, ToolsInv, ToolResultsReturnToCallers
<1>3. ActivityInv'
  BY <1>1 DEF GraphInv, ActivityInv
<1>4. NodesInv'
  BY <1>1 DEF GraphInv, NodesInv
<1> QED BY <1>2, <1>3, <1>4 DEF GraphInv

LEMMA CreateWorkStep ==
  ASSUME GraphInv, NEW w \in Works, NEW kind \in {"delegation", "peer"}, NEW actor \in Actors,
         NEW collab \in Works, CreateWork(w, kind, actor, collab), DOMAIN edges \subseteq DOMAIN edges'
  PROVE  GraphInv'
<1>1. PICK created :
        created = [kind |-> kind, caller |-> currentLeader, actor |-> actor, collab |-> collab,
                   pc |-> "queued", started |-> FALSE, result |-> FALSE]
  OBVIOUS
<1>2. /\ work[w].pc = "none" /\ currentLeader \in GraphAgents
      /\ work' = [work EXCEPT ![w] = created]
      /\ UNCHANGED <<toolCalls, nodes, currentLeader, delegationRunning, actorActivity, turnStatus>>
  BY <1>1 DEF CreateWork, GraphInv, WorksInv
<1>3. /\ created \in WorkRecords /\ created.pc = "queued" /\ created.actor = actor
      /\ ~created.result
  BY <1>1, <1>2 DEF WorkRecords, Pcs
<1>4. /\ work' \in [Works -> WorkRecords] /\ work'[w] = created
      /\ \A v \in Works : v # w => work'[v] = work[v]
  BY <1>2, <1>3 DEF GraphInv, WorksInv
<1>5. \A a \in Actors : RunningWorks(a)' = RunningWorks(a)
  BY <1>2, <1>3, <1>4 DEF RunningWorks
<1>6. WorksInv'
  BY <1>2, <1>3, <1>4 DEF GraphInv, WorksInv, ResultsReturnToCallers
<1>7. ToolsInv'
  BY <1>2 DEF GraphInv, ToolsInv, ToolResultsReturnToCallers
<1>8. ActivityInv'
  BY <1>2, <1>3, <1>4, <1>5 DEF GraphInv, ActivityInv
<1>9. NodesInv'
  BY <1>2, <1>5 DEF GraphInv, NodesInv
<1> QED BY <1>6, <1>7, <1>8, <1>9 DEF GraphInv

LEMMA StartWorkStep ==
  ASSUME GraphInv, NEW w \in Works, StartWork(w), DOMAIN edges \subseteq DOMAIN edges'
  PROVE  GraphInv'
<1> DEFINE actor == work[w].actor
<1>1. /\ work[w].pc \in {"queued", "interrupted", "cancelled"}
      /\ work' = [work EXCEPT ![w].pc = "running", ![w].started = TRUE]
      /\ delegationRunning' = delegationRunning \union {w}
      /\ actorActivity' = Started(w)
      /\ nodes' = [nodes EXCEPT ![actor] = "running"]
      /\ UNCHANGED <<toolCalls, currentLeader, turnStatus>>
  BY DEF StartWork
<1>2. actor \in Actors /\ DOMAIN nodes = Everyone \union GraphTools
  BY <1>1 DEF GraphInv, WorksInv, NodesInv
<1>3. \A v \in Works : v # w => work'[v] = work[v]
  BY <1>1, OneStarts DEF GraphInv
<1>4. /\ work'[w].pc = "running" /\ work'[w].actor = actor /\ work'[w].caller = work[w].caller
      /\ work'[w].kind = work[w].kind /\ work'[w].result = work[w].result
  BY <1>1, OneStarts DEF GraphInv
<1>5. \A a \in Actors :
        RunningWorks(a)' = IF a = actor THEN RunningWorks(a) \union {w} ELSE RunningWorks(a)
  BY <1>1, OneStarts DEF GraphInv
<1>6. work' \in [Works -> WorkRecords]
  BY <1>1, OneStarts DEF GraphInv
<1>7. WorksInv'
  BY <1>1, <1>2, <1>3, <1>4, <1>6 DEF GraphInv, WorksInv, ResultsReturnToCallers
<1>8. ToolsInv'
  BY <1>1 DEF GraphInv, ToolsInv, ToolResultsReturnToCallers
<1>9. ActivityInv'
  <2>1. delegationRunning' = {v \in Works : work'[v].pc = "running"}
    BY <1>1, <1>3, <1>4 DEF GraphInv, ActivityInv
  <2>2. w \in delegationRunning <=> w \in RunningWorks(actor)
    BY DEF GraphInv, ActivityInv, RunningWorks
  <2>3. CASE w \in delegationRunning
    <3>1. \A a \in Actors : RunningWorks(a)' = RunningWorks(a)
      BY <1>5, <2>2, <2>3
    <3> QED BY <1>1, <2>1, <2>3, <3>1 DEF GraphInv, ActivityInv, Started
  <2>4. CASE w \notin delegationRunning
    <3>1. /\ DOMAIN actorActivity' = Actors /\ actorActivity'[actor] = actorActivity[actor] + 1
          /\ \A a \in Actors : a # actor => actorActivity'[a] = actorActivity[a]
      BY <1>1, <1>2, <2>4 DEF GraphInv, ActivityInv, Started
    <3>2. Cardinality(RunningWorks(actor) \union {w}) = Cardinality(RunningWorks(actor)) + 1
      BY <2>2, <2>4, RunningFinite, FS_AddElement
    <3>3. \A a \in Actors : actorActivity'[a] = Cardinality(RunningWorks(a)')
      BY <1>5, <3>1, <3>2 DEF GraphInv, ActivityInv
    <3> QED BY <2>1, <3>1, <3>3 DEF ActivityInv
  <2> QED BY <2>3, <2>4
<1>10. NodesInv'
  <2>1. /\ DOMAIN nodes' = DOMAIN nodes /\ nodes'[actor] = "running"
        /\ \A a \in Actors : a # actor => nodes'[a] = nodes[a]
    BY <1>1, <1>2 DEF Everyone
  <2> QED BY <1>1, <1>2, <1>5, <2>1 DEF GraphInv, NodesInv
<1> QED BY <1>7, <1>8, <1>9, <1>10 DEF GraphInv

LEMMA EndWorkStep ==
  ASSUME GraphInv, NEW w \in Works, work[w].pc # "none",
         NEW pc \in Pcs \ {"none", "running"}, NEW status, FinishWork(w, pc, status),
         DOMAIN edges \subseteq DOMAIN edges',
         pc = "completed" => ReturnEdge(IF work[w].kind = "peer" THEN "peer-result" ELSE "result", w)
                               \in DOMAIN edges'
  PROVE  GraphInv'
<1> DEFINE actor == work[w].actor
<1>0. work' = [work EXCEPT ![w].pc = pc, ![w].result = @ \/ pc = "completed"]
  BY DEF FinishWork
<1>1. /\ delegationRunning' = delegationRunning \ {w}
      /\ actorActivity' = Finished(w)
      /\ nodes' = FinishNode(w, status)
      /\ UNCHANGED <<toolCalls, currentLeader, turnStatus>>
  BY DEF FinishWork
<1>2. actor \in Actors /\ DOMAIN nodes = Everyone \union GraphTools
  BY DEF GraphInv, WorksInv, NodesInv
<1>3. \A v \in Works : v # w => work'[v] = work[v]
  BY <1>0, OneEnds DEF GraphInv
<1>4. /\ work'[w].pc = pc /\ work'[w].actor = actor
      /\ work'[w].caller = work[w].caller /\ work'[w].kind = work[w].kind
  BY <1>0, OneEnds DEF GraphInv
<1>12. work'[w].result => work[w].result \/ pc = "completed"
  BY <1>0, OneEnds DEF GraphInv
<1>5. \A a \in Actors : RunningWorks(a)' = RunningWorks(a) \ {w}
  BY <1>0, OneEnds DEF GraphInv
<1>6. work' \in [Works -> WorkRecords]
  BY <1>0, OneEnds DEF GraphInv
<1>7. ResultsReturnToCallers'
  <2>1. \A v \in Works : v # w /\ work'[v].result =>
          <<IF work'[v].kind = "peer" THEN "peer-result" ELSE "result",
            work'[v].actor, work'[v].caller>> \in DOMAIN edges'
    BY <1>3 DEF GraphInv, WorksInv, ResultsReturnToCallers
  <2>2. work'[w].result =>
          <<IF work'[w].kind = "peer" THEN "peer-result" ELSE "result",
            work'[w].actor, work'[w].caller>> \in DOMAIN edges'
    BY <1>4, <1>12 DEF ReturnEdge, GraphInv, WorksInv, ResultsReturnToCallers
  <2> QED BY <2>1, <2>2 DEF ResultsReturnToCallers
<1>8. WorksInv'
  BY <1>1, <1>2, <1>3, <1>4, <1>6, <1>7 DEF GraphInv, WorksInv
<1>9. ToolsInv'
  BY <1>1 DEF GraphInv, ToolsInv, ToolResultsReturnToCallers
<1>10. ActivityInv'
  <2>1. delegationRunning' = {v \in Works : work'[v].pc = "running"}
    BY <1>1, <1>3, <1>4 DEF GraphInv, ActivityInv
  <2>2. w \in delegationRunning <=> w \in RunningWorks(actor)
    BY DEF GraphInv, ActivityInv, RunningWorks
  <2>3. \A a \in Actors : a # actor => RunningWorks(a)' = RunningWorks(a)
    BY <1>5 DEF RunningWorks
  <2>4. CASE w \notin delegationRunning
    <3>1. \A a \in Actors : RunningWorks(a)' = RunningWorks(a)
      BY <1>5, <2>2, <2>3, <2>4
    <3> QED BY <1>1, <2>1, <2>4, <3>1 DEF GraphInv, ActivityInv, Finished
  <2>5. CASE w \in delegationRunning
    <3>1. /\ DOMAIN actorActivity' = Actors /\ actorActivity'[actor] = actorActivity[actor] - 1
          /\ \A a \in Actors : a # actor => actorActivity'[a] = actorActivity[a]
      BY <1>1, <1>2, <2>5 DEF GraphInv, ActivityInv, Finished
    <3>2. Cardinality(RunningWorks(actor) \ {w}) = Cardinality(RunningWorks(actor)) - 1
      BY <2>2, <2>5, RunningFinite, FS_RemoveElement
    <3>3. \A a \in Actors : actorActivity'[a] = Cardinality(RunningWorks(a)')
      BY <1>5, <2>3, <3>1, <3>2 DEF GraphInv, ActivityInv
    <3> QED BY <2>1, <3>1, <3>3 DEF ActivityInv
  <2> QED BY <2>4, <2>5
<1>11. NodesInv'
  <2>1. /\ DOMAIN nodes' = DOMAIN nodes
        /\ \A a \in Actors : a # actor => nodes'[a] = nodes[a]
    BY <1>1, <1>2 DEF FinishNode, Everyone
  <2>2. RunningWorks(actor)' # {} => nodes' = nodes
    <3>1. Finished(w)[actor] = Cardinality(RunningWorks(actor)')
      <4>1. actorActivity'[actor] = Cardinality(RunningWorks(actor)')
        BY <1>2, <1>4, <1>10 DEF ActivityInv
      <4> QED BY <1>1, <4>1
    <3>2. Cardinality(RunningWorks(actor)') = 0 <=> RunningWorks(actor)' = {}
      <4>1. IsFiniteSet(RunningWorks(actor) \ {w})
        BY RunningFinite, FS_Subset
      <4>2. Cardinality(RunningWorks(actor) \ {w}) = 0 <=> RunningWorks(actor) \ {w} = {}
        BY <4>1, FS_EmptySet
      <4>3. RunningWorks(actor)' = RunningWorks(actor) \ {w}
        BY <1>2, <1>4, <1>5
      <4> HIDE DEF actor
      <4> QED BY <4>2, <4>3
    <3> QED BY <1>1, <3>1, <3>2 DEF FinishNode
  <2>3. \A a \in Actors : RunningWorks(a)' \subseteq RunningWorks(a)
    BY <1>5
  <2>4. DOMAIN nodes' = Everyone \union GraphTools
    BY <1>2, <2>1
  <2>5. ASSUME turnStatus' = "running", NEW a \in Actors, RunningWorks(a)' # {}
        PROVE  nodes'[a] = "running"
    <3>1. nodes[a] = "running"
      BY <1>1, <2>3, <2>5 DEF GraphInv, NodesInv
    <3>2. CASE a = actor
      BY <1>4, <2>2, <2>5, <3>1, <3>2
    <3>3. CASE a # actor
      BY <2>1, <3>1, <3>3
    <3> QED BY <3>2, <3>3
  <2> QED BY <2>4, <2>5 DEF NodesInv
<1> QED BY <1>8, <1>9, <1>10, <1>11 DEF GraphInv

LEMMA ToolStep ==
  ASSUME GraphInv, NEW t \in GraphTools, UNCHANGED <<work, currentLeader, delegationRunning,
                                                     actorActivity, turnStatus>>,
         NEW call \in [pc : {"running", "done"}, caller : Actors \union {NoOne}],
         toolCalls' = [toolCalls EXCEPT ![t] = call],
         NEW status, nodes' = [nodes EXCEPT ![t] = status], DOMAIN edges \subseteq DOMAIN edges',
         call.pc = "done" => <<"tool-result", t, call.caller>> \in DOMAIN edges'
  PROVE  GraphInv'
<1>1. \A a \in Actors : RunningWorks(a)' = RunningWorks(a)
  BY DEF RunningWorks
<1>2. WorksInv'
  BY DEF GraphInv, WorksInv, WorkRecords, ResultsReturnToCallers
<1>3. /\ DOMAIN toolCalls' = GraphTools /\ toolCalls'[t] = call
      /\ \A u \in GraphTools : u # t => toolCalls'[u] = toolCalls[u]
  BY DEF GraphInv, ToolsInv
<1>4. ToolsInv'
  BY <1>3 DEF GraphInv, ToolsInv, ToolResultsReturnToCallers
<1>5. ActivityInv'
  BY <1>1 DEF GraphInv, ActivityInv
<1>6. /\ DOMAIN nodes' = DOMAIN nodes /\ \A a \in Actors : nodes'[a] = nodes[a]
  BY GraphAssumption DEF GraphInv, NodesInv, Everyone
<1>7. NodesInv'
  BY <1>1, <1>6 DEF GraphInv, NodesInv
<1> QED BY <1>2, <1>4, <1>5, <1>7 DEF GraphInv

LEMMA TransferLeadershipStep ==
  ASSUME GraphInv, NEW to \in GraphAgents, TransferLeadership(to),
         DOMAIN edges \subseteq DOMAIN edges'
  PROVE  GraphInv'
<1>1. /\ currentLeader' = to
      /\ UNCHANGED <<work, toolCalls, delegationRunning, actorActivity, turnStatus>>
      /\ nodes' = [n \in DOMAIN nodes |->
                     IF n = to THEN "running"
                     ELSE IF n = currentLeader /\ actorActivity[n] = 0 THEN "completed"
                     ELSE nodes[n]]
  BY DEF TransferLeadership
<1>2. ASSUME turnStatus = "running", NEW a \in Actors, RunningWorks(a) # {}
      PROVE  nodes'[a] = "running"
  <2>1. a \in DOMAIN nodes /\ nodes[a] = "running"
    BY <1>1, <1>2 DEF GraphInv, NodesInv, Everyone
  <2>2. actorActivity[a] # 0
    BY <1>2, RunningFinite DEF GraphInv, ActivityInv
  <2> QED BY <1>1, <2>1, <2>2
<1> QED BY <1>1, <1>2, QuietStep

LEMMA GraphStep ==
  ASSUME GraphInv, [GraphNext]_graphVars
  PROVE  GraphInv'
<1>1. DOMAIN edges \subseteq DOMAIN edges'
  BY EdgesOnlyGrow
<1>2. CASE UNCHANGED graphVars
  BY <1>2, QuietStep DEF graphVars, GraphInv, WorksInv, NodesInv
<1>3. CASE StartTurn
  <2>1. /\ nodes' = [nodes EXCEPT ![currentLeader] = "running"]
        /\ UNCHANGED <<work, toolCalls, edges, currentLeader, delegationRunning, actorActivity,
                       turnStatus>>
    BY <1>3 DEF StartTurn
  <2>2. turnStatus = "running" => \A a \in Actors : RunningWorks(a) # {} => nodes'[a] = "running"
    BY <2>1 DEF GraphInv, NodesInv, Everyone
  <2>3. DOMAIN nodes' = DOMAIN nodes
    BY <2>1
  <2> QED BY <1>1, <2>1, <2>2, <2>3, QuietStep DEF GraphInv, WorksInv
<1>4. ASSUME NEW w \in Works, CompleteWork(w)
      PROVE  GraphInv'
  <2> DEFINE back == ReturnEdge(IF work[w].kind = "peer" THEN "peer-result" ELSE "result", w)
  <2>1. back \in DOMAIN edges'
    BY <1>4 DEF CompleteWork, Flow
  <2>2. work[w].pc # "none" /\ "completed" \in Pcs \ {"none", "running"}
    BY <1>4 DEF CompleteWork, Underway, Pcs
  <2> QED BY <1>1, <1>4, <2>1, <2>2, EndWorkStep DEF CompleteWork
<1>5. ASSUME NEW w \in Works, NEW pc \in {"failed", "interrupted"}, FailWork(w, pc)
      PROVE  GraphInv'
  <2>1. work[w].pc # "none" /\ pc \in Pcs \ {"none", "running"} /\ pc # "completed"
    BY <1>5 DEF FailWork, Underway, Pcs
  <2> QED BY <1>1, <1>5, <2>1, EndWorkStep DEF FailWork
<1>6. ASSUME NEW w \in Works, CancelWork(w)
      PROVE  GraphInv'
  <2>1. "cancelled" \in Pcs \ {"none", "running"}
    BY DEF Pcs
  <2> QED BY <1>1, <1>6, <2>1, EndWorkStep DEF CancelWork
<1>7. ASSUME NEW t \in GraphTools, NEW caller \in Actors, CallTool(t, caller)
      PROVE  GraphInv'
  <2>1. PICK call : call = [pc |-> "running", caller |-> caller]
    OBVIOUS
  <2>2. call \in [pc : {"running", "done"}, caller : Actors \union {NoOne}] /\ call.pc # "done"
    BY <2>1
  <2>3. /\ toolCalls' = [toolCalls EXCEPT ![t] = call] /\ nodes' = [nodes EXCEPT ![t] = "running"]
        /\ UNCHANGED <<work, currentLeader, delegationRunning, actorActivity, turnStatus>>
    BY <1>7, <2>1 DEF CallTool
  <2> QED BY <1>1, <2>2, <2>3, ToolStep
<1>8. ASSUME NEW t \in GraphTools, NEW status, CompleteTool(t, status)
      PROVE  GraphInv'
  <2>1. PICK call : call = [toolCalls[t] EXCEPT !.pc = "done"]
    OBVIOUS
  <2>2. /\ call \in [pc : {"running", "done"}, caller : Actors \union {NoOne}]
        /\ call.caller = toolCalls[t].caller
    BY <2>1 DEF GraphInv, ToolsInv
  <2>3. /\ toolCalls' = [toolCalls EXCEPT ![t] = call] /\ nodes' = [nodes EXCEPT ![t] = status]
        /\ UNCHANGED <<work, currentLeader, delegationRunning, actorActivity, turnStatus>>
    BY <1>8, <2>1 DEF CompleteTool
  <2>4. <<"tool-result", t, call.caller>> \in DOMAIN edges'
    BY <1>8, <2>2 DEF CompleteTool, Flow, ToolOwner
  <2> QED BY <1>1, <2>2, <2>3, <2>4, ToolStep
<1>9. CASE StartFinal
  <2>1. UNCHANGED <<work, toolCalls, nodes, currentLeader, delegationRunning, actorActivity,
                    turnStatus>>
    BY <1>9 DEF StartFinal
  <2> QED BY <1>1, <2>1, QuietStep DEF GraphInv, WorksInv, NodesInv
<1>10. ASSUME NEW status \in {"completed", "failed", "cancelled"}, EndTurn(status)
       PROVE  GraphInv'
  <2>1. /\ UNCHANGED <<work, toolCalls, currentLeader, delegationRunning, actorActivity>>
        /\ turnStatus' # "running" /\ DOMAIN nodes' = DOMAIN nodes
    BY <1>10 DEF EndTurn
  <2> QED BY <1>1, <2>1, QuietStep DEF GraphInv, WorksInv
<1> QED BY <1>1, <1>2, <1>3, <1>4, <1>5, <1>6, <1>7, <1>8, <1>9, <1>10, TransferLeadershipStep,
           CreateWorkStep, StartWorkStep DEF GraphNext

LEMMA GraphInitInv ==
  ASSUME GraphInit
  PROVE  GraphInv
<1>1. \A a \in Actors : RunningWorks(a) = {}
  BY DEF GraphInit, NoWork, RunningWorks
<1>2. WorksInv
  BY DEF GraphInit, NoWork, WorksInv, WorkRecords, Pcs, ResultsReturnToCallers
<1>3. ToolsInv
  BY DEF GraphInit, ToolsInv, ToolResultsReturnToCallers
<1>4. ActivityInv
  BY <1>1, FS_EmptySet DEF GraphInit, ActivityInv, NoWork
<1>5. NodesInv
  BY <1>1 DEF GraphInit, NodesInv
<1> QED BY <1>2, <1>3, <1>4, <1>5 DEF GraphInv

\* What a turn's graph counts, draws running and draws back agrees with the work.
THEOREM GraphCorrect == GraphSpec => []GraphInv
<1>1. GraphInit => GraphInv
  BY GraphInitInv
<1> QED BY <1>1, GraphStep, PTL DEF GraphSpec

\* The graph shows the work there is, for any team and any number of
\* delegations, consultations and tool calls, whose events come in any order
\* WorkLifecycle allows: who is at work is counted right, also when attempts
\* are interrupted and repeated or overtaken by a cancellation, and stays drawn
\* running while the turn runs; every result is drawn back to the one who asked
\* (Turn.apply, finishDelegation).
THEOREM GraphShowsTheWorkCorrect == GraphSpec => []GraphShowsTheWork
<1>1. GraphInv => GraphShowsTheWork
  BY DEF GraphInv, WorksInv, ToolsInv, ActivityInv, NodesInv, GraphShowsTheWork,
         RunningActorsAreDrawn
<1> QED BY <1>1, GraphCorrect, PTL

-----------------------------------------------------------------------------
(* The graph of a turn: types.                                             *)

AreEdges(es) ==
  /\ DOMAIN es \subseteq EdgeIds
  /\ \A e \in DOMAIN es : es[e].status \in States /\ es[e].active \in 0 .. MaxActive

ToolRecords == [pc : {"none", "running", "done"}, caller : Actors \union {NoOne}]

\* Who asked for work or called a tool is known, and no edge leads to a tool
\* that was not called.
GraphParts ==
  /\ toolCalls \in [GraphTools -> ToolRecords]
  /\ nodes \in [Everyone \union GraphTools -> States]
  /\ actorActivity \in [Actors -> Int]
  /\ turnStatus \in {"running", "completed", "failed", "cancelled"}
  /\ \A w \in Works : work[w].pc # "none" => work[w].caller \in GraphAgents
  /\ \A t \in GraphTools : toolCalls[t].pc # "none" => toolCalls[t].caller \in Actors
  /\ \A t \in GraphTools, a \in Actors :
       <<"tool", a, t>> \in DOMAIN edges => toolCalls[t].pc # "none"

LEMMA FlowIsDrawn ==
  ASSUME NEW es, AreEdges(es), NEW id \in EdgeIds, NEW status \in States, NEW delta \in {0, 1},
         delta = 1 /\ id \in DOMAIN es => es[id].active < MaxActive
  PROVE  /\ AreEdges(Flow(es, id, status, delta))
         /\ DOMAIN Flow(es, id, status, delta) = DOMAIN es \union {id}
<1>1. PICK old : old = IF id \in DOMAIN es THEN es[id] ELSE NoEdge
  OBVIOUS
<1>2. MaxActive \in Nat /\ 1 <= MaxActive
  BY GraphAssumption
<1>3. old.active \in 0 .. MaxActive /\ (delta = 1 => old.active < MaxActive)
  BY <1>1, <1>2 DEF AreEdges, NoEdge
<1>4. PICK active : active = old.active + delta
  OBVIOUS
<1>5. active \in 0 .. MaxActive
  BY <1>2, <1>3, <1>4
<1>6. PICK drawn : drawn = [active |-> active,
                            status |-> IF active > 0 /\ status = "queued" THEN "running" ELSE status]
  OBVIOUS
<1>7. drawn.active \in 0 .. MaxActive /\ drawn.status \in States
  BY <1>5, <1>6 DEF States
<1>8. Flow(es, id, status, delta) = [e \in DOMAIN es \union {id} |-> IF e = id THEN drawn ELSE es[e]]
  BY <1>1, <1>4, <1>6 DEF Flow
<1> QED BY <1>7, <1>8 DEF AreEdges

LEMMA FinishIsDrawn ==
  ASSUME NEW es, AreEdges(es), NEW id, NEW status \in States
  PROVE  /\ AreEdges(FinishEdge(es, id, status))
         /\ DOMAIN FinishEdge(es, id, status) = DOMAIN es
<1>1. PICK active : active = IF es[id].active > 0 THEN es[id].active - 1 ELSE 0
  OBVIOUS
<1>2. PICK over : over = [active |-> active, status |-> IF active = 0 THEN status ELSE es[id].status]
  OBVIOUS
<1>3. FinishEdge(es, id, status) = [es EXCEPT ![id] = over]
  BY <1>1, <1>2 DEF FinishEdge
<1>4. id \in DOMAIN es => over.active \in 0 .. MaxActive /\ over.status \in States
  <2>1. MaxActive \in Nat
    BY GraphAssumption
  <2> QED BY <1>1, <1>2, <2>1 DEF AreEdges
<1> QED BY <1>3, <1>4 DEF AreEdges

LEMMA StartIsDrawn ==
  ASSUME NEW es, AreEdges(es), NEW id, es[id].active < MaxActive
  PROVE  AreEdges(StartEdge(es, id)) /\ DOMAIN StartEdge(es, id) = DOMAIN es
<1>1. CASE id \notin DOMAIN es
  BY <1>1 DEF StartEdge
<1>2. CASE id \in DOMAIN es
  <2>1. PICK more : more = [status |-> "running", active |-> es[id].active + 1]
    OBVIOUS
  <2>2. StartEdge(es, id) = [es EXCEPT ![id] = more]
    BY <1>2, <2>1 DEF StartEdge
  <2>3. more.status \in States /\ more.active \in 0 .. MaxActive
    <3>1. es[id].active \in 0 .. MaxActive /\ MaxActive \in Nat
      BY <1>2, GraphAssumption DEF AreEdges
    <3> QED BY <2>1, <3>1 DEF States
  <2> QED BY <2>2, <2>3 DEF AreEdges
<1> QED BY <1>1, <1>2

\* The ids of the edges there are.
LEMMA EdgesHaveIds ==
  /\ \A kind \in EdgeKinds : \A a, b \in Everyone : <<kind, a, b>> \in EdgeIds
  /\ \A c \in Works, a \in GraphAgents : <<"peer", c, a>> \in EdgeIds
  /\ \A a \in Actors, t \in GraphTools : <<"tool", a, t>> \in EdgeIds /\ <<"tool-result", t, a>> \in EdgeIds
<1>1. \A kind \in EdgeKinds : \A a, b \in Everyone : <<kind, a, b>> \in EdgeIds
  BY DEF EdgeIds
<1>2. \A a \in Actors, t \in GraphTools : <<"tool", a, t>> \in EdgeIds /\ <<"tool-result", t, a>> \in EdgeIds
  BY DEF EdgeIds
<1>3. \A c \in Works, a \in GraphAgents : <<"peer", c, a>> \in EdgeIds
  BY DEF EdgeIds
<1> QED BY <1>1, <1>2, <1>3

\* The edges of a created or ended work, and of a tool.
LEMMA WorkHasEdges ==
  ASSUME GraphInv, GraphParts, NEW w \in Works, work[w].pc # "none"
  PROVE  \A kind \in EdgeKinds :
           <<kind, work[w].actor, work[w].caller>> \in EdgeIds /\ ReturnEdge(kind, w) \in EdgeIds
<1>1. work[w].actor \in Everyone /\ work[w].caller \in Everyone
  BY DEF GraphInv, WorksInv, GraphParts, Everyone, Actors
<1> QED BY <1>1, EdgesHaveIds DEF ReturnEdge

\* An edge that leads to no tool.
Plain(id) == \A a \in Actors, t \in GraphTools : id # <<"tool", a, t>>

LEMMA PlainEdges ==
  /\ \A kind \in EdgeKinds \union {"peer"} : \A a, b : Plain(<<kind, a, b>>)
  /\ \A t, a : Plain(<<"tool-result", t, a>>)
BY DEF Plain, EdgeKinds

NodeKinds == [Everyone \union GraphTools -> States]

\* A step that calls no tool.
LEMMA PartsKept ==
  ASSUME GraphParts, UNCHANGED toolCalls, nodes' \in NodeKinds,
         actorActivity' \in [Actors -> Int],
         turnStatus' \in {"running", "completed", "failed", "cancelled"},
         \A w \in Works : work'[w].pc # "none" => work'[w].caller \in GraphAgents,
         NEW id, Plain(id), DOMAIN edges' \subseteq DOMAIN edges \union {id}
  PROVE  GraphParts'
BY DEF GraphParts, NodeKinds, Plain

GraphTypes == GraphInv /\ GraphParts /\ AreEdges(edges)

LEMMA TransferTypes ==
  ASSUME GraphTypes, NEW to \in GraphAgents, TransferLeadership(to)
  PROVE  GraphParts' /\ AreEdges(edges')
<1>1. /\ AreEdges(edges) /\ currentLeader \in GraphAgents \union {NoOne} /\ nodes \in NodeKinds
      /\ UNCHANGED <<work, toolCalls, actorActivity, turnStatus>>
      /\ nodes' = [n \in DOMAIN nodes |->
                     IF n = to THEN "running"
                     ELSE IF n = currentLeader /\ actorActivity[n] = 0 THEN "completed" ELSE nodes[n]]
      /\ edges' = IF currentLeader = NoOne
                    THEN Flow(edges, <<"request", User, to>>, "completed", 0)
                    ELSE Flow(edges, <<"handoff", currentLeader, to>>, "completed", 0)
  BY DEF TransferLeadership, GraphTypes, GraphInv, WorksInv, GraphParts, NodeKinds
<1>2. nodes' \in NodeKinds
  BY <1>1 DEF NodeKinds, States
<1>3. PICK id : id = IF currentLeader = NoOne THEN <<"request", User, to>>
                                              ELSE <<"handoff", currentLeader, to>>
  OBVIOUS
<1>4. id \in EdgeIds /\ Plain(id)
  <2>1. {"request", "handoff"} \subseteq EdgeKinds /\ to \in Everyone /\ User \in Everyone
        /\ (currentLeader # NoOne => currentLeader \in Everyone)
    BY <1>1 DEF EdgeKinds, Everyone, Actors
  <2> QED BY <1>3, <2>1, EdgesHaveIds, PlainEdges
<1>5. edges' = Flow(edges, id, "completed", 0)
  BY <1>1, <1>3
<1>6. AreEdges(edges') /\ DOMAIN edges' = DOMAIN edges \union {id}
  <2>1. "completed" \in States /\ 0 \in {0, 1} /\ 0 # 1
    BY DEF States
  <2>2. /\ AreEdges(Flow(edges, id, "completed", 0))
        /\ DOMAIN Flow(edges, id, "completed", 0) = DOMAIN edges \union {id}
    BY <1>4, <2>1, FlowIsDrawn DEF GraphTypes
  <2> QED BY <1>5, <2>2
<1> QED BY <1>1, <1>2, <1>4, <1>6, PartsKept DEF GraphTypes, GraphParts

LEMMA CreateWorkTypes ==
  ASSUME GraphTypes, NEW w \in Works, NEW kind \in {"delegation", "peer"}, NEW actor \in Actors,
         NEW collab \in Works, CreateWork(w, kind, actor, collab)
  PROVE  GraphParts' /\ AreEdges(edges')
<1>1. PICK created :
        created = [kind |-> kind, caller |-> currentLeader, actor |-> actor, collab |-> collab,
                   pc |-> "queued", started |-> FALSE, result |-> FALSE]
  OBVIOUS
<1>2. PICK id : id = FlowOf(created)
  OBVIOUS
<1>3. /\ AreEdges(edges) /\ currentLeader \in GraphAgents /\ nodes \in NodeKinds
      /\ work' = [work EXCEPT ![w] = created]
      /\ edges' = Flow(edges, id, "queued", 0)
      /\ (kind = "peer" => actor \in GraphAgents)
      /\ UNCHANGED <<toolCalls, nodes, actorActivity, turnStatus>>
  BY <1>1, <1>2 DEF CreateWork, GraphTypes, GraphInv, WorksInv, GraphParts, NodeKinds
<1>4. \A v \in Works : work'[v].pc # "none" => work'[v].caller \in GraphAgents
  BY <1>1, <1>3 DEF GraphTypes, GraphInv, WorksInv, GraphParts
<1>5. id \in EdgeIds /\ Plain(id)
  <2>1. /\ id = IF kind = "peer" THEN <<"peer", collab, actor>>
                                  ELSE <<"delegation", currentLeader, actor>>
        /\ "delegation" \in EdgeKinds /\ currentLeader \in Everyone /\ actor \in Everyone
    BY <1>1, <1>2, <1>3 DEF FlowOf, EdgeKinds, Everyone, Actors
  <2>2. CASE kind = "peer"
    BY <1>3, <2>1, <2>2, EdgesHaveIds, PlainEdges
  <2>3. CASE kind # "peer"
    BY <2>1, <2>3, EdgesHaveIds, PlainEdges
  <2> QED BY <2>2, <2>3
<1>6. AreEdges(edges') /\ DOMAIN edges' = DOMAIN edges \union {id}
  <2>1. "queued" \in States /\ 0 \in {0, 1} /\ 0 # 1
    BY DEF States
  <2>2. AreEdges(Flow(edges, id, "queued", 0)) /\ DOMAIN Flow(edges, id, "queued", 0) = DOMAIN edges \union {id}
    BY <1>3, <1>5, <2>1, FlowIsDrawn
  <2> QED BY <1>3, <2>2
<1> QED BY <1>3, <1>4, <1>5, <1>6, PartsKept DEF GraphTypes, GraphParts

LEMMA StartWorkTypes ==
  ASSUME GraphTypes, NEW w \in Works, StartWork(w)
  PROVE  GraphParts' /\ AreEdges(edges')
<1>1. /\ work[w].pc # "none" /\ work' = [work EXCEPT ![w].pc = "running", ![w].started = TRUE]
      /\ actorActivity' = Started(w) /\ nodes' = [nodes EXCEPT ![work[w].actor] = "running"]
      /\ edges' = StartEdge(edges, WorkEdge(w)) /\ edges[WorkEdge(w)].active < MaxActive
      /\ UNCHANGED <<toolCalls, turnStatus>>
      /\ nodes \in NodeKinds /\ actorActivity \in [Actors -> Int] /\ AreEdges(edges)
  BY DEF StartWork, GraphTypes, GraphParts, NodeKinds
<1>2. \A v \in Works : work'[v].pc # "none" => work'[v].caller \in GraphAgents
  BY <1>1, OneStarts DEF GraphTypes, GraphInv, GraphParts
<1>3. nodes' \in NodeKinds
  BY <1>1 DEF NodeKinds, States
<1>4. actorActivity' \in [Actors -> Int]
  <2>1. \A a \in Actors : [actorActivity EXCEPT ![a] = actorActivity[a] + 1] \in [Actors -> Int]
    BY <1>1
  <2>2. work[w].actor \in Actors
    BY <1>1 DEF GraphTypes, GraphInv, WorksInv
  <2> QED BY <1>1, <2>1, <2>2 DEF Started
<1>5. AreEdges(edges') /\ DOMAIN edges' = DOMAIN edges
  BY <1>1, StartIsDrawn
<1>6. Plain(<<"tool-result", NoOne, NoOne>>)
  BY PlainEdges
<1> QED BY <1>1, <1>2, <1>3, <1>4, <1>5, <1>6, PartsKept DEF GraphTypes, GraphParts

LEMMA EndWorkTypes ==
  ASSUME GraphTypes, NEW w \in Works, work[w].pc # "none",
         NEW pc \in Pcs \ {"none", "running"}, NEW status \in States, FinishWork(w, pc, status),
         NEW ended, ended = FinishEdge(edges, WorkEdge(w), status),
         NEW kind \in EdgeKinds,
         edges' \in {ended, Flow(ended, ReturnEdge(kind, w), status, 0)}
  PROVE  GraphParts' /\ AreEdges(edges')
<1>0. work' = [work EXCEPT ![w].pc = pc, ![w].result = @ \/ pc = "completed"]
  BY DEF FinishWork
<1>1. /\ actorActivity' = Finished(w) /\ nodes' = FinishNode(w, status)
      /\ UNCHANGED <<toolCalls, turnStatus>>
      /\ nodes \in NodeKinds /\ actorActivity \in [Actors -> Int] /\ AreEdges(edges)
  BY DEF FinishWork, GraphTypes, GraphParts, NodeKinds
<1>2. \A v \in Works : work'[v].pc # "none" => work'[v].caller \in GraphAgents
  <2>1. work'[w].caller = work[w].caller /\ \A v \in Works : v # w => work'[v] = work[v]
    BY <1>0, OneEnds DEF GraphTypes, GraphInv
  <2> QED BY <2>1 DEF GraphTypes, GraphParts
<1>3. nodes' \in NodeKinds
  BY <1>1 DEF NodeKinds, FinishNode
<1>4. actorActivity' \in [Actors -> Int]
  <2>1. \A a \in Actors : [actorActivity EXCEPT ![a] = actorActivity[a] - 1] \in [Actors -> Int]
    BY <1>1
  <2>2. work[w].actor \in Actors
    BY <1>1 DEF GraphTypes, GraphInv, WorksInv
  <2> QED BY <1>1, <2>1, <2>2 DEF Finished
<1>5. AreEdges(ended) /\ DOMAIN ended = DOMAIN edges
  BY <1>1, FinishIsDrawn
<1>6. ReturnEdge(kind, w) \in EdgeIds /\ Plain(ReturnEdge(kind, w))
  BY WorkHasEdges, PlainEdges DEF GraphTypes, ReturnEdge
<1>7. AreEdges(edges') /\ DOMAIN edges' \subseteq DOMAIN edges \union {ReturnEdge(kind, w)}
  <2>1. PICK id : id = ReturnEdge(kind, w)
    OBVIOUS
  <2>2. 0 \in {0, 1} /\ 0 # 1
    OBVIOUS
  <2>3. AreEdges(Flow(ended, id, status, 0)) /\ DOMAIN Flow(ended, id, status, 0) = DOMAIN ended \union {id}
    BY <1>5, <1>6, <2>1, <2>2, FlowIsDrawn
  <2> QED BY <1>5, <2>1, <2>3
<1> QED BY <1>1, <1>2, <1>3, <1>4, <1>6, <1>7, PartsKept DEF GraphTypes, GraphParts

LEMMA CallToolTypes ==
  ASSUME GraphTypes, NEW t \in GraphTools, NEW caller \in Actors, CallTool(t, caller)
  PROVE  GraphParts' /\ AreEdges(edges')
<1>1. /\ toolCalls[t].pc = "none" /\ nodes' = [nodes EXCEPT ![t] = "running"]
      /\ toolCalls' = [toolCalls EXCEPT ![t] = [pc |-> "running", caller |-> caller]]
      /\ edges' = Flow(edges, <<"tool", caller, t>>, "running", 1)
      /\ UNCHANGED <<work, actorActivity, turnStatus>>
  BY DEF CallTool
<1>2. PICK call : call = [pc |-> "running", caller |-> caller]
  OBVIOUS
<1>3. /\ toolCalls' \in [GraphTools -> ToolRecords] /\ toolCalls'[t] = call
      /\ \A u \in GraphTools : u # t => toolCalls'[u] = toolCalls[u]
  <2>1. call \in ToolRecords
    BY <1>2 DEF ToolRecords
  <2> QED BY <1>1, <1>2, <2>1 DEF GraphTypes, GraphParts
<1>4. call.pc # "none" /\ call.caller \in Actors
  BY <1>2
<1>5. nodes' \in [Everyone \union GraphTools -> States]
  BY <1>1 DEF GraphTypes, GraphParts, States
<1>6. PICK id : id = <<"tool", caller, t>>
  OBVIOUS
<1>7. AreEdges(Flow(edges, id, "running", 1)) /\ DOMAIN Flow(edges, id, "running", 1) = DOMAIN edges \union {id}
  <2>1. id \in EdgeIds /\ id \notin DOMAIN edges /\ "running" \in States /\ 1 \in {0, 1}
    BY <1>1, <1>6, EdgesHaveIds DEF GraphTypes, GraphParts, States
  <2> QED BY <2>1, FlowIsDrawn DEF GraphTypes
<1>8. AreEdges(edges') /\ DOMAIN edges' = DOMAIN edges \union {id}
  BY <1>1, <1>6, <1>7
<1>9. ASSUME NEW u \in GraphTools, NEW a \in Actors, <<"tool", a, u>> \in DOMAIN edges'
      PROVE  toolCalls'[u].pc # "none"
  <2>1. CASE u = t
    BY <1>3, <1>4, <2>1
  <2>2. CASE u # t
    <3>1. <<"tool", a, u>> # id
      BY <1>6, <2>2
    <3> QED BY <1>3, <1>8, <1>9, <2>2, <3>1 DEF GraphTypes, GraphParts
  <2> QED BY <2>1, <2>2
<1>10. \A u \in GraphTools : toolCalls'[u].pc # "none" => toolCalls'[u].caller \in Actors
  BY <1>3, <1>4 DEF GraphTypes, GraphParts
<1> QED BY <1>1, <1>3, <1>5, <1>8, <1>9, <1>10 DEF GraphTypes, GraphParts

LEMMA CompleteToolTypes ==
  ASSUME GraphTypes, NEW t \in GraphTools, NEW status \in {"completed", "failed"},
         CompleteTool(t, status)
  PROVE  GraphParts' /\ AreEdges(edges')
<1>1. PICK call, id : call = <<"tool", toolCalls[t].caller, t>>
                      /\ id = <<"tool-result", t, toolCalls[t].caller>>
  OBVIOUS
<1>2. PICK ended : ended = [edges EXCEPT ![call] = [status |-> status, active |-> 0]]
  OBVIOUS
<1>3. /\ toolCalls[t].pc = "running" /\ nodes' = [nodes EXCEPT ![t] = status]
      /\ toolCalls' = [toolCalls EXCEPT ![t].pc = "done"]
      /\ edges' = Flow(ended, id, status, 0)
      /\ UNCHANGED <<work, actorActivity, turnStatus>>
  BY <1>1, <1>2 DEF CompleteTool, ToolOwner
<1>4. toolCalls[t].caller \in Actors /\ toolCalls[t] \in ToolRecords
  BY <1>3 DEF GraphTypes, GraphParts
<1>5. /\ toolCalls' \in [GraphTools -> ToolRecords]
      /\ toolCalls'[t].pc = "done" /\ toolCalls'[t].caller = toolCalls[t].caller
      /\ \A u \in GraphTools : u # t => toolCalls'[u] = toolCalls[u]
  <2>1. PICK done : done = [toolCalls[t] EXCEPT !.pc = "done"]
    OBVIOUS
  <2>2. done \in ToolRecords /\ done.pc = "done" /\ done.caller = toolCalls[t].caller
    BY <1>4, <2>1 DEF ToolRecords
  <2>3. toolCalls' = [toolCalls EXCEPT ![t] = done]
    BY <1>3, <2>1
  <2> QED BY <2>2, <2>3 DEF GraphTypes, GraphParts
<1>6. status \in States /\ nodes' \in [Everyone \union GraphTools -> States]
  <2>1. status \in States
    BY DEF States
  <2> QED BY <1>3, <2>1 DEF GraphTypes, GraphParts
<1>7. AreEdges(ended) /\ DOMAIN ended = DOMAIN edges
  <2>1. PICK settled : settled = [status |-> status, active |-> 0]
    OBVIOUS
  <2>2. settled.status \in States /\ settled.active \in 0 .. MaxActive
    BY <1>6, <2>1, GraphAssumption
  <2>3. ended = [edges EXCEPT ![call] = settled]
    BY <1>2, <2>1
  <2> QED BY <2>2, <2>3 DEF GraphTypes, AreEdges
<1>8. id \in EdgeIds /\ \A a \in Actors, u \in GraphTools : id # <<"tool", a, u>>
  BY <1>1, <1>4, EdgesHaveIds
<1>9. AreEdges(edges') /\ DOMAIN edges' = DOMAIN edges \union {id}
  <2>1. 0 \in {0, 1} /\ 0 # 1
    OBVIOUS
  <2>2. AreEdges(Flow(ended, id, status, 0)) /\ DOMAIN Flow(ended, id, status, 0) = DOMAIN ended \union {id}
    BY <1>6, <1>7, <1>8, <2>1, FlowIsDrawn
  <2> QED BY <1>3, <1>7, <2>2
<1>10. \A u \in GraphTools, a \in Actors :
         <<"tool", a, u>> \in DOMAIN edges' => toolCalls'[u].pc # "none"
  BY <1>5, <1>8, <1>9 DEF GraphTypes, GraphParts
<1>11. \A u \in GraphTools : toolCalls'[u].pc # "none" => toolCalls'[u].caller \in Actors
  BY <1>4, <1>5 DEF GraphTypes, GraphParts
<1> QED BY <1>3, <1>5, <1>6, <1>9, <1>10, <1>11 DEF GraphTypes, GraphParts

LEMMA StartFinalTypes ==
  ASSUME GraphTypes, StartFinal
  PROVE  GraphParts' /\ AreEdges(edges')
<1>1. /\ AnswerEdge \in DOMAIN edges => edges[AnswerEdge].active < MaxActive
      /\ edges' = Flow(edges, AnswerEdge, "running", 1)
      /\ UNCHANGED <<work, toolCalls, nodes, actorActivity, turnStatus>>
  BY DEF StartFinal
<1>2. AnswerEdge \in EdgeIds /\ Plain(AnswerEdge)
  <2>1. User \in Everyone /\ "answer" \in EdgeKinds
    BY DEF Everyone, EdgeKinds
  <2> QED BY <2>1, EdgesHaveIds, PlainEdges DEF AnswerEdge
<1>3. AreEdges(edges') /\ DOMAIN edges' = DOMAIN edges \union {AnswerEdge}
  <2>1. "running" \in States /\ 1 \in {0, 1}
    BY DEF States
  <2>2. /\ AreEdges(Flow(edges, AnswerEdge, "running", 1))
        /\ DOMAIN Flow(edges, AnswerEdge, "running", 1) = DOMAIN edges \union {AnswerEdge}
    BY <1>1, <1>2, <2>1, FlowIsDrawn DEF GraphTypes
  <2> QED BY <1>1, <2>2
<1> QED BY <1>1, <1>2, <1>3, PartsKept DEF GraphTypes, GraphParts, NodeKinds

LEMMA EndTurnTypes ==
  ASSUME GraphTypes, NEW status \in {"completed", "failed", "cancelled"}, EndTurn(status)
  PROVE  GraphParts' /\ AreEdges(edges')
<1>1. PICK settled : settled = [status |-> status, active |-> 0]
  OBVIOUS
<1>2. /\ turnStatus' = status
      /\ nodes' = [n \in DOMAIN nodes |->
                     IF nodes[n] \in {"running", "queued"} \/ n = User THEN status ELSE nodes[n]]
      /\ edges' = [e \in DOMAIN edges |->
                     IF \/ edges[e].active > 0 \/ edges[e].status \in {"running", "queued"}
                        \/ status = "completed" /\ e = AnswerEdge
                       THEN settled ELSE edges[e]]
      /\ UNCHANGED <<work, toolCalls, actorActivity>>
  BY <1>1 DEF EndTurn
<1>3. status \in States /\ settled.status \in States /\ settled.active \in 0 .. MaxActive
  BY <1>1, GraphAssumption DEF States
<1>4. nodes' \in NodeKinds
  BY <1>2, <1>3 DEF GraphTypes, GraphParts, NodeKinds
<1>5. AreEdges(edges') /\ DOMAIN edges' = DOMAIN edges
  BY <1>2, <1>3 DEF GraphTypes, AreEdges
<1>6. Plain(<<"tool-result", NoOne, NoOne>>)
  BY PlainEdges
<1> QED BY <1>2, <1>4, <1>5, <1>6, PartsKept DEF GraphTypes, GraphParts

LEMMA GraphTypesStep ==
  ASSUME GraphTypes, [GraphNext]_graphVars
  PROVE  GraphTypes'
<1>1. GraphInv'
  BY GraphStep DEF GraphTypes
<1>2. CASE UNCHANGED graphVars
  <2>1. Plain(<<"tool-result", NoOne, NoOne>>)
    BY PlainEdges
  <2> QED BY <1>1, <1>2, <2>1, PartsKept DEF graphVars, GraphTypes, GraphParts, NodeKinds
<1>3. CASE StartTurn
  <2>1. /\ nodes' = [nodes EXCEPT ![currentLeader] = "running"]
        /\ UNCHANGED <<work, toolCalls, edges, actorActivity, turnStatus>>
    BY <1>3 DEF StartTurn
  <2>2. nodes' \in NodeKinds
    BY <2>1 DEF GraphTypes, GraphParts, NodeKinds, States
  <2>3. Plain(<<"tool-result", NoOne, NoOne>>)
    BY PlainEdges
  <2> QED BY <1>1, <2>1, <2>2, <2>3, PartsKept DEF GraphTypes, GraphParts
<1>4. ASSUME NEW w \in Works, NEW pc \in {"failed", "interrupted"},
             CompleteWork(w) \/ FailWork(w, pc) \/ CancelWork(w)
      PROVE  GraphTypes'
  <2>1. /\ work[w].pc # "none" /\ {"completed", "failed", "cancelled"} \subseteq States
        /\ {"result", "peer-result", "failure"} \subseteq EdgeKinds
        /\ {pc, "completed", "cancelled"} \subseteq Pcs \ {"none", "running"}
    BY <1>4 DEF CompleteWork, FailWork, CancelWork, Underway, States, EdgeKinds, Pcs
  <2>2. CASE CompleteWork(w)
    <3>1. PICK kind : kind = IF work[w].kind = "peer" THEN "peer-result" ELSE "result"
      OBVIOUS
    <3>2. /\ FinishWork(w, "completed", "completed") /\ kind \in EdgeKinds
          /\ edges' = Flow(FinishEdge(edges, WorkEdge(w), "completed"), ReturnEdge(kind, w), "completed", 0)
      BY <2>1, <2>2, <3>1 DEF CompleteWork
    <3> QED BY <1>1, <2>1, <3>2, EndWorkTypes DEF GraphTypes
  <2>3. CASE FailWork(w, pc)
    <3>1. /\ FinishWork(w, pc, "failed") /\ "failure" \in EdgeKinds
          /\ edges' \in {FinishEdge(edges, WorkEdge(w), "failed"),
                         Flow(FinishEdge(edges, WorkEdge(w), "failed"), ReturnEdge("failure", w), "failed", 0)}
      BY <2>1, <2>3 DEF FailWork
    <3> QED BY <1>1, <2>1, <3>1, EndWorkTypes DEF GraphTypes
  <2>4. CASE CancelWork(w)
    <3>1. /\ FinishWork(w, "cancelled", "cancelled") /\ "failure" \in EdgeKinds
          /\ edges' = FinishEdge(edges, WorkEdge(w), "cancelled")
      BY <2>1, <2>4 DEF CancelWork
    <3> QED BY <1>1, <2>1, <3>1, EndWorkTypes DEF GraphTypes
  <2> QED BY <1>4, <2>2, <2>3, <2>4
<1>5. ASSUME NEW status \in {"completed", "failed", "cancelled"}, EndTurn(status)
      PROVE  GraphTypes'
  BY <1>1, <1>5, EndTurnTypes DEF GraphTypes
<1>6. ASSUME NEW w \in Works, NEW kind \in {"delegation", "peer"}, NEW actor \in Actors,
             NEW collab \in Works, CreateWork(w, kind, actor, collab)
      PROVE  GraphTypes'
  BY <1>1, <1>6, CreateWorkTypes DEF GraphTypes
<1>7. ASSUME NEW w \in Works, StartWork(w)
      PROVE  GraphTypes'
  BY <1>1, <1>7, StartWorkTypes DEF GraphTypes
<1>8. ASSUME NEW to \in GraphAgents, TransferLeadership(to)
      PROVE  GraphTypes'
  BY <1>1, <1>8, TransferTypes DEF GraphTypes
<1>9. ASSUME NEW t \in GraphTools, NEW caller \in Actors, CallTool(t, caller)
      PROVE  GraphTypes'
  BY <1>1, <1>9, CallToolTypes DEF GraphTypes
<1>10. ASSUME NEW t \in GraphTools, NEW status \in {"completed", "failed"}, CompleteTool(t, status)
       PROVE  GraphTypes'
  BY <1>1, <1>10, CompleteToolTypes DEF GraphTypes
<1>11. CASE StartFinal
  BY <1>1, <1>11, StartFinalTypes DEF GraphTypes
<1> QED BY <1>2, <1>3, <1>4, <1>5, <1>6, <1>7, <1>8, <1>9, <1>10, <1>11 DEF GraphNext

LEMMA GraphTypesInit ==
  ASSUME GraphInit
  PROVE  GraphTypes
<1>1. GraphInv
  BY GraphInitInv
<1>2. GraphParts
  <2>1. nodes \in [Everyone \union GraphTools -> States]
    BY DEF GraphInit, States
  <2>2. toolCalls \in [GraphTools -> ToolRecords]
    BY DEF GraphInit, ToolRecords
  <2> QED BY <2>1, <2>2 DEF GraphInit, GraphParts, NoWork
<1>3. AreEdges(edges)
  BY DEF GraphInit, AreEdges
<1> QED BY <1>1, <1>2, <1>3 DEF GraphTypes

LEMMA GraphIsTyped ==
  ASSUME GraphTypes
  PROVE  GraphTypeOK
<1>1. actorActivity \in [Actors -> 0 .. Cardinality(Works)]
  <2>1. ASSUME NEW a \in Actors
        PROVE  actorActivity[a] \in 0 .. Cardinality(Works)
    <3>1. RunningWorks(a) \subseteq Works
      BY DEF RunningWorks
    <3>2. /\ Cardinality(RunningWorks(a)) \in Nat /\ Cardinality(Works) \in Nat
          /\ Cardinality(RunningWorks(a)) <= Cardinality(Works)
      BY <3>1, GraphAssumption, RunningFinite, FS_Subset, FS_CardinalityType
    <3> QED BY <3>2 DEF GraphTypes, GraphInv, ActivityInv
  <2> QED BY <2>1 DEF GraphTypes, GraphParts
<1>2. delegationRunning \subseteq Works
  BY DEF GraphTypes, GraphInv, ActivityInv
<1> QED BY <1>1, <1>2 DEF GraphTypes, GraphInv, WorksInv, WorkRecords, GraphParts, ToolRecords,
                          AreEdges, GraphTypeOK

\* What a turn's graph holds has its type for any team, work and tools: every
\* edge is of two that can be joined, none counts more starts than the bound
\* or less than none, and nobody is at more works than there are (Turn.apply,
\* flow, finishDelegation).
THEOREM GraphTypeCorrect == GraphSpec => []GraphTypeOK
<1>1. GraphInit => GraphTypes
  BY GraphTypesInit
<1>2. GraphTypes /\ [GraphNext]_graphVars => GraphTypes'
  BY GraphTypesStep
<1>3. GraphTypes => GraphTypeOK
  BY GraphIsTyped
<1> QED BY <1>1, <1>2, <1>3, PTL DEF GraphSpec

-----------------------------------------------------------------------------
(* The terminal's composer.                                                *)

\* Commands and messages that end a start.
StartsUnderWay == {c \in commands : c.op \in {"start", "continue", "open"}}
StartsAnswered == {m \in mail : m.kind \in {"started", "opened", "error"}}

ComposerInv ==
  /\ "starting" \in DOMAIN ui
  /\ ui.starting => StartsUnderWay # {} \/ StartsAnswered # {}

\* Drawing an event neither begins nor ends a start.
LEMMA EventsKeepStarting ==
  ASSUME NEW u, "starting" \in DOMAIN u, NEW s, NEW item
  PROVE  /\ "starting" \in DOMAIN TurnFor(u, s) /\ TurnFor(u, s).starting = u.starting
         /\ "starting" \in DOMAIN ShowEvent(u, s, item)
         /\ ShowEvent(u, s, item).starting = u.starting
<1>1. PICK v : v = TurnFor(u, s)
  OBVIOUS
<1>2. "starting" \in DOMAIN v /\ v.starting = u.starting
  BY <1>1 DEF TurnFor
<1>3. PICK n : n = LastTurn(v)
  OBVIOUS
<1>4. ShowEvent(u, s, item) \in
        {v, [v EXCEPT !.turns[n].shown = <<item.text>>], [v EXCEPT !.optimistic = Tail(@)],
         [v EXCEPT !.turns[n].shown = Append(@, item.text)],
         [v EXCEPT !.turns[n].status = item.kind]}
  BY <1>1, <1>3 DEF ShowEvent
<1> QED BY <1>1, <1>2, <1>4

\* A step that leaves `starting' alone and the starts there are.
LEMMA KeepsStarting ==
  ASSUME ComposerInv, "starting" \in DOMAIN ui', ui'.starting => ui.starting,
         StartsUnderWay \subseteq commands', StartsAnswered \subseteq mail'
  PROVE  ComposerInv'
BY DEF ComposerInv, StartsUnderWay, StartsAnswered

LEMMA TerminalCommandStep ==
  ASSUME ComposerInv, NEW c \in commands,
         RunStart(c) \/ RunOpen(c) \/ RunSteer(c) \/ RunCancel(c) \/ RunOther(c)
  PROVE  ComposerInv'
<1>1. ui' = ui /\ commands' = commands \ {c} /\ mail \subseteq mail'
  BY DEF RunStart, RunOpen, RunSteer, RunCancel, RunOther, Post
<1>2. CASE c \notin StartsUnderWay
  BY <1>1, <1>2, KeepsStarting DEF ComposerInv, StartsUnderWay, StartsAnswered
<1>3. CASE c \in StartsUnderWay
  <2>1. \E m \in mail' : m.kind \in {"started", "opened", "error"}
    <3>1. RunStart(c) \/ RunOpen(c)
      BY <1>3 DEF StartsUnderWay, RunSteer, RunCancel, RunOther
    <3>2. PICK m \in mail' : m \in {PlainMessage("started", c.text, Len(ran) + 1),
                                   PlainMessage("opened", <<>>, c.session),
                                   PlainMessage("error", c.text, c.session)}
      BY <3>1 DEF RunStart, RunOpen, Post, Failure
    <3> QED BY <3>2 DEF PlainMessage
  <2> QED BY <1>1, <2>1 DEF ComposerInv, StartsAnswered
<1> QED BY <1>2, <1>3

LEMMA SubmitStep ==
  ASSUME ComposerInv, NEW queue, Submit(queue)
  PROVE  ComposerInv'
<1> DEFINE empty == [ui EXCEPT !.draft = <<>>]
<1>1. "starting" \in DOMAIN empty /\ empty.starting = ui.starting
  BY DEF ComposerInv
<1>2. mail' = mail /\ commands \subseteq commands'
  BY DEF Submit, Answered
<1>3. \/ "starting" \in DOMAIN ui' /\ ui'.starting = ui.starting
      \/ /\ "starting" \in DOMAIN ui'
         /\ \E c \in commands' : c.op \in {"start", "continue"}
  <2>1. CASE ui' = AppendQueued(empty, ui.draft)
    BY <1>1, <2>1 DEF AppendQueued
  <2>2. CASE \/ ui' = empty
             \/ ui' = [empty EXCEPT !.turns[LastTurn(ui)].shown = Append(@, ui.draft),
                                    !.optimistic = Append(@, ui.draft)]
    <3> HIDE DEF empty
    <3> QED BY <1>1, <2>2
  <2>3. CASE /\ ui' = BeginTurn(empty, ui.draft)
             /\ \E c \in commands' : c.op \in {"start", "continue"}
    BY <1>1, <2>3 DEF BeginTurn
  <2>4. \A op : Command(op, ui.draft, ui.session).op = op
    BY DEF Command
  <2>5. \/ ui' = AppendQueued(empty, ui.draft)
        \/ ui' = empty
        \/ ui' = [empty EXCEPT !.turns[LastTurn(ui)].shown = Append(@, ui.draft),
                               !.optimistic = Append(@, ui.draft)]
        \/ /\ ui' = BeginTurn(empty, ui.draft)
           /\ \E op \in {"start", "continue"} : Command(op, ui.draft, ui.session) \in commands'
    BY DEF Submit, Answered
  <2> HIDE DEF empty
  <2> QED BY <2>1, <2>2, <2>3, <2>4, <2>5
<1> QED BY <1>2, <1>3, KeepsStarting DEF ComposerInv, StartsUnderWay, StartsAnswered

LEMMA MessageStep ==
  ASSUME ComposerInv, NEW m \in mail,
         HandleStarted(m) \/ HandleEvent(m) \/ HandleRejected(m) \/ HandleError(m)
  PROVE  ComposerInv'
<1>1. "starting" \in DOMAIN ui
  BY DEF ComposerInv
<1>2. CASE HandleStarted(m)
  <2>1. PICK v : v = IF m.kind = "opened" THEN ShowHistory(ui, m.session) ELSE ui
    OBVIOUS
  <2>2. "starting" \in DOMAIN v
    BY <1>1, <2>1 DEF ShowHistory
  <2>3. PICK u : u = TurnFor(v, m.session)
    OBVIOUS
  <2>4. "starting" \in DOMAIN u
    BY <2>2, <2>3, EventsKeepStarting
  <2>5. ui' = [u EXCEPT !.starting = FALSE, !.session = m.session, !.stream = m.session,
                        !.subscribed = m.session, !.turns[LastTurn(u)].session = m.session]
    BY <1>2, <2>1, <2>3 DEF HandleStarted
  <2>6. "starting" \in DOMAIN ui' /\ ui'.starting = FALSE
    BY <2>4, <2>5
  <2> QED BY <2>6 DEF ComposerInv
<1>3. CASE HandleEvent(m)
  <2>1. PICK item : item = ran[m.session].events[m.event]
    OBVIOUS
  <2>2. PICK u : u = ShowEvent(ui, m.session, item)
    OBVIOUS
  <2>3. "starting" \in DOMAIN u /\ u.starting = ui.starting
    BY <1>1, <2>2, EventsKeepStarting
  <2>4. m.kind = "event" /\ mail' = mail \ {m} /\ commands \subseteq commands'
    BY <1>3 DEF HandleEvent, Answered
  <2>5. PICK done : done = [u EXCEPT !.subscribed = NoSession]
    OBVIOUS
  <2>6. "starting" \in DOMAIN done /\ done.starting = u.starting
    BY <2>3, <2>5
  <2>7. \/ ui' \in {u, done, RestoreQueued(done)}
        \/ /\ ui' = BeginTurn(PopQueued(done), Head(u.queued))
           /\ \E c \in commands' : c.op \in {"start", "continue"}
    <3>1. PICK c : c = Command("continue", Head(u.queued), u.session)
      OBVIOUS
    <3>2. c.op = "continue"
      BY <3>1 DEF Command
    <3>3. \/ ui' = u \/ ui' = done \/ ui' = RestoreQueued(done)
          \/ ui' = BeginTurn(PopQueued(done), Head(u.queued)) /\ c \in commands'
      BY <1>3, <2>1, <2>2, <2>5, <3>1 DEF HandleEvent, Answered
    <3> QED BY <3>2, <3>3
  <2>8. /\ "starting" \in DOMAIN ui'
        /\ \/ ui'.starting = ui.starting
           \/ \E c \in commands' : c.op \in {"start", "continue"}
    BY <2>3, <2>6, <2>7 DEF RestoreQueued, BeginTurn, PopQueued
  <2> QED BY <2>4, <2>8, KeepsStarting DEF ComposerInv, StartsUnderWay, StartsAnswered
<1>4. CASE HandleRejected(m)
  <2>1. m.kind = "rejected" /\ mail' = mail \ {m} /\ commands' = commands
    BY <1>4 DEF HandleRejected
  <2>2. PICK rest : rest = RemoveFirst(ui.optimistic, m.text)
    OBVIOUS
  <2>3. PICK u : u = [ui EXCEPT !.optimistic = rest]
    OBVIOUS
  <2>4. "starting" \in DOMAIN u /\ u.starting = ui.starting
    BY <1>1, <2>3
  <2>5. ui' = PrependQueued(u, m.text)
    BY <1>4, <2>2, <2>3 DEF HandleRejected
  <2>6. "starting" \in DOMAIN ui' /\ ui'.starting = ui.starting
    BY <2>4, <2>5 DEF PrependQueued
  <2> QED BY <2>1, <2>6, KeepsStarting DEF ComposerInv, StartsUnderWay, StartsAnswered
<1>5. CASE HandleError(m)
  <2>1. "starting" \in DOMAIN ui' /\ ui'.starting = FALSE
    BY <1>1, <1>5 DEF HandleError
  <2> QED BY <2>1 DEF ComposerInv
<1> QED BY <1>2, <1>3, <1>4, <1>5

LEMMA ComposerStep ==
  ASSUME ComposerInv, [TerminalNext]_terminalVars
  PROVE  ComposerInv'
<1>1. CASE /\ ui' = ui /\ commands \subseteq commands' /\ mail \subseteq mail'
  BY <1>1, KeepsStarting DEF ComposerInv, StartsUnderWay, StartsAnswered
<1>2. CASE TypePrompt \/ EditLastQueued
  <2>1. /\ "starting" \in DOMAIN ui' /\ ui'.starting = ui.starting
        /\ commands' = commands /\ mail' = mail
    BY <1>2 DEF TypePrompt, EditLastQueued, ComposerInv
  <2> QED BY <2>1, KeepsStarting DEF ComposerInv, StartsUnderWay, StartsAnswered
<1>3. ASSUME NEW target, ChangeConversation(target)
      PROVE  ComposerInv'
  <2>1. "starting" \in DOMAIN ui' /\ ui'.starting = FALSE
    BY <1>3 DEF ChangeConversation, Answered, ResetView, ComposerInv
  <2> QED BY <2>1 DEF ComposerInv
<1> QED BY <1>1, <1>2, <1>3, TerminalCommandStep, SubmitStep, MessageStep
        DEF TerminalNext, terminalVars, EndRun, LeaveTable, TakeEvent, Interrupt, OtherCommand

\* While the composer holds prompts back, a command that creates or opens a
\* session is under way, or its answer is, whatever the order of keys,
\* answers and events: it is never held back for good (beginTurn,
\* sessionStartedMsg, errorMsg).
THEOREM ComposerIsReleasedCorrect == TerminalSpec => []ComposerIsReleased
<1>1. TerminalInit => ComposerInv
  <2> SUFFICES ASSUME TerminalInit
               PROVE  ComposerInv
    OBVIOUS
  <2>1. PICK resuming \in BOOLEAN :
          /\ "starting" \in DOMAIN ui /\ ui.starting = resuming
          /\ commands = IF resuming THEN {Command("open", <<>>, NoSession)} ELSE {}
    BY DEF TerminalInit
  <2>2. Command("open", <<>>, NoSession).op = "open"
    BY DEF Command
  <2> QED BY <2>1, <2>2 DEF ComposerInv, StartsUnderWay
<1>2. ComposerInv => ComposerIsReleased
  BY DEF ComposerInv, ComposerIsReleased, StartsUnderWay, StartsAnswered
<1> QED BY <1>1, <1>2, ComposerStep, PTL DEF TerminalSpec

-----------------------------------------------------------------------------
(* The terminal's prompts.                                                 *)

PromptIds == Nat \ {0}

EventKinds == {"created", "instruction", "completed", "failed", "cancelled"}
EventRecords == [kind : EventKinds, text : Seq(PromptIds), late : BOOLEAN]

SessionRecords ==
  [status : {"running", "completed", "failed", "cancelled"},
   active : BOOLEAN, followed : BOOLEAN, previous : Nat, task : Seq(PromptIds),
   events : Seq(EventRecords)]

TerminalCommandRecords ==
  [op : {"start", "continue", "open", "steer", "cancel", "other"}, text : Seq(PromptIds),
   session : Nat]

PromptRecords ==
  [typed : Nat, discarded : SUBSET PromptIds, reported : SUBSET PromptIds,
   others : Nat, keys : Nat]

\* What of the Model decides where a prompt is.
PayloadsOK(u) ==
  /\ {"draft", "queued", "session"} \subseteq DOMAIN u
  /\ u.draft \in Seq(PromptIds)
  /\ u.queued \in Seq(Seq(PromptIds))
  /\ u.session \in 0 .. Len(ran)

\* A steer and a cancellation are for a session there is, and only the
\* commands that create or steer a session carry prompts.
CommandOK(c) ==
  /\ c \in TerminalCommandRecords
  /\ c.op \in {"steer", "cancel"} => c.session \in 1 .. Len(ran)
  /\ c.op = "open" => c.session \in 0 .. Len(ran)
  /\ c.op \in {"open", "cancel", "other"} => c.text = <<>>

MessageOK(m) ==
  /\ m.text \in Seq(PromptIds)
  /\ m.kind \in {"started", "opened"} => m.session \in 1 .. Len(ran)

WiringInv ==
  /\ ran \in Seq(SessionRecords)
  /\ prompts \in PromptRecords
  /\ PayloadsOK(ui)
  /\ \A c \in commands : CommandOK(c)
  /\ \A m \in mail : MessageOK(m)

\* Among the payloads of a sequence there is one with the prompt p.
Among(q, p) == \E i \in DOMAIN q : p \in ToSet(q[i])
OnceAmong(q, p) == \A i, j \in DOMAIN q : p \in ToSet(q[i]) /\ p \in ToSet(q[j]) => i = j

\* Among a set of commands or messages there is one that carries it.
Carried(S, p) == \E c \in S : p \in ToSet(c.text)
OnceCarried(S, p) == \A c, d \in S : p \in ToSet(c.text) /\ p \in ToSet(d.text) => c = d

Answers(ms) == {m \in ms : m.kind \in {"rejected", "error"}}

\* The task a session took from the terminal, and the prompts an event brings
\* to its leader.
TaskOf(t) == IF t.followed THEN t.task ELSE <<>>
Tasks(r) == [s \in DOMAIN r |-> TaskOf(r[s])]
Instructs(e, p) == e.kind = "instruction" /\ e.late = FALSE /\ p \in ToSet(e.text)
InstructedIn(r, p) ==
  \E s \in DOMAIN r : \E i \in DOMAIN r[s].events : Instructs(r[s].events[i], p)

Places ==
  {"draft", "queue", "command", "answer", "task", "discarded", "reported", "instruction"}

At(n, p) ==
  \/ n = "draft" /\ p \in ToSet(ui.draft)
  \/ n = "queue" /\ Among(ui.queued, p)
  \/ n = "command" /\ Carried(commands, p)
  \/ n = "answer" /\ Carried(Answers(mail), p)
  \/ n = "task" /\ Among(Tasks(ran), p)
  \/ n = "discarded" /\ p \in prompts.discarded
  \/ n = "reported" /\ p \in prompts.reported
  \/ n = "instruction" /\ InstructedIn(ran, p)

\* Nor is it twice in one place.
AloneInv(p) ==
  /\ OnceAmong(ui.queued, p)
  /\ OnceCarried(commands, p)
  /\ OnceCarried(Answers(mail), p)
  /\ OnceAmong(Tasks(ran), p)

AtOnePlace(p) == \E k \in Places : \A n \in Places : At(n, p) <=> n = k

\* A prompt that was typed is at one place, the others are at none.
PromptInv(p) ==
  /\ AloneInv(p)
  /\ p <= prompts.typed => AtOnePlace(p)
  /\ p > prompts.typed => \A n \in Places : ~At(n, p)

PlacesInv == WiringInv /\ \A p \in PromptIds : PromptInv(p)

\* Every set of numbers has a least one.
LEMMA LeastIndex ==
  ASSUME NEW S \in SUBSET Nat, S # {}
  PROVE  \E n \in S : \A m \in S : n <= m
<1>1. PICK n \in S : \A m \in S : <<m, n>> \notin OpToRel(<, Nat)
  BY NatLessThanWellFounded, WFMin, Zenon
<1>2. \A m \in S : ~(m < n)
  BY <1>1 DEF OpToRel
<1> QED BY <1>2

LEMMA ConcatHolds ==
  ASSUME NEW D, NEW s \in Seq(D), NEW t \in Seq(D)
  PROVE  s \o t \in Seq(D) /\ ToSet(s \o t) = ToSet(s) \cup ToSet(t)
<1>1. s \o t \in Seq(D) /\ Len(s \o t) = Len(s) + Len(t)
  OBVIOUS
<1>2. \A i \in 1 .. Len(s) + Len(t) :
        (s \o t)[i] = IF i <= Len(s) THEN s[i] ELSE t[i - Len(s)]
  OBVIOUS
<1>3. /\ DOMAIN s = 1 .. Len(s) /\ DOMAIN t = 1 .. Len(t) /\ Len(s) \in Nat /\ Len(t) \in Nat
      /\ DOMAIN (s \o t) = 1 .. Len(s) + Len(t)
  BY <1>1
<1>4. ASSUME NEW i \in 1 .. Len(s) + Len(t)
      PROVE  (s \o t)[i] \in ToSet(s) \cup ToSet(t)
  <2>1. i <= Len(s) => i \in 1 .. Len(s)
    BY <1>3
  <2>2. ~(i <= Len(s)) => i - Len(s) \in 1 .. Len(t)
    BY <1>3
  <2> QED BY <1>2, <1>3, <2>1, <2>2 DEF ToSet
<1>5. ASSUME NEW i \in 1 .. Len(s)
      PROVE  s[i] \in ToSet(s \o t)
  <2>1. i \in 1 .. Len(s) + Len(t) /\ i <= Len(s)
    BY <1>3
  <2> QED BY <1>2, <1>3, <2>1 DEF ToSet
<1>6. ASSUME NEW i \in 1 .. Len(t)
      PROVE  t[i] \in ToSet(s \o t)
  <2>1. i + Len(s) \in 1 .. Len(s) + Len(t) /\ ~(i + Len(s) <= Len(s)) /\ (i + Len(s)) - Len(s) = i
    BY <1>3
  <2> QED BY <1>2, <1>3, <2>1 DEF ToSet
<1>7. ToSet(s \o t) \subseteq ToSet(s) \cup ToSet(t)
  BY <1>3, <1>4 DEF ToSet
<1>8. ToSet(s) \subseteq ToSet(s \o t) /\ ToSet(t) \subseteq ToSet(s \o t)
  BY <1>3, <1>5, <1>6 DEF ToSet
<1> QED BY <1>1, <1>7, <1>8

\* A payload put after the others.
LEMMA AppendAmong ==
  ASSUME NEW D, NEW q \in Seq(D), NEW t \in D, NEW p, OnceAmong(q, p)
  PROVE  /\ Append(q, t) \in Seq(D)
         /\ Among(Append(q, t), p) <=> Among(q, p) \/ p \in ToSet(t)
         /\ ~(Among(q, p) /\ p \in ToSet(t)) => OnceAmong(Append(q, t), p)
<1>1. /\ Append(q, t) \in Seq(D) /\ Len(Append(q, t)) = Len(q) + 1 /\ Len(q) \in Nat
      /\ DOMAIN q = 1 .. Len(q) /\ DOMAIN Append(q, t) = 1 .. Len(q) + 1
  OBVIOUS
<1>2. PICK r : r = Append(q, t)
  OBVIOUS
<1>3. (\A i \in 1 .. Len(q) : r[i] = q[i]) /\ r[Len(q) + 1] = t
  BY <1>2
<1>4. \A i \in 1 .. Len(q) + 1 : i \in 1 .. Len(q) \/ i = Len(q) + 1
  BY <1>1
<1>5. \A i \in 1 .. Len(q) : i \in 1 .. Len(q) + 1 /\ Len(q) + 1 \in 1 .. Len(q) + 1
  BY <1>1
<1>6. Len(q) + 1 \in 1 .. Len(q) + 1
  BY <1>1
<1>7. Among(r, p) <=> Among(q, p) \/ p \in ToSet(t)
  BY <1>1, <1>2, <1>3, <1>4, <1>5, <1>6 DEF Among
<1>8. ASSUME ~(Among(q, p) /\ p \in ToSet(t))
      PROVE  OnceAmong(r, p)
  BY <1>1, <1>2, <1>3, <1>4, <1>8 DEF Among, OnceAmong
<1> QED BY <1>1, <1>2, <1>7, <1>8

\* A payload put before the others.
LEMMA PrependAmong ==
  ASSUME NEW D, NEW q \in Seq(D), NEW t \in D, NEW p, OnceAmong(q, p)
  PROVE  /\ <<t>> \o q \in Seq(D)
         /\ Among(<<t>> \o q, p) <=> Among(q, p) \/ p \in ToSet(t)
         /\ ~(Among(q, p) /\ p \in ToSet(t)) => OnceAmong(<<t>> \o q, p)
<1>1. PICK r : r = <<t>> \o q
  OBVIOUS
<1>2. /\ r \in Seq(D) /\ Len(r) = Len(q) + 1 /\ Len(q) \in Nat
      /\ DOMAIN q = 1 .. Len(q) /\ DOMAIN r = 1 .. Len(q) + 1
  BY <1>1
<1>3. r[1] = t /\ \A i \in 1 .. Len(q) + 1 : i # 1 => r[i] = q[i - 1]
  BY <1>1
<1>4. \A i \in 1 .. Len(q) + 1 : i # 1 => i - 1 \in 1 .. Len(q)
  BY <1>2
<1>5. \A i \in 1 .. Len(q) : i + 1 \in 1 .. Len(q) + 1 /\ i + 1 # 1 /\ (i + 1) - 1 = i
  BY <1>2
<1>6. 1 \in 1 .. Len(q) + 1
  BY <1>2
<1>7. Among(r, p) <=> Among(q, p) \/ p \in ToSet(t)
  <2>1. ASSUME NEW i \in DOMAIN r, p \in ToSet(r[i])
        PROVE  Among(q, p) \/ p \in ToSet(t)
    BY <1>2, <1>3, <1>4, <2>1 DEF Among
  <2>2. ASSUME NEW i \in DOMAIN q, p \in ToSet(q[i])
        PROVE  Among(r, p)
    <3>1. i + 1 \in DOMAIN r /\ r[i + 1] = q[i]
      BY <1>2, <1>3, <1>5
    <3> QED BY <2>2, <3>1 DEF Among
  <2>3. p \in ToSet(t) => Among(r, p)
    BY <1>2, <1>3, <1>6 DEF Among
  <2> QED BY <2>1, <2>2, <2>3 DEF Among
<1>8. ASSUME ~(Among(q, p) /\ p \in ToSet(t))
      PROVE  OnceAmong(r, p)
  <2> SUFFICES ASSUME NEW i \in DOMAIN r, NEW j \in DOMAIN r, p \in ToSet(r[i]), p \in ToSet(r[j])
               PROVE  i = j
    BY DEF OnceAmong
  <2>1. i \in 1 .. Len(q) + 1 /\ j \in 1 .. Len(q) + 1
    BY <1>2
  <2>2. CASE i = 1 \/ j = 1
    BY <1>2, <1>3, <1>4, <1>8, <2>1, <2>2 DEF Among
  <2>3. CASE i # 1 /\ j # 1
    <3>1. i - 1 \in DOMAIN q /\ j - 1 \in DOMAIN q /\ r[i] = q[i - 1] /\ r[j] = q[j - 1]
      BY <1>2, <1>3, <1>4, <2>1, <2>3
    <3>2. i - 1 = j - 1
      BY <3>1 DEF OnceAmong
    <3> QED BY <2>1, <3>2
  <2> QED BY <2>2, <2>3
<1> QED BY <1>1, <1>2, <1>7, <1>8

\* The first payload taken away.
LEMMA TailAmong ==
  ASSUME NEW D, NEW q \in Seq(D), q # <<>>, NEW p, OnceAmong(q, p)
  PROVE  /\ Tail(q) \in Seq(D) /\ Head(q) \in D
         /\ Among(q, p) <=> Among(Tail(q), p) \/ p \in ToSet(Head(q))
         /\ ~(Among(Tail(q), p) /\ p \in ToSet(Head(q)))
         /\ OnceAmong(Tail(q), p)
<1>1. PICK r : r = Tail(q)
  OBVIOUS
<1>2. /\ r \in Seq(D) /\ Len(r) = Len(q) - 1 /\ Len(q) \in Nat \ {0}
      /\ DOMAIN q = 1 .. Len(q) /\ DOMAIN r = 1 .. Len(q) - 1 /\ Head(q) = q[1] /\ Head(q) \in D
  BY <1>1
<1>3. \A i \in 1 .. Len(q) - 1 : r[i] = q[i + 1]
  BY <1>1
<1>4. \A i \in 1 .. Len(q) - 1 : i + 1 \in 1 .. Len(q) /\ i + 1 # 1
  BY <1>2
<1>5. \A i \in 1 .. Len(q) : i # 1 => i - 1 \in 1 .. Len(q) - 1 /\ (i - 1) + 1 = i
  BY <1>2
<1>6. 1 \in 1 .. Len(q)
  BY <1>2
<1>7. ASSUME NEW i \in DOMAIN r, p \in ToSet(r[i])
      PROVE  Among(q, p) /\ ~(p \in ToSet(Head(q)))
  <2>1. i + 1 \in DOMAIN q /\ r[i] = q[i + 1] /\ i + 1 # 1 /\ 1 \in DOMAIN q
    BY <1>2, <1>3, <1>4, <1>6
  <2> QED BY <1>2, <1>7, <2>1 DEF Among, OnceAmong
<1>8. ASSUME NEW i \in DOMAIN q, p \in ToSet(q[i])
      PROVE  Among(r, p) \/ p \in ToSet(Head(q))
  <2>1. i # 1 => i - 1 \in DOMAIN r /\ r[i - 1] = q[i]
    <3>1. i \in 1 .. Len(q)
      BY <1>2
    <3> QED BY <1>2, <1>3, <1>5, <3>1
  <2> QED BY <1>2, <1>8, <2>1 DEF Among
<1>9. p \in ToSet(Head(q)) => Among(q, p)
  BY <1>2, <1>6 DEF Among
<1>10. OnceAmong(r, p)
  <2> SUFFICES ASSUME NEW i \in DOMAIN r, NEW j \in DOMAIN r, p \in ToSet(r[i]), p \in ToSet(r[j])
               PROVE  i = j
    BY DEF OnceAmong
  <2>1. i \in 1 .. Len(q) - 1 /\ j \in 1 .. Len(q) - 1
    BY <1>2
  <2>2. i + 1 \in DOMAIN q /\ j + 1 \in DOMAIN q /\ r[i] = q[i + 1] /\ r[j] = q[j + 1]
    BY <1>2, <1>3, <1>4, <2>1
  <2>3. i + 1 = j + 1
    BY <2>2 DEF OnceAmong
  <2> QED BY <2>1, <2>3
<1> QED BY <1>1, <1>2, <1>7, <1>8, <1>9, <1>10 DEF Among

\* The last payload taken away.
LEMMA FrontAmong ==
  ASSUME NEW D, NEW q \in Seq(D), q # <<>>, NEW p, OnceAmong(q, p)
  PROVE  /\ Front(q) \in Seq(D) /\ Last(q) \in D
         /\ Among(q, p) <=> Among(Front(q), p) \/ p \in ToSet(Last(q))
         /\ ~(Among(Front(q), p) /\ p \in ToSet(Last(q)))
         /\ OnceAmong(Front(q), p)
<1>1. PICK r : r = Front(q)
  OBVIOUS
<1>2. Len(q) \in Nat \ {0} /\ DOMAIN q = 1 .. Len(q) /\ Last(q) = q[Len(q)] /\ Last(q) \in D
  BY DEF Last
<1>3. /\ r \in Seq(D) /\ Len(r) = Len(q) - 1 /\ DOMAIN r = 1 .. Len(q) - 1
      /\ \A i \in 1 .. Len(q) - 1 : r[i] = q[i]
  BY <1>1, <1>2 DEF Front
<1> DEFINE Cut(n) == /\ \A i \in 1 .. n - 1 : i \in 1 .. n /\ i # n
                     /\ \A i \in 1 .. n : i \in 1 .. n - 1 \/ i = n
<1>4. \A n \in Nat \ {0} : Cut(n)
  OBVIOUS
<1>5. \A i \in 1 .. Len(q) - 1 : i \in 1 .. Len(q) /\ i # Len(q)
  BY <1>4, <1>2, Zenon
<1>6. \A i \in 1 .. Len(q) : i \in 1 .. Len(q) - 1 \/ i = Len(q)
  BY <1>4, <1>2, Zenon
<1>7. Len(q) \in 1 .. Len(q)
  BY <1>2
<1>8. Among(q, p) <=> Among(r, p) \/ p \in ToSet(Last(q))
  BY <1>2, <1>3, <1>5, <1>6, <1>7 DEF Among
<1>9. ~(Among(r, p) /\ p \in ToSet(Last(q))) /\ OnceAmong(r, p)
  BY <1>2, <1>3, <1>5, <1>7 DEF Among, OnceAmong
<1> QED BY <1>1, <1>2, <1>3, <1>8, <1>9

\* What the parts of a merged draft are, up to the n-th payload.
Merged(q, D, f, n) ==
  /\ f \in [1 .. n -> Seq(D)]
  /\ \A i \in 1 .. n : f[i] = IF i = 1 THEN q[i] ELSE f[i - 1] \o q[i]
  /\ \A i \in 1 .. n : \A x : x \in ToSet(f[i]) <=> \E j \in 1 .. i : x \in ToSet(q[j])

LEMMA MergedExists ==
  ASSUME NEW D, NEW q \in Seq(Seq(D)), NEW n \in 1 .. Len(q)
  PROVE  \E f : Merged(q, D, f, n)
<1> DEFINE Bad == {k \in 1 .. Len(q) : ~ \E f : Merged(q, D, f, k)}
<1>1. Len(q) \in Nat /\ \A i \in 1 .. Len(q) : q[i] \in Seq(D)
  OBVIOUS
<1>2. SUFFICES ASSUME Bad # {}
               PROVE  FALSE
  OBVIOUS
<1>3. Bad \in SUBSET Nat
  BY <1>1
<1>4. PICK k \in Bad : \A m \in Bad : k <= m
  BY <1>2, <1>3, LeastIndex, Zenon
<1>5. k \in 1 .. Len(q) /\ k \in Nat /\ ~ \E f : Merged(q, D, f, k)
  BY <1>1
<1> HIDE DEF Bad
<1>6. CASE k = 1
  <2>1. PICK f : f = [i \in 1 .. 1 |-> q[1]]
    OBVIOUS
  <2>2. f \in [1 .. 1 -> Seq(D)] /\ f[1] = q[1] /\ \A i \in 1 .. 1 : i = 1
    BY <1>1, <1>5, <1>6, <2>1
  <2>3. Merged(q, D, f, 1)
    BY <2>2 DEF Merged
  <2> QED BY <1>5, <1>6, <2>3
<1>7. CASE k # 1
  <2>1. k - 1 \in 1 .. Len(q) /\ ~(k <= k - 1) /\ \A i \in 1 .. k : i = k \/ i \in 1 .. k - 1
    BY <1>1, <1>5, <1>7
  <2>2. PICK f : Merged(q, D, f, k - 1)
    BY <1>4, <2>1 DEF Bad
  <2>3. PICK g : g = [i \in 1 .. k |-> IF i = k THEN f[k - 1] \o q[k] ELSE f[i]]
    OBVIOUS
  <2>4. f[k - 1] \in Seq(D) /\ q[k] \in Seq(D)
    <3>1. k - 1 \in 1 .. k - 1
      BY <1>5, <1>7
    <3> QED BY <1>1, <1>5, <2>2, <3>1 DEF Merged
  <2>5. f[k - 1] \o q[k] \in Seq(D)
    BY <2>4, ConcatHolds
  <2>6. \A x : x \in ToSet(f[k - 1] \o q[k]) <=> x \in ToSet(f[k - 1]) \/ x \in ToSet(q[k])
    BY <2>4, ConcatHolds
  <2>7. \A i \in 1 .. k - 1 : i \in 1 .. k /\ i # k
    BY <1>5
  <2>8. g[k] = f[k - 1] \o q[k] /\ \A i \in 1 .. k - 1 : g[i] = f[i]
    <3>1. k \in 1 .. k
      BY <1>5
    <3> QED BY <2>3, <2>7, <3>1
  <2>9. g \in [1 .. k -> Seq(D)]
    BY <2>1, <2>2, <2>3, <2>5 DEF Merged
  <2>10. ASSUME NEW i \in 1 .. k
         PROVE  g[i] = IF i = 1 THEN q[i] ELSE g[i - 1] \o q[i]
    <3>1. CASE i = k
      <4>1. k - 1 \in 1 .. k - 1
        BY <1>5, <1>7
      <4> QED BY <1>7, <2>8, <3>1, <4>1
    <3>2. CASE i # k
      <4>1. i \in 1 .. k - 1 /\ (i # 1 => i - 1 \in 1 .. k - 1)
        BY <2>1, <3>2
      <4>2. f[i] = IF i = 1 THEN q[i] ELSE f[i - 1] \o q[i]
        BY <2>2, <4>1 DEF Merged
      <4> QED BY <2>8, <4>1, <4>2
    <3> QED BY <3>1, <3>2
  <2>11. ASSUME NEW i \in 1 .. k, NEW x
         PROVE  x \in ToSet(g[i]) <=> \E j \in 1 .. i : x \in ToSet(q[j])
    <3>1. CASE i = k
      <4>1. x \in ToSet(f[k - 1]) <=> \E j \in 1 .. k - 1 : x \in ToSet(q[j])
        <5>1. k - 1 \in 1 .. k - 1
          BY <1>5, <1>7
        <5> QED BY <2>2, <5>1 DEF Merged
      <4>2. k \in 1 .. k
        BY <1>5
      <4> QED BY <2>1, <2>6, <2>7, <2>8, <3>1, <4>1, <4>2
    <3>2. CASE i # k
      BY <2>1, <2>2, <2>8, <3>2 DEF Merged
    <3> QED BY <3>1, <3>2
  <2>12. Merged(q, D, g, k)
    BY <2>9, <2>10, <2>11 DEF Merged
  <2> QED BY <1>5, <2>12
<1> QED BY <1>6, <1>7

LEMMA FlattenOpen ==
  \A q : Len(q) # 0 =>
    \E f : /\ f = CHOOSE h : h = [i \in 1 .. Len(q) |-> IF i = 1 THEN q[i] ELSE h[i - 1] \o q[i]]
           /\ FlattenSeq(q) = f[Len(q)]
BY DEF FlattenSeq

\* The merged draft is what the last payload leaves.
LEMMA FlattenMerged ==
  ASSUME NEW D, NEW q \in Seq(Seq(D)), Len(q) # 0
  PROVE  \E f : Merged(q, D, f, Len(q)) /\ FlattenSeq(q) = f[Len(q)]
<1>1. Len(q) \in Nat /\ Len(q) \in 1 .. Len(q)
  OBVIOUS
<1>2. PICK f : Merged(q, D, f, Len(q))
  BY <1>1, MergedExists
<1>3. PICK h : /\ h = CHOOSE g : g = [i \in 1 .. Len(q) |-> IF i = 1 THEN q[i] ELSE g[i - 1] \o q[i]]
               /\ FlattenSeq(q) = h[Len(q)]
  BY FlattenOpen
<1>4. f = [i \in 1 .. Len(q) |-> IF i = 1 THEN q[i] ELSE f[i - 1] \o q[i]]
  BY <1>2 DEF Merged
<1>5. h = [i \in 1 .. Len(q) |-> IF i = 1 THEN q[i] ELSE h[i - 1] \o q[i]]
  BY <1>3, <1>4
<1>6. \A i \in 1 .. Len(q) : h[i] = IF i = 1 THEN q[i] ELSE h[i - 1] \o q[i]
  BY <1>5
<1> DEFINE Wrong == {i \in 1 .. Len(q) : h[i] # f[i]}
<1>7. Wrong = {}
  <2> SUFFICES ASSUME Wrong # {}
               PROVE  FALSE
    OBVIOUS
  <2>1. Wrong \in SUBSET Nat
    BY <1>1
  <2>2. PICK k \in Wrong : \A m \in Wrong : k <= m
    BY <2>1, LeastIndex, Zenon
  <2>3. k \in 1 .. Len(q) /\ k \in Nat /\ h[k] # f[k]
    BY <1>1
  <2>4. k # 1
    BY <1>2, <1>6, <2>3 DEF Merged
  <2>5. k - 1 \in 1 .. Len(q) /\ ~(k <= k - 1)
    BY <1>1, <2>3, <2>4
  <2>6. h[k - 1] = f[k - 1]
    BY <2>2, <2>5
  <2> QED BY <1>2, <1>6, <2>3, <2>4, <2>6 DEF Merged
<1>8. FlattenSeq(q) = f[Len(q)]
  BY <1>1, <1>3, <1>7
<1> QED BY <1>2, <1>8

\* A prompt is in the merged draft when it is in one of the payloads.
LEMMA FlattenAmong ==
  ASSUME NEW D, NEW q \in Seq(Seq(D))
  PROVE  /\ FlattenSeq(q) \in Seq(D)
         /\ \A p : p \in ToSet(FlattenSeq(q)) <=> Among(q, p)
<1>1. Len(q) \in Nat /\ DOMAIN q = 1 .. Len(q)
  OBVIOUS
<1>2. CASE Len(q) = 0
  <2>1. q = <<>> /\ FlattenSeq(q) = q /\ DOMAIN q = {}
    BY <1>1, <1>2 DEF FlattenSeq
  <2>2. FlattenSeq(q) = <<>>
    BY <2>1
  <2>3. <<>> \in Seq(D) /\ \A p : p \notin ToSet(<<>>)
    BY DEF ToSet
  <2>4. \A p : ~Among(q, p)
    BY <2>1 DEF Among
  <2> QED BY <2>2, <2>3, <2>4
<1>3. CASE Len(q) # 0
  <2>1. Len(q) \in 1 .. Len(q)
    BY <1>1, <1>3
  <2>2. PICK f : Merged(q, D, f, Len(q)) /\ FlattenSeq(q) = f[Len(q)]
    BY <1>3, FlattenMerged
  <2>3. f[Len(q)] \in Seq(D)
    BY <2>1, <2>2 DEF Merged
  <2>4. \A p : p \in ToSet(f[Len(q)]) <=> Among(q, p)
    BY <1>1, <2>1, <2>2 DEF Merged, Among
  <2> QED BY <2>2, <2>3, <2>4
<1> QED BY <1>2, <1>3

\* One command or message more, or less.
LEMMA CarriedAdded ==
  ASSUME NEW S, NEW d, NEW p, OnceCarried(S, p)
  PROVE  /\ Carried(S \cup {d}, p) <=> Carried(S, p) \/ p \in ToSet(d.text)
         /\ ~(Carried(S, p) /\ p \in ToSet(d.text)) => OnceCarried(S \cup {d}, p)
BY DEF Carried, OnceCarried

LEMMA CarriedTaken ==
  ASSUME NEW S, NEW d \in S, NEW p, OnceCarried(S, p)
  PROVE  /\ Carried(S, p) <=> Carried(S \ {d}, p) \/ p \in ToSet(d.text)
         /\ ~(Carried(S \ {d}, p) /\ p \in ToSet(d.text))
         /\ OnceCarried(S \ {d}, p)
BY DEF Carried, OnceCarried

LEMMA NothingCarried ==
  \A p : p \notin ToSet(<<>>)
BY DEF ToSet

\* A command or a message without prompts comes or goes.
LEMMA PlainAdded ==
  ASSUME NEW S, NEW d, d.text = <<>>, NEW p, OnceCarried(S, p)
  PROVE  (Carried(S \cup {d}, p) <=> Carried(S, p)) /\ OnceCarried(S \cup {d}, p)
BY CarriedAdded, NothingCarried

LEMMA PlainTaken ==
  ASSUME NEW S, NEW d, d.text = <<>>, NEW p, OnceCarried(S, p)
  PROVE  (Carried(S \ {d}, p) <=> Carried(S, p)) /\ OnceCarried(S \ {d}, p)
<1>1. CASE d \in S
  BY <1>1, CarriedTaken, NothingCarried
<1>2. CASE d \notin S
  <2>1. S \ {d} = S
    BY <1>2
  <2> QED BY <2>1
<1> QED BY <1>1, <1>2

LEMMA AnswersOfMail ==
  ASSUME NEW ms, NEW m
  PROVE  /\ m.kind \in {"rejected", "error"} => /\ Answers(ms \cup {m}) = Answers(ms) \cup {m}
                                                /\ Answers(ms \ {m}) = Answers(ms) \ {m}
         /\ m.kind \notin {"rejected", "error"} => /\ Answers(ms \cup {m}) = Answers(ms)
                                                   /\ Answers(ms \ {m}) = Answers(ms)
BY DEF Answers

LEMMA Appended ==
  ASSUME NEW D, NEW es \in Seq(D), NEW e \in D
  PROVE  /\ DOMAIN es = 1 .. Len(es) /\ DOMAIN Append(es, e) = 1 .. Len(es) + 1 /\ Len(es) \in Nat
         /\ Append(es, e)[Len(es) + 1] = e /\ \A i \in 1 .. Len(es) : Append(es, e)[i] = es[i]
<1>1. /\ Append(es, e) \in Seq(D) /\ Len(Append(es, e)) = Len(es) + 1
      /\ Append(es, e)[Len(es) + 1] = e
      /\ \A i \in 1 .. Len(es) : Append(es, e)[i] = es[i]
  OBVIOUS
<1>2. \A g \in Seq(D) : DOMAIN g = 1 .. Len(g) /\ Len(g) \in Nat
  OBVIOUS
<1> QED BY <1>1, <1>2

\* A session goes on: its task stays, and the event e may be its next.
GoesOn(r, q, e) ==
  /\ q \in Seq(SessionRecords) /\ Len(q) = Len(r) /\ Tasks(q) = Tasks(r)
  /\ \A p : InstructedIn(q, p) <=>
              InstructedIn(r, p) \/ Instructs(e, p)

LEMMA SessionGoesOn ==
  \A r \in Seq(SessionRecords) : \A s \in DOMAIN r, e \in EventRecords, t \in SessionRecords : \A q :
    (/\ t.task = r[s].task /\ t.followed = r[s].followed /\ q = [r EXCEPT ![s] = t]
     /\ \/ t.events = r[s].events /\ e.kind # "instruction"
        \/ t.events = Append(r[s].events, e))
    => GoesOn(r, q, e)
<1> TAKE r \in Seq(SessionRecords)
<1> TAKE s \in DOMAIN r, e \in EventRecords, t \in SessionRecords
<1> TAKE q
<1> HAVE /\ t.task = r[s].task /\ t.followed = r[s].followed /\ q = [r EXCEPT ![s] = t]
         /\ \/ t.events = r[s].events /\ e.kind # "instruction"
            \/ t.events = Append(r[s].events, e)
<1>1. /\ q \in Seq(SessionRecords) /\ Len(q) = Len(r) /\ DOMAIN q = DOMAIN r
      /\ q[s] = t /\ \A u \in DOMAIN r : u # s => q[u] = r[u]
  OBVIOUS
<1>2. Tasks(q) = Tasks(r)
  BY <1>1 DEF Tasks, TaskOf
<1>3. PICK es : es = r[s].events
  OBVIOUS
<1>4. es \in Seq(EventRecords)
  <2>1. r[s] \in SessionRecords
    OBVIOUS
  <2> QED BY <1>3, <2>1 DEF SessionRecords
<1>5. ASSUME NEW p
      PROVE  InstructedIn(q, p) <=>
               InstructedIn(r, p) \/ Instructs(e, p)
  <2>1. PICK fs : fs = t.events
    OBVIOUS
  <2>2. (\E i \in DOMAIN fs : Instructs(fs[i], p)) <=>
          \/ \E i \in DOMAIN es : Instructs(es[i], p)
          \/ Instructs(e, p)
    <3>1. CASE fs = es /\ e.kind # "instruction"
      BY <3>1 DEF Instructs
    <3>2. CASE fs = Append(es, e)
      <4>1. /\ DOMAIN es = 1 .. Len(es) /\ DOMAIN fs = 1 .. Len(es) + 1 /\ Len(es) \in Nat
            /\ fs[Len(es) + 1] = e /\ \A i \in 1 .. Len(es) : fs[i] = es[i]
        <5>1. /\ DOMAIN es = 1 .. Len(es) /\ DOMAIN Append(es, e) = 1 .. Len(es) + 1 /\ Len(es) \in Nat
              /\ Append(es, e)[Len(es) + 1] = e /\ \A i \in 1 .. Len(es) : Append(es, e)[i] = es[i]
          BY <1>4, Appended
        <5> QED BY <3>2, <5>1
      <4>2. (\A i \in 1 .. Len(es) + 1 : i \in 1 .. Len(es) \/ i = Len(es) + 1)
            /\ (\A i \in 1 .. Len(es) : i \in 1 .. Len(es) + 1) /\ Len(es) + 1 \in 1 .. Len(es) + 1
        BY <4>1
      <4> QED BY <4>1, <4>2
    <3> QED BY <1>3, <2>1, <3>1, <3>2
  <2>3. q[s].events = fs /\ r[s].events = es
    BY <1>1, <1>3, <2>1
  <2> QED BY <1>1, <2>2, <2>3 DEF InstructedIn
<1> QED BY <1>1, <1>2, <1>5 DEF GoesOn

\* A session begins: its task is one more.
LEMMA SessionBegins ==
  ASSUME NEW r \in Seq(SessionRecords), NEW t \in SessionRecords, NEW text,
         t.events = <<Entry("created", text)>>, NEW p
  PROVE  /\ Append(r, t) \in Seq(SessionRecords)
         /\ Len(Append(r, t)) = Len(r) + 1
         /\ Tasks(r) \in Seq(Seq(PromptIds))
         /\ Tasks(Append(r, t)) = Append(Tasks(r), TaskOf(t))
         /\ TaskOf(t) \in Seq(PromptIds)
         /\ InstructedIn(Append(r, t), p) <=> InstructedIn(r, p)
<1>1. PICK q : q = Append(r, t)
  OBVIOUS
<1>2. /\ q \in Seq(SessionRecords) /\ Len(q) = Len(r) + 1 /\ Len(r) \in Nat
      /\ DOMAIN r = 1 .. Len(r) /\ DOMAIN q = 1 .. Len(r) + 1
      /\ q[Len(r) + 1] = t /\ \A i \in 1 .. Len(r) : q[i] = r[i]
  BY <1>1
<1>3. (\A i \in 1 .. Len(r) + 1 : i \in 1 .. Len(r) \/ i = Len(r) + 1)
      /\ (\A i \in 1 .. Len(r) : i \in 1 .. Len(r) + 1 /\ i # Len(r) + 1)
  BY <1>2
<1>4. TaskOf(t) \in Seq(PromptIds) /\ \A s \in 1 .. Len(r) : TaskOf(r[s]) \in Seq(PromptIds)
  <2>1. \A s \in 1 .. Len(r) : r[s] \in SessionRecords
    BY <1>2
  <2>2. \A x \in SessionRecords : TaskOf(x) \in Seq(PromptIds)
    BY DEF SessionRecords, TaskOf
  <2> QED BY <2>1, <2>2
<1>5. Tasks(r) = [s \in 1 .. Len(r) |-> TaskOf(r[s])]
  BY <1>2 DEF Tasks
<1>6. Tasks(r) \in Seq(Seq(PromptIds)) /\ Len(Tasks(r)) = Len(r)
  BY <1>2, <1>4, <1>5
<1>7. Tasks(q) = Append(Tasks(r), TaskOf(t))
  <2>1. PICK a : a = Append(Tasks(r), TaskOf(t))
    OBVIOUS
  <2>2. PICK b : b = Tasks(r)
    OBVIOUS
  <2>3. PICK u : u = TaskOf(t)
    OBVIOUS
  <2>4. a = [i \in 1 .. Len(r) + 1 |-> IF i = Len(r) + 1 THEN TaskOf(t) ELSE b[i]]
    <3>1. u \in Seq(PromptIds) /\ b \in Seq(Seq(PromptIds)) /\ Len(b) = Len(r) /\ Len(r) \in Nat
      BY <1>2, <1>4, <1>6, <2>2, <2>3
    <3>2. PICK n : n = Len(r)
      OBVIOUS
    <3>3. \A i \in 1 .. n : i # n + 1
      BY <3>1, <3>2
    <3>4. \A i \in 1 .. n + 1 : i \in 1 .. n \/ i = n + 1
      BY <3>1, <3>2
    <3>5. Append(b, u) \in Seq(Seq(PromptIds)) /\ DOMAIN Append(b, u) = 1 .. n + 1
      BY <3>1, <3>2
    <3>6. Append(b, u)[n + 1] = u /\ \A i \in 1 .. n : Append(b, u)[i] = b[i]
      BY <3>1, <3>2, Appended
    <3>7. PICK w : w = Append(b, u)
      OBVIOUS
    <3>8. w = [i \in 1 .. n + 1 |-> w[i]]
      <4>1. w \in Seq(Seq(PromptIds)) /\ DOMAIN w = 1 .. n + 1
        BY <3>5, <3>7
      <4>2. \A z : z \in Seq(Seq(PromptIds)) => z = [i \in DOMAIN z |-> z[i]]
        OBVIOUS
      <4> QED BY <4>1, <4>2
    <3>9. \A i \in 1 .. n + 1 : w[i] = IF i = n + 1 THEN u ELSE b[i]
      BY <3>3, <3>4, <3>6, <3>7
    <3>10. w = [i \in 1 .. n + 1 |-> IF i = n + 1 THEN u ELSE b[i]]
      BY <3>8, <3>9
    <3> QED BY <2>1, <2>2, <2>3, <3>2, <3>7, <3>10
  <2>5. Tasks(q) = [s \in 1 .. Len(r) + 1 |-> TaskOf(q[s])]
    BY <1>2 DEF Tasks
  <2>6. \A s \in 1 .. Len(r) + 1 : TaskOf(q[s]) = IF s = Len(r) + 1 THEN TaskOf(t) ELSE b[s]
    BY <1>2, <1>3, <1>5, <2>2
  <2> QED BY <2>1, <2>4, <2>5, <2>6
<1>8. InstructedIn(q, p) <=> InstructedIn(r, p)
  <2>1. PICK es : es = t.events
    OBVIOUS
  <2>2. DOMAIN es = {1} /\ es[1].kind = "created"
    BY <2>1 DEF Entry
  <2>3. ~ \E i \in DOMAIN es : Instructs(es[i], p)
    BY <2>2 DEF Instructs
  <2> QED BY <1>2, <1>3, <2>1, <2>3 DEF InstructedIn
<1> QED BY <1>1, <1>2, <1>4, <1>6, <1>7, <1>8

LEMMA CommandType ==
  ASSUME NEW op \in {"start", "continue", "open", "steer", "cancel", "other"},
         NEW text \in Seq(PromptIds), NEW s \in Nat
  PROVE  /\ Command(op, text, s) \in TerminalCommandRecords
         /\ Command(op, text, s).op = op /\ Command(op, text, s).text = text
         /\ Command(op, text, s).session = s
BY DEF Command, TerminalCommandRecords

LEMMA MessageFields ==
  \A kind, text, s :
    /\ PlainMessage(kind, text, s).kind = kind /\ PlainMessage(kind, text, s).text = text
    /\ PlainMessage(kind, text, s).session = s
BY DEF PlainMessage

LEMMA EntryType ==
  ASSUME NEW kind \in EventKinds, NEW text \in Seq(PromptIds)
  PROVE  /\ Entry(kind, text) \in EventRecords
         /\ Entry(kind, text).kind = kind /\ Entry(kind, text).text = text
         /\ Entry(kind, text).late = FALSE
BY DEF Entry, EventRecords

LEMMA LateType ==
  ASSUME NEW text \in Seq(PromptIds)
  PROVE  /\ LateInstruction(text) \in EventRecords /\ LateInstruction(text).text = text
         /\ LateInstruction(text).late = TRUE
BY DEF LateInstruction, Entry, EventRecords, EventKinds

\* A prompt stays where it is, or moves from one place to another.
LEMMA PromptStays ==
  ASSUME NEW p \in PromptIds, PromptInv(p), prompts'.typed = prompts.typed, AloneInv(p)',
         \A n \in Places : At(n, p)' <=> At(n, p)
  PROVE  PromptInv(p)'
BY DEF PromptInv, AtOnePlace

LEMMA PromptMoves ==
  ASSUME NEW p \in PromptIds, PromptInv(p), prompts'.typed = prompts.typed, AloneInv(p)',
         NEW k \in Places, At(k, p), NEW l \in Places,
         \A n \in Places : At(n, p)' <=> \/ n # k /\ At(n, p)
                                         \/ n = l
  PROVE  PromptInv(p)'
<1>1. prompts.typed \in Nat /\ p \in Nat => p <= prompts.typed \/ p > prompts.typed
  OBVIOUS
<1> QED BY <1>1 DEF PromptInv, AtOnePlace

LEMMA OnePlaceOnly ==
  ASSUME NEW p \in PromptIds, PromptInv(p), NEW k \in Places, NEW l \in Places,
         At(k, p), At(l, p), WiringInv
  PROVE  k = l
<1>1. prompts.typed \in Nat
  BY DEF WiringInv, PromptRecords
<1>2. p <= prompts.typed \/ p > prompts.typed
  BY <1>1 DEF PromptIds
<1> QED BY <1>2 DEF PromptInv, AtOnePlace

LEMMA AloneNow ==
  ASSUME PlacesInv, NEW p \in PromptIds
  PROVE  /\ PromptInv(p) /\ OnceAmong(ui.queued, p) /\ OnceCarried(commands, p)
         /\ OnceCarried(Answers(mail), p) /\ OnceAmong(Tasks(ran), p)
BY DEF PlacesInv, PromptInv, AloneInv

\* Sessions are never forgotten, so what refers to one still does.
LEMMA WiringGrows ==
  ASSUME WiringInv, ran' \in Seq(SessionRecords), Len(ran) <= Len(ran'),
         prompts' \in PromptRecords, PayloadsOK(ui)',
         \A c \in commands' : c \in commands \/ CommandOK(c)',
         \A m \in mail' : m \in mail \/ MessageOK(m)'
  PROVE  WiringInv'
<1>1. Len(ran) \in Nat /\ Len(ran') \in Nat
  BY DEF WiringInv
<1>2. \A s : /\ s \in 1 .. Len(ran) => s \in 1 .. Len(ran')
             /\ s \in 0 .. Len(ran) => s \in 0 .. Len(ran')
  BY <1>1
<1>3. \A c \in commands : CommandOK(c)'
  BY <1>2 DEF WiringInv, CommandOK
<1>4. \A m \in mail : MessageOK(m)'
  BY <1>2 DEF WiringInv, MessageOK
<1> QED BY <1>3, <1>4 DEF WiringInv

\* The same prompts are at the same places.
LEMMA NothingMoves ==
  ASSUME PlacesInv, WiringInv', ui'.draft = ui.draft, ui'.queued = ui.queued,
         prompts'.typed = prompts.typed, prompts'.discarded = prompts.discarded,
         prompts'.reported = prompts.reported, Tasks(ran') = Tasks(ran),
         \A p \in PromptIds : InstructedIn(ran', p) <=> InstructedIn(ran, p),
         \A p \in PromptIds : /\ Carried(commands', p) <=> Carried(commands, p)
                              /\ OnceCarried(commands', p),
         \A p \in PromptIds : /\ Carried(Answers(mail'), p) <=> Carried(Answers(mail), p)
                              /\ OnceCarried(Answers(mail'), p)
  PROVE  PlacesInv'
<1> SUFFICES ASSUME NEW p \in PromptIds
             PROVE  PromptInv(p)'
  BY DEF PlacesInv
<1>1. PromptInv(p)
  BY DEF PlacesInv
<1>2. AloneInv(p)'
  BY <1>1 DEF PromptInv, AloneInv
<1>3. ASSUME NEW n \in Places
      PROVE  At(n, p)' <=> At(n, p)
  BY DEF At
<1> QED BY <1>1, <1>2, <1>3, PromptStays

\* A session ends, or leaves the engine's table.
LEMMA RunEndStep ==
  ASSUME PlacesInv, NEW s \in Sessions, NEW kind \in {"completed", "failed"},
         EndRun(s, kind) \/ LeaveTable(s)
  PROVE  PlacesInv'
<1>1. /\ s \in DOMAIN ran /\ ran \in Seq(SessionRecords)
      /\ ui' = ui /\ prompts' = prompts /\ commands' = commands /\ mail' = mail
  BY DEF EndRun, LeaveTable, PlacesInv, WiringInv
<1>2. ran[s] \in SessionRecords
  BY <1>1
<1>3. PICK e : e = Entry(kind, <<>>)
  OBVIOUS
<1>4. e \in EventRecords /\ e.kind # "instruction"
  <2>1. kind \in EventKinds /\ kind # "instruction" /\ <<>> \in Seq(PromptIds)
    BY DEF EventKinds
  <2> QED BY <1>3, <2>1, EntryType
<1>5. PICK t : /\ t \in SessionRecords /\ t.task = ran[s].task /\ t.followed = ran[s].followed
               /\ t.events = ran[s].events \/ t.events = Append(ran[s].events, e)
               /\ ran' = [ran EXCEPT ![s] = t]
  <2>1. CASE EndRun(s, kind)
    <3>1. PICK t : t = Ended(ran[s], kind)
      OBVIOUS
    <3>2. ran' = [ran EXCEPT ![s] = t]
      BY <1>1, <2>1, <3>1 DEF EndRun
    <3>3. /\ t.task = ran[s].task /\ t.followed = ran[s].followed
          /\ t.events = Append(ran[s].events, e)
      BY <1>2, <1>3, <3>1 DEF Ended, SessionRecords
    <3>4. t \in SessionRecords
      <4>1. Append(ran[s].events, e) \in Seq(EventRecords)
        BY <1>2, <1>4 DEF SessionRecords
      <4>2. kind \in {"running", "completed", "failed", "cancelled"}
        OBVIOUS
      <4>3. t = [ran[s] EXCEPT !.status = kind, !.events = Append(@, e)]
        BY <1>3, <3>1 DEF Ended
      <4> QED BY <1>2, <4>1, <4>2, <4>3 DEF SessionRecords
    <3> QED BY <3>2, <3>3, <3>4
  <2>2. CASE LeaveTable(s)
    <3>1. PICK t : t = [ran[s] EXCEPT !.active = FALSE]
      OBVIOUS
    <3>2. ran' = [ran EXCEPT ![s] = t]
      BY <1>1, <2>2, <3>1 DEF LeaveTable
    <3> QED BY <1>2, <3>1, <3>2 DEF SessionRecords
  <2> QED BY <2>1, <2>2
<1>6. /\ ran' \in Seq(SessionRecords) /\ Len(ran') = Len(ran) /\ Tasks(ran') = Tasks(ran)
      /\ \A p : InstructedIn(ran', p) <=> InstructedIn(ran, p)
  <2>1. GoesOn(ran, ran', e)
    <3>1. SUFFICES ASSUME NEW r, r = ran, NEW q, q = ran'
                   PROVE  GoesOn(r, q, e)
      OBVIOUS
    <3>2. /\ r \in Seq(SessionRecords) /\ s \in DOMAIN r
          /\ t.task = r[s].task /\ t.followed = r[s].followed
          /\ t.events = r[s].events \/ t.events = Append(r[s].events, e)
      BY <1>1, <1>5, <3>1
    <3>3. q = [r EXCEPT ![s] = t]
      BY <1>5, <3>1
    <3> QED BY <1>4, <1>5, <3>2, <3>3, SessionGoesOn, Zenon
  <2> QED BY <1>4, <2>1 DEF GoesOn, Instructs
<1>7. WiringInv'
  <2>1. Len(ran) <= Len(ran')
    BY <1>1, <1>6
  <2>2. PayloadsOK(ui)'
    BY <1>1, <1>6 DEF PlacesInv, WiringInv, PayloadsOK
  <2> QED BY <1>1, <1>6, <2>1, <2>2, WiringGrows DEF PlacesInv, WiringInv
<1> QED BY <1>1, <1>6, <1>7, NothingMoves, AloneNow

\* The next event of a subscription arrives.
LEMMA TakeEventStep ==
  ASSUME PlacesInv, NEW s \in Sessions, TakeEvent(s)
  PROVE  PlacesInv'
<1>1. ui' = ui /\ prompts' = prompts /\ commands' = commands /\ ran' = ran
  BY DEF TakeEvent
<1>2. PICK e : e = [kind |-> "event", text |-> <<>>, session |-> s, event |-> streams[s].at + 1]
  OBVIOUS
<1>3. mail' = mail \/ mail' = mail \cup {e}
  BY <1>2 DEF TakeEvent
<1>4. Answers(mail') = Answers(mail)
  BY <1>2, <1>3 DEF Answers
<1>5. e.text \in Seq(PromptIds) /\ e.kind = "event"
  BY <1>2
<1>6. WiringInv'
  BY <1>1, <1>3, <1>5 DEF PlacesInv, WiringInv, PayloadsOK, CommandOK, MessageOK
<1> QED BY <1>1, <1>4, <1>6, NothingMoves, AloneNow

\* A command ends without a prompt and answers, or does not.
LEMMA PlainCommandEnds ==
  ASSUME PlacesInv, WiringInv', NEW c \in commands, c.text = <<>>, NEW m, m.text = <<>>,
         ui' = ui, prompts' = prompts, commands' = commands \ {c},
         mail' = mail \/ mail' = mail \cup {m},
         Tasks(ran') = Tasks(ran),
         \A p \in PromptIds : InstructedIn(ran', p) <=> InstructedIn(ran, p)
  PROVE  PlacesInv'
<1>1. ASSUME NEW p \in PromptIds
      PROVE  /\ Carried(commands', p) <=> Carried(commands, p)
             /\ OnceCarried(commands', p)
  BY AloneNow, PlainTaken
<1>2. ASSUME NEW p \in PromptIds
      PROVE  /\ Carried(Answers(mail'), p) <=> Carried(Answers(mail), p)
             /\ OnceCarried(Answers(mail'), p)
  <2>1. \/ Answers(mail') = Answers(mail)
        \/ Answers(mail') = Answers(mail) \cup {m}
    <3>1. Answers(mail \cup {m}) = Answers(mail) \/ Answers(mail \cup {m}) = Answers(mail) \cup {m}
      BY AnswersOfMail
    <3> QED BY <3>1
  <2> QED BY <2>1, AloneNow, PlainAdded
<1> QED BY <1>1, <1>2, NothingMoves

\* A command's prompts come back in an answer.
LEMMA CommandAnswered ==
  ASSUME PlacesInv, WiringInv', NEW c \in commands, NEW m, m.text = c.text,
         m.kind \in {"rejected", "error"},
         ui' = ui, prompts' = prompts, commands' = commands \ {c}, mail' = mail \cup {m},
         \A p \in PromptIds : /\ InstructedIn(ran', p) <=> InstructedIn(ran, p)
                              /\ Among(Tasks(ran'), p) <=> Among(Tasks(ran), p)
                              /\ OnceAmong(Tasks(ran'), p)
  PROVE  PlacesInv'
<1> SUFFICES ASSUME NEW p \in PromptIds
             PROVE  PromptInv(p)'
  BY DEF PlacesInv
<1>1. /\ PromptInv(p) /\ OnceAmong(ui.queued, p) /\ OnceCarried(commands, p)
      /\ OnceCarried(Answers(mail), p) /\ OnceAmong(Tasks(ran), p) /\ WiringInv
  BY AloneNow DEF PlacesInv
<1>2. Answers(mail') = Answers(mail) \cup {m}
  BY AnswersOfMail
<1>3. /\ Carried(commands, p) <=> Carried(commands', p) \/ p \in ToSet(c.text)
      /\ ~(Carried(commands', p) /\ p \in ToSet(c.text))
      /\ OnceCarried(commands', p)
  BY <1>1, CarriedTaken
<1>4. /\ Carried(Answers(mail'), p) <=> Carried(Answers(mail), p) \/ p \in ToSet(c.text)
      /\ ~(Carried(Answers(mail), p) /\ p \in ToSet(c.text)) => OnceCarried(Answers(mail'), p)
  BY <1>1, <1>2, CarriedAdded
<1>5. CASE p \notin ToSet(c.text)
  <2>1. AloneInv(p)'
    BY <1>1, <1>3, <1>4, <1>5 DEF AloneInv
  <2>2. ASSUME NEW n \in Places
        PROVE  At(n, p)' <=> At(n, p)
    BY <1>3, <1>4, <1>5 DEF At
  <2> QED BY <1>1, <2>1, <2>2, PromptStays
<1>6. CASE p \in ToSet(c.text)
  <2>1. At("command", p) /\ "command" \in Places /\ "answer" \in Places
    BY <1>3, <1>6 DEF At, Places
  <2>2. ~At("answer", p)
    BY <1>1, <2>1, OnePlaceOnly
  <2>3. ~Carried(Answers(mail), p)
    BY <2>2 DEF At
  <2>4. AloneInv(p)'
    BY <1>1, <1>3, <1>4, <2>3 DEF AloneInv
  <2>5. ASSUME NEW n \in Places
        PROVE  At(n, p)' <=> \/ n # "command" /\ At(n, p)
                             \/ n = "answer"
    BY <1>3, <1>4, <1>6 DEF At
  <2> QED BY <1>1, <2>1, <2>4, <2>5, PromptMoves
<1> QED BY <1>5, <1>6

LEMMA OpenedType ==
  ASSUME NEW text \in Seq(PromptIds), NEW s \in Nat
  PROVE  LET t == Opened(text, s)
             u == [t EXCEPT !.followed = FALSE]
         IN  /\ t \in SessionRecords /\ t.task = text /\ t.events = <<Entry("created", text)>>
             /\ t.followed /\ TaskOf(t) = text
             /\ u \in SessionRecords /\ u.task = text /\ u.events = <<Entry("created", text)>>
             /\ ~u.followed /\ TaskOf(u) = <<>>
<1>1. Entry("created", text) \in EventRecords
  BY EntryType DEF EventKinds
<1>2. PICK es : es = <<Entry("created", text)>>
  OBVIOUS
<1>3. es \in Seq(EventRecords)
  BY <1>1, <1>2
<1>4. PICK t : t = Opened(text, s)
  OBVIOUS
<1>5. t = [status |-> "running", active |-> TRUE, followed |-> TRUE, previous |-> s,
           task |-> text, events |-> es]
  BY <1>2, <1>4 DEF Opened
<1>6. t \in SessionRecords /\ t.task = text /\ t.events = es /\ t.followed
  BY <1>3, <1>5 DEF SessionRecords
<1>7. PICK u : u = [t EXCEPT !.followed = FALSE]
  OBVIOUS
<1>8. u \in SessionRecords /\ u.task = text /\ u.events = es /\ ~u.followed
  BY <1>6, <1>7 DEF SessionRecords
<1>9. TaskOf(t) = text /\ TaskOf(u) = <<>>
  BY <1>6, <1>8 DEF TaskOf
<1> QED BY <1>2, <1>4, <1>6, <1>7, <1>8, <1>9

\* startSessionCmd and continueSessionCmd.
LEMMA RunStartStep ==
  ASSUME PlacesInv, NEW c \in commands, RunStart(c)
  PROVE  PlacesInv'
<1>1. /\ ui' = ui /\ prompts' = prompts /\ commands' = commands \ {c} /\ WiringInv
      /\ CommandOK(c) /\ c.text \in Seq(PromptIds) /\ c.session \in Nat
      /\ ran \in Seq(SessionRecords)
  BY DEF RunStart, Post, PlacesInv, WiringInv, CommandOK, TerminalCommandRecords
<1>2. CASE ran' = ran /\ mail' = mail \cup Failure(c)
  <2>1. PICK m : m = PlainMessage("error", c.text, c.session)
    OBVIOUS
  <2>2. m.text = c.text /\ m.kind = "error" /\ mail' = mail \cup {m}
    BY <1>2, <2>1, MessageFields DEF Failure
  <2>3. WiringInv'
    BY <1>1, <1>2, <2>2 DEF WiringInv, PayloadsOK, CommandOK, MessageOK
  <2> QED BY <1>1, <1>2, <2>2, <2>3, CommandAnswered, AloneNow
<1>3. CASE /\ ran' = Append(ran, Opened(c.text, c.session))
           /\ mail' = mail \cup {PlainMessage("started", c.text, Len(ran) + 1)}
  <2>1. PICK t : t = Opened(c.text, c.session)
    OBVIOUS
  <2>2. /\ t \in SessionRecords /\ TaskOf(t) = c.text
        /\ t.events = <<Entry("created", c.text)>>
    BY <1>1, <2>1, OpenedType
  <2>3. PICK m : m = PlainMessage("started", c.text, Len(ran) + 1)
    OBVIOUS
  <2>4. /\ m.text = c.text /\ m.kind = "started" /\ m.session = Len(ran) + 1
        /\ mail' = mail \cup {m}
    BY <1>3, <2>3, MessageFields
  <2>5. Answers(mail') = Answers(mail)
    BY <2>4, AnswersOfMail
  <2>6. /\ ran' \in Seq(SessionRecords) /\ Len(ran') = Len(ran) + 1
        /\ Tasks(ran) \in Seq(Seq(PromptIds))
        /\ Tasks(ran') = Append(Tasks(ran), c.text)
        /\ \A p : InstructedIn(ran', p) <=> InstructedIn(ran, p)
    <3>1. ran' = Append(ran, t)
      BY <1>3, <2>1
    <3>2. ASSUME NEW p
          PROVE  /\ Append(ran, t) \in Seq(SessionRecords)
                 /\ Len(Append(ran, t)) = Len(ran) + 1
                 /\ Tasks(ran) \in Seq(Seq(PromptIds))
                 /\ Tasks(Append(ran, t)) = Append(Tasks(ran), TaskOf(t))
                 /\ InstructedIn(Append(ran, t), p) <=> InstructedIn(ran, p)
      BY <1>1, <2>2, SessionBegins, Zenon
    <3> QED BY <2>2, <3>1, <3>2, Zenon
  <2>7. WiringInv'
    <3>1. Len(ran) \in Nat
      BY <1>1
    <3>2. Len(ran) <= Len(ran') /\ Len(ran) + 1 \in 1 .. Len(ran') /\ PayloadsOK(ui)'
      <4>1. ui.session \in 0 .. Len(ran) => ui.session \in 0 .. Len(ran) + 1
        BY <3>1
      <4>2. Len(ran) <= Len(ran) + 1 /\ Len(ran) + 1 \in 1 .. Len(ran) + 1
        BY <3>1
      <4> QED BY <1>1, <2>6, <4>1, <4>2 DEF WiringInv, PayloadsOK
    <3>3. MessageOK(m)'
      BY <1>1, <2>4, <3>2 DEF MessageOK
    <3> QED BY <1>1, <2>4, <2>6, <3>2, <3>3, WiringGrows DEF WiringInv
  <2> SUFFICES ASSUME NEW p \in PromptIds
               PROVE  PromptInv(p)'
    BY <2>7 DEF PlacesInv
  <2>8. /\ PromptInv(p) /\ OnceAmong(ui.queued, p) /\ OnceCarried(commands, p)
        /\ OnceCarried(Answers(mail), p) /\ OnceAmong(Tasks(ran), p)
    BY AloneNow
  <2>9. /\ Carried(commands, p) <=> Carried(commands', p) \/ p \in ToSet(c.text)
        /\ ~(Carried(commands', p) /\ p \in ToSet(c.text))
        /\ OnceCarried(commands', p)
    BY <1>1, <2>8, CarriedTaken
  <2>10. /\ Among(Tasks(ran'), p) <=> Among(Tasks(ran), p) \/ p \in ToSet(c.text)
         /\ ~(Among(Tasks(ran), p) /\ p \in ToSet(c.text)) => OnceAmong(Tasks(ran'), p)
    BY <1>1, <2>6, <2>8, AppendAmong
  <2>11. CASE p \notin ToSet(c.text)
    <3>1. AloneInv(p)'
      BY <1>1, <2>5, <2>8, <2>9, <2>10, <2>11 DEF AloneInv
    <3>2. ASSUME NEW n \in Places
          PROVE  At(n, p)' <=> At(n, p)
      BY <1>1, <2>5, <2>6, <2>9, <2>10, <2>11 DEF At
    <3> QED BY <1>1, <2>8, <3>1, <3>2, PromptStays
  <2>12. CASE p \in ToSet(c.text)
    <3>1. At("command", p) /\ "command" \in Places /\ "task" \in Places
      BY <2>9, <2>12 DEF At, Places
    <3>2. ~At("task", p)
      BY <1>1, <2>8, <3>1, OnePlaceOnly
    <3>3. ~Among(Tasks(ran), p)
      BY <3>2 DEF At
    <3>4. AloneInv(p)'
      BY <1>1, <2>5, <2>8, <2>9, <2>10, <3>3 DEF AloneInv
    <3>5. ASSUME NEW n \in Places
          PROVE  At(n, p)' <=> \/ n # "command" /\ At(n, p)
                               \/ n = "task"
      BY <1>1, <2>5, <2>6, <2>9, <2>10, <2>12 DEF At
    <3> QED BY <1>1, <2>8, <3>1, <3>4, <3>5, PromptMoves
  <2> QED BY <2>11, <2>12
<1>4. CASE /\ ran' = Append(ran, [Opened(c.text, c.session) EXCEPT !.followed = FALSE])
           /\ mail' = mail \cup Failure(c)
  <2>1. PICK m : m = PlainMessage("error", c.text, c.session)
    OBVIOUS
  <2>2. m.text = c.text /\ m.kind = "error" /\ mail' = mail \cup {m}
    BY <1>4, <2>1, MessageFields DEF Failure
  <2>3. PICK t : t = [Opened(c.text, c.session) EXCEPT !.followed = FALSE]
    OBVIOUS
  <2>4. /\ t \in SessionRecords /\ TaskOf(t) = <<>>
        /\ t.events = <<Entry("created", c.text)>>
    BY <1>1, <2>3, OpenedType
  <2>5. /\ ran' \in Seq(SessionRecords) /\ Len(ran') = Len(ran) + 1
        /\ Tasks(ran) \in Seq(Seq(PromptIds))
        /\ Tasks(ran') = Append(Tasks(ran), <<>>)
        /\ \A p : InstructedIn(ran', p) <=> InstructedIn(ran, p)
    <3>1. ran' = Append(ran, t)
      BY <1>4, <2>3
    <3>2. ASSUME NEW p
          PROVE  /\ Append(ran, t) \in Seq(SessionRecords)
                 /\ Len(Append(ran, t)) = Len(ran) + 1
                 /\ Tasks(ran) \in Seq(Seq(PromptIds))
                 /\ Tasks(Append(ran, t)) = Append(Tasks(ran), TaskOf(t))
                 /\ InstructedIn(Append(ran, t), p) <=> InstructedIn(ran, p)
      BY <1>1, <2>4, SessionBegins, Zenon
    <3> QED BY <2>4, <3>1, <3>2, Zenon
  <2>6. ASSUME NEW p \in PromptIds
        PROVE  /\ Among(Tasks(ran'), p) <=> Among(Tasks(ran), p)
               /\ OnceAmong(Tasks(ran'), p)
    <3>1. OnceAmong(Tasks(ran), p)
      BY AloneNow
    <3>2. <<>> \in Seq(PromptIds) /\ p \notin ToSet(<<>>)
      BY NothingCarried
    <3>3. PICK none : none = <<>>
      OBVIOUS
    <3>4. PICK q : q = Tasks(ran)
      OBVIOUS
    <3>5. /\ Among(Append(q, none), p) <=> Among(q, p) \/ p \in ToSet(none)
          /\ ~(Among(q, p) /\ p \in ToSet(none)) => OnceAmong(Append(q, none), p)
      BY <2>5, <3>1, <3>2, <3>3, <3>4, AppendAmong
    <3> QED BY <2>5, <3>2, <3>3, <3>4, <3>5
  <2>7. WiringInv'
    <3>1. Len(ran) \in Nat
      BY <1>1
    <3>2. Len(ran) <= Len(ran') /\ PayloadsOK(ui)'
      <4>1. ui.session \in 0 .. Len(ran) => ui.session \in 0 .. Len(ran) + 1
        BY <3>1
      <4>2. Len(ran) <= Len(ran) + 1
        BY <3>1
      <4> QED BY <1>1, <2>5, <4>1, <4>2 DEF WiringInv, PayloadsOK
    <3>3. MessageOK(m)'
      BY <1>1, <2>2 DEF MessageOK
    <3> QED BY <1>1, <2>2, <2>5, <3>2, <3>3, WiringGrows DEF WiringInv
  <2> QED BY <1>1, <2>2, <2>5, <2>6, <2>7, CommandAnswered
<1> QED BY <1>2, <1>3, <1>4 DEF RunStart, Post

\* A session's next event is appended.
LEMMA WithEvent ==
  ASSUME NEW r \in SessionRecords, NEW e \in EventRecords, NEW t,
         \/ t = [r EXCEPT !.events = Append(@, e)]
         \/ t = [r EXCEPT !.status = "cancelled", !.events = Append(@, e)]
  PROVE  /\ t \in SessionRecords /\ t.task = r.task /\ t.followed = r.followed
         /\ t.events = Append(r.events, e)
<1>1. r.events \in Seq(EventRecords)
  BY DEF SessionRecords
<1>2. Append(r.events, e) \in Seq(EventRecords)
  BY <1>1
<1> QED BY <1>2 DEF SessionRecords

LEMMA EventAppended ==
  ASSUME WiringInv, NEW s \in 1 .. Len(ran), NEW e \in EventRecords, NEW t \in SessionRecords,
         t.task = ran[s].task, t.followed = ran[s].followed,
         t.events = Append(ran[s].events, e), ran' = [ran EXCEPT ![s] = t]
  PROVE  /\ ran' \in Seq(SessionRecords) /\ Len(ran') = Len(ran) /\ Len(ran) <= Len(ran')
         /\ Tasks(ran') = Tasks(ran)
         /\ \A p : InstructedIn(ran', p) <=>
                     InstructedIn(ran, p) \/ Instructs(e, p)
<1>1. ran \in Seq(SessionRecords) /\ s \in DOMAIN ran
  BY DEF WiringInv
<1>2. GoesOn(ran, ran', e)
  <2>1. SUFFICES ASSUME NEW r, r = ran, NEW a, a = t, NEW q, q = ran', NEW d, d = e
                 PROVE  GoesOn(r, q, d)
    OBVIOUS
  <2>2. /\ r \in Seq(SessionRecords) /\ s \in DOMAIN r /\ a \in SessionRecords /\ d \in EventRecords
        /\ a.task = r[s].task /\ a.followed = r[s].followed /\ a.events = Append(r[s].events, d)
    BY <1>1, <2>1
  <2>3. q = [r EXCEPT ![s] = a]
    BY <2>1
  <2> QED BY <2>2, <2>3, SessionGoesOn, Zenon
<1>3. Len(ran) <= Len(ran)
  BY <1>1
<1> QED BY <1>2, <1>3 DEF GoesOn

\* A session that is resumed keeps its task and its events.
LEMMA ResumedType ==
  ASSUME NEW r \in SessionRecords
  PROVE  /\ Resumed(r) \in SessionRecords /\ Resumed(r).task = r.task
         /\ Resumed(r).followed = r.followed /\ Resumed(r).events = r.events
         /\ Resumed(r).previous = r.previous
<1>1. PICK on \in BOOLEAN : on = (r.active \/ r.status = "running")
  OBVIOUS
<1>2. Resumed(r) = [r EXCEPT !.active = on]
  BY <1>1 DEF Resumed
<1> QED BY <1>2 DEF SessionRecords

\* resolveConversationCmd and openSessionCmd, and the commands that fail.
LEMMA RunOpenStep ==
  ASSUME PlacesInv, NEW c \in commands, RunOpen(c) \/ RunOther(c)
  PROVE  PlacesInv'
<1>1. /\ ui' = ui /\ prompts' = prompts /\ commands' = commands \ {c} /\ WiringInv
      /\ CommandOK(c) /\ c.op \in {"open", "other"}
  BY DEF RunOpen, RunOther, Post, PlacesInv, WiringInv
<1>2. /\ c.text = <<>> /\ (c.op = "open" => c.session \in 0 .. Len(ran))
      /\ c.op = "open" /\ c.session # NoSession => c.session \in 1 .. Len(ran)
  <2>1. Len(ran) \in Nat
    BY <1>1 DEF WiringInv
  <2> QED BY <1>1, <2>1 DEF CommandOK, NoSession
<1>3. PICK m : /\ mail' = mail \cup {m} /\ m.text = <<>>
               /\ m.kind \in {"started", "opened"} => m.session \in 1 .. Len(ran)
  <2>1. CASE mail' = mail \cup Failure(c)
    <3>1. PICK m : m = PlainMessage("error", c.text, c.session)
      OBVIOUS
    <3> QED BY <1>2, <2>1, <3>1, MessageFields DEF Failure
  <2>2. CASE c.op = "open" /\ c.session # NoSession /\ mail' = mail \cup {PlainMessage("opened", <<>>, c.session)}
    <3>1. PICK m : m = PlainMessage("opened", <<>>, c.session)
      OBVIOUS
    <3> QED BY <1>2, <2>2, <3>1, MessageFields
  <2> QED BY <2>1, <2>2 DEF RunOpen, RunOther, Post
<1>4. /\ ran' \in Seq(SessionRecords) /\ Len(ran') = Len(ran) /\ Len(ran) <= Len(ran')
      /\ Tasks(ran') = Tasks(ran) /\ \A p : InstructedIn(ran', p) <=> InstructedIn(ran, p)
  <2>1. CASE ran' = ran
    BY <1>1, <2>1 DEF WiringInv
  <2>2. CASE c.op = "open" /\ c.session # NoSession /\ ran' = [ran EXCEPT ![c.session] = Resumed(@)]
    <3>1. PICK s : s = c.session
      OBVIOUS
    <3>2. PICK r : r = ran
      OBVIOUS
    <3>3. r \in Seq(SessionRecords) /\ s \in DOMAIN r /\ r[s] \in SessionRecords /\ Len(r) \in Nat
      BY <1>1, <1>2, <2>2, <3>1, <3>2 DEF WiringInv
    <3>4. PICK t : t = Resumed(r[s])
      OBVIOUS
    <3>5. /\ t \in SessionRecords /\ t.task = r[s].task /\ t.followed = r[s].followed
          /\ t.events = r[s].events
      BY <3>3, <3>4, ResumedType
    <3>6. PICK e : e = Entry("created", <<>>)
      OBVIOUS
    <3>7. e \in EventRecords /\ e.kind # "instruction"
      BY <3>6 DEF Entry, EventRecords, EventKinds
    <3>8. PICK q : q = ran'
      OBVIOUS
    <3>9. q = [r EXCEPT ![s] = t]
      BY <2>2, <3>1, <3>2, <3>4, <3>8
    <3>10. GoesOn(r, q, e)
      BY <3>3, <3>5, <3>7, <3>9, SessionGoesOn, Zenon
    <3> QED BY <3>2, <3>3, <3>7, <3>8, <3>10 DEF GoesOn, Instructs
  <2> QED BY <1>1, <2>1, <2>2 DEF RunOpen, RunOther
<1>5. WiringInv'
  <2>1. m.text \in Seq(PromptIds)
    BY <1>3
  <2>2. PayloadsOK(ui)' /\ MessageOK(m)'
    BY <1>1, <1>3, <1>4, <2>1 DEF WiringInv, PayloadsOK, MessageOK
  <2> QED BY <1>1, <1>3, <1>4, <2>2, WiringGrows DEF WiringInv
<1> QED BY <1>1, <1>2, <1>3, <1>4, <1>5, PlainCommandEnds

\* cancelSessionCmd
LEMMA RunCancelStep ==
  ASSUME PlacesInv, NEW c \in commands, RunCancel(c)
  PROVE  PlacesInv'
<1>1. /\ ui' = ui /\ prompts' = prompts /\ commands' = commands \ {c} /\ WiringInv
      /\ CommandOK(c) /\ c.op = "cancel"
  BY DEF RunCancel, Post, PlacesInv, WiringInv
<1>2. c.text = <<>> /\ c.session \in 1 .. Len(ran)
  BY <1>1 DEF CommandOK
<1>3. PICK m : m = PlainMessage("error", c.text, c.session)
  OBVIOUS
<1>4. m.text = <<>> /\ m.kind = "error" /\ (mail' = mail \/ mail' = mail \cup {m})
  <2>1. mail' = mail \/ mail' = mail \cup {m}
    BY <1>3 DEF RunCancel, Post, Failure
  <2> QED BY <1>2, <1>3, <2>1, MessageFields
<1>5. /\ ran' \in Seq(SessionRecords) /\ Len(ran') = Len(ran) /\ Len(ran) <= Len(ran')
      /\ Tasks(ran') = Tasks(ran)
      /\ \A p : InstructedIn(ran', p) <=> InstructedIn(ran, p)
  <2>1. CASE ran' = ran
    BY <1>1, <2>1 DEF WiringInv
  <2>2. CASE ran' = [ran EXCEPT ![c.session] = Ended(@, "cancelled")]
    <3>1. PICK e : e = Entry("cancelled", <<>>)
      OBVIOUS
    <3>2. e \in EventRecords /\ e.kind # "instruction"
      <4>1. "cancelled" \in EventKinds /\ <<>> \in Seq(PromptIds)
        BY DEF EventKinds
      <4> QED BY <3>1, <4>1, EntryType
    <3>3. PICK t : t = [ran[c.session] EXCEPT !.status = "cancelled", !.events = Append(@, e)]
      OBVIOUS
    <3>4. ran' = [ran EXCEPT ![c.session] = t]
      BY <2>2, <3>1, <3>3 DEF Ended
    <3>5. /\ t \in SessionRecords /\ t.task = ran[c.session].task
          /\ t.followed = ran[c.session].followed /\ t.events = Append(ran[c.session].events, e)
      <4>1. PICK r : r = ran[c.session]
        OBVIOUS
      <4>2. r \in SessionRecords
        BY <1>1, <1>2, <4>1 DEF WiringInv
      <4>3. t = [r EXCEPT !.status = "cancelled", !.events = Append(@, e)]
        BY <3>3, <4>1
      <4>4. /\ t \in SessionRecords /\ t.task = r.task /\ t.followed = r.followed
            /\ t.events = Append(r.events, e)
        BY <3>2, <4>2, <4>3, WithEvent
      <4> QED BY <4>1, <4>4
    <3>6. /\ ran' \in Seq(SessionRecords) /\ Len(ran') = Len(ran) /\ Len(ran) <= Len(ran')
          /\ Tasks(ran') = Tasks(ran)
          /\ \A p : InstructedIn(ran', p) <=>
                      InstructedIn(ran, p) \/ Instructs(e, p)
      BY <1>1, <1>2, <3>2, <3>4, <3>5, EventAppended
    <3> QED BY <3>2, <3>6 DEF Instructs
  <2> QED BY <2>1, <2>2 DEF RunCancel
<1>6. WiringInv'
  <2>1. m.text \in Seq(PromptIds)
    BY <1>4
  <2>2. PayloadsOK(ui)' /\ MessageOK(m)'
    BY <1>1, <1>4, <1>5, <2>1 DEF WiringInv, PayloadsOK, MessageOK
  <2> QED BY <1>1, <1>4, <1>5, <2>2, WiringGrows DEF WiringInv
<1> QED BY <1>1, <1>2, <1>4, <1>5, <1>6, PlainCommandEnds

\* steerSessionCmd
LEMMA RunSteerStep ==
  ASSUME PlacesInv, NEW c \in commands, RunSteer(c)
  PROVE  PlacesInv'
<1>1. /\ ui' = ui /\ prompts' = prompts /\ commands' = commands \ {c} /\ WiringInv
      /\ CommandOK(c) /\ c.op = "steer"
  BY DEF RunSteer, Post, PlacesInv, WiringInv
<1>2. c.text \in Seq(PromptIds) /\ c.session \in 1 .. Len(ran)
  BY <1>1 DEF CommandOK, TerminalCommandRecords
<1>3. PICK m : m = PlainMessage("rejected", c.text, c.session)
  OBVIOUS
<1>4. m.text = c.text /\ m.kind = "rejected" /\ m.text \in Seq(PromptIds)
  BY <1>2, <1>3, MessageFields
<1>5. ASSUME NEW e \in {Entry("instruction", c.text), LateInstruction(c.text)},
             ran' = [ran EXCEPT ![c.session].events = Append(@, e)]
      PROVE  /\ ran' \in Seq(SessionRecords) /\ Len(ran') = Len(ran) /\ Len(ran) <= Len(ran')
             /\ Tasks(ran') = Tasks(ran)
             /\ \A p : InstructedIn(ran', p) <=> InstructedIn(ran, p) \/ Instructs(e, p)
  <2>2. e \in EventRecords
    <3>1. "instruction" \in EventKinds
      BY DEF EventKinds
    <3> QED BY <1>2, <3>1, EntryType, LateType
  <2>3. PICK t : t = [ran[c.session] EXCEPT !.events = Append(@, e)]
    OBVIOUS
  <2>4. ran' = [ran EXCEPT ![c.session] = t]
    BY <1>5, <2>3
  <2>5. /\ t \in SessionRecords /\ t.task = ran[c.session].task
        /\ t.followed = ran[c.session].followed /\ t.events = Append(ran[c.session].events, e)
    <3>1. PICK r : r = ran[c.session]
      OBVIOUS
    <3>2. r \in SessionRecords
      BY <1>1, <1>2, <3>1 DEF WiringInv
    <3>3. t = [r EXCEPT !.events = Append(@, e)]
      BY <2>3, <3>1
    <3>4. /\ t \in SessionRecords /\ t.task = r.task /\ t.followed = r.followed
          /\ t.events = Append(r.events, e)
      BY <2>2, <3>2, <3>3, WithEvent
    <3> QED BY <3>1, <3>4
  <2> QED BY <1>1, <1>2, <2>2, <2>4, <2>5, EventAppended
<1>6. CASE /\ mail' = mail \cup {m}
           /\ \/ ran' = ran
              \/ ran' = [ran EXCEPT ![c.session].events = Append(@, LateInstruction(c.text))]
  <2>1. /\ ran' \in Seq(SessionRecords) /\ Len(ran') = Len(ran) /\ Len(ran) <= Len(ran')
        /\ Tasks(ran') = Tasks(ran)
        /\ \A p : InstructedIn(ran', p) <=> InstructedIn(ran, p)
    <3>1. CASE ran' = ran
      BY <1>1, <3>1 DEF WiringInv
    <3>2. CASE ran' = [ran EXCEPT ![c.session].events = Append(@, LateInstruction(c.text))]
      <4>1. \A p : InstructedIn(ran', p) <=> InstructedIn(ran, p) \/ Instructs(LateInstruction(c.text), p)
        BY <1>5, <3>2
      <4>2. \A p : ~Instructs(LateInstruction(c.text), p)
        BY <1>2, LateType DEF Instructs
      <4> QED BY <1>5, <3>2, <4>1, <4>2
    <3> QED BY <1>6, <3>1, <3>2
  <2>2. PayloadsOK(ui)' /\ MessageOK(m)'
    BY <1>1, <1>4, <2>1 DEF WiringInv, PayloadsOK, MessageOK
  <2>3. WiringInv'
    BY <1>1, <1>6, <2>1, <2>2, WiringGrows DEF WiringInv
  <2> QED BY <1>1, <1>4, <1>6, <2>1, <2>3, CommandAnswered, AloneNow
<1>7. CASE /\ mail' = mail
           /\ ran' = [ran EXCEPT ![c.session].events = Append(@, Entry("instruction", c.text))]
  <2>1. /\ ran' \in Seq(SessionRecords) /\ Len(ran') = Len(ran) /\ Len(ran) <= Len(ran')
        /\ Tasks(ran') = Tasks(ran)
        /\ \A p : InstructedIn(ran', p) <=> InstructedIn(ran, p) \/ p \in ToSet(c.text)
    <3>1. \A p : Instructs(Entry("instruction", c.text), p) <=> p \in ToSet(c.text)
      BY DEF Instructs, Entry
    <3> QED BY <1>5, <1>7, <3>1
  <2>2. WiringInv'
    <3>1. PayloadsOK(ui)'
      BY <1>1, <2>1 DEF WiringInv, PayloadsOK
    <3> QED BY <1>1, <1>7, <2>1, <3>1, WiringGrows DEF WiringInv
  <2> SUFFICES ASSUME NEW p \in PromptIds
               PROVE  PromptInv(p)'
    BY <2>2 DEF PlacesInv
  <2>3. /\ PromptInv(p) /\ OnceAmong(ui.queued, p) /\ OnceCarried(commands, p)
        /\ OnceCarried(Answers(mail), p) /\ OnceAmong(Tasks(ran), p)
    BY AloneNow
  <2>4. /\ Carried(commands, p) <=> Carried(commands', p) \/ p \in ToSet(c.text)
        /\ ~(Carried(commands', p) /\ p \in ToSet(c.text))
        /\ OnceCarried(commands', p)
    BY <1>1, <2>3, CarriedTaken
  <2>5. AloneInv(p)'
    BY <1>1, <1>7, <2>1, <2>3, <2>4 DEF AloneInv
  <2>6. CASE p \notin ToSet(c.text)
    <3>1. ASSUME NEW n \in Places
          PROVE  At(n, p)' <=> At(n, p)
      BY <1>1, <1>7, <2>1, <2>4, <2>6 DEF At
    <3> QED BY <1>1, <2>3, <2>5, <3>1, PromptStays
  <2>7. CASE p \in ToSet(c.text)
    <3>1. At("command", p) /\ "command" \in Places /\ "instruction" \in Places
      BY <2>4, <2>7 DEF At, Places
    <3>2. ASSUME NEW n \in Places
          PROVE  At(n, p)' <=> \/ n # "command" /\ At(n, p)
                               \/ n = "instruction"
      BY <1>1, <1>7, <2>1, <2>4, <2>7 DEF At
    <3> QED BY <1>1, <2>3, <2>5, <3>1, <3>2, PromptMoves
  <2> QED BY <2>6, <2>7
<1>8. \/ /\ mail' = mail
         /\ ran' = [ran EXCEPT ![c.session].events = Append(@, Entry("instruction", c.text))]
      \/ /\ mail' = mail \cup {m}
         /\ \/ ran' = ran
            \/ ran' = [ran EXCEPT ![c.session].events = Append(@, LateInstruction(c.text))]
  BY <1>3 DEF RunSteer, Post
<1> QED BY <1>6, <1>7, <1>8

\* Some payload, with the prompt p in it or not, goes from one place to another.
LEMMA PayloadMoves ==
  ASSUME PlacesInv, NEW p \in PromptIds, NEW k \in Places, NEW l \in Places, NEW S,
         p \in S => At(k, p), prompts'.typed = prompts.typed, AloneInv(p)',
         \A n \in Places : At(n, p)' <=> \/ At(n, p) /\ ~(p \in S /\ n = k)
                                         \/ p \in S /\ n = l
  PROVE  PromptInv(p)'
<1>1. PromptInv(p)
  BY DEF PlacesInv
<1>2. CASE p \in S
  BY <1>1, <1>2, PromptMoves
<1>3. CASE p \notin S
  BY <1>1, <1>3, PromptStays
<1> QED BY <1>2, <1>3

LEMMA OnlyThere ==
  ASSUME PlacesInv, NEW p \in PromptIds, NEW k \in Places, NEW l \in Places, k # l, At(k, p)
  PROVE  ~At(l, p)
BY OnePlaceOnly DEF PlacesInv

LEMMA PlaceNames ==
  /\ {"draft", "queue", "command", "answer"} \subseteq Places
  /\ {"task", "discarded", "reported", "instruction"} \subseteq Places
BY DEF Places

\* The rest of the program, when the terminal alone takes a step.
EngineRests == ran' = ran /\ prompts'.typed = prompts.typed /\ prompts' \in PromptRecords

\* The composer's payload is put in the queue.
LEMMA DraftIsQueued ==
  ASSUME PlacesInv, WiringInv', EngineRests, mail' = mail, commands' = commands,
         ui'.draft = <<>>, ui'.queued = Append(ui.queued, ui.draft),
         prompts'.discarded = prompts.discarded, prompts'.reported = prompts.reported
  PROVE  PlacesInv'
<1> SUFFICES ASSUME NEW p \in PromptIds
             PROVE  PromptInv(p)'
  BY DEF PlacesInv
<1>1. /\ OnceAmong(ui.queued, p) /\ OnceCarried(commands, p)
      /\ OnceCarried(Answers(mail), p) /\ OnceAmong(Tasks(ran), p)
  BY AloneNow
<1>2. ui.draft \in Seq(PromptIds) /\ ui.queued \in Seq(Seq(PromptIds))
  BY DEF PlacesInv, WiringInv, PayloadsOK
<1>3. /\ Among(ui'.queued, p) <=> Among(ui.queued, p) \/ p \in ToSet(ui.draft)
      /\ ~(Among(ui.queued, p) /\ p \in ToSet(ui.draft)) => OnceAmong(ui'.queued, p)
  BY <1>1, <1>2, AppendAmong
<1>4. p \in ToSet(ui.draft) => At("draft", p)
  BY DEF At
<1>5. p \in ToSet(ui.draft) => ~Among(ui.queued, p)
  BY <1>4, OnlyThere, PlaceNames DEF At
<1>6. AloneInv(p)'
  BY <1>1, <1>3, <1>5 DEF AloneInv, EngineRests
<1>7. ASSUME NEW n \in Places
      PROVE  At(n, p)' <=> \/ At(n, p) /\ ~(p \in ToSet(ui.draft) /\ n = "draft")
                           \/ p \in ToSet(ui.draft) /\ n = "queue"
  BY <1>3, NothingCarried DEF At, EngineRests
<1> QED BY <1>4, <1>6, <1>7, PayloadMoves, PlaceNames DEF EngineRests

\* The composer's payload goes with a command.
LEMMA DraftIsSent ==
  ASSUME PlacesInv, WiringInv', EngineRests, mail' = mail,
         NEW c, c.text = ui.draft, commands' = commands \cup {c},
         ui'.draft = <<>>, ui'.queued = ui.queued,
         prompts'.discarded = prompts.discarded, prompts'.reported = prompts.reported
  PROVE  PlacesInv'
<1> SUFFICES ASSUME NEW p \in PromptIds
             PROVE  PromptInv(p)'
  BY DEF PlacesInv
<1>1. /\ OnceAmong(ui.queued, p) /\ OnceCarried(commands, p)
      /\ OnceCarried(Answers(mail), p) /\ OnceAmong(Tasks(ran), p)
  BY AloneNow
<1>2. /\ Carried(commands', p) <=> Carried(commands, p) \/ p \in ToSet(ui.draft)
      /\ ~(Carried(commands, p) /\ p \in ToSet(ui.draft)) => OnceCarried(commands', p)
  BY <1>1, CarriedAdded
<1>3. p \in ToSet(ui.draft) => At("draft", p)
  BY DEF At
<1>4. p \in ToSet(ui.draft) => ~Carried(commands, p)
  BY <1>3, OnlyThere, PlaceNames DEF At
<1>5. AloneInv(p)'
  BY <1>1, <1>2, <1>4 DEF AloneInv, EngineRests
<1>6. ASSUME NEW n \in Places
      PROVE  At(n, p)' <=> \/ At(n, p) /\ ~(p \in ToSet(ui.draft) /\ n = "draft")
                           \/ p \in ToSet(ui.draft) /\ n = "command"
  BY <1>2, NothingCarried DEF At, EngineRests
<1> QED BY <1>3, <1>5, <1>6, PayloadMoves, PlaceNames DEF EngineRests

\* The first payload of the queue goes with a command.
LEMMA HeadIsSent ==
  ASSUME PlacesInv, WiringInv', EngineRests, Answers(mail') = Answers(mail),
         ui.queued # <<>>, NEW c, c.text = Head(ui.queued), commands' = commands \cup {c},
         ui'.draft = ui.draft, ui'.queued = Tail(ui.queued),
         prompts'.discarded = prompts.discarded, prompts'.reported = prompts.reported
  PROVE  PlacesInv'
<1> SUFFICES ASSUME NEW p \in PromptIds
             PROVE  PromptInv(p)'
  BY DEF PlacesInv
<1>1. /\ OnceAmong(ui.queued, p) /\ OnceCarried(commands, p)
      /\ OnceCarried(Answers(mail), p) /\ OnceAmong(Tasks(ran), p)
  BY AloneNow
<1>2. ui.queued \in Seq(Seq(PromptIds))
  BY DEF PlacesInv, WiringInv, PayloadsOK
<1>3. PICK text : text = Head(ui.queued)
  OBVIOUS
<1>4. /\ Among(ui.queued, p) <=> Among(ui'.queued, p) \/ p \in ToSet(text)
      /\ ~(Among(ui'.queued, p) /\ p \in ToSet(text)) /\ OnceAmong(ui'.queued, p)
  BY <1>1, <1>2, <1>3, TailAmong
<1>5. /\ Carried(commands', p) <=> Carried(commands, p) \/ p \in ToSet(text)
      /\ ~(Carried(commands, p) /\ p \in ToSet(text)) => OnceCarried(commands', p)
  BY <1>1, <1>3, CarriedAdded
<1>6. p \in ToSet(text) => At("queue", p)
  BY <1>4 DEF At
<1>7. p \in ToSet(text) => ~Carried(commands, p)
  BY <1>6, OnlyThere, PlaceNames DEF At
<1>8. AloneInv(p)'
  BY <1>1, <1>4, <1>5, <1>7 DEF AloneInv, EngineRests
<1>9. ASSUME NEW n \in Places
      PROVE  At(n, p)' <=> \/ At(n, p) /\ ~(p \in ToSet(text) /\ n = "queue")
                           \/ p \in ToSet(text) /\ n = "command"
  BY <1>4, <1>5 DEF At, EngineRests
<1> QED BY <1>6, <1>8, <1>9, PayloadMoves, PlaceNames DEF EngineRests

\* The queue becomes part of the composer's payload.
LEMMA QueueIsRestored ==
  ASSUME PlacesInv, WiringInv', EngineRests, Answers(mail') = Answers(mail), commands' = commands,
         ui'.draft = FlattenSeq(ui.queued) \o ui.draft, ui'.queued = <<>>,
         prompts'.discarded = prompts.discarded, prompts'.reported = prompts.reported
  PROVE  PlacesInv'
<1> SUFFICES ASSUME NEW p \in PromptIds
             PROVE  PromptInv(p)'
  BY DEF PlacesInv
<1>1. /\ OnceAmong(ui.queued, p) /\ OnceCarried(commands, p)
      /\ OnceCarried(Answers(mail), p) /\ OnceAmong(Tasks(ran), p)
  BY AloneNow
<1>2. ui.draft \in Seq(PromptIds) /\ ui.queued \in Seq(Seq(PromptIds))
  BY DEF PlacesInv, WiringInv, PayloadsOK
<1>3. PICK flat : flat = FlattenSeq(ui.queued)
  OBVIOUS
<1>4. flat \in Seq(PromptIds) /\ (p \in ToSet(flat) <=> Among(ui.queued, p))
  BY <1>2, <1>3, FlattenAmong
<1>5. p \in ToSet(ui'.draft) <=> p \in ToSet(flat) \/ p \in ToSet(ui.draft)
  BY <1>2, <1>3, <1>4, ConcatHolds
<1>6. ~Among(<<>>, p) /\ OnceAmong(<<>>, p)
  BY DEF Among, OnceAmong
<1>7. p \in ToSet(flat) => At("queue", p)
  BY <1>4 DEF At
<1>8. AloneInv(p)'
  BY <1>1, <1>6 DEF AloneInv, EngineRests
<1>9. ASSUME NEW n \in Places
      PROVE  At(n, p)' <=> \/ At(n, p) /\ ~(p \in ToSet(flat) /\ n = "queue")
                           \/ p \in ToSet(flat) /\ n = "draft"
  BY <1>4, <1>5, <1>6 DEF At, EngineRests
<1> QED BY <1>7, <1>8, <1>9, PayloadMoves, PlaceNames DEF EngineRests

LEMMA AnswerTaken ==
  ASSUME NEW ms, NEW m \in ms, m.kind \in {"rejected", "error"}, NEW p, OnceCarried(Answers(ms), p)
  PROVE  /\ Carried(Answers(ms), p) <=> Carried(Answers(ms \ {m}), p) \/ p \in ToSet(m.text)
         /\ ~(Carried(Answers(ms \ {m}), p) /\ p \in ToSet(m.text))
         /\ OnceCarried(Answers(ms \ {m}), p)
<1>1. PICK S : S = Answers(ms)
  OBVIOUS
<1>2. m \in S /\ Answers(ms \ {m}) = S \ {m} /\ OnceCarried(S, p)
  BY <1>1, AnswersOfMail DEF Answers
<1>3. /\ Carried(S, p) <=> Carried(S \ {m}, p) \/ p \in ToSet(m.text)
      /\ ~(Carried(S \ {m}, p) /\ p \in ToSet(m.text))
      /\ OnceCarried(S \ {m}, p)
  BY <1>2, CarriedTaken, Zenon
<1> QED BY <1>1, <1>2, <1>3

\* A rejected payload is put in front of the queue.
LEMMA AnswerIsQueued ==
  ASSUME PlacesInv, WiringInv', EngineRests, commands' = commands,
         NEW m \in mail, m.kind = "rejected", mail' = mail \ {m},
         ui'.draft = ui.draft, ui'.queued = <<m.text>> \o ui.queued,
         prompts'.discarded = prompts.discarded, prompts'.reported = prompts.reported
  PROVE  PlacesInv'
<1> SUFFICES ASSUME NEW p \in PromptIds
             PROVE  PromptInv(p)'
  BY DEF PlacesInv
<1>1. /\ OnceAmong(ui.queued, p) /\ OnceCarried(commands, p)
      /\ OnceCarried(Answers(mail), p) /\ OnceAmong(Tasks(ran), p)
  BY AloneNow
<1>2. m.text \in Seq(PromptIds) /\ ui.queued \in Seq(Seq(PromptIds))
  BY DEF PlacesInv, WiringInv, PayloadsOK, MessageOK
<1>3. mail' = mail \ {m} /\ m.kind \in {"rejected", "error"}
  OBVIOUS
<1>4. /\ Carried(Answers(mail), p) <=> Carried(Answers(mail'), p) \/ p \in ToSet(m.text)
      /\ ~(Carried(Answers(mail'), p) /\ p \in ToSet(m.text))
      /\ OnceCarried(Answers(mail'), p)
  BY <1>1, <1>3, AnswerTaken
<1>5. /\ Among(ui'.queued, p) <=> Among(ui.queued, p) \/ p \in ToSet(m.text)
      /\ ~(Among(ui.queued, p) /\ p \in ToSet(m.text)) => OnceAmong(ui'.queued, p)
  BY <1>1, <1>2, PrependAmong
<1>6. p \in ToSet(m.text) => At("answer", p)
  BY <1>4 DEF At
<1>7. p \in ToSet(m.text) => ~Among(ui.queued, p)
  BY <1>6, OnlyThere, PlaceNames DEF At
<1>8. AloneInv(p)'
  BY <1>1, <1>4, <1>5, <1>7 DEF AloneInv, EngineRests
<1>9. ASSUME NEW n \in Places
      PROVE  At(n, p)' <=> \/ At(n, p) /\ ~(p \in ToSet(m.text) /\ n = "answer")
                           \/ p \in ToSet(m.text) /\ n = "queue"
  BY <1>4, <1>5 DEF At, EngineRests
<1> QED BY <1>6, <1>8, <1>9, PayloadMoves, PlaceNames DEF EngineRests

\* A payload that failed is reported.
LEMMA AnswerIsReported ==
  ASSUME PlacesInv, WiringInv', EngineRests, commands' = commands,
         NEW m \in mail, m.kind = "error", mail' = mail \ {m},
         ui'.draft = ui.draft, ui'.queued = ui.queued,
         prompts'.discarded = prompts.discarded,
         prompts'.reported = prompts.reported \cup ToSet(m.text)
  PROVE  PlacesInv'
<1> SUFFICES ASSUME NEW p \in PromptIds
             PROVE  PromptInv(p)'
  BY DEF PlacesInv
<1>1. /\ OnceAmong(ui.queued, p) /\ OnceCarried(commands, p)
      /\ OnceCarried(Answers(mail), p) /\ OnceAmong(Tasks(ran), p)
  BY AloneNow
<1>2. mail' = mail \ {m} /\ m.kind \in {"rejected", "error"}
  OBVIOUS
<1>3. /\ Carried(Answers(mail), p) <=> Carried(Answers(mail'), p) \/ p \in ToSet(m.text)
      /\ ~(Carried(Answers(mail'), p) /\ p \in ToSet(m.text))
      /\ OnceCarried(Answers(mail'), p)
  BY <1>1, <1>2, AnswerTaken
<1>4. p \in ToSet(m.text) => At("answer", p)
  BY <1>3 DEF At
<1>5. AloneInv(p)'
  BY <1>1, <1>3 DEF AloneInv, EngineRests
<1>6. ASSUME NEW n \in Places
      PROVE  At(n, p)' <=> \/ At(n, p) /\ ~(p \in ToSet(m.text) /\ n = "answer")
                           \/ p \in ToSet(m.text) /\ n = "reported"
  BY <1>3 DEF At, EngineRests
<1> QED BY <1>4, <1>5, <1>6, PayloadMoves, PlaceNames DEF EngineRests

\* The new state is wired when the terminal's is.
LEMMA TerminalWired ==
  ASSUME PlacesInv, EngineRests, PayloadsOK(ui'), \A c \in commands' \ commands : CommandOK(c),
         mail' \subseteq mail
  PROVE  WiringInv'
<1>1. PayloadsOK(ui)' /\ \A c : CommandOK(c) => CommandOK(c)'
  BY DEF EngineRests, PayloadsOK, CommandOK
<1>2. Len(ran) <= Len(ran')
  BY DEF PlacesInv, WiringInv, EngineRests
<1> QED BY <1>1, <1>2, WiringGrows DEF PlacesInv, WiringInv, EngineRests

\* A key gives up the prompts of some payloads.
LEMMA KeyPressed ==
  ASSUME PlacesInv, NEW texts \in Seq(Seq(PromptIds)), PressKey(texts)
  PROVE  /\ prompts' \in PromptRecords /\ prompts'.typed = prompts.typed
         /\ prompts'.reported = prompts.reported
         /\ \A p : p \in prompts'.discarded <=> p \in prompts.discarded \/ Among(texts, p)
<1>1. PICK flat : flat = FlattenSeq(texts)
  OBVIOUS
<1>2. flat \in Seq(PromptIds) /\ \A p : p \in ToSet(flat) <=> Among(texts, p)
  BY <1>1, FlattenAmong
<1>3. ToSet(flat) \in SUBSET PromptIds
  BY <1>2 DEF ToSet
<1>4. prompts \in PromptRecords
  BY DEF PlacesInv, WiringInv
<1>5. prompts' = [prompts EXCEPT !.keys = @ + 1, !.discarded = @ \cup ToSet(flat)]
  BY <1>1 DEF PressKey
<1>6. prompts.keys + 1 \in Nat
  BY <1>4 DEF PromptRecords
<1>7. prompts' \in PromptRecords /\ prompts'.typed = prompts.typed /\ prompts'.reported = prompts.reported
  BY <1>3, <1>4, <1>5, <1>6 DEF PromptRecords
<1>8. prompts'.discarded = prompts.discarded \cup ToSet(flat)
  BY <1>4, <1>5 DEF PromptRecords
<1> QED BY <1>2, <1>7, <1>8

\* A key that gives up nothing.
LEMMA PlainKeyPressed ==
  ASSUME PlacesInv, PressKey(<<>>)
  PROVE  /\ prompts' \in PromptRecords /\ prompts'.typed = prompts.typed
         /\ prompts'.reported = prompts.reported /\ prompts'.discarded = prompts.discarded
<1>1. <<>> \in Seq(Seq(PromptIds)) /\ \A p : ~Among(<<>>, p)
  BY DEF Among
<1>2. /\ prompts' \in PromptRecords /\ prompts'.typed = prompts.typed
      /\ prompts'.reported = prompts.reported
      /\ \A p : p \in prompts'.discarded <=> p \in prompts.discarded
  BY <1>1, KeyPressed
<1> QED BY <1>2

\* The user writes a prompt.
LEMMA TypePromptStep ==
  ASSUME PlacesInv, TypePrompt
  PROVE  PlacesInv'
<1>1. /\ ran' = ran /\ commands' = commands /\ mail' = mail /\ ui.draft = <<>>
      /\ prompts' = [prompts EXCEPT !.typed = @ + 1]
      /\ ui' = [ui EXCEPT !.draft = <<prompts.typed + 1>>]
      /\ prompts \in PromptRecords /\ PayloadsOK(ui) /\ WiringInv
  BY DEF TypePrompt, PlacesInv, WiringInv
<1>2. PICK n : n = prompts.typed + 1
  OBVIOUS
<1>3. prompts.typed \in Nat /\ n \in PromptIds /\ n \in Nat
  BY <1>1, <1>2 DEF PromptRecords, PromptIds
<1>4. /\ prompts' \in PromptRecords /\ prompts'.typed = n
      /\ prompts'.discarded = prompts.discarded /\ prompts'.reported = prompts.reported
  BY <1>1, <1>2, <1>3 DEF PromptRecords
<1>5. /\ ui'.draft = <<n>> /\ ui'.queued = ui.queued /\ ui'.session = ui.session
      /\ {"draft", "queued", "session"} \subseteq DOMAIN ui'
  BY <1>1, <1>2 DEF PayloadsOK
<1>6. WiringInv'
  <2>1. <<n>> \in Seq(PromptIds)
    BY <1>3
  <2> QED BY <1>1, <1>4, <1>5, <2>1 DEF WiringInv, PayloadsOK, CommandOK, MessageOK
<1> SUFFICES ASSUME NEW p \in PromptIds
             PROVE  PromptInv(p)'
  BY <1>6 DEF PlacesInv
<1>7. PromptInv(p)
  BY DEF PlacesInv
<1>8. AloneInv(p)'
  BY <1>1, <1>5, <1>7 DEF PromptInv, AloneInv
<1>9. p \in ToSet(<<n>>) <=> p = n
  BY DEF ToSet
<1>10. ASSUME NEW q \in Places
       PROVE  At(q, p)' <=> (At(q, p) \/ (q = "draft" /\ p = n))
  BY <1>1, <1>4, <1>5, <1>9, NothingCarried DEF At
<1>11. CASE p = n
  <2>1. \A q \in Places : ~At(q, p)
    <3>1. p > prompts.typed
      BY <1>2, <1>3, <1>11
    <3> QED BY <1>7, <3>1 DEF PromptInv
  <2>2. AtOnePlace(p)'
    BY <1>10, <1>11, <2>1, PlaceNames DEF AtOnePlace
  <2>3. ~(p > prompts'.typed)
    BY <1>3, <1>4, <1>11
  <2> QED BY <1>8, <2>2, <2>3 DEF PromptInv
<1>12. CASE p # n
  <2>1. (p <= prompts'.typed <=> p <= prompts.typed) /\ (p > prompts'.typed <=> p > prompts.typed)
    <3>1. p \in Nat
      BY DEF PromptIds
    <3> QED BY <1>2, <1>3, <1>4, <1>12, <3>1
  <2>2. AtOnePlace(p)' <=> AtOnePlace(p)
    BY <1>10, <1>12 DEF AtOnePlace
  <2> QED BY <1>7, <1>8, <1>10, <1>12, <2>1, <2>2 DEF PromptInv
<1> QED BY <1>11, <1>12

\* enter and tab: the payload written is queued or sent.
LEMMA PromptSubmitted ==
  ASSUME PlacesInv, NEW queue, Submit(queue)
  PROVE  PlacesInv'
<1>1. /\ ran' = ran /\ mail' = mail /\ PressKey(<<>>) /\ PayloadsOK(ui) /\ WiringInv
  BY DEF Submit, PlacesInv, WiringInv
<1>2. PICK text : text = ui.draft
  OBVIOUS
<1>3. PICK empty : empty = [ui EXCEPT !.draft = <<>>]
  OBVIOUS
<1>4. /\ {"draft", "queued", "session"} \subseteq DOMAIN empty
      /\ empty.draft = <<>> /\ empty.queued = ui.queued /\ empty.session = ui.session
  BY <1>1, <1>3 DEF PayloadsOK
<1>5. /\ text \in Seq(PromptIds) /\ ui.queued \in Seq(Seq(PromptIds)) /\ ui.session \in 0 .. Len(ran)
      /\ Len(ran) \in Nat /\ ui.session \in Nat
  BY <1>1, <1>2 DEF PayloadsOK, WiringInv
<1>6. /\ prompts' \in PromptRecords /\ prompts'.typed = prompts.typed
      /\ prompts'.reported = prompts.reported /\ prompts'.discarded = prompts.discarded
      /\ EngineRests
  BY <1>1, PlainKeyPressed DEF EngineRests
<1>7. CASE ui' = AppendQueued(empty, text) /\ commands' = commands
  <2>1. /\ {"draft", "queued", "session"} \subseteq DOMAIN ui'
        /\ ui'.draft = <<>> /\ ui'.queued = Append(ui.queued, ui.draft) /\ ui'.session = ui.session
    BY <1>2, <1>4, <1>7 DEF AppendQueued
  <2>2. Append(ui.queued, ui.draft) \in Seq(Seq(PromptIds)) /\ <<>> \in Seq(PromptIds)
    BY <1>2, <1>5
  <2>3. PayloadsOK(ui')
    BY <1>5, <2>1, <2>2 DEF PayloadsOK
  <2>4. WiringInv'
    BY <1>1, <1>6, <1>7, <2>3, TerminalWired
  <2> QED BY <1>1, <1>6, <1>7, <2>1, <2>4, DraftIsQueued
<1>8. CASE \E op \in {"steer", "start", "continue"} :
             /\ commands' = commands \cup {Command(op, text, ui.session)}
             /\ op = "steer" => ui.session \in 1 .. Len(ran)
             /\ ui' \in {empty, [empty EXCEPT !.turns[LastTurn(ui)].shown = Append(@, text),
                                              !.optimistic = Append(@, text)],
                         BeginTurn(empty, text)}
  <2>1. PICK op \in {"steer", "start", "continue"} :
          /\ commands' = commands \cup {Command(op, text, ui.session)}
          /\ op = "steer" => ui.session \in 1 .. Len(ran)
          /\ ui' \in {empty, [empty EXCEPT !.turns[LastTurn(ui)].shown = Append(@, text),
                                           !.optimistic = Append(@, text)],
                      BeginTurn(empty, text)}
    BY <1>8
  <2>2. PICK c : c = Command(op, text, ui.session)
    OBVIOUS
  <2>3. op \in {"start", "continue", "open", "steer", "cancel", "other"}
    OBVIOUS
  <2>4. c \in TerminalCommandRecords /\ c.op = op /\ c.text = text /\ c.session = ui.session
    BY <1>5, <2>2, <2>3, CommandType
  <2>5. CommandOK(c)
    BY <2>1, <2>4 DEF CommandOK
  <2>6. /\ {"draft", "queued", "session"} \subseteq DOMAIN ui'
        /\ ui'.draft = <<>> /\ ui'.queued = ui.queued /\ ui'.session = ui.session
    BY <1>4, <2>1 DEF BeginTurn
  <2>7. PayloadsOK(ui')
    <3>1. <<>> \in Seq(PromptIds)
      OBVIOUS
    <3> QED BY <1>5, <2>6, <3>1 DEF PayloadsOK
  <2>8. commands' = commands \cup {c}
    BY <2>1, <2>2
  <2>9. WiringInv'
    BY <1>1, <1>6, <2>5, <2>7, <2>8, TerminalWired
  <2> QED BY <1>1, <1>2, <1>6, <2>4, <2>6, <2>8, <2>9, DraftIsSent
<1>9. ShownActive(ui) => ui.session \in 1 .. Len(ran)
  <2>1. ShownActive(ui) => ui.session # 0
    BY DEF ShownActive, EngineActive, NoSession
  <2> QED BY <1>5, <2>1
<1>10. \/ ui' = AppendQueued(empty, text) /\ commands' = commands
       \/ /\ ShownActive(ui) /\ commands' = commands \cup {Command("steer", text, ui.session)}
          /\ \/ ui' = empty
             \/ ui' = [empty EXCEPT !.turns[LastTurn(ui)].shown = Append(@, text),
                                    !.optimistic = Append(@, text)]
       \/ /\ ui' = BeginTurn(empty, text)
          /\ \/ commands' = commands \cup {Command("start", text, ui.session)}
             \/ commands' = commands \cup {Command("continue", text, ui.session)}
  BY <1>2, <1>3 DEF Submit, Answered
<1> QED BY <1>7, <1>8, <1>9, <1>10

\* alt+up: the last payload of the queue takes the composer's place.
LEMMA EditLastStep ==
  ASSUME PlacesInv, EditLastQueued
  PROVE  PlacesInv'
<1>1. /\ ran' = ran /\ commands' = commands /\ mail' = mail /\ ui.queued # <<>>
      /\ ui' = [ui EXCEPT !.draft = Last(ui.queued), !.queued = Front(@)]
      /\ PressKey(<<ui.draft>>) /\ PayloadsOK(ui)
  BY DEF EditLastQueued, PlacesInv, WiringInv
<1>2. ui.draft \in Seq(PromptIds) /\ ui.queued \in Seq(Seq(PromptIds))
  BY <1>1 DEF PayloadsOK
<1>3. PICK last, front : last = Last(ui.queued) /\ front = Front(ui.queued)
  OBVIOUS
<1>4. /\ ui'.draft = last /\ ui'.queued = front /\ ui'.session = ui.session
      /\ {"draft", "queued", "session"} \subseteq DOMAIN ui'
  BY <1>1, <1>3 DEF PayloadsOK
<1>5. <<ui.draft>> \in Seq(Seq(PromptIds)) /\ \A p : Among(<<ui.draft>>, p) <=> p \in ToSet(ui.draft)
  BY <1>2 DEF Among
<1>6. /\ prompts' \in PromptRecords /\ prompts'.typed = prompts.typed
      /\ prompts'.reported = prompts.reported
      /\ \A p : p \in prompts'.discarded <=> p \in prompts.discarded \/ p \in ToSet(ui.draft)
      /\ EngineRests
  BY <1>1, <1>5, KeyPressed DEF EngineRests
<1>7. ASSUME NEW p, OnceAmong(ui.queued, p)
      PROVE  /\ front \in Seq(Seq(PromptIds)) /\ last \in Seq(PromptIds)
             /\ Among(ui.queued, p) <=> Among(front, p) \/ p \in ToSet(last)
             /\ ~(Among(front, p) /\ p \in ToSet(last))
             /\ OnceAmong(front, p)
  BY <1>1, <1>2, <1>3, <1>7, FrontAmong
<1>8. WiringInv'
  <2>1. OnceAmong(ui.queued, 1)
    BY AloneNow DEF PromptIds
  <2>2. PayloadsOK(ui')
    BY <1>1, <1>4, <1>7, <2>1 DEF PayloadsOK
  <2> QED BY <1>1, <1>6, <2>2, TerminalWired
<1> SUFFICES ASSUME NEW p \in PromptIds
             PROVE  PromptInv(p)'
  BY <1>8 DEF PlacesInv
<1>9. /\ PromptInv(p) /\ OnceAmong(ui.queued, p) /\ OnceCarried(commands, p)
      /\ OnceCarried(Answers(mail), p) /\ OnceAmong(Tasks(ran), p)
  BY AloneNow
<1>10. /\ Among(ui.queued, p) <=> Among(front, p) \/ p \in ToSet(last)
       /\ ~(Among(front, p) /\ p \in ToSet(last)) /\ OnceAmong(front, p)
  BY <1>7, <1>9
<1>11. AloneInv(p)'
  BY <1>1, <1>4, <1>9, <1>10 DEF AloneInv
<1>12. CASE p \in ToSet(ui.draft)
  <2>1. At("draft", p)
    BY <1>12 DEF At
  <2>2. ~Among(ui.queued, p)
    BY <2>1, OnlyThere, PlaceNames DEF At
  <2>3. ASSUME NEW n \in Places
        PROVE  At(n, p)' <=> \/ At(n, p) /\ ~(p \in ToSet(ui.draft) /\ n = "draft")
                             \/ p \in ToSet(ui.draft) /\ n = "discarded"
    BY <1>1, <1>4, <1>6, <1>10, <1>12, <2>2 DEF At
  <2> QED BY <1>6, <1>11, <2>1, <2>3, PayloadMoves, PlaceNames
<1>13. CASE p \notin ToSet(ui.draft)
  <2>1. p \in ToSet(last) => At("queue", p)
    BY <1>10 DEF At
  <2>2. ASSUME NEW n \in Places
        PROVE  At(n, p)' <=> \/ At(n, p) /\ ~(p \in ToSet(last) /\ n = "queue")
                             \/ p \in ToSet(last) /\ n = "draft"
    BY <1>1, <1>4, <1>6, <1>10, <1>13 DEF At
  <2> QED BY <1>6, <1>11, <2>1, <2>2, PayloadMoves, PlaceNames
<1> QED BY <1>12, <1>13

\* Keys that start a command without a prompt.
LEMMA PlainCommandStarts ==
  ASSUME PlacesInv, EngineRests, mail' = mail, NEW c, CommandOK(c), c.text = <<>>,
         commands' = commands \cup {c}, ui' = ui,
         prompts'.discarded = prompts.discarded, prompts'.reported = prompts.reported
  PROVE  PlacesInv'
<1>1. WiringInv'
  BY TerminalWired DEF PlacesInv, WiringInv
<1>2. \A p \in PromptIds : /\ Carried(commands', p) <=> Carried(commands, p)
                           /\ OnceCarried(commands', p)
  BY AloneNow, PlainAdded
<1> QED BY <1>1, <1>2, NothingMoves, AloneNow DEF EngineRests

LEMMA PlainCommandOK ==
  ASSUME NEW op \in {"open", "cancel", "other"}, NEW s \in Nat,
         op = "cancel" => s \in 1 .. Len(ran), op = "open" => s \in 0 .. Len(ran)
  PROVE  CommandOK(Command(op, <<>>, s)) /\ Command(op, <<>>, s).text = <<>>
<1>1. PICK none : none = <<>>
  OBVIOUS
<1>2. op \in {"start", "continue", "open", "steer", "cancel", "other"} /\ none \in Seq(PromptIds)
  BY <1>1
<1>3. PICK c : c = Command(op, none, s)
  OBVIOUS
<1>4. c \in TerminalCommandRecords /\ c.op = op /\ c.text = none /\ c.session = s
  BY <1>2, <1>3, CommandType
<1> QED BY <1>1, <1>3, <1>4 DEF CommandOK

LEMMA InterruptStep ==
  ASSUME PlacesInv, Interrupt
  PROVE  PlacesInv'
<1>1. PICK c : c = Command("cancel", <<>>, ui.session)
  OBVIOUS
<1>2. /\ ui' = ui /\ ran' = ran /\ mail' = mail /\ commands' = commands \cup {c} /\ PressKey(<<>>)
  BY <1>1 DEF Interrupt
<1>3. ui.session \in 1 .. Len(ran) /\ ui.session \in Nat
  <2>1. ui.session # 0
    BY DEF Interrupt, ShownActive, EngineActive, NoSession
  <2>2. ui.session \in 0 .. Len(ran) /\ Len(ran) \in Nat
    BY DEF PlacesInv, WiringInv, PayloadsOK
  <2> QED BY <2>1, <2>2
<1>4. CommandOK(c) /\ c.text = <<>>
  BY <1>1, <1>3, PlainCommandOK
<1> QED BY <1>2, <1>4, PlainKeyPressed, PlainCommandStarts DEF EngineRests

LEMMA OtherCommandStep ==
  ASSUME PlacesInv, OtherCommand
  PROVE  PlacesInv'
<1>1. PICK c : c = Command("other", <<>>, NoSession)
  OBVIOUS
<1>2. /\ ui' = ui /\ ran' = ran /\ mail' = mail /\ commands' = commands \cup {c}
      /\ prompts' = [prompts EXCEPT !.others = @ + 1, !.keys = @ + 1]
      /\ prompts \in PromptRecords
  BY <1>1 DEF OtherCommand, PlacesInv, WiringInv
<1>3. CommandOK(c) /\ c.text = <<>>
  BY <1>1, PlainCommandOK DEF NoSession
<1>4. prompts.others + 1 \in Nat /\ prompts.keys + 1 \in Nat
  BY <1>2 DEF PromptRecords
<1>5. /\ prompts' \in PromptRecords /\ prompts'.typed = prompts.typed
      /\ prompts'.reported = prompts.reported /\ prompts'.discarded = prompts.discarded
  BY <1>2, <1>4 DEF PromptRecords
<1> QED BY <1>2, <1>3, <1>5, PlainCommandStarts DEF EngineRests

\* /new and /resume give the queue up.
LEMMA ChangeConversationStep ==
  ASSUME PlacesInv, NEW target \in {NoSession} \cup DOMAIN ran, ChangeConversation(target)
  PROVE  PlacesInv'
<1>1. /\ ran' = ran /\ mail' = mail /\ ui' = ResetView(ui) /\ PressKey(ui.queued) /\ PayloadsOK(ui)
      /\ WiringInv
  BY DEF ChangeConversation, Answered, PlacesInv, WiringInv
<1>2. /\ ui'.draft = ui.draft /\ ui'.queued = <<>> /\ ui'.session = NoSession
      /\ {"draft", "queued", "session"} \subseteq DOMAIN ui'
  BY <1>1 DEF PayloadsOK, ResetView
<1>3. /\ prompts' \in PromptRecords /\ prompts'.typed = prompts.typed
      /\ prompts'.reported = prompts.reported
      /\ \A p : p \in prompts'.discarded <=> p \in prompts.discarded \/ Among(ui.queued, p)
      /\ EngineRests
  BY <1>1, KeyPressed DEF EngineRests, PayloadsOK
<1>4. PICK c : c = Command("open", <<>>, target)
  OBVIOUS
<1>5. commands' = commands \/ commands' = commands \cup {c}
  BY <1>4 DEF ChangeConversation, Answered
<1>6. CommandOK(c) /\ c.text = <<>>
  <2>1. DOMAIN ran = 1 .. Len(ran) /\ Len(ran) \in Nat
    BY <1>1 DEF WiringInv
  <2>2. target \in 0 .. Len(ran) /\ target \in Nat
    BY <2>1 DEF NoSession
  <2> QED BY <1>4, <2>2, PlainCommandOK
<1>7. WiringInv'
  <2>1. <<>> \in Seq(Seq(PromptIds)) /\ NoSession \in 0 .. Len(ran)
    BY <1>1 DEF NoSession, WiringInv
  <2>2. PayloadsOK(ui')
    BY <1>1, <1>2, <2>1 DEF PayloadsOK
  <2> QED BY <1>1, <1>3, <1>5, <1>6, <2>2, TerminalWired
<1> SUFFICES ASSUME NEW p \in PromptIds
             PROVE  PromptInv(p)'
  BY <1>7 DEF PlacesInv
<1>8. /\ OnceAmong(ui.queued, p) /\ OnceCarried(commands, p)
      /\ OnceCarried(Answers(mail), p) /\ OnceAmong(Tasks(ran), p)
  BY AloneNow
<1>9. (Carried(commands', p) <=> Carried(commands, p)) /\ OnceCarried(commands', p)
  BY <1>5, <1>6, <1>8, PlainAdded
<1>10. ~Among(<<>>, p) /\ OnceAmong(<<>>, p)
  BY DEF Among, OnceAmong
<1>11. AloneInv(p)'
  BY <1>1, <1>2, <1>8, <1>9, <1>10 DEF AloneInv
<1>12. PICK S : S = {q \in {p} : Among(ui.queued, q)}
  OBVIOUS
<1>13. p \in S <=> Among(ui.queued, p)
  BY <1>12
<1>14. p \in S => At("queue", p)
  BY <1>13 DEF At
<1>15. ASSUME NEW n \in Places
       PROVE  At(n, p)' <=> \/ At(n, p) /\ ~(p \in S /\ n = "queue")
                            \/ p \in S /\ n = "discarded"
  BY <1>1, <1>2, <1>3, <1>9, <1>10, <1>13 DEF At
<1> QED BY <1>3, <1>11, <1>14, <1>15, PayloadMoves, PlaceNames

\* Showing an event leaves the payloads and the session shown alone.
SamePayloads(u, v) ==
  /\ {"draft", "queued", "session"} \subseteq DOMAIN v
  /\ v.draft = u.draft /\ v.queued = u.queued /\ v.session = u.session

LEMMA EventsKeepPayloads ==
  ASSUME NEW u, {"draft", "queued", "session"} \subseteq DOMAIN u, NEW s, NEW item
  PROVE  SamePayloads(u, TurnFor(u, s)) /\ SamePayloads(u, ShowEvent(u, s, item))
<1>1. PICK v : v = TurnFor(u, s)
  OBVIOUS
<1>2. SamePayloads(u, v)
  BY <1>1 DEF TurnFor, SamePayloads
<1>3. PICK n : n = LastTurn(v)
  OBVIOUS
<1>4. ShowEvent(u, s, item) \in
        {v, [v EXCEPT !.turns[n].shown = <<item.text>>], [v EXCEPT !.optimistic = Tail(@)],
         [v EXCEPT !.turns[n].shown = Append(@, item.text)],
         [v EXCEPT !.turns[n].status = item.kind]}
  BY <1>1, <1>3 DEF ShowEvent
<1>5. SamePayloads(u, ShowEvent(u, s, item))
  BY <1>2, <1>4 DEF SamePayloads
<1> QED BY <1>1, <1>2, <1>5

\* A message that moves no prompt is handled.
LEMMA PlainMessageHandled ==
  ASSUME PlacesInv, EngineRests, commands' = commands, NEW m \in mail,
         m.kind \notin {"rejected", "error"}, mail' = mail \ {m},
         {"draft", "queued", "session"} \subseteq DOMAIN ui',
         ui'.draft = ui.draft, ui'.queued = ui.queued, ui'.session \in 0 .. Len(ran),
         prompts'.discarded = prompts.discarded, prompts'.reported = prompts.reported
  PROVE  PlacesInv'
<1>1. WiringInv'
  <2>1. PayloadsOK(ui')
    BY DEF PlacesInv, WiringInv, PayloadsOK
  <2> QED BY <2>1, TerminalWired
<1>2. Answers(mail') = Answers(mail)
  BY AnswersOfMail
<1> QED BY <1>1, <1>2, NothingMoves, AloneNow DEF EngineRests

LEMMA StartedHandled ==
  ASSUME PlacesInv, NEW m \in mail, HandleStarted(m)
  PROVE  PlacesInv'
<1>1. /\ prompts' = prompts /\ ran' = ran /\ commands' = commands /\ mail' = mail \ {m}
      /\ m.kind \in {"started", "opened"} /\ PayloadsOK(ui) /\ MessageOK(m) /\ WiringInv
  BY DEF HandleStarted, PlacesInv, WiringInv
<1>2. PICK v : v = IF m.kind = "opened" THEN ShowHistory(ui, m.session) ELSE ui
  OBVIOUS
<1>3. SamePayloads(ui, v)
  BY <1>1, <1>2 DEF ShowHistory, SamePayloads, PayloadsOK
<1>4. PICK u : u = TurnFor(v, m.session)
  OBVIOUS
<1>5. SamePayloads(v, u)
  BY <1>3, <1>4, EventsKeepPayloads DEF SamePayloads
<1>6. ui' = [u EXCEPT !.starting = FALSE, !.session = m.session, !.stream = m.session,
                      !.subscribed = m.session, !.turns[LastTurn(u)].session = m.session]
  BY <1>2, <1>4 DEF HandleStarted
<1>7. /\ {"draft", "queued", "session"} \subseteq DOMAIN ui'
      /\ ui'.draft = ui.draft /\ ui'.queued = ui.queued /\ ui'.session = m.session
  BY <1>3, <1>5, <1>6 DEF SamePayloads
<1>8. m.session \in 0 .. Len(ran)
  BY <1>1 DEF MessageOK, WiringInv
<1>9. EngineRests
  BY <1>1 DEF EngineRests, WiringInv
<1> QED BY <1>1, <1>7, <1>8, <1>9, PlainMessageHandled

LEMMA EventHandled ==
  ASSUME PlacesInv, NEW m \in mail, HandleEvent(m)
  PROVE  PlacesInv'
<1>1. /\ prompts' = prompts /\ ran' = ran /\ mail' = mail \ {m} /\ m.kind = "event"
      /\ PayloadsOK(ui) /\ WiringInv
  BY DEF HandleEvent, PlacesInv, WiringInv
<1>2. PICK item : item = ran[m.session].events[m.event]
  OBVIOUS
<1>3. PICK u : u = ShowEvent(ui, m.session, item)
  OBVIOUS
<1>4. SamePayloads(ui, u)
  BY <1>1, <1>3, EventsKeepPayloads DEF PayloadsOK
<1>5. PICK done : done = [u EXCEPT !.subscribed = NoSession]
  OBVIOUS
<1>6. SamePayloads(ui, done)
  BY <1>4, <1>5 DEF SamePayloads
<1>7. PICK c : c = Command("continue", Head(ui.queued), ui.session)
  OBVIOUS
<1>8. \/ ui' \in {u, done} /\ commands' = commands
      \/ ui' = RestoreQueued(done) /\ commands' = commands
      \/ /\ ui' = BeginTurn(PopQueued(done), Head(ui.queued))
         /\ commands' = commands \cup {c} /\ ui.queued # <<>>
  <2>1. u.queued = ui.queued /\ u.session = ui.session
    BY <1>4 DEF SamePayloads
  <2>2. \/ (ui' = u \/ ui' = done) /\ commands' = commands
        \/ ui' = RestoreQueued(done) /\ commands' = commands
        \/ /\ ui' = BeginTurn(PopQueued(done), Head(u.queued)) /\ u.queued # <<>>
           /\ commands' = commands \cup {Command("continue", Head(u.queued), u.session)}
    BY <1>2, <1>3, <1>5 DEF HandleEvent, Answered
  <2> QED BY <1>7, <2>1, <2>2
<1>9. EngineRests /\ Answers(mail') = Answers(mail)
  BY <1>1, AnswersOfMail DEF EngineRests, WiringInv
<1>10. /\ ui.draft \in Seq(PromptIds) /\ ui.queued \in Seq(Seq(PromptIds))
       /\ ui.session \in 0 .. Len(ran) /\ ui.session \in Nat
  BY <1>1 DEF PayloadsOK, WiringInv
<1>11. CASE ui' \in {u, done} /\ commands' = commands
  <2>1. SamePayloads(ui, ui')
    BY <1>4, <1>6, <1>11
  <2> QED BY <1>1, <1>9, <1>10, <1>11, <2>1, PlainMessageHandled DEF SamePayloads
<1>12. CASE ui' = RestoreQueued(done) /\ commands' = commands
  <2>1. /\ {"draft", "queued", "session"} \subseteq DOMAIN ui' /\ ui'.session = ui.session
        /\ ui'.draft = FlattenSeq(ui.queued) \o ui.draft /\ ui'.queued = <<>>
    BY <1>6, <1>12 DEF RestoreQueued, SamePayloads
  <2>2. ui'.draft \in Seq(PromptIds)
    <3>1. PICK flat : flat = FlattenSeq(ui.queued)
      OBVIOUS
    <3>2. flat \in Seq(PromptIds)
      BY <1>10, <3>1, FlattenAmong
    <3> QED BY <1>10, <2>1, <3>1, <3>2, ConcatHolds
  <2>3. WiringInv'
    <3>1. <<>> \in Seq(Seq(PromptIds))
      OBVIOUS
    <3>2. PayloadsOK(ui')
      BY <1>10, <2>1, <2>2, <3>1 DEF PayloadsOK
    <3> QED BY <1>1, <1>9, <1>12, <3>2, TerminalWired
  <2> QED BY <1>1, <1>9, <1>12, <2>1, <2>3, QueueIsRestored
<1>13. CASE /\ ui' = BeginTurn(PopQueued(done), Head(ui.queued))
            /\ commands' = commands \cup {c} /\ ui.queued # <<>>
  <2>1. /\ {"draft", "queued", "session"} \subseteq DOMAIN ui' /\ ui'.session = ui.session
        /\ ui'.draft = ui.draft /\ ui'.queued = Tail(ui.queued)
    BY <1>6, <1>13 DEF BeginTurn, PopQueued, SamePayloads
  <2>2. Tail(ui.queued) \in Seq(Seq(PromptIds)) /\ Head(ui.queued) \in Seq(PromptIds)
    BY <1>10, <1>13
  <2>3. CommandOK(c) /\ c.text = Head(ui.queued)
    <3>1. PICK text : text = Head(ui.queued)
      OBVIOUS
    <3>2. "continue" \in {"start", "continue", "open", "steer", "cancel", "other"}
      OBVIOUS
    <3>3. c \in TerminalCommandRecords /\ c.op = "continue" /\ c.text = text
      BY <1>7, <1>10, <2>2, <3>1, <3>2, CommandType
    <3> QED BY <3>1, <3>3 DEF CommandOK
  <2>4. WiringInv'
    <3>1. PayloadsOK(ui')
      BY <1>10, <2>1, <2>2 DEF PayloadsOK
    <3> QED BY <1>1, <1>9, <1>13, <2>3, <3>1, TerminalWired
  <2> QED BY <1>1, <1>9, <1>13, <2>1, <2>3, <2>4, HeadIsSent
<1> QED BY <1>8, <1>11, <1>12, <1>13

LEMMA RejectedHandled ==
  ASSUME PlacesInv, NEW m \in mail, HandleRejected(m)
  PROVE  PlacesInv'
<1>1. /\ prompts' = prompts /\ ran' = ran /\ commands' = commands /\ mail' = mail \ {m}
      /\ m.kind = "rejected" /\ PayloadsOK(ui) /\ MessageOK(m) /\ WiringInv
  BY DEF HandleRejected, PlacesInv, WiringInv
<1>2. PICK rest : rest = RemoveFirst(ui.optimistic, m.text)
  OBVIOUS
<1>3. PICK v : /\ v = [ui EXCEPT !.optimistic = rest]
               /\ ui' = PrependQueued(v, m.text)
  BY <1>2 DEF HandleRejected
<1>4. SamePayloads(ui, v)
  BY <1>1, <1>3 DEF SamePayloads, PayloadsOK
<1>5. /\ {"draft", "queued", "session"} \subseteq DOMAIN ui' /\ ui'.session = ui.session
      /\ ui'.draft = ui.draft /\ ui'.queued = <<m.text>> \o ui.queued
  BY <1>3, <1>4 DEF SamePayloads, PrependQueued
<1>6. EngineRests
  BY <1>1 DEF EngineRests, WiringInv
<1>7. WiringInv'
  <2>1. <<m.text>> \in Seq(Seq(PromptIds)) /\ ui.queued \in Seq(Seq(PromptIds))
    BY <1>1 DEF PayloadsOK, MessageOK
  <2>2. <<m.text>> \o ui.queued \in Seq(Seq(PromptIds))
    BY <2>1
  <2>3. PayloadsOK(ui')
    BY <1>1, <1>5, <2>2 DEF PayloadsOK
  <2> QED BY <1>1, <1>6, <2>3, TerminalWired
<1> QED BY <1>1, <1>5, <1>6, <1>7, AnswerIsQueued

LEMMA ErrorHandled ==
  ASSUME PlacesInv, NEW m \in mail, HandleError(m)
  PROVE  PlacesInv'
<1>1. /\ ran' = ran /\ commands' = commands /\ mail' = mail \ {m}
      /\ prompts' = [prompts EXCEPT !.reported = @ \cup ToSet(m.text)]
      /\ m.kind = "error" /\ PayloadsOK(ui) /\ MessageOK(m) /\ WiringInv
  BY DEF HandleError, PlacesInv, WiringInv
<1>2. SamePayloads(ui, ui')
  BY <1>1 DEF HandleError, SamePayloads, PayloadsOK
<1>3. ToSet(m.text) \in SUBSET PromptIds
  BY <1>1 DEF MessageOK, ToSet
<1>4. /\ prompts' \in PromptRecords /\ prompts'.typed = prompts.typed
      /\ prompts'.discarded = prompts.discarded
      /\ prompts'.reported = prompts.reported \cup ToSet(m.text)
  BY <1>1, <1>3 DEF WiringInv, PromptRecords
<1>5. EngineRests
  BY <1>1, <1>4 DEF EngineRests
<1>6. WiringInv'
  <2>1. PayloadsOK(ui')
    BY <1>1, <1>2 DEF PayloadsOK, SamePayloads
  <2> QED BY <1>1, <1>5, <2>1, TerminalWired
<1> QED BY <1>1, <1>2, <1>4, <1>5, <1>6, AnswerIsReported DEF SamePayloads

\* Every step keeps each prompt at one place.
LEMMA PlacesStep ==
  ASSUME PlacesInv, [TerminalNext]_terminalVars
  PROVE  PlacesInv'
<1>1. CASE UNCHANGED terminalVars
  <2>1. /\ ui' = ui /\ prompts' = prompts /\ ran' = ran /\ commands' = commands /\ mail' = mail
    BY <1>1 DEF terminalVars
  <2>2. WiringInv'
    BY <2>1 DEF PlacesInv, WiringInv, PayloadsOK, CommandOK, MessageOK
  <2> QED BY <2>1, <2>2, NothingMoves, AloneNow
<1>2. ASSUME NEW s \in Sessions,
             \/ EndRun(s, "completed") \/ EndRun(s, "failed")
             \/ LeaveTable(s) \/ TakeEvent(s)
      PROVE  PlacesInv'
  BY <1>2, RunEndStep, TakeEventStep
<1>3. ASSUME NEW c \in commands,
             RunStart(c) \/ RunOpen(c) \/ RunSteer(c) \/ RunCancel(c) \/ RunOther(c)
      PROVE  PlacesInv'
  BY <1>3, RunStartStep, RunOpenStep, RunSteerStep, RunCancelStep
<1>4. CASE TypePrompt \/ Submit(TRUE) \/ Submit(FALSE)
  BY <1>4, TypePromptStep, PromptSubmitted
<1>5. CASE EditLastQueued \/ Interrupt \/ OtherCommand
  BY <1>5, EditLastStep, InterruptStep, OtherCommandStep
<1>6. ASSUME NEW target \in {NoSession} \cup DOMAIN ran, ChangeConversation(target)
      PROVE  PlacesInv'
  BY <1>6, ChangeConversationStep
<1>7. ASSUME NEW m \in mail,
             HandleStarted(m) \/ HandleEvent(m) \/ HandleRejected(m) \/ HandleError(m)
      PROVE  PlacesInv'
  BY <1>7, StartedHandled, EventHandled, RejectedHandled, ErrorHandled
<1> QED BY <1>1, <1>2, <1>3, <1>4, <1>5, <1>6, <1>7 DEF TerminalNext

\* A launch that resumes a conversation holds its prompt in the queue.
LEMMA PlacesInit ==
  ASSUME TerminalInit
  PROVE  PlacesInv
<1>1. PICK resuming \in BOOLEAN :
        /\ ui = [starting |-> resuming, session |-> NoSession, stream |-> NoSession,
                 subscribed |-> NoSession, turns |-> <<>>, optimistic |-> <<>>, draft |-> <<>>,
                 queued |-> IF resuming THEN <<<<1>>>> ELSE <<>>]
        /\ prompts = [typed |-> IF resuming THEN 1 ELSE 0, discarded |-> {}, reported |-> {},
                      others |-> 0, keys |-> 0]
        /\ commands = IF resuming THEN {Command("open", <<>>, NoSession)} ELSE {}
  BY DEF TerminalInit
<1>2. ran = <<>> /\ mail = {}
  BY DEF TerminalInit
<1>3. ran \in Seq(SessionRecords) /\ Len(ran) = 0 /\ DOMAIN ran = {}
  BY <1>2
<1>4. /\ {"draft", "queued", "session"} \subseteq DOMAIN ui /\ ui.draft = <<>> /\ ui.session = 0
      /\ ui.queued = IF resuming THEN <<<<1>>>> ELSE <<>>
  BY <1>1 DEF NoSession
<1>5. /\ prompts \in PromptRecords /\ prompts.typed = (IF resuming THEN 1 ELSE 0)
      /\ prompts.discarded = {} /\ prompts.reported = {}
  BY <1>1 DEF PromptRecords
<1>6. PICK c : c = Command("open", <<>>, NoSession)
  OBVIOUS
<1>7. CommandOK(c) /\ c.text = <<>>
  BY <1>3, <1>6, PlainCommandOK DEF NoSession
<1>8. commands \subseteq {c}
  BY <1>1, <1>6
<1>9. 1 \in PromptIds
  BY DEF PromptIds
<1>10. ui.queued \in Seq(Seq(PromptIds))
  <2>1. <<<<1>>>> \in Seq(Seq(PromptIds)) /\ <<>> \in Seq(Seq(PromptIds))
    BY <1>9
  <2> QED BY <1>4, <2>1
<1>11. WiringInv
  <2>1. <<>> \in Seq(PromptIds)
    OBVIOUS
  <2> QED BY <1>2, <1>3, <1>4, <1>5, <1>7, <1>8, <1>10, <2>1 DEF WiringInv, PayloadsOK
<1> SUFFICES ASSUME NEW p \in PromptIds
             PROVE  PromptInv(p)
  BY <1>11 DEF PlacesInv
<1>12. \A c1 \in commands : p \notin ToSet(c1.text)
  BY <1>7, <1>8, NothingCarried
<1>13. Answers(mail) = {} /\ DOMAIN Tasks(ran) = {}
  BY <1>2, <1>3 DEF Answers, Tasks
<1>14. Among(ui.queued, p) <=> resuming /\ p = 1
  <2>1. CASE resuming
    <3>1. PICK q : q = <<<<1>>>>
      OBVIOUS
    <3>2. DOMAIN q = {1} /\ ToSet(q[1]) = {1}
      BY <3>1 DEF ToSet
    <3> QED BY <1>4, <2>1, <3>1, <3>2 DEF Among
  <2>2. CASE ~resuming
    BY <1>4, <2>2 DEF Among
  <2> QED BY <2>1, <2>2
<1>15. OnceAmong(ui.queued, p)
  <2>1. \A i, j \in DOMAIN ui.queued : i = j
    BY <1>4
  <2> QED BY <2>1 DEF OnceAmong
<1>16. AloneInv(p)
  BY <1>12, <1>13, <1>15 DEF AloneInv, OnceCarried, OnceAmong
<1>17. ASSUME NEW n \in Places
       PROVE  At(n, p) <=> n = "queue" /\ resuming /\ p = 1
  <2>1. ~InstructedIn(ran, p) /\ ~Carried(commands, p) /\ ~Carried(Answers(mail), p) /\ ~Among(Tasks(ran), p)
    BY <1>3, <1>12, <1>13 DEF InstructedIn, Carried, Among
  <2> QED BY <1>4, <1>5, <1>14, <2>1, NothingCarried DEF At
<1>18. (p <= prompts.typed <=> resuming /\ p = 1) /\ ~(p <= prompts.typed /\ p > prompts.typed)
  BY <1>5 DEF PromptIds
<1> QED BY <1>16, <1>17, <1>18, PlaceNames DEF PromptInv, AtOnePlace

\* One place of a kind for each thing of a set.
Tagged(n, S) == {<<n, x>> : x \in S}

LEMMA TaggedOnce ==
  \A n, S : /\ S = {} => Tagged(n, S) = {}
            /\ (\E x : S = {x}) => \E x : Tagged(n, S) = {x}
<1> TAKE n, S
<1>1. S = {} => Tagged(n, S) = {}
  BY DEF Tagged
<1>2. ASSUME NEW x, S = {x}
      PROVE  Tagged(n, S) = {<<n, x>>}
  BY <1>2, Zenon DEF Tagged
<1> QED BY <1>1, <1>2

\* What a step does to the engine's sessions: nothing, an event of one of
\* them at most, or one session more. An instruction for the leader comes
\* from a steer, and a session that is not followed leaves an error.
SessionChanges(s, t) ==
  /\ t \in SessionRecords /\ ran' = [ran EXCEPT ![s] = t]
  /\ t.task = ran[s].task /\ t.followed = ran[s].followed
  /\ \/ t.events = ran[s].events
     \/ \E e \in EventRecords :
          /\ t.events = Append(ran[s].events, e)
          /\ \A p : Instructs(e, p) => Carried(commands, p)

SessionAdded(t) ==
  /\ t \in SessionRecords /\ ran' = Append(ran, t)
  /\ \E text : t.events = <<Entry("created", text)>>
  /\ t.followed \/ \E m \in mail' : m.kind = "error" /\ m.text = t.task

EndedType(r, kind, t) ==
  /\ t \in SessionRecords /\ t.task = r.task /\ t.followed = r.followed
  /\ \E e \in EventRecords : t.events = Append(r.events, e) /\ \A p : ~Instructs(e, p)

LEMMA EndedAs ==
  ASSUME NEW r \in SessionRecords, NEW kind \in {"completed", "failed", "cancelled"}
  PROVE  EndedType(r, kind, Ended(r, kind))
<1>1. PICK e : e = Entry(kind, <<>>)
  OBVIOUS
<1>2. e \in EventRecords /\ e.kind = kind
  <2>1. kind \in EventKinds /\ <<>> \in Seq(PromptIds)
    BY DEF EventKinds
  <2> QED BY <1>1, <2>1, EntryType
<1>3. PICK es : es = Append(r.events, e)
  OBVIOUS
<1>4. es \in Seq(EventRecords)
  BY <1>2, <1>3 DEF SessionRecords
<1>5. PICK t : t = [r EXCEPT !.status = kind, !.events = es]
  OBVIOUS
<1>6. t = Ended(r, kind)
  BY <1>1, <1>3, <1>5 DEF Ended
<1>7. t \in SessionRecords /\ t.task = r.task /\ t.followed = r.followed /\ t.events = es
  BY <1>4, <1>5 DEF SessionRecords
<1>8. \A p : ~Instructs(e, p)
  BY <1>2 DEF Instructs
<1> QED BY <1>2, <1>3, <1>6, <1>7, <1>8 DEF EndedType

LEMMA RanChanges ==
  ASSUME WiringInv, [TerminalNext]_terminalVars
  PROVE  \/ ran' = ran
         \/ \E s \in 1 .. Len(ran) : \E t : SessionChanges(s, t)
         \/ \E t : SessionAdded(t)
<1>1. /\ ran \in Seq(SessionRecords) /\ DOMAIN ran = 1 .. Len(ran)
      /\ \A s \in 1 .. Len(ran) : ran[s] \in SessionRecords
  BY DEF WiringInv
<1>2. ASSUME NEW s \in Sessions, NEW kind \in {"completed", "failed"}, EndRun(s, kind)
      PROVE  \E t : SessionChanges(s, t) /\ s \in 1 .. Len(ran)
  <2>1. s \in 1 .. Len(ran) /\ ran[s] \in SessionRecords
    BY <1>1, <1>2 DEF EndRun
  <2>2. PICK r : r = ran[s]
    OBVIOUS
  <2>3. PICK t : t = Ended(r, kind)
    OBVIOUS
  <2>4. EndedType(r, kind, t)
    BY <2>1, <2>2, <2>3, EndedAs
  <2>5. ran' = [ran EXCEPT ![s] = t]
    BY <1>2, <2>2, <2>3 DEF EndRun
  <2> QED BY <2>1, <2>2, <2>4, <2>5 DEF SessionChanges, EndedType
<1>3. ASSUME NEW s \in Sessions, LeaveTable(s)
      PROVE  \E t : SessionChanges(s, t) /\ s \in 1 .. Len(ran)
  <2>1. s \in 1 .. Len(ran) /\ ran[s] \in SessionRecords
    BY <1>1, <1>3 DEF LeaveTable
  <2>2. PICK t : t = [ran[s] EXCEPT !.active = FALSE]
    OBVIOUS
  <2>3. ran' = [ran EXCEPT ![s] = t]
    BY <1>3, <2>2 DEF LeaveTable
  <2>4. /\ t \in SessionRecords /\ t.task = ran[s].task /\ t.followed = ran[s].followed
        /\ t.events = ran[s].events
    BY <2>1, <2>2 DEF SessionRecords
  <2> QED BY <2>1, <2>3, <2>4 DEF SessionChanges
<1>4. ASSUME NEW c \in commands, RunStart(c), ran' # ran
      PROVE  \E t : SessionAdded(t)
  <2>1. c.text \in Seq(PromptIds) /\ c.session \in Nat
    BY DEF WiringInv, CommandOK, TerminalCommandRecords
  <2>2. PICK t : /\ ran' = Append(ran, t)
                 /\ \/ t = Opened(c.text, c.session)
                    \/ t = [Opened(c.text, c.session) EXCEPT !.followed = FALSE]
                 /\ t # Opened(c.text, c.session) => mail' = mail \cup Failure(c)
    BY <1>4 DEF RunStart, Post
  <2>3. /\ t \in SessionRecords /\ t.task = c.text /\ t.events = <<Entry("created", c.text)>>
        /\ t = Opened(c.text, c.session) => t.followed
    <3>1. PICK o, u : o = Opened(c.text, c.session) /\ u = [o EXCEPT !.followed = FALSE]
      OBVIOUS
    <3>2. /\ o \in SessionRecords /\ o.task = c.text /\ o.events = <<Entry("created", c.text)>>
          /\ o.followed
          /\ u \in SessionRecords /\ u.task = c.text /\ u.events = <<Entry("created", c.text)>>
          /\ ~u.followed
      BY <2>1, <3>1, OpenedType
    <3>3. t = o \/ t = u
      BY <2>2, <3>1
    <3> QED BY <3>1, <3>2, <3>3
  <2>4. t # Opened(c.text, c.session) => \E m \in mail' : m.kind = "error" /\ m.text = t.task
    <3>1. PICK m : m = PlainMessage("error", c.text, c.session)
      OBVIOUS
    <3>2. m.kind = "error" /\ m.text = c.text /\ Failure(c) = {m}
      BY <3>1, MessageFields DEF Failure
    <3> QED BY <2>2, <2>3, <3>2
  <2> QED BY <2>2, <2>3, <2>4 DEF SessionAdded
<1>5. ASSUME NEW c \in commands, RunOpen(c), ran' # ran
      PROVE  \E s \in 1 .. Len(ran) : \E t : SessionChanges(s, t)
  <2>1. /\ c.op = "open" /\ c.session # NoSession
        /\ ran' = [ran EXCEPT ![c.session] = Resumed(@)]
    BY <1>5 DEF RunOpen
  <2>2. c.session \in 1 .. Len(ran)
    <3>1. c.session \in 0 .. Len(ran) /\ Len(ran) \in Nat
      BY <2>1 DEF WiringInv, CommandOK
    <3> QED BY <2>1, <3>1 DEF NoSession
  <2>3. PICK s, t : s = c.session /\ t = Resumed(ran[s])
    OBVIOUS
  <2>4. /\ t \in SessionRecords /\ t.task = ran[s].task /\ t.followed = ran[s].followed
        /\ t.events = ran[s].events
    BY <1>1, <2>2, <2>3, ResumedType
  <2>5. ran' = [ran EXCEPT ![s] = t]
    BY <2>1, <2>3
  <2> QED BY <2>2, <2>3, <2>4, <2>5 DEF SessionChanges
<1>6. ASSUME NEW c \in commands, RunSteer(c), ran' # ran
      PROVE  \E s \in 1 .. Len(ran) : \E t : SessionChanges(s, t)
  <2>1. c.session \in 1 .. Len(ran) /\ c.text \in Seq(PromptIds)
    BY <1>6 DEF RunSteer, WiringInv, CommandOK, TerminalCommandRecords
  <2>2. PICK e \in {Entry("instruction", c.text), LateInstruction(c.text)} :
          ran' = [ran EXCEPT ![c.session].events = Append(@, e)]
    <3>1. \/ ran' = [ran EXCEPT ![c.session].events = Append(@, Entry("instruction", c.text))]
          \/ ran' = [ran EXCEPT ![c.session].events = Append(@, LateInstruction(c.text))]
      BY <1>6, Zenon DEF RunSteer
    <3>2. PICK a, b : a = Entry("instruction", c.text) /\ b = LateInstruction(c.text)
      OBVIOUS
    <3> DEFINE Saved(e) == ran' = [ran EXCEPT ![c.session].events = Append(@, e)]
    <3>3. Saved(a) \/ Saved(b)
      BY <3>1, <3>2
    <3>4. a \in {Entry("instruction", c.text), LateInstruction(c.text)}
          /\ b \in {Entry("instruction", c.text), LateInstruction(c.text)}
      BY <3>2
    <3> HIDE DEF Saved
    <3>5. \E e \in {Entry("instruction", c.text), LateInstruction(c.text)} : Saved(e)
      BY <3>3, <3>4
    <3> QED BY <3>5, Zenon DEF Saved
  <2>3. e \in EventRecords /\ e.text = c.text
    <3>1. "instruction" \in EventKinds
      BY DEF EventKinds
    <3>2. PICK a, b : a = Entry("instruction", c.text) /\ b = LateInstruction(c.text)
      OBVIOUS
    <3>3. a \in EventRecords /\ a.text = c.text /\ b \in EventRecords /\ b.text = c.text
      BY <2>1, <3>1, <3>2, EntryType, LateType
    <3>4. e = a \/ e = b
      BY <2>2, <3>2
    <3> QED BY <3>3, <3>4
  <2>4. PICK s, r : s = c.session /\ r = ran[s]
    OBVIOUS
  <2>5. PICK t : t = [r EXCEPT !.events = Append(@, e)]
    OBVIOUS
  <2>6. r \in SessionRecords
    BY <1>1, <2>1, <2>4
  <2>7. /\ t \in SessionRecords /\ t.task = r.task /\ t.followed = r.followed
        /\ t.events = Append(r.events, e)
    BY <2>3, <2>5, <2>6, WithEvent
  <2>8. ran' = [ran EXCEPT ![s] = t]
    BY <2>2, <2>4, <2>5
  <2>9. \A p : Instructs(e, p) => Carried(commands, p)
    BY <2>3 DEF Instructs, Carried
  <2> QED BY <2>1, <2>3, <2>4, <2>7, <2>8, <2>9 DEF SessionChanges
<1>7. ASSUME NEW c \in commands, RunCancel(c), ran' # ran
      PROVE  \E s \in 1 .. Len(ran) : \E t : SessionChanges(s, t)
  <2>1. c.session \in 1 .. Len(ran) /\ ran' = [ran EXCEPT ![c.session] = Ended(@, "cancelled")]
    BY <1>7 DEF RunCancel, WiringInv, CommandOK
  <2>2. PICK s, r : s = c.session /\ r = ran[s]
    OBVIOUS
  <2>3. PICK t : t = Ended(r, "cancelled")
    OBVIOUS
  <2>4. r \in SessionRecords
    BY <1>1, <2>1, <2>2
  <2>5. EndedType(r, "cancelled", t)
    BY <2>3, <2>4, EndedAs
  <2>6. ran' = [ran EXCEPT ![s] = t]
    BY <2>1, <2>2, <2>3
  <2> QED BY <2>1, <2>2, <2>5, <2>6 DEF SessionChanges, EndedType
<1>8. CASE \/ UNCHANGED terminalVars
           \/ \E s \in Sessions : TakeEvent(s)
           \/ \E c \in commands : RunOther(c)
           \/ TypePrompt \/ Submit(TRUE) \/ Submit(FALSE)
           \/ EditLastQueued \/ Interrupt \/ OtherCommand
           \/ \E target \in {NoSession} \cup DOMAIN ran : ChangeConversation(target)
           \/ \E m \in mail :
                HandleStarted(m) \/ HandleEvent(m) \/ HandleRejected(m) \/ HandleError(m)
  BY <1>8 DEF terminalVars, TakeEvent, RunOther, TypePrompt, Submit, EditLastQueued, Interrupt,
              OtherCommand, ChangeConversation, HandleStarted, HandleEvent, HandleRejected, HandleError
<1> QED BY <1>2, <1>3, <1>4, <1>5, <1>6, <1>7, <1>8 DEF TerminalNext

\* An instruction is no prompt's twice.
InstructsAt(r, p, s, i) == s \in DOMAIN r /\ i \in DOMAIN r[s].events /\ Instructs(r[s].events[i], p)
OnceInstructed(r, p) ==
  \A s, t, i, j : InstructsAt(r, p, s, i) /\ InstructsAt(r, p, t, j) => s = t /\ i = j

InstructedInv == \A p \in PromptIds : OnceInstructed(ran, p)

LEMMA InstructedOnceStep ==
  ASSUME PlacesInv, InstructedInv, [TerminalNext]_terminalVars
  PROVE  InstructedInv'
<1>1. /\ ran \in Seq(SessionRecords) /\ DOMAIN ran = 1 .. Len(ran) /\ Len(ran) \in Nat /\ WiringInv
      /\ \A s \in 1 .. Len(ran) : ran[s] \in SessionRecords
  BY DEF PlacesInv, WiringInv
<1> SUFFICES ASSUME NEW p \in PromptIds
             PROVE  OnceInstructed(ran', p)
  BY DEF InstructedInv
<1>2. OnceInstructed(ran, p)
  BY DEF InstructedInv
<1>3. ASSUME NEW s \in 1 .. Len(ran), NEW t, SessionChanges(s, t)
      PROVE  OnceInstructed(ran', p)
  <2>1. /\ DOMAIN ran' = DOMAIN ran /\ ran'[s] = t /\ \A u \in DOMAIN ran : u # s => ran'[u] = ran[u]
    BY <1>1, <1>3 DEF SessionChanges
  <2>2. CASE t.events = ran[s].events
    <3>1. \A u, i : InstructsAt(ran', p, u, i) <=> InstructsAt(ran, p, u, i)
      BY <2>1, <2>2 DEF InstructsAt
    <3> QED BY <1>2, <3>1 DEF OnceInstructed
  <2>3. ASSUME NEW e \in EventRecords, t.events = Append(ran[s].events, e),
               \A x : Instructs(e, x) => Carried(commands, x)
        PROVE  OnceInstructed(ran', p)
    <3>1. PICK es : es = ran[s].events
      OBVIOUS
    <3>2. es \in Seq(EventRecords)
      BY <1>1, <3>1 DEF SessionRecords
    <3>3. PICK fs : fs = t.events
      OBVIOUS
    <3>4. /\ DOMAIN es = 1 .. Len(es) /\ DOMAIN fs = 1 .. Len(es) + 1 /\ Len(es) \in Nat
          /\ fs[Len(es) + 1] = e /\ \A i \in 1 .. Len(es) : fs[i] = es[i]
      BY <2>3, <3>1, <3>2, <3>3, Appended
    <3>5. \A i \in 1 .. Len(es) + 1 : i \in 1 .. Len(es) \/ i = Len(es) + 1
      BY <3>4
    <3>6. ASSUME NEW u, NEW i, InstructsAt(ran', p, u, i)
          PROVE  \/ InstructsAt(ran, p, u, i)
                 \/ u = s /\ i = Len(es) + 1 /\ Instructs(e, p)
      <4>1. u \in DOMAIN ran /\ i \in DOMAIN ran'[u].events /\ Instructs(ran'[u].events[i], p)
        BY <2>1, <3>6 DEF InstructsAt
      <4>2. CASE u # s
        BY <2>1, <4>1, <4>2 DEF InstructsAt
      <4>3. CASE u = s
        <5>1. i \in 1 .. Len(es) + 1 /\ Instructs(fs[i], p)
          BY <2>1, <3>3, <3>4, <4>1, <4>3
        <5> QED BY <1>1, <3>1, <3>4, <3>5, <4>3, <5>1 DEF InstructsAt
      <4> QED BY <4>2, <4>3
    <3>7. CASE Instructs(e, p)
      <4>1. At("command", p)
        BY <2>3, <3>7 DEF At
      <4>2. ~InstructedIn(ran, p)
        BY <4>1, OnlyThere, PlaceNames DEF At
      <4>3. \A u, i : ~InstructsAt(ran, p, u, i)
        BY <4>2 DEF InstructedIn, InstructsAt
      <4> QED BY <3>6, <4>3 DEF OnceInstructed
    <3>8. CASE ~Instructs(e, p)
      BY <1>2, <3>6, <3>8 DEF OnceInstructed
    <3> QED BY <3>7, <3>8
  <2> QED BY <1>3, <2>2, <2>3 DEF SessionChanges
<1>4. ASSUME NEW t, SessionAdded(t)
      PROVE  OnceInstructed(ran', p)
  <2>1. /\ DOMAIN ran' = 1 .. Len(ran) + 1 /\ ran'[Len(ran) + 1] = t
        /\ \A u \in 1 .. Len(ran) : ran'[u] = ran[u]
    <3>1. ran' = Append(ran, t) /\ t \in SessionRecords
      BY <1>4 DEF SessionAdded
    <3> QED BY <1>1, <3>1, Appended
  <2>2. PICK text : t.events = <<Entry("created", text)>>
    BY <1>4 DEF SessionAdded
  <2>3. \A i \in DOMAIN t.events : ~Instructs(t.events[i], p)
    BY <2>2 DEF Instructs, Entry
  <2>4. \A u \in 1 .. Len(ran) + 1 : u \in 1 .. Len(ran) \/ u = Len(ran) + 1
    BY <1>1
  <2>5. ASSUME NEW u, NEW i, InstructsAt(ran', p, u, i)
        PROVE  InstructsAt(ran, p, u, i)
    <3>1. u \in 1 .. Len(ran) \/ u = Len(ran) + 1
      BY <2>1, <2>4, <2>5 DEF InstructsAt
    <3> QED BY <1>1, <2>1, <2>3, <2>5, <3>1 DEF InstructsAt
  <2> QED BY <1>2, <2>5 DEF OnceInstructed
<1>5. CASE ran' = ran
  BY <1>2, <1>5
<1> QED BY <1>1, <1>3, <1>4, <1>5, RanChanges

\* The prompts of a session that is not followed are reported, or will be.
ToldOf(p) == p \in prompts.reported \/ \E m \in mail : m.kind = "error" /\ p \in ToSet(m.text)
ReportedInv == \A p \in PromptIds : RunsUnfollowed(p) => ToldOf(p)

\* What is reported stays so, and an error is handled before it is gone.
LEMMA ReportsStay ==
  ASSUME WiringInv, [TerminalNext]_terminalVars, NEW p, ToldOf(p)
  PROVE  ToldOf(p)'
<1>1. prompts \in PromptRecords
  BY DEF WiringInv
<1>2. CASE \E m \in mail : HandleError(m)
  <2>1. PICK m \in mail : /\ m.kind = "error" /\ mail' = mail \ {m}
                          /\ prompts' = [prompts EXCEPT !.reported = @ \cup ToSet(m.text)]
    BY <1>2 DEF HandleError
  <2>2. prompts'.reported = prompts.reported \cup ToSet(m.text)
    BY <1>1, <2>1 DEF PromptRecords
  <2> QED BY <2>1, <2>2 DEF ToldOf
<1>3. ASSUME prompts'.reported = prompts.reported,
             \A m \in mail : m.kind = "error" => m \in mail'
      PROVE  ToldOf(p)'
  BY <1>3 DEF ToldOf
<1>4. ASSUME NEW texts, PressKey(texts)
      PROVE  prompts'.reported = prompts.reported
  BY <1>1, <1>4 DEF PressKey, PromptRecords
<1>5. CASE \/ UNCHANGED terminalVars
           \/ \E s \in Sessions : \/ EndRun(s, "completed") \/ EndRun(s, "failed")
                                  \/ LeaveTable(s) \/ TakeEvent(s)
           \/ \E c \in commands :
                RunStart(c) \/ RunOpen(c) \/ RunSteer(c) \/ RunCancel(c) \/ RunOther(c)
  <2>1. prompts' = prompts /\ \A m \in mail : m \in mail'
    <3>1. CASE \E c \in commands :
                 RunStart(c) \/ RunOpen(c) \/ RunSteer(c) \/ RunCancel(c) \/ RunOther(c)
      BY <3>1 DEF RunStart, RunOpen, RunSteer, RunCancel, RunOther, Post
    <3> QED BY <1>5, <3>1 DEF terminalVars, EndRun, LeaveTable, TakeEvent
  <2> QED BY <1>3, <2>1
<1>6. CASE \/ Submit(TRUE) \/ Submit(FALSE) \/ EditLastQueued \/ Interrupt
           \/ \E target \in {NoSession} \cup DOMAIN ran : ChangeConversation(target)
  <2>1. mail' = mail /\ \E texts : PressKey(texts)
    BY <1>6 DEF Submit, EditLastQueued, Interrupt, ChangeConversation
  <2> QED BY <1>3, <1>4, <2>1
<1>7. CASE TypePrompt \/ OtherCommand
  <2>1. mail' = mail /\ prompts'.reported = prompts.reported
    BY <1>1, <1>7 DEF TypePrompt, OtherCommand, PromptRecords
  <2> QED BY <1>3, <2>1
<1>8. CASE \E m \in mail : HandleStarted(m) \/ HandleEvent(m) \/ HandleRejected(m)
  <2>1. PICK m \in mail : m.kind # "error" /\ mail' = mail \ {m} /\ prompts' = prompts
    BY <1>8 DEF HandleStarted, HandleEvent, HandleRejected
  <2> QED BY <1>3, <2>1
<1> QED BY <1>2, <1>5, <1>6, <1>7, <1>8 DEF TerminalNext

LEMMA ReportedStep ==
  ASSUME WiringInv, ReportedInv, [TerminalNext]_terminalVars
  PROVE  ReportedInv'
<1>1. /\ ran \in Seq(SessionRecords) /\ DOMAIN ran = 1 .. Len(ran) /\ Len(ran) \in Nat
  BY DEF WiringInv
<1> SUFFICES ASSUME NEW p \in PromptIds, RunsUnfollowed(p)'
             PROVE  ToldOf(p)'
  BY DEF ReportedInv
<1>2. RunsUnfollowed(p) => ToldOf(p)'
  BY ReportsStay DEF ReportedInv
<1>3. ASSUME NEW s \in 1 .. Len(ran), NEW t, SessionChanges(s, t)
      PROVE  RunsUnfollowed(p)
  <2>1. /\ DOMAIN ran' = DOMAIN ran /\ ran'[s] = t /\ \A u \in DOMAIN ran : u # s => ran'[u] = ran[u]
    BY <1>1, <1>3 DEF SessionChanges
  <2>2. \A u \in DOMAIN ran : ran'[u].task = ran[u].task /\ ran'[u].followed = ran[u].followed
    BY <1>3, <2>1 DEF SessionChanges
  <2> QED BY <2>1, <2>2 DEF RunsUnfollowed
<1>4. ASSUME NEW t, SessionAdded(t)
      PROVE  ToldOf(p)'
  <2>1. /\ DOMAIN ran' = 1 .. Len(ran) + 1 /\ ran'[Len(ran) + 1] = t
        /\ \A u \in 1 .. Len(ran) : ran'[u] = ran[u]
    <3>1. ran' = Append(ran, t) /\ t \in SessionRecords
      BY <1>4 DEF SessionAdded
    <3> QED BY <1>1, <3>1, Appended
  <2>2. PICK u \in 1 .. Len(ran) + 1 : ~ran'[u].followed /\ p \in ToSet(ran'[u].task)
    BY <2>1 DEF RunsUnfollowed
  <2>3. CASE u \in 1 .. Len(ran)
    BY <1>1, <1>2, <2>1, <2>2, <2>3 DEF RunsUnfollowed
  <2>4. CASE u = Len(ran) + 1
    BY <1>4, <2>1, <2>2, <2>4 DEF SessionAdded, ToldOf
  <2> QED BY <1>1, <2>3, <2>4
<1>5. CASE ran' = ran
  BY <1>2, <1>5 DEF RunsUnfollowed
<1> QED BY <1>2, <1>3, <1>4, <1>5, RanChanges

\* The places the property counts.
LEMMA PlacesCounted ==
  ASSUME PlacesInv, InstructedInv, NEW p \in PromptIds, p <= prompts.typed
  PROVE  Cardinality(PlacesOf(p)) = 1
<1>1. PICK k \in Places : \A n \in Places : At(n, p) <=> n = k
  BY DEF PlacesInv, PromptInv, AtOnePlace
<1>2. /\ OnceAmong(ui.queued, p) /\ OnceCarried(commands, p)
      /\ OnceCarried(Answers(mail), p) /\ OnceAmong(Tasks(ran), p)
  BY AloneNow
<1>3. PICK D : D = IF p \in ToSet(ui.draft) THEN {<<"draft", 0>>} ELSE {}
  OBVIOUS
<1>4. PICK Q : Q = {i \in DOMAIN ui.queued : p \in ToSet(ui.queued[i])}
  OBVIOUS
<1>5. PICK C : C = {c \in commands : p \in ToSet(c.text)}
  OBVIOUS
<1>6. PICK A : A = {m \in mail : m.kind \in {"rejected", "error"} /\ p \in ToSet(m.text)}
  OBVIOUS
<1>7. PICK T : T = {s \in DOMAIN ran : ran[s].followed /\ p \in ToSet(ran[s].task)}
  OBVIOUS
<1>8. PICK F : F = {g \in {"discarded", "reported"} : p \in prompts[g]}
  OBVIOUS
<1>9. PlacesOf(p) = D \cup Tagged("queue", Q) \cup Tagged("command", C) \cup Tagged("answer", A)
                      \cup Tagged("task", T) \cup Tagged("instruction", Instructions(p, FALSE))
                      \cup {<<f, 0>> : f \in F}
  BY <1>3, <1>4, <1>5, <1>6, <1>7, <1>8, Zenon DEF PlacesOf, Tagged
<1>10. (k # "draft" => D = {}) /\ (k = "draft" => \E x : D = {x})
  BY <1>1, <1>3, PlaceNames DEF At
<1>11. (k # "queue" => Tagged("queue", Q) = {}) /\ (k = "queue" => \E x : Tagged("queue", Q) = {x})
  <2>1. k = "queue" <=> Among(ui.queued, p)
    BY <1>1, PlaceNames DEF At
  <2>2. \A i : i \in Q <=> i \in DOMAIN ui.queued /\ p \in ToSet(ui.queued[i])
    BY <1>4
  <2>3. k # "queue" => Q = {}
    BY <2>1, <2>2 DEF Among
  <2>4. ASSUME k = "queue"
        PROVE  \E x : Q = {x}
    <3>1. PICK i \in DOMAIN ui.queued : p \in ToSet(ui.queued[i])
      BY <2>1, <2>4 DEF Among
    <3>2. \A j \in Q : j = i
      BY <1>2, <2>2, <3>1 DEF OnceAmong
    <3>3. i \in Q
      BY <2>2, <3>1
    <3> QED BY <3>2, <3>3
  <2> QED BY <2>3, <2>4, TaggedOnce
<1>12. (k # "command" => Tagged("command", C) = {}) /\ (k = "command" => \E x : Tagged("command", C) = {x})
  <2>1. (k # "command" => C = {}) /\ (k = "command" => \E x : C = {x})
    <3>1. k = "command" <=> Carried(commands, p)
      BY <1>1, PlaceNames DEF At
    <3>2. \A c : c \in C <=> c \in commands /\ p \in ToSet(c.text)
      BY <1>5
    <3> QED BY <1>2, <3>1, <3>2 DEF Carried, OnceCarried
  <2> QED BY <2>1, TaggedOnce
<1>13. (k # "answer" => Tagged("answer", A) = {}) /\ (k = "answer" => \E x : Tagged("answer", A) = {x})
  <2>1. k = "answer" <=> Carried(Answers(mail), p)
    BY <1>1, PlaceNames DEF At
  <2>2. \A m : m \in A <=> m \in Answers(mail) /\ p \in ToSet(m.text)
    BY <1>6 DEF Answers
  <2>3. k # "answer" => A = {}
    BY <2>1, <2>2 DEF Carried
  <2>4. ASSUME k = "answer"
        PROVE  \E x : A = {x}
    <3>1. PICK m \in Answers(mail) : p \in ToSet(m.text)
      BY <2>1, <2>4 DEF Carried
    <3>2. \A n \in A : n = m
      BY <1>2, <2>2, <3>1 DEF OnceCarried
    <3>3. m \in A
      BY <2>2, <3>1
    <3> QED BY <3>2, <3>3
  <2> QED BY <2>3, <2>4, TaggedOnce
<1>14. (k # "task" => Tagged("task", T) = {}) /\ (k = "task" => \E x : Tagged("task", T) = {x})
  <2>1. (k # "task" => T = {}) /\ (k = "task" => \E x : T = {x})
    <3>1. \A s \in DOMAIN ran : p \in ToSet(TaskOf(ran[s])) <=> ran[s].followed /\ p \in ToSet(ran[s].task)
      BY NothingCarried DEF TaskOf
    <3>2. \A s : s \in T <=> s \in DOMAIN Tasks(ran) /\ p \in ToSet(Tasks(ran)[s])
      BY <1>7, <3>1 DEF Tasks
    <3>3. k = "task" <=> Among(Tasks(ran), p)
      BY <1>1, PlaceNames DEF At
    <3> QED BY <1>2, <3>2, <3>3 DEF Among, OnceAmong
  <2> QED BY <2>1, TaggedOnce
<1>15. /\ k \notin {"discarded", "reported"} => {<<f, 0>> : f \in F} = {}
       /\ k \in {"discarded", "reported"} => \E x : {<<f, 0>> : f \in F} = {x}
  <2>1. /\ k \notin {"discarded", "reported"} => F = {}
        /\ k \in {"discarded", "reported"} => F = {k}
    BY <1>1, <1>8, PlaceNames DEF At
  <2>2. F = {} => {<<f, 0>> : f \in F} = {}
    OBVIOUS
  <2>3. F = {k} => {<<f, 0>> : f \in F} = {<<k, 0>>}
    BY Zenon
  <2> QED BY <2>1, <2>2, <2>3
<1>16. /\ k # "instruction" => Tagged("instruction", Instructions(p, FALSE)) = {}
       /\ k = "instruction" => \E x : Tagged("instruction", Instructions(p, FALSE)) = {x}
  <2>1. PICK S : S = Instructions(p, FALSE)
    OBVIOUS
  <2>2. \A x : x \in S <=> \E s, i : x = <<s, i>> /\ InstructsAt(ran, p, s, i)
    <3>1. \A x : x \in S <=> \E s \in DOMAIN ran : \E i \in DOMAIN ran[s].events :
                             x = <<s, i>> /\ Instructs(ran[s].events[i], p)
      BY <2>1 DEF Instructions, Instructs
    <3> QED BY <3>1, Zenon DEF InstructsAt
  <2>3. k = "instruction" <=> \E s, i : InstructsAt(ran, p, s, i)
    BY <1>1, PlaceNames DEF At, InstructedIn, InstructsAt
  <2>4. k # "instruction" => S = {}
    BY <2>2, <2>3
  <2>5. ASSUME k = "instruction"
        PROVE  \E x : S = {x}
    <3>1. PICK s, i : InstructsAt(ran, p, s, i)
      BY <2>3, <2>5
    <3>2. \A x \in S : x = <<s, i>>
      BY <2>2, <3>1 DEF InstructedInv, OnceInstructed
    <3>3. <<s, i>> \in S
      BY <2>2, <3>1
    <3> QED BY <3>2, <3>3
  <2> QED BY <2>1, <2>4, <2>5, TaggedOnce
<1>17. \E x : PlacesOf(p) = {x}
  BY <1>9, <1>10, <1>11, <1>12, <1>13, <1>14, <1>15, <1>16 DEF Places
<1> QED BY <1>17, FS_Singleton

\* A prompt the user sent is in exactly one place, for any number of prompts,
\* sessions, keys and messages: with the invariant above, the queue, the
\* commands, their answers and the sessions each hold it once at most
\* (submit, popQueued, prependQueued, restoreQueuedDraft, editLastQueued).
\* The prompt of a session whose Subscribe failed is reported and nothing
\* else (startSessionCmd, continueSessionCmd).
THEOREM PromptsHaveOnePlaceCorrect == TerminalSpec => []PromptsHaveOnePlace
<1> DEFINE IInv == PlacesInv /\ InstructedInv /\ ReportedInv
<1>1. TerminalInit => IInv
  <2> SUFFICES ASSUME TerminalInit
               PROVE  IInv
    OBVIOUS
  <2>1. DOMAIN ran = {}
    BY DEF TerminalInit
  <2>2. InstructedInv /\ ReportedInv
    BY <2>1 DEF InstructedInv, OnceInstructed, InstructsAt, ReportedInv, RunsUnfollowed
  <2> QED BY <2>2, PlacesInit
<1>2. IInv /\ [TerminalNext]_terminalVars => IInv'
  BY PlacesStep, InstructedOnceStep, ReportedStep DEF PlacesInv
<1>3. IInv => PromptsHaveOnePlace
  <2> SUFFICES ASSUME IInv, NEW p \in 1 .. prompts.typed
               PROVE  Cardinality(PlacesOf(p)) = 1 /\ (RunsUnfollowed(p) => ToldOf(p))
    BY DEF PromptsHaveOnePlace, ToldOf
  <2>1. prompts.typed \in Nat
    BY DEF PlacesInv, WiringInv, PromptRecords
  <2>2. p \in PromptIds /\ p <= prompts.typed
    BY <2>1 DEF PromptIds
  <2> QED BY <2>2, PlacesCounted DEF ReportedInv
<1> QED BY <1>1, <1>2, <1>3, PTL DEF TerminalSpec

-----------------------------------------------------------------------------
(* The terminal: types.                                                    *)

FieldsOfModel ==
  {"starting", "session", "stream", "subscribed", "turns", "optimistic", "draft", "queued"}

\* A payload holds each of its prompts once.
OnceIn(t) == \A i, j \in DOMAIN t : t[i] = t[j] => i = j
Drafts == {t \in Seq(1..MaxPrompts) : OnceIn(t)}

\* A view of the Model whose prompts shown optimistically are payloads.
ViewOK(u) == DOMAIN u = FieldsOfModel /\ u.optimistic \in Seq(Drafts)

LEMMA RemoveFirstOpen ==
  \A s, e : RemoveFirst(s, e) =
    IF \E i \in 1 .. Len(s) : s[i] = e
    THEN LET I == {i \in 1 .. Len(s) : s[i] = e}
             k == IF I # {} THEN Min(I) ELSE 0
         IN  SubSeq(s, 1, k - 1) \o SubSeq(s, k + 1, Len(s))
    ELSE s
BY Zenon DEF RemoveFirst, SelectInSeq, RemoveAt

LEMMA RemovedFirst ==
  ASSUME NEW D, NEW s \in Seq(D), NEW e
  PROVE  RemoveFirst(s, e) \in Seq(D)
<1>1. PICK I : I = {i \in 1 .. Len(s) : s[i] = e}
  OBVIOUS
<1>2. PICK k : k = IF I # {} THEN Min(I) ELSE 0
  OBVIOUS
<1>3. RemoveFirst(s, e) = IF \E i \in 1 .. Len(s) : s[i] = e
                          THEN SubSeq(s, 1, k - 1) \o SubSeq(s, k + 1, Len(s)) ELSE s
  BY <1>1, <1>2, RemoveFirstOpen
<1>4. CASE \E i \in 1 .. Len(s) : s[i] = e
  <2>1. I # {} /\ I \in SUBSET Nat /\ I \subseteq 1 .. Len(s)
    BY <1>1, <1>4
  <2>2. PICK n \in I : \A m \in I : n <= m
    BY <2>1, LeastIndex
  <2>3. Min(I) \in I
    BY <2>2, Zenon DEF Min
  <2>4. k \in 1 .. Len(s)
    BY <1>2, <2>1, <2>3
  <2>5. SubSeq(s, 1, k - 1) \in Seq(D) /\ SubSeq(s, k + 1, Len(s)) \in Seq(D)
    BY <2>4
  <2> QED BY <1>3, <1>4, <2>5
<1> QED BY <1>3, <1>4

LEMMA ViewShown ==
  ASSUME NEW u, ViewOK(u), NEW s, NEW item
  PROVE  ViewOK(TurnFor(u, s)) /\ ViewOK(ShowEvent(u, s, item))
<1>1. PICK v : v = TurnFor(u, s)
  OBVIOUS
<1>2. ViewOK(v)
  BY <1>1 DEF TurnFor, ViewOK, FieldsOfModel
<1>3. PICK n : n = LastTurn(v)
  OBVIOUS
<1>4. \/ ShowEvent(u, s, item) \in
           {v, [v EXCEPT !.turns[n].shown = <<item.text>>],
            [v EXCEPT !.turns[n].shown = Append(@, item.text)],
            [v EXCEPT !.turns[n].status = item.kind]}
      \/ /\ v.optimistic # <<>>
         /\ ShowEvent(u, s, item) = [v EXCEPT !.optimistic = Tail(@)]
  BY <1>1, <1>3 DEF ShowEvent
<1>5. v.optimistic # <<>> => Tail(v.optimistic) \in Seq(Drafts)
  BY <1>2 DEF ViewOK
<1>6. ViewOK(ShowEvent(u, s, item))
  BY <1>2, <1>4, <1>5 DEF ViewOK, FieldsOfModel
<1> QED BY <1>1, <1>2, <1>6

\* What is shown after the first n events of a turn.
ShownUpTo(f, u, t, n) ==
  f = [i \in 0 .. n |-> IF i = 0 THEN u ELSE ShowEvent(f[i - 1], t, ran[t].events[i])]

LEMMA ShownExists ==
  ASSUME NEW u, NEW t, NEW n \in Nat
  PROVE  \E f : ShownUpTo(f, u, t, n)
<1> DEFINE Bad == {k \in Nat : ~ \E f : ShownUpTo(f, u, t, k)}
<1>1. SUFFICES ASSUME Bad # {}
               PROVE  FALSE
  OBVIOUS
<1>2. Bad \in SUBSET Nat
  OBVIOUS
<1>3. PICK k \in Bad : \A m \in Bad : k <= m
  BY <1>1, <1>2, LeastIndex, Zenon
<1>4. k \in Nat /\ ~ \E f : ShownUpTo(f, u, t, k)
  OBVIOUS
<1> HIDE DEF Bad
<1>5. CASE k = 0
  <2>1. PICK f : f = [i \in 0 .. 0 |-> u]
    OBVIOUS
  <2>2. f = [i \in 0 .. 0 |-> IF i = 0 THEN u ELSE ShowEvent(f[i - 1], t, ran[t].events[i])]
    <3>1. \A i \in 0 .. 0 : i = 0
      OBVIOUS
    <3>2. \A i \in 0 .. 0 : f[i] = IF i = 0 THEN u ELSE ShowEvent(f[i - 1], t, ran[t].events[i])
      BY <2>1, <3>1
    <3> QED BY <2>1, <3>2
  <2> QED BY <1>4, <1>5, <2>2 DEF ShownUpTo
<1>6. CASE k # 0
  <2>1. k - 1 \in Nat /\ ~(k <= k - 1)
    BY <1>4, <1>6
  <2>2. PICK f : ShownUpTo(f, u, t, k - 1)
    BY <1>3, <2>1 DEF Bad
  <2>3. PICK last : last = ShowEvent(f[k - 1], t, ran[t].events[k])
    OBVIOUS
  <2>4. PICK g : g = [i \in 0 .. k |-> IF i = k THEN last ELSE f[i]]
    OBVIOUS
  <2>5. ASSUME NEW i \in 0 .. k
        PROVE  g[i] = IF i = 0 THEN u ELSE ShowEvent(g[i - 1], t, ran[t].events[i])
    <3>1. CASE i = k
      <4>1. k - 1 \in 0 .. k /\ k - 1 # k /\ k \in 0 .. k
        BY <1>4, <2>1
      <4>2. g[k] = last /\ g[k - 1] = f[k - 1]
        BY <2>4, <4>1
      <4> QED BY <1>6, <2>3, <3>1, <4>2
    <3>2. CASE i # k
      <4>1. i \in 0 .. k - 1 /\ (i # 0 => i - 1 \in 0 .. k /\ i - 1 # k)
        BY <1>4, <3>2
      <4>2. f[i] = IF i = 0 THEN u ELSE ShowEvent(f[i - 1], t, ran[t].events[i])
        BY <2>2, <4>1 DEF ShownUpTo
      <4>3. g[i] = f[i] /\ (i # 0 => g[i - 1] = f[i - 1])
        BY <2>4, <3>2, <4>1
      <4> QED BY <4>2, <4>3
    <3> QED BY <3>1, <3>2
  <2>6. ShownUpTo(g, u, t, k)
    BY <2>4, <2>5 DEF ShownUpTo
  <2> QED BY <1>4, <2>6
<1> QED BY <1>5, <1>6

LEMMA ShowTurnOpen ==
  \A u, t : \E f :
    /\ f = CHOOSE g : g = [i \in 0 .. Len(ran[t].events) |->
                             IF i = 0 THEN u ELSE ShowEvent(g[i - 1], t, ran[t].events[i])]
    /\ ShowTurn(u, t) = f[Len(ran[t].events)]
BY DEF ShowTurn

LEMMA TurnShown ==
  ASSUME NEW u, ViewOK(u), NEW t, Len(ran[t].events) \in Nat
  PROVE  ViewOK(ShowTurn(u, t))
<1>1. PICK n : n = Len(ran[t].events) /\ n \in Nat
  OBVIOUS
<1>2. PICK f : /\ f = CHOOSE g : g = [i \in 0 .. n |->
                        IF i = 0 THEN u ELSE ShowEvent(g[i - 1], t, ran[t].events[i])]
               /\ ShowTurn(u, t) = f[n]
  BY <1>1, ShowTurnOpen
<1>3. f = [i \in 0 .. n |-> IF i = 0 THEN u ELSE ShowEvent(f[i - 1], t, ran[t].events[i])]
  <2>1. PICK g : ShownUpTo(g, u, t, n)
    BY <1>1, ShownExists
  <2>2. g = [i \in 0 .. n |-> IF i = 0 THEN u ELSE ShowEvent(g[i - 1], t, ran[t].events[i])]
    BY <2>1 DEF ShownUpTo
  <2> QED BY <1>2, <2>2, Zenon
<1> DEFINE Wrong == {i \in 0 .. n : ~ViewOK(f[i])}
<1>4. Wrong = {}
  <2> SUFFICES ASSUME Wrong # {}
               PROVE  FALSE
    OBVIOUS
  <2>1. Wrong \in SUBSET Nat
    BY <1>1
  <2>2. PICK k \in Wrong : \A m \in Wrong : k <= m
    BY <2>1, LeastIndex, Zenon
  <2>3. k \in 0 .. n /\ ~ViewOK(f[k])
    OBVIOUS
  <2>4. f[k] = IF k = 0 THEN u ELSE ShowEvent(f[k - 1], t, ran[t].events[k])
    BY <1>3, <2>3
  <2>5. k # 0
    BY <2>3, <2>4
  <2>6. k - 1 \in 0 .. n /\ ~(k <= k - 1)
    BY <1>1, <2>3, <2>5
  <2>7. ViewOK(f[k - 1])
    BY <2>2, <2>6
  <2> QED BY <2>3, <2>4, <2>5, <2>7, ViewShown
<1>5. n \in 0 .. n
  BY <1>1
<1> QED BY <1>2, <1>4, <1>5

\* What is shown after the turns up to the n-th session, in a conversation.
ToldUpTo(f, u, n) ==
  f = [t \in 0 .. n |-> IF t = NoSession THEN u ELSE ShowTurn(f[ran[t].previous], t)]

\* A session continues an earlier one.
ContinuesEarlier == \A t \in 1 .. Len(ran) : ran[t].previous \in 0 .. t - 1

LEMMA ToldExists ==
  ASSUME NEW u, Len(ran) \in Nat, ContinuesEarlier, NEW n \in 0 .. Len(ran)
  PROVE  \E f : ToldUpTo(f, u, n)
<1> DEFINE Bad == {k \in 0 .. Len(ran) : ~ \E f : ToldUpTo(f, u, k)}
<1>1. SUFFICES ASSUME Bad # {}
               PROVE  FALSE
  OBVIOUS
<1>2. Bad \in SUBSET Nat
  OBVIOUS
<1>3. PICK k \in Bad : \A m \in Bad : k <= m
  BY <1>1, <1>2, LeastIndex, Zenon
<1>4. k \in 0 .. Len(ran) /\ ~ \E f : ToldUpTo(f, u, k)
  OBVIOUS
<1> HIDE DEF Bad
<1>5. CASE k = 0
  <2>1. PICK f : f = [t \in 0 .. 0 |-> u]
    OBVIOUS
  <2>2. \A t \in 0 .. 0 : t = NoSession
    BY DEF NoSession
  <2>3. \A t \in 0 .. 0 : f[t] = IF t = NoSession THEN u ELSE ShowTurn(f[ran[t].previous], t)
    BY <2>1, <2>2
  <2>4. ToldUpTo(f, u, 0)
    BY <2>1, <2>3 DEF ToldUpTo
  <2> QED BY <1>4, <1>5, <2>4
<1>6. CASE k # 0
  <2>1. k - 1 \in 0 .. Len(ran) /\ ~(k <= k - 1) /\ k \in Nat /\ k \in 1 .. Len(ran)
    BY <1>4, <1>6
  <2>2. PICK f : ToldUpTo(f, u, k - 1)
    BY <1>3, <2>1 DEF Bad
  <2>3. PICK last : last = ShowTurn(f[ran[k].previous], k)
    OBVIOUS
  <2>4. PICK g : g = [t \in 0 .. k |-> IF t = k THEN last ELSE f[t]]
    OBVIOUS
  <2>5. ASSUME NEW t \in 0 .. k
        PROVE  g[t] = IF t = NoSession THEN u ELSE ShowTurn(g[ran[t].previous], t)
    <3>1. PICK p : p = ran[t].previous
      OBVIOUS
    <3>2. t # 0 => p \in 0 .. k /\ p # k /\ p \in 0 .. t - 1
      <4>1. t # 0 => t \in 1 .. Len(ran)
        BY <2>1
      <4> QED BY <2>1, <3>1, <4>1 DEF ContinuesEarlier
    <3>3. t # 0 => g[p] = f[p]
      BY <2>4, <3>2
    <3>4. CASE t = k
      BY <1>6, <2>3, <2>4, <3>1, <3>3, <3>4 DEF NoSession
    <3>5. CASE t # k
      <4>1. t \in 0 .. k - 1
        BY <2>1, <3>5
      <4>2. f[t] = IF t = NoSession THEN u ELSE ShowTurn(f[p], t)
        BY <2>2, <3>1, <4>1 DEF ToldUpTo
      <4>3. g[t] = f[t]
        BY <2>4, <3>5
      <4> QED BY <3>1, <3>3, <4>2, <4>3 DEF NoSession
    <3> QED BY <3>4, <3>5
  <2>6. ToldUpTo(g, u, k)
    BY <2>4, <2>5 DEF ToldUpTo
  <2> QED BY <1>4, <2>6
<1> QED BY <1>5, <1>6

LEMMA ShowHistoryOpen ==
  \A u, s : \E f, v :
    /\ f = CHOOSE g : g = [t \in 0 .. Len(ran) |->
                             IF t = NoSession THEN u ELSE ShowTurn(g[ran[t].previous], t)]
    /\ v = f[ran[s].previous]
    /\ ShowHistory(u, s) = [u EXCEPT !.turns = v.turns, !.optimistic = v.optimistic]
BY DEF ShowHistory

LEMMA HistoryShown ==
  ASSUME NEW u, ViewOK(u), Len(ran) \in Nat, ContinuesEarlier,
         \A t \in 1 .. Len(ran) : Len(ran[t].events) \in Nat, NEW s \in 1 .. Len(ran)
  PROVE  ViewOK(ShowHistory(u, s))
<1>1. PICK n : n = Len(ran) /\ n \in Nat
  OBVIOUS
<1>2. PICK f, v :
        /\ f = CHOOSE g : g = [t \in 0 .. Len(ran) |->
                                 IF t = NoSession THEN u ELSE ShowTurn(g[ran[t].previous], t)]
        /\ v = f[ran[s].previous]
        /\ ShowHistory(u, s) = [u EXCEPT !.turns = v.turns, !.optimistic = v.optimistic]
  BY ShowHistoryOpen
<1>3. f = [t \in 0 .. n |-> IF t = NoSession THEN u ELSE ShowTurn(f[ran[t].previous], t)]
  <2>1. n \in 0 .. Len(ran)
    BY <1>1
  <2>2. PICK g : ToldUpTo(g, u, n)
    BY <2>1, ToldExists
  <2>3. g = [t \in 0 .. n |-> IF t = NoSession THEN u ELSE ShowTurn(g[ran[t].previous], t)]
    BY <2>2 DEF ToldUpTo
  <2> QED BY <1>1, <1>2, <2>3, Zenon
<1> DEFINE Wrong == {t \in 0 .. n : ~ViewOK(f[t])}
<1>4. Wrong = {}
  <2> SUFFICES ASSUME Wrong # {}
               PROVE  FALSE
    OBVIOUS
  <2>1. Wrong \in SUBSET Nat
    BY <1>1
  <2>2. PICK k \in Wrong : \A m \in Wrong : k <= m
    BY <2>1, LeastIndex, Zenon
  <2>3. k \in 0 .. n /\ ~ViewOK(f[k])
    OBVIOUS
  <2>4. PICK p : p = ran[k].previous
    OBVIOUS
  <2>5. f[k] = IF k = NoSession THEN u ELSE ShowTurn(f[p], k)
    BY <1>3, <2>3, <2>4
  <2>6. k # 0
    BY <2>3, <2>5 DEF NoSession
  <2>7. k \in 1 .. Len(ran)
    BY <1>1, <2>3, <2>6
  <2>8. p \in 0 .. k - 1
    BY <2>4, <2>7 DEF ContinuesEarlier
  <2>9. p \in 0 .. n /\ ~(k <= p)
    BY <1>1, <2>3, <2>8
  <2>10. ViewOK(f[p])
    BY <2>2, <2>9
  <2>11. ViewOK(ShowTurn(f[p], k))
    BY <2>7, <2>10, TurnShown
  <2> QED BY <2>3, <2>5, <2>6, <2>11 DEF NoSession
<1>5. ViewOK(v)
  <2>1. ran[s].previous \in 0 .. n
    BY <1>1 DEF ContinuesEarlier
  <2> QED BY <1>2, <1>4, <2>1
<1> QED BY <1>2, <1>5 DEF ViewOK, FieldsOfModel

\* Payloads of different prompts, one after the other.
LEMMA ConcatOnce ==
  ASSUME NEW D, NEW s \in Seq(D), NEW t \in Seq(D), OnceIn(s), OnceIn(t),
         \A p : ~(p \in ToSet(s) /\ p \in ToSet(t))
  PROVE  OnceIn(s \o t)
<1>1. PICK r : r = s \o t
  OBVIOUS
<1>2. /\ DOMAIN s = 1 .. Len(s) /\ DOMAIN t = 1 .. Len(t) /\ Len(s) \in Nat /\ Len(t) \in Nat
      /\ DOMAIN r = 1 .. Len(s) + Len(t)
      /\ \A i \in 1 .. Len(s) + Len(t) : r[i] = IF i <= Len(s) THEN s[i] ELSE t[i - Len(s)]
  BY <1>1
<1>3. ASSUME NEW i \in 1 .. Len(s) + Len(t)
      PROVE  /\ i <= Len(s) => i \in 1 .. Len(s) /\ r[i] = s[i] /\ r[i] \in ToSet(s)
             /\ ~(i <= Len(s)) => /\ i - Len(s) \in 1 .. Len(t) /\ r[i] = t[i - Len(s)]
                                  /\ r[i] \in ToSet(t)
  <2>1. i <= Len(s) => i \in 1 .. Len(s)
    BY <1>2
  <2>2. ~(i <= Len(s)) => i - Len(s) \in 1 .. Len(t)
    BY <1>2
  <2> QED BY <1>2, <2>1, <2>2 DEF ToSet
<1> SUFFICES ASSUME NEW i \in 1 .. Len(s) + Len(t), NEW j \in 1 .. Len(s) + Len(t), r[i] = r[j]
             PROVE  i = j
  BY <1>1, <1>2 DEF OnceIn
<1>4. CASE i <= Len(s) /\ j <= Len(s)
  BY <1>2, <1>3, <1>4 DEF OnceIn
<1>5. CASE ~(i <= Len(s)) /\ ~(j <= Len(s))
  <2>1. i - Len(s) = j - Len(s)
    <3>1. i - Len(s) \in 1 .. Len(t) /\ j - Len(s) \in 1 .. Len(t) /\ t[i - Len(s)] = t[j - Len(s)]
      BY <1>3, <1>5
    <3> QED BY <1>2, <3>1 DEF OnceIn
  <2> QED BY <1>2, <2>1
<1>6. CASE ~(i <= Len(s) <=> j <= Len(s))
  BY <1>3, <1>6
<1> QED BY <1>4, <1>5, <1>6

\* A draft merged from payloads that share no prompt.
LEMMA FlattenOnce ==
  ASSUME NEW D, NEW q \in Seq(Seq(D)), \A i \in DOMAIN q : OnceIn(q[i]), \A p : OnceAmong(q, p)
  PROVE  OnceIn(FlattenSeq(q))
<1>1. PICK n : n = Len(q) /\ n \in Nat /\ DOMAIN q = 1 .. n /\ \A i \in 1 .. n : q[i] \in Seq(D)
  OBVIOUS
<1>2. CASE n = 0
  <2>1. q = <<>> /\ FlattenSeq(q) = q /\ DOMAIN q = {}
    BY <1>1, <1>2 DEF FlattenSeq
  <2> QED BY <2>1 DEF OnceIn
<1>3. CASE n # 0
  <2>1. PICK f : Merged(q, D, f, n) /\ FlattenSeq(q) = f[n]
    BY <1>1, <1>3, FlattenMerged
  <2> DEFINE Wrong == {i \in 1 .. n : ~OnceIn(f[i])}
  <2>2. Wrong = {}
    <3> SUFFICES ASSUME Wrong # {}
                 PROVE  FALSE
      OBVIOUS
    <3>1. Wrong \in SUBSET Nat
      BY <1>1
    <3>2. PICK k \in Wrong : \A m \in Wrong : k <= m
      BY <3>1, LeastIndex, Zenon
    <3>3. k \in 1 .. n /\ ~OnceIn(f[k])
      OBVIOUS
    <3>4. f[k] = IF k = 1 THEN q[k] ELSE f[k - 1] \o q[k]
      BY <2>1, <3>3 DEF Merged
    <3>5. k # 1
      BY <1>1, <3>3, <3>4
    <3>6. k - 1 \in 1 .. n /\ ~(k <= k - 1) /\ ~(k \in 1 .. k - 1) /\ 1 .. k - 1 \subseteq 1 .. n
      BY <1>1, <3>3, <3>5
    <3>7. OnceIn(f[k - 1])
      BY <3>2, <3>6
    <3>8. f[k - 1] \in Seq(D) /\ q[k] \in Seq(D) /\ OnceIn(q[k])
      BY <1>1, <2>1, <3>3, <3>6 DEF Merged
    <3>9. ASSUME NEW p, p \in ToSet(f[k - 1]), p \in ToSet(q[k])
          PROVE  FALSE
      <4>1. PICK j \in 1 .. k - 1 : p \in ToSet(q[j])
        BY <2>1, <3>6, <3>9 DEF Merged
      <4>2. j \in DOMAIN q /\ k \in DOMAIN q /\ j # k
        BY <1>1, <3>3, <3>6, <4>1
      <4> QED BY <3>9, <4>1, <4>2 DEF OnceAmong
    <3> QED BY <3>3, <3>4, <3>5, <3>7, <3>8, <3>9, ConcatOnce
  <2>3. n \in 1 .. n
    BY <1>1, <1>3
  <2> QED BY <2>1, <2>2, <2>3
<1> QED BY <1>2, <1>3

\* A payload of different prompts is not longer than there are prompts.
LEMMA DraftIsPayload ==
  ASSUME NEW t \in Drafts
  PROVE  t \in Payloads
<1>1. t \in Seq(1 .. MaxPrompts) /\ OnceIn(t) /\ MaxPrompts \in Nat
  BY TerminalAssumption DEF Drafts
<1>2. PICK n : n = Len(t) /\ n \in Nat /\ DOMAIN t = 1 .. n /\ t \in [1 .. n -> 1 .. MaxPrompts]
  BY <1>1
<1>3. t \in Injection(1 .. n, 1 .. MaxPrompts)
  BY <1>1, <1>2 DEF OnceIn, Injection, IsInjective
<1>4. /\ IsFiniteSet(1 .. MaxPrompts) /\ Cardinality(1 .. MaxPrompts) = MaxPrompts
      /\ Cardinality(1 .. n) = n
  <2>1. ASSUME NEW k \in Nat
        PROVE  IsFiniteSet(1 .. k) /\ Cardinality(1 .. k) = k
    <3>1. IsFiniteSet(1 .. k) /\ Cardinality(1 .. k) = IF 1 > k THEN 0 ELSE k - 1 + 1
      <4>1. 1 \in Int /\ k \in Int
        OBVIOUS
      <4> QED BY <4>1, FS_Interval, Zenon
    <3> QED BY <3>1
  <2> QED BY <1>1, <1>2, <2>1
<1>5. n <= MaxPrompts
  <2>1. Cardinality(1 .. n) <= Cardinality(1 .. MaxPrompts)
    BY <1>3, <1>4, FS_Injection
  <2> QED BY <1>4, <2>1
<1>6. n \in 0 .. MaxPrompts
  BY <1>1, <1>2, <1>5
<1> QED BY <1>2, <1>6 DEF Payloads, SeqOf

MessageKinds == {"started", "opened", "event", "rejected", "error"}

ModelOK(u) ==
  /\ ViewOK(u)
  /\ u.starting \in BOOLEAN /\ u.stream \in 0 .. Len(ran) /\ u.subscribed \in 0 .. Len(ran)
  /\ u.draft \in Drafts /\ u.queued \in Seq(Drafts)

SessionsOK ==
  /\ Len(ran) <= MaxSessions
  /\ \A s \in 1 .. Len(ran) : ran[s].task \in Drafts /\ ran[s].previous \in 0 .. s - 1

CommandTyped(c) == c.text \in Drafts /\ c.session \in 0 .. Len(ran)
MessageTyped(m) == m.text \in Drafts /\ m.kind \in MessageKinds

TerminalTypes ==
  /\ ModelOK(ui) /\ SessionsOK
  /\ \A c \in commands : CommandTyped(c)
  /\ \A m \in mail : MessageTyped(m)
  /\ prompts.typed <= MaxPrompts

LEMMA SomeDrafts ==
  <<>> \in Drafts /\ \A p \in 1 .. MaxPrompts : <<p>> \in Drafts
<1>1. <<>> \in Drafts
  BY DEF Drafts, OnceIn
<1>2. ASSUME NEW p \in 1 .. MaxPrompts
      PROVE  <<p>> \in Drafts
  <2>1. <<p>> \in Seq(1 .. MaxPrompts) /\ DOMAIN <<p>> = {1}
    OBVIOUS
  <2> QED BY <2>1 DEF Drafts, OnceIn
<1> QED BY <1>1, <1>2

\* Sessions are never forgotten, so the new state is typed when what is new is.
LEMMA TypesKept ==
  ASSUME PlacesInv, PlacesInv', TerminalTypes, ModelOK(ui)', SessionsOK', Len(ran) <= Len(ran'),
         \A c \in commands' : c \in commands \/ CommandTyped(c)',
         \A m \in mail' : m \in mail \/ MessageTyped(m),
         prompts'.typed <= MaxPrompts
  PROVE  TerminalTypes'
<1>1. Len(ran) \in Nat /\ Len(ran') \in Nat
  BY DEF PlacesInv, WiringInv
<1>2. \A s : s \in 0 .. Len(ran) => s \in 0 .. Len(ran')
  BY <1>1
<1>3. \A c \in commands' : CommandTyped(c)'
  BY <1>2 DEF TerminalTypes, CommandTyped
<1>4. \A m \in mail' : MessageTyped(m)'
  BY DEF TerminalTypes, MessageTyped
<1> QED BY <1>3, <1>4 DEF TerminalTypes

\* A step of the terminal alone.
LEMMA TerminalTyped ==
  ASSUME PlacesInv, PlacesInv', TerminalTypes, ran' = ran, ModelOK(ui'),
         \A c \in commands' : c \in commands \/ CommandTyped(c), mail' \subseteq mail,
         prompts'.typed <= MaxPrompts
  PROVE  TerminalTypes'
<1>1. ModelOK(ui)' /\ SessionsOK' /\ \A c : CommandTyped(c) => CommandTyped(c)'
  BY DEF TerminalTypes, ModelOK, SessionsOK, CommandTyped
<1>2. Len(ran) <= Len(ran')
  BY DEF PlacesInv, WiringInv
<1> QED BY <1>1, <1>2, TypesKept

\* A session goes on.
LEMMA SessionsGoOn ==
  ASSUME PlacesInv, TerminalTypes, NEW s \in 1 .. Len(ran), NEW t, ran' = [ran EXCEPT ![s] = t],
         t.task = ran[s].task, t.previous = ran[s].previous
  PROVE  Len(ran') = Len(ran) /\ SessionsOK'
<1>1. ran \in Seq(SessionRecords) /\ Len(ran) \in Nat /\ DOMAIN ran = 1 .. Len(ran)
  BY DEF PlacesInv, WiringInv
<1>2. Len(ran') = Len(ran) /\ \A i \in 1 .. Len(ran) : ran'[i] = IF i = s THEN t ELSE ran[i]
  BY <1>1
<1> QED BY <1>2 DEF TerminalTypes, SessionsOK

LEMMA SessionMoves ==
  ASSUME PlacesInv, PlacesInv', TerminalTypes, ui' = ui, prompts' = prompts,
         NEW s \in 1 .. Len(ran), NEW t, ran' = [ran EXCEPT ![s] = t],
         t.task = ran[s].task, t.previous = ran[s].previous, commands' \subseteq commands,
         \A m \in mail' : m \in mail \/ MessageTyped(m)
  PROVE  TerminalTypes'
<1>1. Len(ran') = Len(ran) /\ SessionsOK'
  BY SessionsGoOn
<1>2. Len(ran) <= Len(ran')
  BY <1>1 DEF PlacesInv, WiringInv
<1>3. ModelOK(ui)'
  BY <1>1 DEF TerminalTypes, ModelOK
<1> QED BY <1>1, <1>2, <1>3, TypesKept DEF TerminalTypes

LEMMA RunEndTypes ==
  ASSUME PlacesInv, PlacesInv', TerminalTypes, NEW s \in Sessions,
         NEW kind \in {"completed", "failed"}, EndRun(s, kind) \/ LeaveTable(s)
  PROVE  TerminalTypes'
<1>1. ran \in Seq(SessionRecords) /\ s \in DOMAIN ran /\ DOMAIN ran = 1 .. Len(ran)
  BY DEF EndRun, LeaveTable, PlacesInv, WiringInv
<1>2. ran[s] \in SessionRecords
  BY <1>1
<1>3. \E t : ran' = [ran EXCEPT ![s] = t] /\ t.task = ran[s].task /\ t.previous = ran[s].previous
  <2>1. CASE EndRun(s, kind)
    <3>1. PICK t : t = Ended(ran[s], kind)
      OBVIOUS
    <3>2. t.task = ran[s].task /\ t.previous = ran[s].previous
      BY <1>2, <3>1 DEF Ended, SessionRecords
    <3>3. ran' = [ran EXCEPT ![s] = t]
      BY <2>1, <3>1 DEF EndRun
    <3> QED BY <3>2, <3>3
  <2>2. CASE LeaveTable(s)
    <3>1. PICK t : t = [ran[s] EXCEPT !.active = FALSE]
      OBVIOUS
    <3>2. t.task = ran[s].task /\ t.previous = ran[s].previous
      BY <1>2, <3>1 DEF SessionRecords
    <3>3. ran' = [ran EXCEPT ![s] = t]
      BY <2>2, <3>1 DEF LeaveTable
    <3> QED BY <3>2, <3>3
  <2> QED BY <2>1, <2>2
<1>4. ui' = ui /\ prompts' = prompts /\ commands' = commands /\ mail' = mail
  BY DEF EndRun, LeaveTable
<1> QED BY <1>1, <1>3, <1>4, SessionMoves

LEMMA TakeEventTypes ==
  ASSUME PlacesInv, PlacesInv', TerminalTypes, NEW s, TakeEvent(s)
  PROVE  TerminalTypes'
<1>1. ui' = ui /\ prompts' = prompts /\ ran' = ran /\ commands' = commands
  BY DEF TakeEvent
<1>2. \A m \in mail' : m \in mail \/ MessageTyped(m)
  <2>1. PICK m : m = [kind |-> "event", text |-> <<>>, session |-> s, event |-> streams[s].at + 1]
    OBVIOUS
  <2>2. MessageTyped(m)
    BY <2>1, SomeDrafts DEF MessageTyped, MessageKinds
  <2>3. mail' = mail \/ mail' = mail \cup {m}
    BY <2>1 DEF TakeEvent
  <2> QED BY <2>2, <2>3
<1>3. ModelOK(ui)' /\ SessionsOK' /\ Len(ran) <= Len(ran')
  BY <1>1 DEF TerminalTypes, ModelOK, SessionsOK, PlacesInv, WiringInv
<1> QED BY <1>1, <1>2, <1>3, TypesKept DEF TerminalTypes

LEMMA MessageIsTyped ==
  \A kind \in MessageKinds, text \in Drafts : \A s : MessageTyped(PlainMessage(kind, text, s))
BY DEF MessageTyped, PlainMessage

LEMMA TerminalCommandTypes ==
  ASSUME PlacesInv, PlacesInv', TerminalTypes, NEW c \in commands,
         RunStart(c) \/ RunOpen(c) \/ RunSteer(c) \/ RunCancel(c) \/ RunOther(c)
  PROVE  TerminalTypes'
<1>1. /\ ran \in Seq(SessionRecords) /\ DOMAIN ran = 1 .. Len(ran) /\ Len(ran) \in Nat
      /\ CommandOK(c) /\ CommandTyped(c)
  BY DEF PlacesInv, WiringInv, TerminalTypes
<1>2. ui' = ui /\ prompts' = prompts /\ commands' = commands \ {c}
  BY DEF RunStart, RunOpen, RunSteer, RunCancel, RunOther, Post
<1>3. {"started", "opened", "rejected", "error"} \subseteq MessageKinds
  BY DEF MessageKinds
<1>4. \A m \in mail' : m \in mail \/ MessageTyped(m)
  <2>1. MessageTyped(PlainMessage("started", c.text, Len(ran) + 1))
    BY <1>1, <1>3, MessageIsTyped DEF CommandTyped
  <2>2. MessageTyped(PlainMessage("opened", <<>>, c.session))
    BY <1>3, MessageIsTyped, SomeDrafts
  <2>3. /\ MessageTyped(PlainMessage("rejected", c.text, c.session))
        /\ MessageTyped(PlainMessage("error", c.text, c.session))
    BY <1>1, <1>3, MessageIsTyped DEF CommandTyped
  <2>4. mail' \subseteq mail \cup {PlainMessage("started", c.text, Len(ran) + 1),
                                   PlainMessage("opened", <<>>, c.session),
                                   PlainMessage("rejected", c.text, c.session),
                                   PlainMessage("error", c.text, c.session)}
    BY DEF RunStart, RunOpen, RunSteer, RunCancel, RunOther, Post, Failure
  <2> QED BY <2>1, <2>2, <2>3, <2>4
<1>5. CASE ran' = ran
  <2>1. ModelOK(ui)' /\ SessionsOK' /\ Len(ran) <= Len(ran')
    BY <1>1, <1>2, <1>5 DEF TerminalTypes, ModelOK, SessionsOK
  <2> QED BY <1>2, <1>4, <2>1, TypesKept DEF TerminalTypes
<1>6. CASE RunStart(c) /\ ran' # ran
  <2>1. PICK o, u : o = Opened(c.text, c.session) /\ u = [o EXCEPT !.followed = FALSE]
    OBVIOUS
  <2>2. PICK t : (t = o \/ t = u) /\ ran' = Append(ran, t) /\ Len(ran) < MaxSessions
    BY <1>6, <2>1 DEF RunStart
  <2>3. t.task = c.text /\ t.previous = c.session
    BY <2>1, <2>2 DEF Opened
  <2>4. /\ Len(ran') = Len(ran) + 1 /\ ran'[Len(ran) + 1] = t
        /\ \A i \in 1 .. Len(ran) : ran'[i] = ran[i]
    BY <1>1, <2>2
  <2>5. SessionsOK'
    <3>1. Len(ran) + 1 <= MaxSessions
      BY <1>1, <2>2, TerminalAssumption
    <3>2. ASSUME NEW s \in 1 .. Len(ran) + 1
          PROVE  ran'[s].task \in Drafts /\ ran'[s].previous \in 0 .. s - 1
      <4>1. CASE s = Len(ran) + 1
        <5>1. s - 1 = Len(ran)
          BY <1>1, <4>1
        <5> QED BY <1>1, <2>3, <2>4, <4>1, <5>1 DEF CommandTyped
      <4>2. CASE s # Len(ran) + 1
        <5>1. s \in 1 .. Len(ran)
          BY <1>1, <4>2
        <5> QED BY <2>4, <5>1 DEF TerminalTypes, SessionsOK
      <4> QED BY <4>1, <4>2
    <3> QED BY <2>4, <3>1, <3>2 DEF SessionsOK
  <2>6. Len(ran) <= Len(ran')
    BY <1>1, <2>4
  <2>7. ModelOK(ui)'
    <3>1. \A s : s \in 0 .. Len(ran) => s \in 0 .. Len(ran')
      BY <1>1, <2>4
    <3> QED BY <1>2, <3>1 DEF TerminalTypes, ModelOK
  <2> QED BY <1>2, <1>4, <2>5, <2>6, <2>7, TypesKept DEF TerminalTypes
<1>7. CASE (RunOpen(c) \/ RunSteer(c) \/ RunCancel(c)) /\ ran' # ran
  <2>1. c.session \in 1 .. Len(ran)
    <3>1. CASE RunOpen(c)
      BY <1>1, <1>7, <3>1 DEF CommandOK, RunOpen, NoSession
    <3> QED BY <1>1, <1>7, <3>1 DEF CommandOK, RunSteer, RunCancel
  <2>2. PICK s : s = c.session /\ s \in 1 .. Len(ran)
    BY <2>1
  <2>3. ran[s] \in SessionRecords
    BY <1>1, <2>2
  <2>4. \E t : ran' = [ran EXCEPT ![s] = t] /\ t.task = ran[s].task /\ t.previous = ran[s].previous
    <3>1. CASE RunSteer(c)
      <4>1. PICK e : ran' = [ran EXCEPT ![s].events = Append(@, e)]
        BY <1>7, <2>2, <3>1 DEF RunSteer
      <4>2. PICK t : t = [ran[s] EXCEPT !.events = Append(@, e)]
        OBVIOUS
      <4>3. t.task = ran[s].task /\ t.previous = ran[s].previous
        BY <2>3, <4>2 DEF SessionRecords
      <4> QED BY <4>1, <4>2, <4>3
    <3>2. CASE RunCancel(c)
      <4>1. PICK t : t = Ended(ran[s], "cancelled")
        OBVIOUS
      <4>2. t.task = ran[s].task /\ t.previous = ran[s].previous
        BY <2>3, <4>1 DEF Ended, SessionRecords
      <4>3. ran' = [ran EXCEPT ![s] = t]
        BY <1>7, <2>2, <3>2, <4>1 DEF RunCancel
      <4> QED BY <4>2, <4>3
    <3>3. CASE RunOpen(c)
      <4>1. PICK t : t = Resumed(ran[s])
        OBVIOUS
      <4>2. t.task = ran[s].task /\ t.previous = ran[s].previous
        BY <2>3, <4>1, ResumedType
      <4>3. ran' = [ran EXCEPT ![s] = t]
        BY <1>7, <2>2, <3>3, <4>1 DEF RunOpen
      <4> QED BY <4>2, <4>3
    <3> QED BY <1>7, <3>1, <3>2, <3>3
  <2> QED BY <1>2, <1>4, <2>2, <2>4, SessionMoves
<1>8. ran' = ran \/ RunStart(c) \/ RunOpen(c) \/ RunSteer(c) \/ RunCancel(c)
  BY DEF RunOther
<1> QED BY <1>5, <1>6, <1>7, <1>8

LEMMA EventsKeepModel ==
  ASSUME NEW u, ModelOK(u), NEW s, NEW item
  PROVE  ModelOK(TurnFor(u, s)) /\ ModelOK(ShowEvent(u, s, item))
<1>1. PICK v : v = TurnFor(u, s)
  OBVIOUS
<1>2. ViewOK(v) /\ ViewOK(ShowEvent(u, s, item))
  BY <1>1, ViewShown DEF ModelOK
<1>3. ModelOK(v)
  BY <1>1, <1>2 DEF TurnFor, ModelOK, ViewOK, FieldsOfModel
<1>4. PICK n : n = LastTurn(v)
  OBVIOUS
<1>5. ShowEvent(u, s, item) \in
        {v, [v EXCEPT !.turns[n].shown = <<item.text>>], [v EXCEPT !.optimistic = Tail(@)],
         [v EXCEPT !.turns[n].shown = Append(@, item.text)],
         [v EXCEPT !.turns[n].status = item.kind]}
  BY <1>1, <1>4 DEF ShowEvent
<1>6. ModelOK(ShowEvent(u, s, item))
  BY <1>2, <1>3, <1>5 DEF ModelOK, ViewOK, FieldsOfModel
<1> QED BY <1>1, <1>3, <1>6

LEMMA SubmitTyped ==
  ASSUME PlacesInv, PlacesInv', TerminalTypes, NEW queue, Submit(queue)
  PROVE  TerminalTypes'
<1>1. ran' = ran /\ mail' = mail /\ PressKey(<<>>) /\ ModelOK(ui) /\ prompts.typed <= MaxPrompts
  BY DEF Submit, TerminalTypes
<1>2. prompts'.typed = prompts.typed
  BY <1>1, PlainKeyPressed
<1>3. PICK text : text = ui.draft
  OBVIOUS
<1>4. PICK empty : empty = [ui EXCEPT !.draft = <<>>]
  OBVIOUS
<1>5. ModelOK(empty)
  <2>1. <<>> \in Drafts
    BY SomeDrafts
  <2> QED BY <1>1, <1>4, <2>1 DEF ModelOK, ViewOK, FieldsOfModel
<1>6. text \in Drafts /\ ui.session \in 0 .. Len(ran)
  BY <1>1, <1>3 DEF ModelOK, PlacesInv, WiringInv, PayloadsOK
<1>7. Append(empty.queued, text) \in Seq(Drafts) /\ Append(empty.optimistic, text) \in Seq(Drafts)
  BY <1>5, <1>6 DEF ModelOK, ViewOK
<1>8. \/ ui' = AppendQueued(empty, text) /\ commands' = commands
      \/ /\ \/ ui' = empty
            \/ ui' = [empty EXCEPT !.turns[LastTurn(ui)].shown = Append(@, text),
                                   !.optimistic = Append(@, text)]
            \/ ui' = BeginTurn(empty, text)
         /\ \E op : commands' = commands \cup {Command(op, text, ui.session)}
  BY <1>3, <1>4 DEF Submit, Answered
<1>9. ModelOK(ui')
  <2>1. CASE ui' = AppendQueued(empty, text)
    BY <1>5, <1>7, <2>1 DEF AppendQueued, ModelOK, ViewOK, FieldsOfModel
  <2>2. CASE ui' = [empty EXCEPT !.turns[LastTurn(ui)].shown = Append(@, text),
                                 !.optimistic = Append(@, text)]
    BY <1>5, <1>7, <2>2 DEF ModelOK, ViewOK, FieldsOfModel
  <2>3. CASE ui' = BeginTurn(empty, text)
    BY <1>5, <2>3 DEF BeginTurn, ModelOK, ViewOK, FieldsOfModel
  <2> QED BY <1>5, <1>8, <2>1, <2>2, <2>3
<1>10. \A c \in commands' : c \in commands \/ CommandTyped(c)
  <2>1. \A op : CommandTyped(Command(op, text, ui.session))
    BY <1>6 DEF CommandTyped, Command
  <2> QED BY <1>8, <2>1
<1> QED BY <1>1, <1>2, <1>9, <1>10, TerminalTyped

LEMMA KeyTypes ==
  ASSUME PlacesInv, PlacesInv', TerminalTypes, TypePrompt \/ EditLastQueued \/ Interrupt \/ OtherCommand
  PROVE  TerminalTypes'
<1>1. /\ ran' = ran /\ mail' = mail /\ ModelOK(ui) /\ prompts.typed <= MaxPrompts
      /\ prompts \in PromptRecords /\ prompts.typed \in Nat /\ ui.session \in 0 .. Len(ran)
  BY DEF TypePrompt, EditLastQueued, Interrupt, OtherCommand, TerminalTypes, PlacesInv, WiringInv,
         PromptRecords, PayloadsOK
<1>2. CASE TypePrompt
  <2>1. /\ commands' = commands /\ prompts.typed < MaxPrompts
        /\ ui' = [ui EXCEPT !.draft = <<prompts.typed + 1>>]
        /\ prompts' = [prompts EXCEPT !.typed = @ + 1]
    BY <1>2 DEF TypePrompt
  <2>2. prompts.typed + 1 \in 1 .. MaxPrompts /\ prompts.typed + 1 <= MaxPrompts
    BY <1>1, <2>1, TerminalAssumption
  <2>3. <<prompts.typed + 1>> \in Drafts
    BY <2>2, SomeDrafts
  <2>4. ModelOK(ui')
    BY <1>1, <2>1, <2>3 DEF ModelOK, ViewOK, FieldsOfModel
  <2>5. prompts'.typed <= MaxPrompts
    BY <1>1, <2>1, <2>2 DEF PromptRecords
  <2> QED BY <1>1, <2>1, <2>4, <2>5, TerminalTyped
<1>3. CASE EditLastQueued
  <2>1. PICK last : last = Last(ui.queued)
    OBVIOUS
  <2>2. PICK front : front = Front(ui.queued)
    OBVIOUS
  <2>3. /\ commands' = commands /\ ui' = [ui EXCEPT !.draft = last, !.queued = front]
        /\ PressKey(<<ui.draft>>) /\ ui.queued # <<>>
    BY <1>3, <2>1, <2>2 DEF EditLastQueued
  <2>4. last \in Drafts /\ front \in Seq(Drafts)
    BY <1>1, <2>1, <2>2, <2>3 DEF ModelOK, Last, Front
  <2>5. ModelOK(ui')
    BY <1>1, <2>3, <2>4 DEF ModelOK, ViewOK, FieldsOfModel
  <2>6. prompts'.typed = prompts.typed
    <3>1. <<ui.draft>> \in Seq(Seq(PromptIds))
      BY DEF PlacesInv, WiringInv, PayloadsOK
    <3> QED BY <2>3, <3>1, KeyPressed
  <2> QED BY <1>1, <2>3, <2>5, <2>6, TerminalTyped
<1>4. CASE Interrupt \/ OtherCommand
  <2>1. ui' = ui
    BY <1>4 DEF Interrupt, OtherCommand
  <2>2. prompts'.typed = prompts.typed
    <3>1. CASE Interrupt
      BY <3>1, PlainKeyPressed DEF Interrupt
    <3>2. CASE OtherCommand
      BY <1>1, <3>2 DEF OtherCommand, PromptRecords
    <3> QED BY <1>4, <3>1, <3>2
  <2>3. \A c \in commands' : c \in commands \/ CommandTyped(c)
    <3>1. \A op : /\ CommandTyped(Command(op, <<>>, ui.session))
                  /\ CommandTyped(Command(op, <<>>, NoSession))
      <4>1. NoSession \in 0 .. Len(ran)
        BY DEF NoSession, PlacesInv, WiringInv
      <4> QED BY <1>1, <4>1, SomeDrafts DEF CommandTyped, Command
    <3> QED BY <1>4, <3>1 DEF Interrupt, OtherCommand
  <2> QED BY <1>1, <2>1, <2>2, <2>3, TerminalTyped
<1> QED BY <1>2, <1>3, <1>4

LEMMA ChangeTypes ==
  ASSUME PlacesInv, PlacesInv', TerminalTypes,
         NEW target \in {NoSession} \cup DOMAIN ran, ChangeConversation(target)
  PROVE  TerminalTypes'
<1>1. /\ ran' = ran /\ mail' = mail /\ ui' = ResetView(ui) /\ PressKey(ui.queued)
      /\ commands' = commands \cup (IF target = NoSession THEN {} ELSE {Command("open", <<>>, target)})
  BY DEF ChangeConversation, Answered
<1>2. ModelOK(ui) /\ prompts.typed <= MaxPrompts
  BY DEF TerminalTypes
<1>3. prompts'.typed = prompts.typed
  <2>1. ui.queued \in Seq(Seq(PromptIds))
    BY DEF PlacesInv, WiringInv, PayloadsOK
  <2> QED BY <1>1, <2>1, KeyPressed
<1>4. NoSession \in 0 .. Len(ran) /\ target \in 0 .. Len(ran)
  <2>1. Len(ran) \in Nat /\ DOMAIN ran = 1 .. Len(ran)
    BY DEF PlacesInv, WiringInv
  <2> QED BY <2>1 DEF NoSession
<1>5. ModelOK(ui')
  <2>1. <<>> \in Seq(Drafts)
    OBVIOUS
  <2> QED BY <1>1, <1>2, <1>4, <2>1 DEF ResetView, ModelOK, ViewOK, FieldsOfModel
<1>6. CommandTyped(Command("open", <<>>, target))
  BY <1>4, SomeDrafts DEF CommandTyped, Command
<1>7. \A c \in commands' : c \in commands \/ CommandTyped(c)
  BY <1>1, <1>6
<1> QED BY <1>1, <1>2, <1>3, <1>5, <1>7, TerminalTyped

\* The queue and the composer hold different prompts.
LEMMA RestoredDraft ==
  ASSUME PlacesInv, TerminalTypes
  PROVE  FlattenSeq(ui.queued) \o ui.draft \in Drafts
<1>1. PICK flat : flat = FlattenSeq(ui.queued)
  OBVIOUS
<1>2. /\ ui.draft \in Seq(1 .. MaxPrompts) /\ OnceIn(ui.draft) /\ ui.queued \in Seq(Drafts)
      /\ ui.queued \in Seq(Seq(PromptIds))
  BY DEF TerminalTypes, ModelOK, Drafts, PlacesInv, WiringInv, PayloadsOK
<1>3. \A i \in DOMAIN ui.queued : ui.queued[i] \in Drafts
  BY <1>2
<1>4. ui.queued \in Seq(Seq(1 .. MaxPrompts)) /\ \A i \in DOMAIN ui.queued : OnceIn(ui.queued[i])
  <2>1. \A i \in DOMAIN ui.queued : ui.queued[i] \in Seq(1 .. MaxPrompts) /\ OnceIn(ui.queued[i])
    BY <1>3 DEF Drafts
  <2>2. ui.queued = [i \in 1 .. Len(ui.queued) |-> ui.queued[i]] /\ Len(ui.queued) \in Nat
        /\ DOMAIN ui.queued = 1 .. Len(ui.queued)
    BY <1>2
  <2> QED BY <2>1, <2>2
<1>5. \A p \in PromptIds : OnceAmong(ui.queued, p) /\ ~(Among(ui.queued, p) /\ p \in ToSet(ui.draft))
  <2> SUFFICES ASSUME NEW p \in PromptIds
               PROVE  OnceAmong(ui.queued, p) /\ ~(Among(ui.queued, p) /\ p \in ToSet(ui.draft))
    OBVIOUS
  <2>1. OnceAmong(ui.queued, p)
    BY AloneNow
  <2>2. ASSUME Among(ui.queued, p), p \in ToSet(ui.draft)
        PROVE  FALSE
    <3>1. At("queue", p) /\ At("draft", p)
      BY <2>2 DEF At
    <3> QED BY <3>1, OnlyThere, PlaceNames
  <2> QED BY <2>1, <2>2
<1>6. \A i \in DOMAIN ui.queued : \A p \in ToSet(ui.queued[i]) : p \in PromptIds
  <2>1. \A i \in DOMAIN ui.queued : ui.queued[i] \in Seq(PromptIds)
    BY <1>2
  <2> QED BY <2>1 DEF ToSet
<1>7. \A p : OnceAmong(ui.queued, p)
  BY <1>5, <1>6 DEF OnceAmong
<1>8. flat \in Seq(1 .. MaxPrompts) /\ \A p : p \in ToSet(flat) <=> Among(ui.queued, p)
  BY <1>1, <1>4, FlattenAmong
<1>9. OnceIn(flat)
  BY <1>1, <1>4, <1>7, FlattenOnce
<1>10. \A p : ~(p \in ToSet(flat) /\ p \in ToSet(ui.draft))
  BY <1>5, <1>6, <1>8 DEF Among
<1>11. flat \o ui.draft \in Seq(1 .. MaxPrompts) /\ OnceIn(flat \o ui.draft)
  BY <1>2, <1>8, <1>9, <1>10, ConcatOnce
<1> QED BY <1>1, <1>11 DEF Drafts

LEMMA StartedTypes ==
  ASSUME PlacesInv, PlacesInv', TerminalTypes, NEW m \in mail, HandleStarted(m)
  PROVE  TerminalTypes'
<1>1. /\ prompts' = prompts /\ ran' = ran /\ commands' = commands /\ mail' = mail \ {m}
      /\ m.kind \in {"started", "opened"} /\ MessageOK(m) /\ ModelOK(ui) /\ SessionsOK
      /\ ran \in Seq(SessionRecords) /\ prompts.typed <= MaxPrompts
  BY DEF HandleStarted, PlacesInv, WiringInv, TerminalTypes
<1>2. PICK s : s = m.session
  OBVIOUS
<1>3. s \in 1 .. Len(ran) /\ s \in 0 .. Len(ran) /\ Len(ran) \in Nat
  BY <1>1, <1>2 DEF MessageOK
<1>4. PICK v : v = IF m.kind = "opened" THEN ShowHistory(ui, s) ELSE ui
  OBVIOUS
<1>5. ModelOK(v)
  <2>1. ContinuesEarlier
    BY <1>1 DEF SessionsOK, ContinuesEarlier
  <2>2. \A t \in 1 .. Len(ran) : Len(ran[t].events) \in Nat
    <3>1. \A t \in 1 .. Len(ran) : ran[t] \in SessionRecords
      BY <1>1
    <3>2. \A t \in 1 .. Len(ran) : ran[t].events \in Seq(EventRecords)
      BY <3>1 DEF SessionRecords
    <3> QED BY <3>2
  <2>3. ViewOK(ui)
    BY <1>1 DEF ModelOK
  <2>4. ViewOK(ShowHistory(ui, s))
    BY <1>3, <2>1, <2>2, <2>3, HistoryShown
  <2>5. PICK after : ShowHistory(ui, s) = [ui EXCEPT !.turns = after.turns,
                                                     !.optimistic = after.optimistic]
    BY ShowHistoryOpen
  <2>6. ModelOK(ShowHistory(ui, s))
    BY <1>1, <2>4, <2>5 DEF ModelOK, ViewOK, FieldsOfModel
  <2> QED BY <1>1, <1>4, <2>6
<1>6. PICK u : u = TurnFor(v, s)
  OBVIOUS
<1>7. ModelOK(u)
  BY <1>5, <1>6, EventsKeepModel
<1>8. ui' = [u EXCEPT !.starting = FALSE, !.session = s, !.stream = s,
                      !.subscribed = s, !.turns[LastTurn(u)].session = s]
  BY <1>2, <1>4, <1>6 DEF HandleStarted
<1>9. ModelOK(ui')
  BY <1>3, <1>7, <1>8 DEF ModelOK, ViewOK, FieldsOfModel
<1> QED BY <1>1, <1>9, TerminalTyped

LEMMA EventTypes ==
  ASSUME PlacesInv, PlacesInv', TerminalTypes, NEW m \in mail, HandleEvent(m)
  PROVE  TerminalTypes'
<1>1. /\ prompts' = prompts /\ ran' = ran /\ mail' = mail \ {m} /\ ModelOK(ui)
      /\ PayloadsOK(ui) /\ prompts.typed <= MaxPrompts /\ Len(ran) \in Nat
  <2>1. prompts' = prompts /\ ran' = ran /\ mail' = mail \ {m}
    BY Zenon DEF HandleEvent
  <2>2. ModelOK(ui) /\ PayloadsOK(ui) /\ prompts.typed <= MaxPrompts /\ Len(ran) \in Nat
    BY DEF TerminalTypes, PlacesInv, WiringInv
  <2> QED BY <2>1, <2>2
<1>2. PICK item : item = ran[m.session].events[m.event]
  OBVIOUS
<1>3. PICK u : u = ShowEvent(ui, m.session, item)
  OBVIOUS
<1>4. ModelOK(u) /\ SamePayloads(ui, u)
  BY <1>1, <1>3, EventsKeepModel, EventsKeepPayloads DEF PayloadsOK
<1>5. PICK done : done = [u EXCEPT !.subscribed = NoSession]
  OBVIOUS
<1>6. ModelOK(done) /\ done.queued = ui.queued /\ done.draft = ui.draft
  BY <1>1, <1>4, <1>5 DEF ModelOK, ViewOK, FieldsOfModel, SamePayloads, NoSession
<1>7. PICK next : next = Head(u.queued)
  OBVIOUS
<1>8. \/ (ui' = u \/ ui' = done) /\ commands' = commands
      \/ ui' = RestoreQueued(done) /\ commands' = commands
      \/ /\ ui' = BeginTurn(PopQueued(done), next) /\ u.queued # <<>>
         /\ commands' = commands \cup {Command("continue", next, u.session)}
  BY <1>2, <1>3, <1>5, <1>7 DEF HandleEvent, Answered
<1>9. u.queued \in Seq(Drafts) /\ (u.queued # <<>> => next \in Drafts /\ Tail(u.queued) \in Seq(Drafts))
  BY <1>4, <1>7 DEF ModelOK
<1>10. ModelOK(ui')
  <2>1. CASE ui' = RestoreQueued(done)
    <3>1. PICK draft : draft = FlattenSeq(ui.queued) \o ui.draft
      OBVIOUS
    <3>2. draft \in Drafts
      BY <3>1, RestoredDraft
    <3>3. ui' = [done EXCEPT !.queued = <<>>, !.draft = draft]
      BY <1>6, <2>1, <3>1 DEF RestoreQueued
    <3>4. <<>> \in Seq(Drafts)
      OBVIOUS
    <3> QED BY <1>6, <3>2, <3>3, <3>4 DEF ModelOK, ViewOK, FieldsOfModel
  <2>2. CASE ui' = BeginTurn(PopQueued(done), next) /\ u.queued # <<>>
    <3>1. PICK rest : rest = Tail(done.queued)
      OBVIOUS
    <3>2. rest \in Seq(Drafts)
      BY <1>4, <1>6, <1>9, <2>2, <3>1 DEF SamePayloads
    <3>3. PICK v : v = [done EXCEPT !.queued = rest]
      OBVIOUS
    <3>4. ModelOK(v) /\ PopQueued(done) = v
      BY <1>6, <3>1, <3>2, <3>3 DEF PopQueued, ModelOK, ViewOK, FieldsOfModel
    <3>5. ui' = BeginTurn(v, next)
      BY <2>2, <3>4
    <3> QED BY <3>4, <3>5 DEF BeginTurn, ModelOK, ViewOK, FieldsOfModel
  <2> QED BY <1>4, <1>6, <1>8, <2>1, <2>2
<1>11. \A c \in commands' : c \in commands \/ CommandTyped(c)
  <2>1. u.queued # <<>> => CommandTyped(Command("continue", next, u.session))
    BY <1>1, <1>4, <1>9 DEF CommandTyped, Command, SamePayloads, PayloadsOK
  <2> QED BY <1>8, <2>1
<1>12. prompts'.typed <= MaxPrompts /\ mail' \subseteq mail
  BY <1>1
<1> QED BY <1>1, <1>10, <1>11, <1>12, TerminalTyped

LEMMA AnswerTypes ==
  ASSUME PlacesInv, PlacesInv', TerminalTypes, NEW m \in mail, HandleRejected(m) \/ HandleError(m)
  PROVE  TerminalTypes'
<1>1. /\ ran' = ran /\ commands' = commands /\ mail' = mail \ {m} /\ ModelOK(ui)
      /\ prompts.typed <= MaxPrompts /\ MessageTyped(m) /\ prompts \in PromptRecords
  BY DEF HandleRejected, HandleError, TerminalTypes, PlacesInv, WiringInv
<1>2. CASE HandleRejected(m)
  <2>1. PICK rest : rest = RemoveFirst(ui.optimistic, m.text)
    OBVIOUS
  <2>2. rest \in Seq(Drafts)
    BY <1>1, <2>1, RemovedFirst DEF ModelOK, ViewOK
  <2>3. PICK v : v = [ui EXCEPT !.optimistic = rest]
    OBVIOUS
  <2>4. ui' = PrependQueued(v, m.text) /\ prompts' = prompts
    BY <1>2, <2>1, <2>3 DEF HandleRejected
  <2>5. ModelOK(v)
    BY <1>1, <2>2, <2>3 DEF ModelOK, ViewOK, FieldsOfModel
  <2>6. PICK q : q = <<m.text>> \o v.queued
    OBVIOUS
  <2>7. q \in Seq(Drafts)
    BY <1>1, <2>5, <2>6 DEF ModelOK, MessageTyped
  <2>8. ui' = [v EXCEPT !.queued = q]
    BY <2>4, <2>6 DEF PrependQueued
  <2>9. ModelOK(ui')
    BY <2>5, <2>7, <2>8 DEF ModelOK, ViewOK, FieldsOfModel
  <2> QED BY <1>1, <2>4, <2>9, TerminalTyped
<1>3. CASE HandleError(m)
  <2>1. ModelOK(ui')
    BY <1>1, <1>3 DEF HandleError, ModelOK, ViewOK, FieldsOfModel
  <2>2. prompts'.typed = prompts.typed
    BY <1>1, <1>3 DEF HandleError, PromptRecords
  <2> QED BY <1>1, <2>1, <2>2, TerminalTyped
<1> QED BY <1>2, <1>3

LEMMA TerminalTypesStep ==
  ASSUME PlacesInv, TerminalTypes, [TerminalNext]_terminalVars
  PROVE  TerminalTypes'
<1>1. PlacesInv'
  BY PlacesStep
<1>2. CASE UNCHANGED terminalVars
  <2>1. ui' = ui /\ prompts' = prompts /\ ran' = ran /\ commands' = commands /\ mail' = mail
    BY <1>2 DEF terminalVars
  <2> QED BY <1>1, <2>1, TerminalTyped DEF TerminalTypes
<1>3. ASSUME NEW s \in Sessions,
             \/ EndRun(s, "completed") \/ EndRun(s, "failed")
             \/ LeaveTable(s) \/ TakeEvent(s)
      PROVE  TerminalTypes'
  BY <1>1, <1>3, RunEndTypes, TakeEventTypes
<1>4. ASSUME NEW c \in commands,
             RunStart(c) \/ RunOpen(c) \/ RunSteer(c) \/ RunCancel(c) \/ RunOther(c)
      PROVE  TerminalTypes'
  BY <1>1, <1>4, TerminalCommandTypes
<1>5. CASE TypePrompt \/ EditLastQueued \/ Interrupt \/ OtherCommand
  BY <1>1, <1>5, KeyTypes
<1>6. CASE Submit(TRUE) \/ Submit(FALSE)
  BY <1>1, <1>6, SubmitTyped
<1>7. ASSUME NEW target \in {NoSession} \cup DOMAIN ran, ChangeConversation(target)
      PROVE  TerminalTypes'
  BY <1>1, <1>7, ChangeTypes
<1>8. ASSUME NEW m \in mail,
             HandleStarted(m) \/ HandleEvent(m) \/ HandleRejected(m) \/ HandleError(m)
      PROVE  TerminalTypes'
  BY <1>1, <1>8, StartedTypes, EventTypes, AnswerTypes
<1> QED BY <1>2, <1>3, <1>4, <1>5, <1>6, <1>7, <1>8 DEF TerminalNext

LEMMA TerminalTypesInit ==
  ASSUME TerminalInit
  PROVE  TerminalTypes
<1>1. PICK resuming \in BOOLEAN :
        /\ ui = [starting |-> resuming, session |-> NoSession, stream |-> NoSession,
                 subscribed |-> NoSession, turns |-> <<>>, optimistic |-> <<>>, draft |-> <<>>,
                 queued |-> IF resuming THEN <<<<1>>>> ELSE <<>>]
        /\ prompts = [typed |-> IF resuming THEN 1 ELSE 0, discarded |-> {}, reported |-> {},
                      others |-> 0, keys |-> 0]
        /\ commands = IF resuming THEN {Command("open", <<>>, NoSession)} ELSE {}
  BY DEF TerminalInit
<1>2. ran = <<>> /\ mail = {} /\ Len(ran) = 0 /\ NoSession \in 0 .. Len(ran)
  BY DEF TerminalInit, NoSession
<1>3. 1 \in 1 .. MaxPrompts /\ 1 <= MaxPrompts /\ 0 <= MaxPrompts /\ 0 <= MaxSessions
  BY TerminalAssumption
<1>4. ModelOK(ui)
  <2>1. <<1>> \in Drafts /\ <<>> \in Drafts
    BY <1>3, SomeDrafts
  <2>2. PICK q : q = IF resuming THEN <<<<1>>>> ELSE <<>>
    OBVIOUS
  <2>3. q \in Seq(Drafts) /\ <<>> \in Seq(Drafts)
    BY <2>1, <2>2
  <2>4. DOMAIN ui = FieldsOfModel
    BY <1>1 DEF FieldsOfModel
  <2>5. /\ ui.starting = resuming /\ ui.stream = NoSession /\ ui.subscribed = NoSession
        /\ ui.draft = <<>> /\ ui.queued = q /\ ui.optimistic = <<>>
    BY <1>1, <2>2
  <2> QED BY <1>2, <2>1, <2>3, <2>4, <2>5 DEF ModelOK, ViewOK
<1>5. SessionsOK
  BY <1>2, <1>3 DEF SessionsOK
<1>6. \A c \in commands : CommandTyped(c)
  <2>1. CommandTyped(Command("open", <<>>, NoSession))
    BY <1>2, SomeDrafts DEF CommandTyped, Command
  <2> QED BY <1>1, <2>1
<1>7. prompts.typed <= MaxPrompts
  BY <1>1, <1>3
<1> QED BY <1>2, <1>4, <1>5, <1>6, <1>7 DEF TerminalTypes

LEMMA TerminalIsTyped ==
  PlacesInv /\ TerminalTypes => TerminalTypeOK
<1> SUFFICES ASSUME PlacesInv, TerminalTypes
             PROVE  TerminalTypeOK
  OBVIOUS
<1>1. /\ ModelOK(ui) /\ SessionsOK /\ ran \in Seq(SessionRecords) /\ ui.session \in 0 .. Len(ran)
      /\ \A c \in commands : CommandOK(c)
  BY DEF PlacesInv, WiringInv, PayloadsOK, TerminalTypes
<1>2. DOMAIN ran = 1 .. Len(ran) /\ Len(ran) \in Nat /\ MaxSessions \in Nat
  BY <1>1, TerminalAssumption
<1>3. {ui.session, ui.stream, ui.subscribed} \subseteq {NoSession} \cup DOMAIN ran
  <2>1. \A s \in 0 .. Len(ran) : s \in {NoSession} \cup DOMAIN ran
    BY <1>2 DEF NoSession
  <2> QED BY <1>1, <2>1 DEF ModelOK
<1>4. ToSet(ui.queued) \cup ToSet(ui.optimistic) \cup {ui.draft} \subseteq Payloads
  <2>1. ToSet(ui.queued) \subseteq Drafts /\ ToSet(ui.optimistic) \subseteq Drafts
    BY <1>1 DEF ModelOK, ViewOK, ToSet
  <2> QED BY <1>1, <2>1, DraftIsPayload DEF ModelOK
<1>5. Len(ran) \in 0 .. MaxSessions
  BY <1>1, <1>2 DEF SessionsOK
<1>6. \A s \in DOMAIN ran : ran[s].task \in Payloads /\ ran[s].previous \in 0 .. (s - 1)
  BY <1>1, <1>2, DraftIsPayload DEF SessionsOK
<1>7. \A m \in mail : m.kind \in {"started", "opened", "event", "rejected", "error"}
  BY DEF TerminalTypes, MessageTyped, MessageKinds
<1>8. \A c \in commands : c.op \in {"start", "continue", "open", "steer", "cancel", "other"}
  BY <1>1 DEF CommandOK, TerminalCommandRecords
<1> QED BY <1>1, <1>3, <1>4, <1>5, <1>6, <1>7, <1>8 DEF TerminalTypeOK, ModelOK

\* What the terminal holds is of its type, for any number of prompts, sessions
\* and keys: every payload it shows, queues, sends or restores is made of
\* different prompts that were typed, so merging the queue into the draft
\* repeats none, and a conversation is a chain of earlier sessions
\* (restoreQueuedDraft, editLastQueued, steerRejectedMsg).
THEOREM TerminalTypeCorrect == TerminalSpec => []TerminalTypeOK
<1>1. TerminalInit => PlacesInv /\ TerminalTypes
  BY PlacesInit, TerminalTypesInit
<1>2. PlacesInv /\ TerminalTypes /\ [TerminalNext]_terminalVars => (PlacesInv /\ TerminalTypes)'
  BY PlacesStep, TerminalTypesStep
<1> QED BY <1>1, <1>2, TerminalIsTyped, PTL DEF TerminalSpec
==============================================================================
