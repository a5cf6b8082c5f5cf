---------------------------- MODULE ArchiveProofs ----------------------------
(***************************************************************************)
(* Proofs about what the database keeps for readers: checkpoints and their  *)
(* versions (CheckpointStore), the sessions table (Conversations) and the   *)
(* exact archive (ContextArchive), for any number of processes, keys,       *)
(* values, sessions and records, and for pages of any size.                 *)
(***************************************************************************)
EXTENDS CheckpointStore, Conversations, ContextArchive, FiniteSetTheorems, SequenceTheorems,
        WellFoundedInduction, TLAPS

-----------------------------------------------------------------------------
(* Checkpoints: types.                                                     *)

TxType ==
  [pc : {"closed", "backfill", "open", "set"},
   key : CheckpointKeys \union {NoValue},
   value : CheckpointValues \union {NoValue},
   version : 0 .. MaxVersions + 1,
   missing : SUBSET (CheckpointKeys \X CheckpointValues),
   stale : BOOLEAN]

\* A transaction that has nothing under way.
LEMMA TxFields ==
  /\ ClosedStore \in TxType /\ OpenedStore \in TxType
  /\ ClosedStore.pc = "closed" /\ OpenedStore.pc = "open"
<1>1. ClosedStore \in TxType
  <2>1. 0 \in 0 .. MaxVersions + 1
    BY CheckpointAssumption
  <2> QED BY <2>1 DEF TxType, ClosedStore
<1>2. OpenedStore \in TxType
  BY <1>1 DEF TxType, OpenedStore
<1>3. ClosedStore.pc = "closed"
  BY DEF ClosedStore
<1>4. OpenedStore.pc = "open"
  BY <1>1 DEF OpenedStore, TxType
<1> QED BY <1>1, <1>2, <1>3, <1>4

\* What CheckpointTypeOK says, with its record set named.
LEMMA TypesNamed ==
  CheckpointTypeOK <=>
    /\ checkpoints \in [CheckpointKeys -> CheckpointValues \union {NoValue}]
    /\ checkpointVersions \in [CheckpointKeys -> Seq(CheckpointValues)]
    /\ checkpointTx \in [StoreProcesses -> TxType]
BY DEF CheckpointTypeOK, TxType

\* Appending to a history leaves what was there and ends in the new value.
LEMMA AppendedHistory ==
  ASSUME NEW h \in Seq(CheckpointValues), NEW v \in CheckpointValues
  PROVE  /\ Append(h, v) \in Seq(CheckpointValues) /\ Append(h, v) # <<>>
         /\ IsPrefix(h, Append(h, v)) /\ Last(Append(h, v)) = v
         /\ (h = <<>> \/ Last(h) # v) /\ (\A i \in 1 .. Len(h) - 1 : h[i] # h[i + 1])
              => \A i \in 1 .. Len(Append(h, v)) - 1 : Append(h, v)[i] # Append(h, v)[i + 1]
<1>1. Append(h, v) \in Seq(CheckpointValues) /\ Append(h, v) # <<>>
  <2>1. Append(h, v) \in Seq(CheckpointValues) /\ Len(Append(h, v)) = Len(h) + 1
    OBVIOUS
  <2>2. Len(Append(h, v)) # 0 /\ Len(<<>>) = 0
    BY <2>1
  <2> QED BY <2>1, <2>2
<1>2. IsPrefix(h, Append(h, v)) /\ Last(Append(h, v)) = v
  BY DEF IsPrefix, Last
<1>3. ASSUME h = <<>> \/ Last(h) # v, \A i \in 1 .. Len(h) - 1 : h[i] # h[i + 1],
             NEW i \in 1 .. Len(Append(h, v)) - 1
      PROVE  Append(h, v)[i] # Append(h, v)[i + 1]
  <2>1. /\ Len(h) \in Nat /\ i \in 1 .. Len(h)
        /\ \A j \in 1 .. Len(h) : Append(h, v)[j] = h[j]
        /\ Append(h, v)[Len(h) + 1] = v
    OBVIOUS
  <2>2. CASE i = Len(h)
    <3>1. h # <<>>
      BY <2>1, <2>2
    <3>2. h[i] # v
      BY <3>1, <1>3, <2>2 DEF Last
    <3> QED BY <3>2, <2>1, <2>2
  <2>3. CASE i # Len(h)
    <3>1. i \in 1 .. Len(h) - 1 /\ i + 1 \in 1 .. Len(h)
      BY <2>1, <2>3
    <3>2. h[i] # h[i + 1]
      BY <3>1, <1>3
    <3> QED BY <3>1, <3>2, <2>1
  <2> QED BY <2>2, <2>3
<1> QED BY <1>1, <1>2, <1>3

-----------------------------------------------------------------------------
(* The inductive invariant.                                                *)

\* A head with a history is its last entry.
HeadsInv ==
  \A k \in CheckpointKeys :
    checkpoints[k] # NoValue /\ checkpointVersions[k] # <<>> =>
      Last(checkpointVersions[k]) = checkpoints[k]

\* What a process that opens the database has found missing: every head that is
\* still without a history, as it was read.
BackfillOK(tx) ==
  tx.pc = "backfill" =>
    /\ \A a, b \in tx.missing : a[1] = b[1] => a = b
    /\ \A kv \in tx.missing :
         checkpointVersions[kv[1]] = <<>> => checkpoints[kv[1]] \in {kv[2], NoValue}
    /\ \A k \in CheckpointKeys :
         checkpoints[k] # NoValue /\ checkpointVersions[k] = <<>> =>
           <<k, checkpoints[k]>> \in tx.missing

\* Once the database is open no head is without a history.
OpenedOK(tx) ==
  tx.pc \in {"open", "set"} =>
    \A k \in CheckpointKeys :
      checkpoints[k] # NoValue => checkpointVersions[k] # <<>>

\* A transaction whose snapshot is current compared its value with the last.
SetOK(tx) ==
  tx.pc = "set" =>
    /\ tx.key \in CheckpointKeys /\ tx.value \in CheckpointValues
    /\ ~tx.stale /\ tx.version = 0 =>
         checkpointVersions[tx.key] # <<>> /\ Last(checkpointVersions[tx.key]) = tx.value
    /\ ~tx.stale /\ tx.version # 0 =>
         checkpointVersions[tx.key] = <<>> \/ Last(checkpointVersions[tx.key]) # tx.value

TxOK(tx) == BackfillOK(tx) /\ OpenedOK(tx) /\ SetOK(tx)

CheckpointInv ==
  /\ CheckpointTypeOK /\ HeadsInv /\ VersionsAreDistinctStates
  /\ \A p \in StoreProcesses : TxOK(checkpointTx[p])

-----------------------------------------------------------------------------
(* Steps that commit nothing.                                              *)

\* A process whose transaction is in order after the step keeps the invariant.
LEMMA NothingCommitted ==
  ASSUME CheckpointInv, NEW p \in StoreProcesses, NEW tx \in TxType, TxOK(tx),
         checkpointTx' = [checkpointTx EXCEPT ![p] = tx],
         UNCHANGED <<checkpoints, checkpointVersions>>
  PROVE  CheckpointInv'
<1>1. checkpointTx \in [StoreProcesses -> TxType]
  BY TypesNamed DEF CheckpointInv
<1>2. CheckpointTypeOK'
  <2>1. checkpointTx' \in [StoreProcesses -> TxType]
    BY <1>1
  <2>2. /\ checkpoints' \in [CheckpointKeys -> CheckpointValues \union {NoValue}]
        /\ checkpointVersions' \in [CheckpointKeys -> Seq(CheckpointValues)]
    BY TypesNamed DEF CheckpointInv
  <2> QED BY <2>1, <2>2 DEF CheckpointTypeOK, TxType
<1>3. HeadsInv' /\ VersionsAreDistinctStates'
  BY DEF CheckpointInv, HeadsInv, VersionsAreDistinctStates
<1>4. ASSUME NEW q \in StoreProcesses
      PROVE  TxOK(checkpointTx[q])'
  <2>1. TxOK(checkpointTx'[q])
    <3>1. CASE q = p
      <4>1. checkpointTx'[q] = tx
        BY <3>1, <1>1
      <4> QED BY <4>1
    <3>2. CASE q # p
      <4>1. checkpointTx'[q] = checkpointTx[q]
        BY <3>2, <1>1
      <4>2. TxOK(checkpointTx[q])
        BY DEF CheckpointInv
      <4> QED BY <4>1, <4>2
    <3> QED BY <3>1, <3>2
  <2> QED BY <2>1 DEF TxOK, BackfillOK, OpenedOK, SetOK
<1> QED BY <1>2, <1>3, <1>4 DEF CheckpointInv

LEMMA IdleIsOK == TxOK(ClosedStore)
BY TxFields DEF TxOK, BackfillOK, OpenedOK, SetOK

\* A process that had the database open may go back to having it open.
LEMMA OpenIsOK ==
  ASSUME NEW tx, TxOK(tx), tx.pc \in {"open", "set"}
  PROVE  TxOK(OpenedStore)
BY TxFields DEF TxOK, BackfillOK, OpenedOK, SetOK

LEMMA BackfillReadKeeps ==
  ASSUME CheckpointInv, NEW p \in StoreProcesses, BackfillRead(p)
  PROVE  CheckpointInv'
<1> DEFINE missing == {kv \in CheckpointKeys \X CheckpointValues :
                         checkpoints[kv[1]] = kv[2] /\ checkpointVersions[kv[1]] = <<>>}
           reading == [ClosedStore EXCEPT !.pc = "backfill", !.missing = missing]
<1>1. checkpoints \in [CheckpointKeys -> CheckpointValues \union {NoValue}]
  BY TypesNamed DEF CheckpointInv
<1>2. /\ checkpointTx' = [checkpointTx EXCEPT ![p] = IF missing = {} THEN OpenedStore ELSE reading]
      /\ UNCHANGED <<checkpoints, checkpointVersions>>
  BY DEF BackfillRead
<1>3. \A k \in CheckpointKeys :
        checkpoints[k] # NoValue /\ checkpointVersions[k] = <<>> =>
          <<k, checkpoints[k]>> \in missing
  BY <1>1
<1>4. CASE missing = {}
  <2>1. TxOK(OpenedStore)
    BY <1>3, <1>4, TxFields DEF TxOK, BackfillOK, OpenedOK, SetOK
  <2>2. checkpointTx' = [checkpointTx EXCEPT ![p] = OpenedStore]
    BY <1>2, <1>4
  <2> QED BY <2>1, <2>2, <1>2, TxFields, NothingCommitted
<1>5. CASE missing # {}
  <2>1. missing \in SUBSET (CheckpointKeys \X CheckpointValues)
    OBVIOUS
  <2> HIDE DEF missing
  <2>2. reading \in TxType /\ reading.pc = "backfill" /\ reading.missing = missing
    BY <2>1, TxFields DEF TxType
  <2> HIDE DEF reading
  <2>3. /\ \A a, b \in missing : a[1] = b[1] => a = b
        /\ \A kv \in missing : checkpoints[kv[1]] = kv[2]
    BY DEF missing
  <2>4. TxOK(reading)
    BY <2>2, <2>3, <1>3 DEF TxOK, BackfillOK, OpenedOK, SetOK
  <2>5. checkpointTx' = [checkpointTx EXCEPT ![p] = reading]
    BY <1>2, <1>5
  <2> QED BY <2>2, <2>4, <2>5, <1>2, NothingCommitted
<1> QED BY <1>4, <1>5

LEMMA SetReadKeeps ==
  ASSUME CheckpointInv, NEW p \in StoreProcesses, SetRead(p)
  PROVE  CheckpointInv'
<1>1. PICK k \in CheckpointKeys, v \in CheckpointValues :
        LET archived == checkpointVersions[k]
            next == IF archived # <<>> /\ Last(archived) = v THEN 0 ELSE Len(archived) + 1
        IN /\ next <= MaxVersions
           /\ checkpointTx' = [checkpointTx EXCEPT
                ![p] = [ClosedStore EXCEPT !.pc = "set", !.key = k,
                                           !.value = v, !.version = next]]
  BY DEF SetRead
<1> DEFINE archived == checkpointVersions[k]
           next == IF archived # <<>> /\ Last(archived) = v THEN 0 ELSE Len(archived) + 1
           tx == [ClosedStore EXCEPT !.pc = "set", !.key = k, !.value = v, !.version = next]
<1>2. archived \in Seq(CheckpointValues)
  BY TypesNamed DEF CheckpointInv
<1>3. /\ next \in 0 .. MaxVersions + 1
      /\ next = 0 => archived # <<>> /\ Last(archived) = v
      /\ next # 0 => archived = <<>> \/ Last(archived) # v
  BY <1>1, <1>2, CheckpointAssumption
<1> HIDE DEF next
<1>4. /\ tx \in TxType /\ tx.pc = "set" /\ tx.key = k /\ tx.value = v /\ tx.version = next
  BY <1>3, TxFields DEF TxType
<1>5. checkpointTx' = [checkpointTx EXCEPT ![p] = tx]
  BY <1>1 DEF next
<1> HIDE DEF tx
<1>6. TxOK(checkpointTx[p]) /\ checkpointTx[p].pc = "open"
  BY DEF CheckpointInv, SetRead
<1>7. TxOK(tx)
  BY <1>3, <1>4, <1>6 DEF TxOK, BackfillOK, OpenedOK, SetOK
<1> QED BY <1>4, <1>5, <1>7, NothingCommitted DEF SetRead

LEMMA FailureKeeps ==
  ASSUME CheckpointInv, NEW p \in StoreProcesses,
         OpenFails(p) \/ SetFails(p) \/ StoreCloses(p)
  PROVE  CheckpointInv'
<1>1. CASE OpenFails(p) \/ StoreCloses(p)
  <2>1. /\ checkpointTx' = [checkpointTx EXCEPT ![p] = ClosedStore]
        /\ UNCHANGED <<checkpoints, checkpointVersions>>
    BY <1>1 DEF OpenFails, StoreCloses
  <2> QED BY <2>1, TxFields, IdleIsOK, NothingCommitted
<1>2. CASE SetFails(p)
  <2>1. /\ checkpointTx' = [checkpointTx EXCEPT ![p] = OpenedStore]
        /\ UNCHANGED <<checkpoints, checkpointVersions>>
        /\ checkpointTx[p].pc = "set" /\ TxOK(checkpointTx[p])
    BY <1>2 DEF SetFails, CheckpointInv
  <2>2. TxOK(OpenedStore)
    BY <2>1, OpenIsOK
  <2> QED BY <2>1, <2>2, TxFields, NothingCommitted
<1> QED BY <1>1, <1>2

-----------------------------------------------------------------------------
(* Commits.                                                                *)

\* A commit that leaves no new head without a history, and p with the database
\* open: the other transactions stay in order, being stale now.
LEMMA CommitKeepsTx ==
  ASSUME CheckpointInv, NEW p \in StoreProcesses, Commits(p, OpenedStore),
         \A k \in CheckpointKeys :
           checkpointVersions'[k] = <<>> =>
             checkpointVersions[k] = <<>> /\ checkpoints'[k] \in {checkpoints[k], NoValue},
         \A k \in CheckpointKeys :
           checkpoints'[k] # NoValue => checkpointVersions'[k] # <<>>
  PROVE  /\ checkpointTx' \in [StoreProcesses -> TxType]
         /\ \A q \in StoreProcesses : TxOK(checkpointTx[q])'
<1>1. checkpointTx \in [StoreProcesses -> TxType]
  BY TypesNamed DEF CheckpointInv
<1>2. ASSUME NEW q \in StoreProcesses
      PROVE  checkpointTx'[q] \in TxType /\ TxOK(checkpointTx[q])'
  <2>1. CASE q = p
    <3>1. checkpointTx'[q] = OpenedStore
      BY <2>1 DEF Commits
    <3>2. checkpointTx'[q].pc = "open"
      BY <3>1, TxFields
    <3>3. TxOK(checkpointTx[q])'
      BY <3>2 DEF TxOK, BackfillOK, OpenedOK, SetOK
    <3> QED BY <3>1, <3>3, TxFields
  <2>2. CASE q # p
    <3>1. checkpointTx'[q] = [checkpointTx[q] EXCEPT !.stale = TRUE]
      BY <2>2 DEF Commits
    <3>2. checkpointTx[q] \in TxType
      BY <1>1
    <3>3. /\ checkpointTx'[q] \in TxType
          /\ checkpointTx'[q].pc = checkpointTx[q].pc
          /\ checkpointTx'[q].key = checkpointTx[q].key
          /\ checkpointTx'[q].value = checkpointTx[q].value
          /\ checkpointTx'[q].missing = checkpointTx[q].missing
          /\ checkpointTx'[q].stale = TRUE
      BY <3>1, <3>2 DEF TxType
    <3>4. TxOK(checkpointTx[q]) /\ checkpointTx[q].missing \subseteq CheckpointKeys \X CheckpointValues
      BY <3>2 DEF CheckpointInv, TxType
    <3>5. BackfillOK(checkpointTx[q])'
      <4> SUFFICES ASSUME checkpointTx[q].pc = "backfill"
                   PROVE  BackfillOK(checkpointTx[q])'
        BY <3>3 DEF BackfillOK
      <4>1. /\ \A a, b \in checkpointTx[q].missing : a[1] = b[1] => a = b
            /\ \A kv \in checkpointTx[q].missing :
                 checkpointVersions[kv[1]] = <<>> => checkpoints[kv[1]] \in {kv[2], NoValue}
            /\ \A k \in CheckpointKeys :
                 checkpoints[k] # NoValue /\ checkpointVersions[k] = <<>> =>
                   <<k, checkpoints[k]>> \in checkpointTx[q].missing
        BY <3>4 DEF TxOK, BackfillOK
      <4>2. \A kv \in checkpointTx[q].missing : kv[1] \in CheckpointKeys
        BY <3>4
      <4>3. \A kv \in checkpointTx[q].missing :
              checkpointVersions'[kv[1]] = <<>> => checkpoints'[kv[1]] \in {kv[2], NoValue}
        BY <4>1, <4>2
      <4>4. \A k \in CheckpointKeys :
              checkpoints'[k] # NoValue /\ checkpointVersions'[k] = <<>> =>
                <<k, checkpoints'[k]>> \in checkpointTx[q].missing
        OBVIOUS
      <4> QED BY <3>3, <4>1, <4>3, <4>4 DEF BackfillOK
    <3>6. OpenedOK(checkpointTx[q])'
      BY DEF OpenedOK
    <3>7. SetOK(checkpointTx[q])'
      BY <3>3, <3>4 DEF TxOK, SetOK
    <3> QED BY <3>3, <3>5, <3>6, <3>7 DEF TxOK
  <2> QED BY <2>1, <2>2
<1>3. checkpointTx' = [q \in StoreProcesses |-> checkpointTx'[q]]
  BY DEF Commits
<1> QED BY <1>2, <1>3

LEMMA BackfillCommitKeeps ==
  ASSUME CheckpointInv, NEW p \in StoreProcesses, BackfillCommit(p)
  PROVE  /\ CheckpointInv'
         /\ \A k \in CheckpointKeys : IsPrefix(checkpointVersions[k], checkpointVersions'[k])
<1> DEFINE missing == checkpointTx[p].missing
           keys == {kv[1] : kv \in missing}
<1>1. /\ checkpoints \in [CheckpointKeys -> CheckpointValues \union {NoValue}]
      /\ checkpointVersions \in [CheckpointKeys -> Seq(CheckpointValues)]
      /\ checkpointTx[p] \in TxType
  BY TypesNamed DEF CheckpointInv
<1>2. missing \subseteq CheckpointKeys \X CheckpointValues
  BY <1>1 DEF TxType
<1>3. /\ \A kv \in missing : checkpointVersions[kv[1]] = <<>>
      /\ checkpointVersions' =
           [k \in CheckpointKeys |->
              IF k \in keys THEN <<(CHOOSE kv \in missing : kv[1] = k)[2]>>
              ELSE checkpointVersions[k]]
      /\ Commits(p, OpenedStore)
      /\ checkpoints' = checkpoints
  BY DEF BackfillCommit
<1>4. /\ \A kv \in missing :
           checkpointVersions[kv[1]] = <<>> => checkpoints[kv[1]] \in {kv[2], NoValue}
      /\ \A k \in CheckpointKeys :
           checkpoints[k] # NoValue /\ checkpointVersions[k] = <<>> =>
             <<k, checkpoints[k]>> \in missing
  BY DEF BackfillCommit, CheckpointInv, TxOK, BackfillOK
<1> HIDE DEF missing
<1>5. ASSUME NEW k \in CheckpointKeys, k \in keys
      PROVE  \E v \in CheckpointValues :
               /\ checkpointVersions[k] = <<>> /\ checkpointVersions'[k] = <<v>>
               /\ checkpoints[k] \in {v, NoValue}
  <2> DEFINE kv == CHOOSE kv \in missing : kv[1] = k
  <2>1. kv \in missing /\ kv[1] = k
    BY <1>5
  <2>2. checkpointVersions'[k] = <<kv[2]>>
    BY <1>3, <1>5
  <2> HIDE DEF kv
  <2>3. kv[2] \in CheckpointValues
    BY <2>1, <1>2
  <2> QED BY <2>1, <2>2, <2>3, <1>3, <1>4
<1>6. ASSUME NEW k \in CheckpointKeys, k \notin keys
      PROVE  checkpointVersions'[k] = checkpointVersions[k]
  BY <1>3, <1>6
<1>7. ASSUME NEW k \in CheckpointKeys, checkpoints[k] # NoValue, checkpointVersions[k] = <<>>
      PROVE  k \in keys
  <2>1. <<k, checkpoints[k]>> \in missing
    BY <1>4, <1>7
  <2> QED BY <2>1
<1> HIDE DEF keys
<1>8. ASSUME NEW k \in CheckpointKeys
      PROVE  checkpointVersions'[k] \in Seq(CheckpointValues)
  <2>1. CASE k \in keys
    <3>1. PICK v \in CheckpointValues : checkpointVersions'[k] = <<v>>
      BY <2>1, <1>5
    <3>2. <<v>> \in Seq(CheckpointValues)
      OBVIOUS
    <3> QED BY <3>1, <3>2
  <2>2. CASE k \notin keys
    BY <2>2, <1>1, <1>6
  <2> QED BY <2>1, <2>2
<1>9. /\ checkpointTx' \in [StoreProcesses -> TxType]
      /\ \A q \in StoreProcesses : TxOK(checkpointTx[q])'
  <2>1. \A k \in CheckpointKeys :
          checkpointVersions'[k] = <<>> =>
            checkpointVersions[k] = <<>> /\ checkpoints'[k] \in {checkpoints[k], NoValue}
    BY <1>3, <1>5, <1>6
  <2>2. \A k \in CheckpointKeys : checkpoints'[k] # NoValue => checkpointVersions'[k] # <<>>
    BY <1>3, <1>5, <1>6, <1>7
  <2> QED BY <2>1, <2>2, <1>3, CommitKeepsTx
<1>10. CheckpointTypeOK'
  <2>1. checkpointVersions' \in [CheckpointKeys -> Seq(CheckpointValues)]
    BY <1>3, <1>8
  <2> QED BY <2>1, <1>1, <1>3, <1>9 DEF CheckpointTypeOK, TxType
<1>11. HeadsInv'
  <2> SUFFICES ASSUME NEW k \in CheckpointKeys, checkpoints'[k] # NoValue,
                      checkpointVersions'[k] # <<>>
               PROVE  Last(checkpointVersions'[k]) = checkpoints'[k]
    BY DEF HeadsInv
  <2>1. CASE k \in keys
    BY <2>1, <1>3, <1>5 DEF Last
  <2>2. CASE k \notin keys
    BY <2>2, <1>3, <1>6 DEF CheckpointInv, HeadsInv
  <2> QED BY <2>1, <2>2
<1>12. VersionsAreDistinctStates'
  <2> SUFFICES ASSUME NEW k \in CheckpointKeys, NEW i \in 1 .. Len(checkpointVersions'[k]) - 1
               PROVE  checkpointVersions'[k][i] # checkpointVersions'[k][i + 1]
    BY DEF VersionsAreDistinctStates
  <2>1. CASE k \in keys
    <3>1. PICK v \in CheckpointValues : checkpointVersions'[k] = <<v>>
      BY <2>1, <1>5
    <3>2. Len(<<v>>) = 1
      OBVIOUS
    <3>3. i \in 1 .. 0
      BY <3>1, <3>2
    <3> QED BY <3>3
  <2>2. CASE k \notin keys
    BY <2>2, <1>6 DEF CheckpointInv, VersionsAreDistinctStates
  <2> QED BY <2>1, <2>2
<1>13. \A k \in CheckpointKeys : IsPrefix(checkpointVersions[k], checkpointVersions'[k])
  <2> SUFFICES ASSUME NEW k \in CheckpointKeys
               PROVE  IsPrefix(checkpointVersions[k], checkpointVersions'[k])
    OBVIOUS
  <2>1. checkpointVersions[k] \in Seq(CheckpointValues)
    BY <1>1
  <2>2. CASE k \in keys
    BY <2>2, <1>5 DEF IsPrefix
  <2>3. CASE k \notin keys
    BY <2>1, <2>3, <1>6 DEF IsPrefix
  <2> QED BY <2>2, <2>3
<1> QED BY <1>9, <1>10, <1>11, <1>12, <1>13 DEF CheckpointInv

LEMMA SetCommitKeeps ==
  ASSUME CheckpointInv, NEW p \in StoreProcesses, SetCommit(p)
  PROVE  /\ CheckpointInv'
         /\ \A k \in CheckpointKeys : IsPrefix(checkpointVersions[k], checkpointVersions'[k])
<1> DEFINE tx == checkpointTx[p]
           old == checkpointVersions[tx.key]
           new == checkpointVersions'[tx.key]
<1>1. /\ checkpoints \in [CheckpointKeys -> CheckpointValues \union {NoValue}]
      /\ checkpointVersions \in [CheckpointKeys -> Seq(CheckpointValues)]
      /\ HeadsInv /\ VersionsAreDistinctStates /\ TxOK(tx)
  BY TypesNamed DEF CheckpointInv
<1>2. /\ tx.pc = "set" /\ ~tx.stale
      /\ checkpointVersions' = IF tx.version = 0 THEN checkpointVersions
                               ELSE [checkpointVersions EXCEPT ![tx.key] = Append(@, tx.value)]
      /\ checkpoints' = [checkpoints EXCEPT ![tx.key] = tx.value]
      /\ Commits(p, OpenedStore)
  BY DEF SetCommit
<1>3. /\ tx.key \in CheckpointKeys /\ tx.value \in CheckpointValues
      /\ tx.version = 0 => old # <<>> /\ Last(old) = tx.value
      /\ tx.version # 0 => old = <<>> \/ Last(old) # tx.value
      /\ \A k \in CheckpointKeys : checkpoints[k] # NoValue => checkpointVersions[k] # <<>>
  BY <1>1, <1>2 DEF TxOK, SetOK, OpenedOK
<1>4. /\ new \in Seq(CheckpointValues) /\ new # <<>> /\ Last(new) = tx.value
      /\ IsPrefix(old, new)
      /\ \A i \in 1 .. Len(new) - 1 : new[i] # new[i + 1]
  <2>1. /\ old \in Seq(CheckpointValues)
        /\ \A i \in 1 .. Len(old) - 1 : old[i] # old[i + 1]
    BY <1>1, <1>3 DEF VersionsAreDistinctStates
  <2>2. CASE tx.version = 0
    <3>1. new = old
      BY <1>2, <2>2
    <3>2. IsPrefix(old, old)
      BY <2>1 DEF IsPrefix
    <3> QED BY <3>1, <3>2, <2>1, <2>2, <1>3
  <2>3. CASE tx.version # 0
    <3>1. new = Append(old, tx.value)
      BY <1>1, <1>2, <1>3, <2>3
    <3> HIDE DEF old, new, tx
    <3>2. /\ old = <<>> \/ Last(old) # tx.value
          /\ tx.value \in CheckpointValues
      BY <2>3, <1>3
    <3>3. /\ Append(old, tx.value) \in Seq(CheckpointValues) /\ Append(old, tx.value) # <<>>
          /\ IsPrefix(old, Append(old, tx.value)) /\ Last(Append(old, tx.value)) = tx.value
      BY <2>1, <3>2, AppendedHistory
    <3>4. \A i \in 1 .. Len(Append(old, tx.value)) - 1 :
            Append(old, tx.value)[i] # Append(old, tx.value)[i + 1]
      BY <2>1, <3>2, AppendedHistory
    <3> QED BY <3>1, <3>3, <3>4
  <2> QED BY <2>2, <2>3
<1>5. ASSUME NEW k \in CheckpointKeys, k # tx.key
      PROVE  checkpointVersions'[k] = checkpointVersions[k] /\ checkpoints'[k] = checkpoints[k]
  BY <1>1, <1>2, <1>5
<1>6. checkpoints'[tx.key] = tx.value
  BY <1>1, <1>2, <1>3
<1>7. checkpointVersions' \in [CheckpointKeys -> Seq(CheckpointValues)]
  <2>1. \A k \in CheckpointKeys : checkpointVersions'[k] \in Seq(CheckpointValues)
    BY <1>1, <1>4, <1>5
  <2>2. checkpointVersions' = [k \in CheckpointKeys |-> checkpointVersions'[k]]
    BY <1>1, <1>2
  <2> QED BY <2>1, <2>2
<1>8. checkpoints' \in [CheckpointKeys -> CheckpointValues \union {NoValue}]
  BY <1>1, <1>2, <1>3
<1> HIDE DEF tx
<1>9. /\ checkpointTx' \in [StoreProcesses -> TxType]
      /\ \A q \in StoreProcesses : TxOK(checkpointTx[q])'
  <2>1. \A k \in CheckpointKeys :
          checkpointVersions'[k] = <<>> =>
            checkpointVersions[k] = <<>> /\ checkpoints'[k] \in {checkpoints[k], NoValue}
    BY <1>4, <1>5
  <2>2. \A k \in CheckpointKeys : checkpoints'[k] # NoValue => checkpointVersions'[k] # <<>>
    BY <1>3, <1>4, <1>5
  <2> QED BY <2>1, <2>2, <1>2, CommitKeepsTx
<1>10. CheckpointTypeOK'
  BY <1>7, <1>8, <1>9 DEF CheckpointTypeOK, TxType
<1>11. HeadsInv'
  <2> SUFFICES ASSUME NEW k \in CheckpointKeys, checkpoints'[k] # NoValue,
                      checkpointVersions'[k] # <<>>
               PROVE  Last(checkpointVersions'[k]) = checkpoints'[k]
    BY DEF HeadsInv
  <2>1. CASE k = tx.key
    BY <2>1, <1>4, <1>6
  <2>2. CASE k # tx.key
    BY <2>2, <1>1, <1>5 DEF HeadsInv
  <2> QED BY <2>1, <2>2
<1>12. VersionsAreDistinctStates'
  <2> SUFFICES ASSUME NEW k \in CheckpointKeys, NEW i \in 1 .. Len(checkpointVersions'[k]) - 1
               PROVE  checkpointVersions'[k][i] # checkpointVersions'[k][i + 1]
    BY DEF VersionsAreDistinctStates
  <2>1. CASE k = tx.key
    BY <2>1, <1>4
  <2>2. CASE k # tx.key
    BY <2>2, <1>1, <1>5 DEF VersionsAreDistinctStates
  <2> QED BY <2>1, <2>2
<1>13. ASSUME NEW k \in CheckpointKeys
       PROVE  IsPrefix(checkpointVersions[k], checkpointVersions'[k])
  <2>1. CASE k = tx.key
    BY <2>1, <1>4
  <2>2. CASE k # tx.key
    BY <2>2, <1>1, <1>5 DEF IsPrefix
  <2> QED BY <2>1, <2>2
<1> QED BY <1>9, <1>10, <1>11, <1>12, <1>13 DEF CheckpointInv

LEMMA DeleteKeeps ==
  ASSUME CheckpointInv, NEW p \in StoreProcesses, DeleteCheckpoint(p)
  PROVE  CheckpointInv'
<1>1. PICK k \in CheckpointKeys : checkpoints' = [checkpoints EXCEPT ![k] = NoValue]
  BY DEF DeleteCheckpoint
<1>2. /\ checkpoints \in [CheckpointKeys -> CheckpointValues \union {NoValue}]
      /\ checkpointVersions \in [CheckpointKeys -> Seq(CheckpointValues)]
      /\ OpenedOK(checkpointTx[p]) /\ checkpointTx[p].pc = "open"
  BY TypesNamed DEF CheckpointInv, TxOK, DeleteCheckpoint
<1>3. checkpointVersions' = checkpointVersions /\ Commits(p, OpenedStore)
  BY DEF DeleteCheckpoint
<1>4. \A l \in CheckpointKeys : checkpoints'[l] \in {checkpoints[l], NoValue}
  BY <1>1, <1>2
<1>5. /\ checkpointTx' \in [StoreProcesses -> TxType]
      /\ \A q \in StoreProcesses : TxOK(checkpointTx[q])'
  <2>1. \A l \in CheckpointKeys : checkpoints'[l] # NoValue => checkpointVersions'[l] # <<>>
    BY <1>2, <1>3, <1>4 DEF OpenedOK
  <2> QED BY <2>1, <1>3, <1>4, CommitKeepsTx
<1>6. checkpoints' \in [CheckpointKeys -> CheckpointValues \union {NoValue}]
  BY <1>1, <1>2
<1>7. CheckpointTypeOK'
  BY <1>2, <1>3, <1>5, <1>6 DEF CheckpointTypeOK, TxType
<1>8. HeadsInv' /\ VersionsAreDistinctStates'
  BY <1>3, <1>4 DEF CheckpointInv, HeadsInv, VersionsAreDistinctStates
<1> QED BY <1>5, <1>7, <1>8 DEF CheckpointInv

-----------------------------------------------------------------------------
(* The theorems.                                                           *)

LEMMA CheckpointInitInv == CheckpointInit => CheckpointInv
<1> SUFFICES ASSUME CheckpointInit PROVE CheckpointInv
  OBVIOUS
<1>1. CheckpointTypeOK
  <2>1. checkpointVersions \in [CheckpointKeys -> Seq(CheckpointValues)]
    BY DEF CheckpointInit
  <2>2. checkpointTx \in [StoreProcesses -> TxType]
    BY TxFields DEF CheckpointInit
  <2> QED BY <2>1, <2>2 DEF CheckpointInit, CheckpointTypeOK, TxType
<1>2. \A k \in CheckpointKeys : checkpointVersions[k] = <<>>
  BY DEF CheckpointInit
<1>3. HeadsInv
  BY <1>2 DEF HeadsInv
<1>4. VersionsAreDistinctStates
  BY <1>2 DEF VersionsAreDistinctStates
<1>5. ASSUME NEW p \in StoreProcesses PROVE TxOK(checkpointTx[p])
  BY IdleIsOK DEF CheckpointInit
<1> QED BY <1>1, <1>3, <1>4, <1>5 DEF CheckpointInv

LEMMA StepKeeps ==
  ASSUME CheckpointInv, [CheckpointNext]_checkpointVars
  PROVE  /\ CheckpointInv'
         /\ \A k \in CheckpointKeys : IsPrefix(checkpointVersions[k], checkpointVersions'[k])
<1>1. ASSUME checkpointVersions' = checkpointVersions
      PROVE  \A k \in CheckpointKeys : IsPrefix(checkpointVersions[k], checkpointVersions'[k])
  BY <1>1, TypesNamed DEF CheckpointInv, IsPrefix
<1>2. CASE UNCHANGED checkpointVars
  <2>1. UNCHANGED <<checkpoints, checkpointVersions, checkpointTx>>
    BY <1>2 DEF checkpointVars
  <2>2. CheckpointInv'
    BY <2>1 DEF CheckpointInv, CheckpointTypeOK, HeadsInv, VersionsAreDistinctStates,
                TxOK, BackfillOK, OpenedOK, SetOK
  <2> QED BY <2>1, <2>2, <1>1
<1>3. ASSUME NEW p \in StoreProcesses,
             \/ BackfillRead(p) \/ OpenFails(p) \/ SetRead(p) \/ SetFails(p)
             \/ DeleteCheckpoint(p) \/ StoreCloses(p)
      PROVE  /\ CheckpointInv'
             /\ \A k \in CheckpointKeys : IsPrefix(checkpointVersions[k], checkpointVersions'[k])
  <2>1. checkpointVersions' = checkpointVersions
    BY <1>3 DEF BackfillRead, OpenFails, SetRead, SetFails, DeleteCheckpoint, StoreCloses
  <2>2. CheckpointInv'
    BY <1>3, BackfillReadKeeps, FailureKeeps, SetReadKeeps, DeleteKeeps
  <2> QED BY <2>1, <2>2, <1>1
<1>4. CASE CheckpointNext
  BY <1>3, <1>4, BackfillCommitKeeps, SetCommitKeeps DEF CheckpointNext
<1> QED BY <1>2, <1>4

\* The heads, the versions kept of them and the open transactions have their
\* type, for any number of processes and keys; the version a transaction is
\* about to write is at most one past those the runs allow (checkpointStore.set).
THEOREM CheckpointTypeCorrect == CheckpointSpec => []CheckpointTypeOK
<1>1. CheckpointInit => CheckpointInv
  BY CheckpointInitInv
<1>2. CheckpointInv /\ [CheckpointNext]_checkpointVars => CheckpointInv'
  BY StepKeeps
<1>3. CheckpointInv => CheckpointTypeOK
  BY DEF CheckpointInv
<1> QED BY <1>1, <1>2, <1>3, PTL DEF CheckpointSpec

\* A live checkpoint is the newest of the versions of its key once a process
\* has opened the database, and neighbouring versions differ (Store.Set,
\* Store.Delete and backfillCheckpointVersions, in any number of processes).
THEOREM HistoryIsCompleteCorrect == CheckpointSpec => []HistoryIsComplete
<1>1. CheckpointInit => CheckpointInv
  BY CheckpointInitInv
<1>2. CheckpointInv /\ [CheckpointNext]_checkpointVars => CheckpointInv'
  BY StepKeeps
<1>3. CheckpointInv => HistoryIsComplete
  BY DEF CheckpointInv, HistoryIsComplete, HeadIsArchived, HeadsInv, TxOK, OpenedOK
<1> QED BY <1>1, <1>2, <1>3, PTL DEF CheckpointSpec

\* No step changes, renumbers or removes a version once it is archived: what
\* insertCheckpointVersion writes is only ever followed by later versions.
THEOREM VersionsAppendOnlyCorrect == CheckpointSpec => VersionsAreAppendOnly
<1>1. CheckpointInit => CheckpointInv
  BY CheckpointInitInv
<1>2. CheckpointInv /\ [CheckpointNext]_checkpointVars
        => /\ CheckpointInv'
           /\ [\A k \in CheckpointKeys :
                 IsPrefix(checkpointVersions[k], checkpointVersions'[k])]_checkpointVars
  BY StepKeeps
<1> QED BY <1>1, <1>2, PTL DEF CheckpointSpec, VersionsAreAppendOnly

-----------------------------------------------------------------------------
(* Readers that page through conversations and prompts.                    *)

\* A finite set has an element that nothing precedes.
LEMMA FirstElement ==
  ASSUME NEW S, IsFiniteSet(S), S # {}, NEW R,
         \A x \in S : <<x, x>> \notin R,
         \A x, y, z \in S : <<x, y>> \in R /\ <<y, z>> \in R => <<x, z>> \in R
  PROVE  \E x \in S : \A y \in S : <<y, x>> \notin R
<1> DEFINE Before(x) == {y \in S : <<y, x>> \in R}
           All == {Before(x) : x \in S}
<1>1. All \subseteq FiniteSubsetsOf(S) /\ All # {}
  <2>1. FiniteSubsetsOf(S) = SUBSET S
    BY FS_FiniteSubsetsOfFinite
  <2>2. PICK x : x \in S
    OBVIOUS
  <2>3. Before(x) \in All
    BY <2>2
  <2>4. ASSUME NEW B \in All
        PROVE  B \subseteq S
    OBVIOUS
  <2> QED BY <2>1, <2>3, <2>4
<1>2. IsWellFoundedOn(StrictSubsetOrdering(S), FiniteSubsetsOf(S))
  BY FS_StrictSubsetOrderingWellFounded
<1>3. PICK B \in All : \A C \in All : <<C, B>> \notin StrictSubsetOrdering(S)
  BY <1>1, <1>2, WFMin, Zenon
<1>4. PICK x \in S : B = Before(x)
  BY <1>3
<1>5. ASSUME NEW y \in S, <<y, x>> \in R
      PROVE  FALSE
  <2>1. Before(y) \subseteq Before(x) /\ y \in Before(x) /\ y \notin Before(y)
    BY <1>5
  <2>2. <<Before(y), Before(x)>> \in StrictSubsetOrdering(S)
    BY <2>1 DEF StrictSubsetOrdering
  <2>3. Before(y) \in All
    OBVIOUS
  <2> QED BY <1>3, <1>4, <2>2, <2>3
<1> QED BY <1>5

Ahead(S, R, x) == {t \in S : <<t, x>> \in R}

StrictOrder(S, R) ==
  /\ \A x \in S : <<x, x>> \notin R
  /\ \A x, y, z \in S : <<x, y>> \in R /\ <<y, z>> \in R => <<x, z>> \in R
  /\ \A x, y \in S : x = y \/ <<x, y>> \in R \/ <<y, x>> \in R

\* T are the first k of S, and not all of it.
FirstRows(S, R, k, T) ==
  T \subseteq S /\ T # S /\ \A s \in S : s \in T <=> Cardinality(Ahead(S, R, s)) < k

\* The last of T precedes all that are left.
CutAt(S, R, T, x) ==
  /\ \A y \in T : y = x \/ <<y, x>> \in R
  /\ \A y \in S \ T : <<x, y>> \in R

\* The first k rows of an order: the last of them precedes all that are left.
LEMMA TopRows ==
  ASSUME NEW S, IsFiniteSet(S), NEW R, NEW k \in Nat \ {0}, NEW T,
         StrictOrder(S, R), FirstRows(S, R, k, T)
  PROVE  \E x \in T : CutAt(S, R, T, x)
<1> USE DEF StrictOrder, FirstRows, CutAt
<1> DEFINE Before(x) == Ahead(S, R, x)
<1>1. \A x \in S : IsFiniteSet(Before(x)) /\ Cardinality(Before(x)) \in Nat
  BY FS_Subset, FS_CardinalityType DEF Ahead
<1>2. ASSUME NEW x \in T, NEW y \in S, <<y, x>> \in R
      PROVE  y \in T
  <2>1. x \in S /\ Before(y) \subseteq Before(x)
    BY <1>2 DEF Ahead
  <2>2. Cardinality(Before(y)) <= Cardinality(Before(x)) /\ Cardinality(Before(x)) < k
    BY <1>1, <2>1, FS_Subset
  <2>3. Cardinality(Before(y)) \in Nat /\ Cardinality(Before(x)) \in Nat
    BY <1>1, <2>1
  <2>4. \A m, n \in Nat : m <= n /\ n < k => m < k
    OBVIOUS
  <2>5. Cardinality(Before(y)) < k
    BY <2>2, <2>3, <2>4
  <2> QED BY <2>5
<1>3. S # {}
  OBVIOUS
<1>4. PICK top \in S : \A y \in S : <<y, top>> \notin R
  BY <1>3, FirstElement
<1>5. top \in T
  <2>1. Before(top) = {}
    BY <1>4 DEF Ahead
  <2> QED BY <2>1, FS_EmptySet
<1>6. IsFiniteSet(T) /\ T # {}
  BY <1>5, FS_Subset
<1> DEFINE Back == {q \in S \X S : <<q[2], q[1]>> \in R}
<1>7. \A x, y \in S : <<x, y>> \in Back <=> <<y, x>> \in R
  OBVIOUS
<1>8. PICK x \in T : \A y \in T : <<y, x>> \notin Back
  <2>1. \A y \in T : <<y, y>> \notin Back
    BY <1>7
  <2>2. \A y, z, w \in T : <<y, z>> \in Back /\ <<z, w>> \in Back => <<y, w>> \in Back
    BY <1>7
  <2> HIDE DEF Back
  <2> QED BY <1>6, <2>1, <2>2, FirstElement
<1>9. \A y \in T : y = x \/ <<y, x>> \in R
  BY <1>7, <1>8
<1>10. \A y \in S \ T : <<x, y>> \in R
  BY <1>2
<1> QED BY <1>9, <1>10

Rows == [conversation : Nat \ {0}, title : Nat, status : Statuses, updated : Nat \ {0}]

ArchiveCallRecords ==
  [pc : {"idle", "checked", "insert", "start"}, id : Nat, previous : Nat, conversation : Nat,
   title : Nat, at : Nat]

\* Rows have ids that were handed out, and an id on its way to its row is
\* handed out once.
RowsInv ==
  /\ allocated \in Nat /\ clock \in Nat \ {0} /\ renames \in Nat
  /\ sessions \in [DOMAIN sessions -> Rows] /\ DOMAIN sessions \subseteq 1 .. allocated
  /\ calls \in [EngineProcesses -> ArchiveCallRecords]
  /\ \A p \in EngineProcesses :
       calls[p].pc = "insert" =>
         /\ calls[p].id \in 1 .. allocated /\ calls[p].id \notin DOMAIN sessions
         /\ calls[p].conversation > 0 /\ calls[p].at > 0
         /\ \A q \in EngineProcesses \ {p} : calls[q].pc = "insert" => calls[q].id # calls[p].id
  /\ \A p \in EngineProcesses : calls[p].pc = "checked" => calls[p].previous \in DOMAIN sessions

\* The places of the pages that list x.
Listings(list, x) == {i \in DOMAIN list : x \in list[i]}

LEMMA ListingsFinite ==
  ASSUME NEW list \in Seq(SUBSET Nat), NEW x
  PROVE  IsFiniteSet(Listings(list, x)) /\ Cardinality(Listings(list, x)) \in Nat
<1>1. Listings(list, x) \subseteq 1 .. Len(list) /\ Len(list) \in Nat
  BY DEF Listings
<1>2. IsFiniteSet(1 .. Len(list))
  BY <1>1, FS_Interval
<1> QED BY <1>1, <1>2, FS_Subset, FS_CardinalityType

\* A page is one listing more of what is on it.
LEMMA OnePageMore ==
  ASSUME NEW list \in Seq(SUBSET Nat), NEW onPage \in SUBSET Nat, NEW x
  PROVE  /\ Append(list, onPage) \in Seq(SUBSET Nat)
         /\ Cardinality(Listings(Append(list, onPage), x))
              = Cardinality(Listings(list, x)) + (IF x \in onPage THEN 1 ELSE 0)
<1> DEFINE n == Len(list) + 1
           more == Append(list, onPage)
<1>1. /\ more \in Seq(SUBSET Nat) /\ Len(more) = n /\ n \in Nat \ {0}
      /\ \A i \in 1 .. Len(list) : more[i] = list[i]
      /\ more[n] = onPage /\ DOMAIN list = 1 .. Len(list) /\ DOMAIN more = 1 .. n
  BY AppendProperties
<1> HIDE DEF more
<1>2. n \notin Listings(list, x)
  BY <1>1 DEF Listings
<1>3. CASE x \in onPage
  <2>1. Listings(more, x) = Listings(list, x) \union {n}
    BY <1>1, <1>3 DEF Listings
  <2> QED BY <1>1, <1>2, <1>3, <2>1, ListingsFinite, FS_AddElement, ZenonT(60) DEF more
<1>4. CASE x \notin onPage
  <2>1. Listings(more, x) = Listings(list, x)
    BY <1>1, <1>4 DEF Listings
  <2> QED BY <1>1, <1>4, <2>1, ListingsFinite DEF more
<1> QED BY <1>3, <1>4

LEMMA RowsFinite ==
  ASSUME RowsInv
  PROVE  IsFiniteSet(DOMAIN sessions) /\ DOMAIN sessions \subseteq Nat \ {0}
<1>1. IsFiniteSet(1 .. allocated) /\ DOMAIN sessions \subseteq 1 .. allocated
  BY FS_Interval DEF RowsInv
<1> QED BY <1>1, FS_Subset DEF RowsInv

\* Steps of a call that leave the rows alone.
LEMMA CallStep ==
  ASSUME RowsInv, NEW p \in EngineProcesses, NEW call \in ArchiveCallRecords,
         calls' = [calls EXCEPT ![p] = call], call.pc # "insert",
         call.pc = "checked" => call.previous \in DOMAIN sessions,
         UNCHANGED <<sessions, clock, allocated, renames>>
  PROVE  RowsInv'
<1>1. /\ calls' \in [EngineProcesses -> ArchiveCallRecords] /\ calls'[p] = call
      /\ \A q \in EngineProcesses : q # p => calls'[q] = calls[q]
  BY DEF RowsInv
<1> QED BY <1>1 DEF RowsInv

LEMMA AllocateStep ==
  ASSUME RowsInv, NEW p \in EngineProcesses, NEW conversation \in Nat, NEW title \in Nat,
         Allocate(p, conversation, title), UNCHANGED <<sessions, clock, renames>>
  PROVE  RowsInv'
<1>1. PICK call : call = [NoCall EXCEPT !.pc = "insert", !.id = allocated + 1,
                            !.conversation = IF conversation = 0 THEN allocated + 1 ELSE conversation,
                            !.title = title, !.at = clock]
  OBVIOUS
<1>2. /\ call \in ArchiveCallRecords /\ call.pc = "insert" /\ call.id = allocated + 1
      /\ call.conversation > 0 /\ call.at > 0
  <2>1. PICK kept : kept = IF conversation = 0 THEN allocated + 1 ELSE conversation
    OBVIOUS
  <2>2. kept \in Nat /\ kept > 0 /\ allocated + 1 \in Nat /\ clock \in Nat /\ clock > 0
    BY <2>1 DEF RowsInv
  <2>3. call = [pc |-> "insert", id |-> allocated + 1, previous |-> 0, conversation |-> kept,
                title |-> title, at |-> clock]
    BY <1>1, <2>1 DEF NoCall
  <2> QED BY <2>2, <2>3 DEF ArchiveCallRecords
<1>3. allocated' = allocated + 1 /\ calls' = [calls EXCEPT ![p] = call]
  BY <1>1 DEF Allocate, Calls
<1>4. /\ calls' \in [EngineProcesses -> ArchiveCallRecords] /\ calls'[p] = call
      /\ \A q \in EngineProcesses : q # p => calls'[q] = calls[q]
  BY <1>2, <1>3 DEF RowsInv
<1>5. allocated \in Nat /\ allocated' = allocated + 1 /\ call.id \notin DOMAIN sessions
      /\ DOMAIN sessions \subseteq 1 .. allocated'
  BY <1>2, <1>3 DEF RowsInv
<1>6. \A q \in EngineProcesses : calls[q].pc = "insert" => calls[q].id \in 1 .. allocated'
                                                          /\ calls[q].id # call.id
  BY <1>2, <1>5 DEF RowsInv
<1> QED BY <1>2, <1>4, <1>5, <1>6 DEF RowsInv

\* Steps that change rows and no call.
LEMMA RowsStep ==
  ASSUME RowsInv, DOMAIN sessions' = DOMAIN sessions, sessions' \in [DOMAIN sessions -> Rows],
         clock' \in Nat \ {0}, renames' \in Nat, UNCHANGED <<allocated, calls>>
  PROVE  RowsInv'
BY DEF RowsInv

LEMMA InsertStep ==
  ASSUME RowsInv, NEW p \in EngineProcesses, InsertSession(p)
  PROVE  RowsInv' /\ DOMAIN sessions' = DOMAIN sessions \union {calls[p].id}
                  /\ calls[p].id \notin DOMAIN sessions /\ calls[p].id \in Nat
<1>1. PICK call : call = calls[p]
  OBVIOUS
<1>2. call \in ArchiveCallRecords /\ call.pc = "insert" /\ call.id \in 1 .. allocated
      /\ call.id \notin DOMAIN sessions /\ call.conversation > 0 /\ call.at > 0
  BY <1>1 DEF RowsInv, InsertSession
<1>3. PICK row : row = [conversation |-> call.conversation, title |-> call.title,
                        status |-> "running", updated |-> call.at]
  OBVIOUS
<1>4. row \in Rows
  BY <1>2, <1>3 DEF Rows, ArchiveCallRecords, Statuses
<1>5. PICK done : done = [call EXCEPT !.pc = "start"]
  OBVIOUS
<1>6. done \in ArchiveCallRecords /\ done.pc = "start"
  BY <1>2, <1>5 DEF ArchiveCallRecords
<1>7. /\ sessions' = [s \in DOMAIN sessions \union {call.id} |->
                        IF s = call.id THEN row ELSE sessions[s]]
      /\ calls' = [calls EXCEPT ![p] = done] /\ UNCHANGED <<clock, allocated, renames>>
  BY <1>1, <1>3, <1>5 DEF InsertSession, Calls
<1>8. /\ DOMAIN sessions' = DOMAIN sessions \union {call.id}
      /\ sessions' \in [DOMAIN sessions' -> Rows]
  BY <1>4, <1>7 DEF RowsInv
<1>9. /\ calls' \in [EngineProcesses -> ArchiveCallRecords] /\ calls'[p] = done
      /\ \A q \in EngineProcesses : q # p => calls'[q] = calls[q]
  BY <1>6, <1>7 DEF RowsInv
<1>10. \A q \in EngineProcesses : q # p /\ calls[q].pc = "insert" => calls[q].id # call.id
  BY <1>1, <1>2 DEF RowsInv
<1>11. RowsInv'
  BY <1>2, <1>6, <1>7, <1>8, <1>9, <1>10 DEF RowsInv
<1> QED BY <1>1, <1>2, <1>8, <1>11

LEMMA RowsInvStep ==
  ASSUME RowsInv, [ConversationNext]_convVars
  PROVE  RowsInv'
<1>1. CASE UNCHANGED <<sessions, clock, allocated, renames, calls>>
  BY <1>1 DEF RowsInv
<1>2. CASE Tick
  <2>1. clock' \in Nat \ {0} /\ UNCHANGED <<sessions, allocated, renames, calls>>
    BY <1>2 DEF Tick, RowsInv
  <2> QED BY <2>1, RowsStep DEF RowsInv
<1>3. ASSUME NEW p \in EngineProcesses, StartSession(p)
      PROVE  RowsInv'
  BY <1>3, AllocateStep DEF StartSession
<1>4. ASSUME NEW p \in EngineProcesses, ContinueSession(p)
      PROVE  RowsInv'
  <2>1. calls[p].previous \in DOMAIN sessions
    BY <1>4 DEF ContinueSession, RowsInv
  <2>2. sessions[calls[p].previous] \in Rows
    BY <2>1 DEF RowsInv
  <2>3. PICK conversation, title : conversation = sessions[calls[p].previous].conversation
                                   /\ title = sessions[calls[p].previous].title
    OBVIOUS
  <2>4. conversation \in Nat /\ title \in Nat
    BY <2>2, <2>3 DEF Rows
  <2>5. Allocate(p, conversation, title) /\ UNCHANGED <<sessions, clock, renames>>
    BY <1>4, <2>3 DEF ContinueSession
  <2> QED BY <2>4, <2>5, AllocateStep
<1>5. ASSUME NEW p \in EngineProcesses, NEW s \in DOMAIN sessions,
             CheckPrevious(p, s) \/ ResumeSession(p, s)
      PROVE  RowsInv'
  <2>1. PICK call : call = IF CheckPrevious(p, s) THEN [NoCall EXCEPT !.pc = "checked", !.previous = s]
                           ELSE [NoCall EXCEPT !.pc = "start", !.id = s]
    OBVIOUS
  <2>2. s \in Nat
    BY RowsFinite
  <2>3. call \in ArchiveCallRecords /\ call.pc # "insert" /\ (call.pc = "checked" => call.previous = s)
    BY <2>1, <2>2 DEF NoCall, ArchiveCallRecords
  <2>4. calls' = [calls EXCEPT ![p] = call] /\ UNCHANGED <<sessions, clock, allocated, renames>>
    BY <1>5, <2>1 DEF CheckPrevious, ResumeSession, Calls
  <2> QED BY <2>3, <2>4, CallStep
<1>6. ASSUME NEW p \in EngineProcesses, StartRun(p) \/ CallFails(p) \/ EngineDies(p)
      PROVE  RowsInv'
  <2>1. NoCall \in ArchiveCallRecords /\ NoCall.pc = "idle"
    BY DEF NoCall, ArchiveCallRecords
  <2>2. calls' = [calls EXCEPT ![p] = NoCall] /\ UNCHANGED <<sessions, clock, allocated, renames>>
    BY <1>6 DEF StartRun, CallFails, EngineDies, Calls
  <2> QED BY <2>1, <2>2, CallStep
<1>7. ASSUME NEW p \in EngineProcesses, NEW s \in DOMAIN sessions, NEW status \in Statuses,
             SessionEvent(p, s, status)
      PROVE  RowsInv'
  <2>1. /\ DOMAIN sessions' = DOMAIN sessions /\ sessions' \in [DOMAIN sessions -> Rows]
        /\ UNCHANGED <<clock, allocated, renames, calls>>
    BY <1>7 DEF SessionEvent, RowsInv, Rows
  <2> QED BY <2>1, RowsStep DEF RowsInv
<1>8. ASSUME NEW p \in EngineProcesses, NEW s \in DOMAIN sessions, CancelElsewhere(p, s)
      PROVE  RowsInv'
  <2>1. /\ DOMAIN sessions' = DOMAIN sessions /\ sessions' \in [DOMAIN sessions -> Rows]
        /\ UNCHANGED <<clock, allocated, renames, calls>>
    BY <1>8 DEF CancelElsewhere, RowsInv, Rows, Statuses
  <2> QED BY <2>1, RowsStep DEF RowsInv
<1>9. ASSUME NEW s \in DOMAIN sessions, RenameSession(s)
      PROVE  RowsInv'
  <2>1. ASSUME NEW t \in DOMAIN sessions
        PROVE  [sessions[t] EXCEPT !.title = renames + 1, !.updated = clock] \in Rows
    <3>1. sessions[t] \in Rows /\ renames + 1 \in Nat /\ clock \in Nat \ {0}
      BY DEF RowsInv
    <3> QED BY <3>1 DEF Rows
  <2>2. /\ DOMAIN sessions' = DOMAIN sessions /\ sessions' \in [DOMAIN sessions -> Rows]
        /\ renames' \in Nat /\ UNCHANGED <<clock, allocated, calls>>
    <3> DEFINE renamed(t) == [sessions[t] EXCEPT !.title = renames + 1, !.updated = clock]
    <3>1. \A t \in DOMAIN sessions : renamed(t) \in Rows
      BY <2>1
    <3>2. /\ sessions' = [t \in DOMAIN sessions |->
                           IF sessions[t].conversation = sessions[s].conversation
                             THEN renamed(t) ELSE sessions[t]]
          /\ renames' = renames + 1 /\ UNCHANGED <<clock, allocated, calls>>
      BY <1>9 DEF RenameSession
    <3> HIDE DEF renamed
    <3> QED BY <3>1, <3>2 DEF RowsInv
  <2> QED BY <2>2, RowsStep DEF RowsInv
<1>10. ASSUME NEW p \in EngineProcesses, InsertSession(p)
       PROVE  RowsInv'
  BY <1>10, InsertStep
<1> QED BY <1>1, <1>2, <1>3, <1>4, <1>5, <1>6, <1>7, <1>8, <1>9, <1>10
        DEF ConversationNext, convVars, RunReturns, OpenPicker, NextSessions, PromptPicker, PinPrompts

\* Rows are never removed, and a conversation keeps its turns.
LEMMA RowsStay ==
  ASSUME RowsInv, [ConversationNext]_convVars
  PROVE  DOMAIN sessions \subseteq DOMAIN sessions'
<1>1. ASSUME NEW p \in EngineProcesses, InsertSession(p)
      PROVE  DOMAIN sessions \subseteq DOMAIN sessions'
  BY <1>1, InsertStep
<1> QED BY <1>1, ZenonT(60) DEF ConversationNext, convVars, Tick, StartSession,
      ContinueSession, StartRun,
      CallFails, EngineDies, CheckPrevious, ResumeSession, RunReturns, CancelElsewhere,
      SessionEvent, RenameSession, OpenPicker, NextSessions, PromptPicker, PinPrompts

\* A page of prompts is cut at its oldest row.
LEMMA PromptPageCut ==
  ASSUME RowsInv, NEW before \in Nat
  PROVE  /\ PromptPage(before).items \subseteq PromptsBefore(before)
         /\ PromptPage(before).next \in Nat
         /\ PromptPage(before).next = 0 => PromptPage(before).items = PromptsBefore(before)
         /\ PromptPage(before).next # 0 =>
              /\ PromptPage(before).next \in PromptPage(before).items
              /\ \A s \in PromptPage(before).items : s >= PromptPage(before).next
              /\ \A s \in PromptsBefore(before) \ PromptPage(before).items :
                   s < PromptPage(before).next
<1> DEFINE rest == PromptsBefore(before)
           R == {q \in rest \X rest : q[1] > q[2]}
           onPage == {s \in rest : Cardinality({t \in rest : t > s}) < PageSize}
<1>1. IsFiniteSet(rest) /\ rest \subseteq Nat \ {0}
  BY RowsFinite, FS_Subset DEF PromptsBefore
<1>2. \A x, y \in rest : <<x, y>> \in R <=> x > y
  OBVIOUS
<1>3. \A x \in rest : {t \in rest : <<t, x>> \in R} = {t \in rest : t > x}
  BY <1>2
<1>4. onPage = {s \in rest : Cardinality({t \in rest : <<t, s>> \in R}) < PageSize}
  BY <1>3
<1>5. /\ \A x \in rest : <<x, x>> \notin R
      /\ \A x, y, z \in rest : <<x, y>> \in R /\ <<y, z>> \in R => <<x, z>> \in R
      /\ \A x, y \in rest : x = y \/ <<x, y>> \in R \/ <<y, x>> \in R
  BY <1>1, <1>2
<1>6. /\ PromptPage(before).items = onPage
      /\ PromptPage(before).next =
           IF rest = onPage THEN 0 ELSE CHOOSE s \in onPage : \A t \in onPage : s <= t
  BY DEF PromptPage
<1> HIDE DEF R, onPage, rest
<1>7. onPage \subseteq rest
  BY DEF onPage
<1>8. CASE rest = onPage
  BY <1>6, <1>8 DEF rest
<1>9. CASE rest # onPage
  <2>1. PICK x \in onPage : /\ \A y \in onPage : y = x \/ <<y, x>> \in R
                          /\ \A y \in rest \ onPage : <<x, y>> \in R
    <3>1. PICK S, Q, T, k : S = rest /\ Q = R /\ T = onPage /\ k = PageSize
      OBVIOUS
    <3>2. k \in Nat \ {0} /\ IsFiniteSet(S)
      BY <1>1, <3>1, ConversationAssumption
    <3>3. StrictOrder(S, Q)
      BY <1>5, <3>1, SMTT(30) DEF StrictOrder
    <3>4. FirstRows(S, Q, k, T)
      BY <1>4, <1>7, <1>9, <3>1 DEF Ahead, FirstRows
    <3>5. \E x \in T : CutAt(S, Q, T, x)
      BY <3>2, <3>3, <3>4, TopRows, Zenon
    <3> QED BY <3>1, <3>5 DEF CutAt
  <2>2. ASSUME NEW y \in onPage
        PROVE  x <= y
    <3>1. x \in rest /\ y \in rest /\ x \in Nat /\ y \in Nat
      BY <1>1, <1>7
    <3>2. y = x \/ y > x
      BY <1>2, <2>1, <3>1
    <3> QED BY <3>1, <3>2
  <2>3. \A y \in onPage : (\A t \in onPage : y <= t) => y = x
    BY <1>1, <1>7, <2>1, <2>2
  <2>4. (CHOOSE s \in onPage : \A t \in onPage : s <= t) = x
    BY <2>2, <2>3
  <2>5. PromptPage(before).next = x
    BY <1>6, <1>9, <2>4
  <2>6. x \in Nat \ {0} /\ \A y \in rest \ onPage : y < x
    BY <1>1, <1>2, <1>7, <2>1
  <2> QED BY <1>1, <1>6, <1>7, <2>2, <2>5, <2>6 DEF rest
<1> QED BY <1>8, <1>9

\* What a prompt picker has listed: nothing before its cursor, and after it
\* every prompt it owes once.
PromptWalkInv ==
  /\ promptWalk.pc \in {"idle", "walk", "done"} /\ promptWalk.cursor[1] \in Nat
  /\ promptWalk.listed \in Seq(SUBSET Nat) /\ promptWalk.owed \subseteq DOMAIN sessions
  /\ \A x \in Nat : Times(promptWalk, x) <= 1
  /\ promptWalk.pc = "idle" => promptWalk.cursor[1] = 0 /\ promptWalk.listed = <<>>
  /\ promptWalk.pc = "walk" =>
       /\ promptWalk.cursor[1] > 0
       /\ \A x \in Nat : x < promptWalk.cursor[1] => Times(promptWalk, x) = 0
       /\ \A x \in promptWalk.owed : x >= promptWalk.cursor[1] => Times(promptWalk, x) = 1
  /\ promptWalk.pc = "done" => \A x \in promptWalk.owed : Times(promptWalk, x) = 1

LEMMA TimesListed == \A w, x : Times(w, x) = Cardinality(Listings(w.listed, x))
BY DEF Times, Listings

LEMMA PromptWalkStep ==
  ASSUME RowsInv, PromptWalkInv, PromptPicker
  PROVE  PromptWalkInv'
<1>1. PICK before : before = promptWalk.cursor[1]
  OBVIOUS
<1>2. PICK items, next : items = PromptPage(before).items /\ next = PromptPage(before).next
  OBVIOUS
<1>3. PICK owed : owed = IF promptWalk.pc = "idle" THEN DOMAIN sessions ELSE promptWalk.owed
  OBVIOUS
<1>4. /\ promptWalk' = [pc |-> IF next = 0 THEN "done" ELSE "walk", cursor |-> <<next, 0>>,
                        listed |-> Append(promptWalk.listed, items), owed |-> owed]
      /\ sessions' = sessions /\ promptWalk.pc \in {"idle", "walk"}
  BY <1>1, <1>2, <1>3 DEF PromptPicker, NoReader
<1>5. before \in Nat /\ promptWalk.listed \in Seq(SUBSET Nat) /\ owed \subseteq DOMAIN sessions
      /\ DOMAIN sessions \subseteq Nat
  BY <1>1, <1>3, RowsFinite DEF PromptWalkInv
<1>6. /\ items \subseteq PromptsBefore(before) /\ items \in SUBSET Nat /\ next \in Nat
      /\ next = 0 => items = PromptsBefore(before)
      /\ next # 0 => /\ next \in items
                     /\ \A s \in items : s >= next
                     /\ \A s \in PromptsBefore(before) \ items : s < next
  BY <1>2, <1>5, PromptPageCut DEF PromptsBefore
<1>7. \A x \in Nat : before = 0 \/ x < before => Times(promptWalk, x) = 0
  <2>1. CASE promptWalk.pc = "idle"
    <3>1. \A x : Listings(promptWalk.listed, x) = {}
      BY <2>1 DEF PromptWalkInv, Listings
    <3> QED BY <3>1, FS_EmptySet, TimesListed
  <2>2. CASE promptWalk.pc = "walk"
    BY <1>1, <2>2 DEF PromptWalkInv
  <2> QED BY <1>4, <2>1, <2>2
<1>8. \A x \in owed : ~(before = 0 \/ x < before) => Times(promptWalk, x) = 1
  BY <1>1, <1>3, <1>4, <1>5 DEF PromptWalkInv
<1>9. /\ Append(promptWalk.listed, items) \in Seq(SUBSET Nat)
      /\ \A x : Times(promptWalk', x) = Times(promptWalk, x) + (IF x \in items THEN 1 ELSE 0)
  <2>1. \A x : /\ Times(promptWalk, x) = Cardinality(Listings(promptWalk.listed, x))
               /\ Times(promptWalk', x)
                    = Cardinality(Listings(Append(promptWalk.listed, items), x))
    BY <1>4, TimesListed
  <2> QED BY <1>5, <1>6, <2>1, OnePageMore
<1>10. \A x : Times(promptWalk, x) \in Nat
  BY <1>5, ListingsFinite, TimesListed
<1>11. \A x \in DOMAIN sessions : x \in PromptsBefore(before) <=> before = 0 \/ x < before
  BY DEF PromptsBefore
<1>12. \A x \in items : x \in DOMAIN sessions /\ (before = 0 \/ x < before)
  BY <1>6 DEF PromptsBefore
<1>13. \A x \in Nat : Times(promptWalk', x) <= 1
  <2> SUFFICES ASSUME NEW x \in Nat
               PROVE  Times(promptWalk', x) <= 1
    OBVIOUS
  <2>1. Times(promptWalk, x) <= 1
    BY DEF PromptWalkInv
  <2>2. x \in items => Times(promptWalk, x) = 0
    BY <1>7, <1>12
  <2> QED BY <1>9, <1>10, <2>1, <2>2
<1>14. CASE next = 0
  <2>1. ASSUME NEW x \in owed
        PROVE  Times(promptWalk', x) = 1
    <3>1. x \in Nat /\ x \in DOMAIN sessions
      BY <1>5
    <3>2. x \in items <=> before = 0 \/ x < before
      BY <1>6, <1>11, <1>14, <3>1
    <3> QED BY <1>7, <1>8, <1>9, <3>1, <3>2
  <2> QED BY <1>4, <1>5, <1>9, <1>13, <1>14, <2>1 DEF PromptWalkInv
<1>15. CASE next # 0
  <2>1. ASSUME NEW x \in Nat, x < next
        PROVE  Times(promptWalk', x) = 0
    <3>1. x \notin items /\ (before = 0 \/ x < before)
      BY <1>5, <1>6, <1>12, <1>15, <2>1
    <3> QED BY <1>7, <1>9, <3>1
  <2>2. ASSUME NEW x \in owed, x >= next
        PROVE  Times(promptWalk', x) = 1
    <3>1. x \in Nat /\ x \in DOMAIN sessions
      BY <1>5
    <3>2. x \in items <=> before = 0 \/ x < before
      BY <1>6, <1>11, <1>12, <1>15, <2>2, <3>1
    <3> QED BY <1>7, <1>8, <1>9, <3>1, <3>2
  <2>3. /\ promptWalk'.pc = "walk" /\ promptWalk'.cursor[1] = next /\ next > 0
        /\ promptWalk'.listed = Append(promptWalk.listed, items) /\ promptWalk'.owed = owed
    BY <1>4, <1>6, <1>15
  <2> QED BY <1>4, <1>5, <1>6, <1>9, <1>13, <2>1, <2>2, <2>3 DEF PromptWalkInv
<1> QED BY <1>14, <1>15

\* Prompts that are owed are never deleted.
LEMMA PromptWalkInvStep ==
  ASSUME RowsInv, PromptWalkInv, [ConversationNext]_convVars
  PROVE  PromptWalkInv'
<1>1. CASE PromptPicker
  BY <1>1, PromptWalkStep
<1>2. CASE UNCHANGED promptWalk
  BY <1>2, RowsStay DEF PromptWalkInv
<1> QED BY <1>1, <1>2 DEF ConversationNext, convVars, readers, Tick, StartSession, ContinueSession,
      InsertSession, StartRun, CallFails, EngineDies, CheckPrevious, ResumeSession, RunReturns,
      CancelElsewhere, SessionEvent, RenameSession, OpenPicker, NextSessions, PinPrompts

\* The sort keys of the listed conversations are ordered.
LEMMA SortKeys ==
  ASSUME RowsInv
  PROVE  /\ \A s \in LatestTurns :
              /\ s \in DOMAIN sessions /\ SortKey(s) = <<sessions[s].updated, sessions[s].conversation>>
              /\ sessions[s].updated \in Nat \ {0} /\ sessions[s].conversation \in Nat \ {0}
         /\ \A s, t \in LatestTurns :
              /\ sessions[s].conversation = sessions[t].conversation => s = t
              /\ s = t \/ Newer(SortKey(s), SortKey(t)) \/ Newer(SortKey(t), SortKey(s))
<1>1. \A s \in LatestTurns :
        /\ s \in DOMAIN sessions /\ SortKey(s) = <<sessions[s].updated, sessions[s].conversation>>
        /\ sessions[s].updated \in Nat \ {0} /\ sessions[s].conversation \in Nat \ {0}
  BY DEF LatestTurns, SortKey, RowsInv, Rows
<1>2. ASSUME NEW s \in LatestTurns, NEW t \in LatestTurns,
             sessions[s].conversation = sessions[t].conversation
      PROVE  s = t
  <2>1. s \in Nat /\ t \in Nat /\ s <= t /\ t <= s
    BY <1>2, RowsFinite DEF LatestTurns
  <2> QED BY <2>1
<1>3. ASSUME NEW s \in LatestTurns, NEW t \in LatestTurns
      PROVE  s = t \/ Newer(SortKey(s), SortKey(t)) \/ Newer(SortKey(t), SortKey(s))
  BY <1>1, <1>2 DEF Newer
<1> QED BY <1>1, <1>2, <1>3

Keys == (Nat \ {0}) \X (Nat \ {0})

\* Newer is an order.
LEMMA NewerOrder ==
  /\ \A a \in Keys : ~Newer(a, a)
  /\ \A a, b, c \in Keys : Newer(a, b) /\ Newer(b, c) => Newer(a, c)
BY DEF Newer, Keys

\* What a page of conversations says of each of them, where the cursor stands
\* before the conversation or behind it.
LEMMA SessionPageLists ==
  ASSUME RowsInv, NEW cursor, cursor = <<0, 0>> \/ cursor \in Keys
  PROVE  /\ SessionPage(cursor).items \in SUBSET Nat
         /\ SessionPage(cursor).next = <<0, 0>> \/ SessionPage(cursor).next \in Keys
         /\ \A s \in LatestTurns :
              LET listed == sessions[s].conversation \in SessionPage(cursor).items
                  ahead == cursor = <<0, 0>> \/ Newer(cursor, SortKey(s))
              IN  /\ listed => ahead
                  /\ SessionPage(cursor).next = <<0, 0>> => (ahead => listed)
                  /\ SessionPage(cursor).next # <<0, 0>> =>
                       (Newer(SessionPage(cursor).next, SortKey(s)) <=> ahead /\ ~listed)
<1> DEFINE rest == AfterCursor(cursor)
           R == {q \in rest \X rest : Newer(SortKey(q[1]), SortKey(q[2]))}
           onPage == {s \in rest : Cardinality({t \in rest : Newer(SortKey(t), SortKey(s))}) < PageSize}
           last == CHOOSE s \in onPage : \A t \in onPage : t = s \/ Newer(SortKey(t), SortKey(s))
<1>1. IsFiniteSet(rest) /\ rest \subseteq LatestTurns
  BY RowsFinite, FS_Subset DEF AfterCursor, LatestTurns
<1>2. \A x, y \in rest : <<x, y>> \in R <=> Newer(SortKey(x), SortKey(y))
  OBVIOUS
<1>3. \A x \in rest : Ahead(rest, R, x) = {t \in rest : Newer(SortKey(t), SortKey(x))}
  BY <1>2 DEF Ahead
<1>4. /\ SessionPage(cursor).items = {sessions[s].conversation : s \in onPage}
      /\ SessionPage(cursor).next = IF rest = onPage THEN <<0, 0>> ELSE SortKey(last)
  BY DEF SessionPage
<1>5. onPage \subseteq rest /\ \A s \in rest : s \in onPage <=> Cardinality(Ahead(rest, R, s)) < PageSize
  BY <1>3
<1>6. \A s \in LatestTurns : SortKey(s) \in Keys
  BY SortKeys DEF Keys
<1>7. \A s \in LatestTurns :
        s \in rest <=> cursor = <<0, 0>> \/ Newer(cursor, SortKey(s))
  BY DEF AfterCursor
<1> HIDE DEF R, onPage, rest, last
<1>8. \A s \in LatestTurns : sessions[s].conversation \in SessionPage(cursor).items <=> s \in onPage
  BY <1>1, <1>4, <1>5, SortKeys
<1>9. SessionPage(cursor).items \in SUBSET Nat
  BY <1>1, <1>4, <1>5, SortKeys
<1>10. <<0, 0>> \notin Keys
  BY DEF Keys
<1>11. CASE rest = onPage
  BY <1>4, <1>7, <1>8, <1>9, <1>11
<1>12. CASE rest # onPage
  <2>1. PICK x \in onPage : CutAt(rest, R, onPage, x)
    <3>1. PICK S, Q, T, k : S = rest /\ Q = R /\ T = onPage /\ k = PageSize
      OBVIOUS
    <3>2. k \in Nat \ {0} /\ IsFiniteSet(S)
      BY <1>1, <3>1, ConversationAssumption
    <3>3. StrictOrder(rest, R)
      <4>1. \A a \in rest : <<a, a>> \notin R
        BY <1>1, <1>2, <1>6, NewerOrder
      <4>2. \A a, b, c \in rest : <<a, b>> \in R /\ <<b, c>> \in R => <<a, c>> \in R
        BY <1>1, <1>2, <1>6, NewerOrder
      <4>3. \A a, b \in rest : a = b \/ <<a, b>> \in R \/ <<b, a>> \in R
        BY <1>1, <1>2, SortKeys
      <4> QED BY <4>1, <4>2, <4>3 DEF StrictOrder
    <3>4. FirstRows(rest, R, k, onPage)
      BY <1>5, <1>12, <3>1 DEF FirstRows
    <3>5. StrictOrder(S, Q) /\ FirstRows(S, Q, k, T)
      BY <3>1, <3>3, <3>4
    <3>6. \E x \in T : CutAt(S, Q, T, x)
      BY <3>2, <3>5, TopRows, Zenon
    <3> QED BY <3>1, <3>6
  <2>2. x \in rest /\ x \in LatestTurns
    BY <1>1, <1>5
  <2>3. \A y \in onPage : y = x \/ Newer(SortKey(y), SortKey(x))
    BY <1>2, <1>5, <2>1, <2>2 DEF CutAt
  <2>4. \A y \in rest \ onPage : Newer(SortKey(x), SortKey(y))
    BY <1>2, <2>1, <2>2 DEF CutAt
  <2>5. ASSUME NEW y \in onPage, \A t \in onPage : t = y \/ Newer(SortKey(t), SortKey(y))
        PROVE  y = x
    <3>1. y \in LatestTurns /\ x \in onPage
      BY <1>1, <1>5
    <3>2. CASE Newer(SortKey(y), SortKey(x)) /\ Newer(SortKey(x), SortKey(y))
      BY <1>6, <2>2, <3>1, <3>2, NewerOrder
    <3> QED BY <2>3, <2>5, <3>1, <3>2
  <2>6. last = x
    BY <2>3, <2>5 DEF last
  <2>7. PICK next : next = SessionPage(cursor).next
    OBVIOUS
  <2>8. next = SortKey(x) /\ next \in Keys /\ next # <<0, 0>>
    BY <1>4, <1>6, <1>10, <1>12, <2>2, <2>6, <2>7
  <2>9. ASSUME NEW s \in LatestTurns
        PROVE  Newer(next, SortKey(s)) <=> s \in rest /\ s \notin onPage
    <3>1. CASE s \in onPage
      <4>1. ~Newer(SortKey(x), SortKey(s))
        BY <1>6, <2>2, <2>3, <3>1, NewerOrder
      <4> QED BY <2>8, <3>1, <4>1
    <3>2. CASE s \in rest /\ s \notin onPage
      BY <2>4, <2>8, <3>2
    <3>3. CASE s \notin rest
      <4>1. cursor \in Keys /\ Newer(cursor, SortKey(x)) /\ ~Newer(cursor, SortKey(s))
        BY <1>7, <2>2, <3>3
      <4>2. ~Newer(SortKey(x), SortKey(s))
        BY <1>6, <2>2, <4>1, NewerOrder
      <4> QED BY <2>8, <3>3, <4>2
    <3> QED BY <3>1, <3>2, <3>3
  <2>10. ASSUME NEW s \in LatestTurns
         PROVE  s \in onPage => s \in rest
    BY <1>5
  <2> QED BY <1>7, <1>8, <1>9, <2>7, <2>8, <2>9, <2>10
<1> QED BY <1>11, <1>12

\* What a session picker has listed: the conversations it owes that come
\* after its cursor not at all, the others once.
SessionWalkInv ==
  /\ sessionWalk.pc \in {"idle", "walk", "done"}
  /\ sessionWalk.listed \in Seq(SUBSET Nat)
  /\ sessionWalk.pc = "walk" =>
       /\ sessionWalk.cursor \in Keys
       /\ \A o \in sessionWalk.owed :
            Times(sessionWalk, o[1]) = IF Newer(sessionWalk.cursor, <<o[2], o[1]>>) THEN 0 ELSE 1
  /\ sessionWalk.pc = "done" => \A o \in sessionWalk.owed : Times(sessionWalk, o[1]) = 1

\* A page is listed after a cursor: what stood behind the cursor was listed.
LEMMA SessionsListed ==
  ASSUME RowsInv, NEW cursor, cursor = <<0, 0>> \/ cursor \in Keys,
         NEW listed \in Seq(SUBSET Nat), NEW owed,
         \A o \in owed : \E s \in LatestTurns : SortKey(s) = <<o[2], o[1]>>,
         \A o \in owed : Cardinality(Listings(listed, o[1])) =
           IF cursor = <<0, 0>> \/ Newer(cursor, <<o[2], o[1]>>) THEN 0 ELSE 1,
         sessionWalk' = [pc |-> IF SessionPage(cursor).next = <<0, 0>> THEN "done" ELSE "walk",
                         cursor |-> SessionPage(cursor).next,
                         listed |-> Append(listed, SessionPage(cursor).items), owed |-> owed]
  PROVE  SessionWalkInv'
<1>1. PICK items, next : items = SessionPage(cursor).items /\ next = SessionPage(cursor).next
  OBVIOUS
<1>2. items \in SUBSET Nat /\ (next = <<0, 0>> \/ next \in Keys)
  BY <1>1, SessionPageLists
<1>3. sessionWalk' = [pc |-> IF next = <<0, 0>> THEN "done" ELSE "walk", cursor |-> next,
                      listed |-> Append(listed, items), owed |-> owed]
  BY <1>1
<1>4. /\ sessionWalk'.pc = (IF next = <<0, 0>> THEN "done" ELSE "walk")
      /\ sessionWalk'.cursor = next /\ sessionWalk'.listed = Append(listed, items)
      /\ sessionWalk'.owed = owed
  BY <1>3
<1>5. /\ Append(listed, items) \in Seq(SUBSET Nat)
      /\ \A x : Times(sessionWalk', x)
           = Cardinality(Listings(listed, x)) + (IF x \in items THEN 1 ELSE 0)
  <2>1. \A x : Times(sessionWalk', x) = Cardinality(Listings(Append(listed, items), x))
    BY <1>4, TimesListed
  <2> QED BY <1>2, <2>1, OnePageMore
<1>6. ASSUME NEW o \in owed
      PROVE  /\ next = <<0, 0>> => Times(sessionWalk', o[1]) = 1
             /\ next # <<0, 0>> =>
                  Times(sessionWalk', o[1]) = IF Newer(next, <<o[2], o[1]>>) THEN 0 ELSE 1
  <2>1. PICK s \in LatestTurns : SortKey(s) = <<o[2], o[1]>>
    OBVIOUS
  <2>2. sessions[s].conversation = o[1]
    BY <2>1, SortKeys
  <2> DEFINE there == o[1] \in items
             ahead == cursor = <<0, 0>> \/ Newer(cursor, <<o[2], o[1]>>)
  <2>4. /\ there => ahead
        /\ next = <<0, 0>> => (ahead => there)
        /\ next # <<0, 0>> => (Newer(next, <<o[2], o[1]>>) <=> ahead /\ ~there)
    <3>1. LET listed_ == sessions[s].conversation \in SessionPage(cursor).items
              ahead_ == cursor = <<0, 0>> \/ Newer(cursor, SortKey(s))
          IN  /\ listed_ => ahead_
              /\ SessionPage(cursor).next = <<0, 0>> => (ahead_ => listed_)
              /\ SessionPage(cursor).next # <<0, 0>> =>
                   (Newer(SessionPage(cursor).next, SortKey(s)) <=> ahead_ /\ ~listed_)
      BY SessionPageLists
    <3> QED BY <1>1, <2>1, <2>2, <3>1
  <2>5. Cardinality(Listings(listed, o[1])) = IF ahead THEN 0 ELSE 1
    OBVIOUS
  <2>6. Times(sessionWalk', o[1]) = (IF ahead THEN 0 ELSE 1) + (IF there THEN 1 ELSE 0)
    BY <1>5, <2>5
  <2> QED BY <2>4, <2>6
<1>7. CASE next = <<0, 0>>
  BY <1>4, <1>5, <1>6, <1>7 DEF SessionWalkInv
<1>8. CASE next # <<0, 0>>
  BY <1>2, <1>4, <1>5, <1>6, <1>8 DEF SessionWalkInv
<1> QED BY <1>7, <1>8

LEMMA SessionWalkInvStep ==
  ASSUME RowsInv, SessionWalkInv, [ConversationNext]_convVars
  PROVE  SessionWalkInv'
<1>1. CASE OpenPicker
  <2>1. PICK owed : owed = {<<sessions[s].conversation, sessions[s].updated>> : s \in LatestTurns}
    OBVIOUS
  <2>2. \A o \in owed : \E s \in LatestTurns : SortKey(s) = <<o[2], o[1]>>
    BY <2>1 DEF SortKey
  <2>3. \A x : Listings(<<>>, x) = {}
    BY DEF Listings
  <2>4. <<>> \in Seq(SUBSET Nat) /\ \A o \in owed : Cardinality(Listings(<<>>, o[1])) = 0
    BY <2>3, FS_EmptySet
  <2>5. <<SessionPage(<<0, 0>>).items>> = Append(<<>>, SessionPage(<<0, 0>>).items)
    OBVIOUS
  <2>6. sessionWalk' = [pc |-> IF SessionPage(<<0, 0>>).next = <<0, 0>> THEN "done" ELSE "walk",
                        cursor |-> SessionPage(<<0, 0>>).next,
                        listed |-> Append(<<>>, SessionPage(<<0, 0>>).items), owed |-> owed]
    BY <1>1, <2>1, <2>5 DEF OpenPicker
  <2> QED BY <2>2, <2>4, <2>6, SessionsListed
<1>2. CASE NextSessions
  <2>1. PICK cursor, listed, owed : cursor = sessionWalk.cursor /\ listed = sessionWalk.listed
          /\ owed = {o \in sessionWalk.owed : \E s \in LatestTurns : SortKey(s) = <<o[2], o[1]>>}
    OBVIOUS
  <2>2. cursor \in Keys /\ cursor # <<0, 0>> /\ listed \in Seq(SUBSET Nat)
    BY <1>2, <2>1 DEF SessionWalkInv, NextSessions, Keys
  <2>3. \A o \in owed : /\ o \in sessionWalk.owed
                        /\ \E s \in LatestTurns : SortKey(s) = <<o[2], o[1]>>
    BY <2>1
  <2>4. \A o \in owed : Cardinality(Listings(listed, o[1])) =
           IF cursor = <<0, 0>> \/ Newer(cursor, <<o[2], o[1]>>) THEN 0 ELSE 1
    BY <1>2, <2>1, <2>2, <2>3, TimesListed DEF SessionWalkInv, NextSessions
  <2>5. sessionWalk' = [pc |-> IF SessionPage(cursor).next = <<0, 0>> THEN "done" ELSE "walk",
                        cursor |-> SessionPage(cursor).next,
                        listed |-> Append(listed, SessionPage(cursor).items), owed |-> owed]
    BY <1>2, <2>1 DEF NextSessions
  <2> QED BY <2>2, <2>3, <2>4, <2>5, SessionsListed
<1>3. CASE UNCHANGED sessionWalk
  BY <1>3 DEF SessionWalkInv
<1> QED BY <1>1, <1>2, <1>3, ZenonT(60) DEF ConversationNext, convVars, readers, Tick,
      StartSession,
      ContinueSession, InsertSession, StartRun, CallFails, EngineDies, CheckPrevious,
      ResumeSession, RunReturns, CancelElsewhere, SessionEvent, RenameSession, PromptPicker,
      PinPrompts

\* The prompts that were committed when the terminal started are those up to
\* the newest of them, unless an id was on its way then; ids that are
\* allocated later are higher.
PinInv ==
  promptPin.count > 0 =>
    /\ promptPin.ids \subseteq DOMAIN sessions /\ promptPin.newest \in promptPin.ids
    /\ \A s \in promptPin.ids : s <= promptPin.newest
    /\ ~promptPin.inFlight =>
         /\ \A s \in DOMAIN sessions : s <= promptPin.newest => s \in promptPin.ids
         /\ \A p \in EngineProcesses : calls[p].pc = "insert" => calls[p].id > promptPin.newest

LEMMA PinInvStep ==
  ASSUME RowsInv, PinInv, [ConversationNext]_convVars
  PROVE  PinInv'
<1>1. RowsInv' /\ DOMAIN sessions \subseteq DOMAIN sessions'
  BY RowsInvStep, RowsStay
<1>2. CASE PinPrompts
  <2>1. PICK rows, newest, coming :
          /\ rows = DOMAIN sessions
          /\ newest = CHOOSE s \in DOMAIN sessions : \A t \in DOMAIN sessions : t <= s
          /\ coming = (\E p \in EngineProcesses : calls[p].pc = "insert")
    OBVIOUS
  <2>2. newest \in rows /\ \A t \in rows : t <= newest
    <3> DEFINE R == {q \in rows \X rows : q[1] > q[2]}
    <3>1. IsFiniteSet(rows) /\ rows \subseteq Nat /\ rows # {}
      BY <1>2, <2>1, RowsFinite DEF PinPrompts
    <3>2. \A x, y \in rows : <<x, y>> \in R <=> x > y
      OBVIOUS
    <3> HIDE DEF R
    <3>3. /\ \A x \in rows : <<x, x>> \notin R
          /\ \A x, y, z \in rows : <<x, y>> \in R /\ <<y, z>> \in R => <<x, z>> \in R
      BY <3>1, <3>2
    <3>4. \E x \in rows : \A y \in rows : <<y, x>> \notin R
      BY <3>1, <3>3, FirstElement, Zenon
    <3>5. \E x \in rows : \A y \in rows : y <= x
      <4>1. PICK x \in rows : \A y \in rows : <<y, x>> \notin R
        BY <3>4
      <4>2. \A y \in rows : ~(y > x)
        BY <3>2, <4>1
      <4>3. \A y \in rows : y <= x
        BY <3>1, <4>2
      <4> QED BY <4>3
    <3>6. newest = CHOOSE s \in rows : \A t \in rows : t <= s
      BY <2>1
    <3> QED BY <3>5, <3>6
  <2>3. /\ promptPin'.ids = rows /\ promptPin'.newest = newest /\ promptPin'.inFlight = coming
        /\ UNCHANGED <<sessions, calls>>
    BY <1>2, <2>1 DEF PinPrompts
  <2> QED BY <2>1, <2>2, <2>3 DEF PinInv
<1>3. ASSUME NEW p \in EngineProcesses, InsertSession(p)
      PROVE  PinInv'
  <2>1. /\ DOMAIN sessions' = DOMAIN sessions \union {calls[p].id} /\ calls[p].pc = "insert"
        /\ calls[p].id \in Nat /\ promptPin' = promptPin
    BY <1>3, InsertStep DEF InsertSession, readers
  <2>2. \A q \in EngineProcesses :
          calls'[q].pc = "insert" => calls[q].pc = "insert" /\ calls'[q] = calls[q]
    BY <1>3 DEF InsertSession, Calls, RowsInv
  <2>3. promptPin.count > 0 => promptPin.newest \in Nat
    BY RowsFinite DEF PinInv
  <2> QED BY <1>1, <2>1, <2>2, <2>3 DEF PinInv
<1>4. ASSUME NEW p \in EngineProcesses, StartSession(p) \/ ContinueSession(p)
      PROVE  PinInv'
  <2>1. /\ sessions' = sessions /\ promptPin' = promptPin /\ allocated \in Nat
        /\ \A q \in EngineProcesses : calls'[q] = calls[q] \/ calls'[q].id = allocated + 1
    <3>1. PICK conversation, title : Allocate(p, conversation, title)
      BY <1>4 DEF StartSession, ContinueSession
    <3>2. PICK kept : kept = IF conversation = 0 THEN allocated + 1 ELSE conversation
      OBVIOUS
    <3>3. PICK call : call = [NoCall EXCEPT !.pc = "insert", !.id = allocated + 1,
                               !.conversation = kept, !.title = title, !.at = clock]
      OBVIOUS
    <3>4. call.id = allocated + 1
      BY <3>3 DEF NoCall
    <3>5. calls' = [calls EXCEPT ![p] = call]
      BY <3>1, <3>2, <3>3 DEF Allocate, Calls
    <3>6. sessions' = sessions /\ promptPin' = promptPin
      BY <1>4 DEF StartSession, ContinueSession, readers
    <3> QED BY <3>4, <3>5, <3>6 DEF RowsInv
  <2>2. promptPin.count > 0 => promptPin.newest \in 1 .. allocated
    BY DEF PinInv, RowsInv
  <2> QED BY <2>1, <2>2 DEF PinInv
<1>5. CASE /\ UNCHANGED promptPin
           /\ DOMAIN sessions' = DOMAIN sessions
           /\ \A q \in EngineProcesses :
                calls'[q].pc = "insert" => calls[q].pc = "insert" /\ calls'[q] = calls[q]
  BY <1>5 DEF PinInv
<1>6. ASSUME NEW p \in EngineProcesses,
             StartRun(p) \/ CallFails(p) \/ EngineDies(p)
             \/ (\E s \in DOMAIN sessions : CheckPrevious(p, s) \/ ResumeSession(p, s))
      PROVE  PinInv'
  <2>1. \A q \in EngineProcesses :
          calls'[q].pc = "insert" => calls[q].pc = "insert" /\ calls'[q] = calls[q]
    <3>1. PICK call : calls' = [calls EXCEPT ![p] = call] /\ call.pc # "insert"
      <4>1. CASE StartRun(p) \/ CallFails(p) \/ EngineDies(p)
        <5>1. calls' = [calls EXCEPT ![p] = NoCall]
          BY <4>1 DEF StartRun, CallFails, EngineDies, Calls
        <5>2. NoCall.pc # "insert"
          BY DEF NoCall
        <5> QED BY <5>1, <5>2
      <4>2. ASSUME NEW s \in DOMAIN sessions, CheckPrevious(p, s) \/ ResumeSession(p, s)
            PROVE  \E call : calls' = [calls EXCEPT ![p] = call] /\ call.pc # "insert"
        <5>1. PICK checked, started : /\ checked = [NoCall EXCEPT !.pc = "checked", !.previous = s]
                                      /\ started = [NoCall EXCEPT !.pc = "start", !.id = s]
          OBVIOUS
        <5>2. checked.pc # "insert" /\ started.pc # "insert"
          BY <5>1 DEF NoCall
        <5>3. \/ calls' = [calls EXCEPT ![p] = checked]
              \/ calls' = [calls EXCEPT ![p] = started]
          BY <4>2, <5>1 DEF CheckPrevious, ResumeSession, Calls
        <5> QED BY <5>2, <5>3
      <4> QED BY <1>6, <4>1, <4>2
    <3> QED BY <3>1 DEF RowsInv
  <2>2. UNCHANGED <<promptPin, sessions>>
    BY <1>6 DEF StartRun, CallFails, EngineDies, CheckPrevious, ResumeSession, readers
  <2> QED BY <1>5, <2>1, <2>2
<1>7. ASSUME UNCHANGED <<promptPin, calls>>, DOMAIN sessions' = DOMAIN sessions
      PROVE  PinInv'
  BY <1>5, <1>7
<1>8. ASSUME NEW p \in EngineProcesses, NEW s \in DOMAIN sessions,
             RunReturns(p, s) \/ CancelElsewhere(p, s)
             \/ \E status \in Statuses : SessionEvent(p, s, status)
      PROVE  PinInv'
  BY <1>7, <1>8 DEF RunReturns, CancelElsewhere, SessionEvent, readers
<1>9. ASSUME NEW s \in DOMAIN sessions, RenameSession(s)
      PROVE  PinInv'
  BY <1>7, <1>9 DEF RenameSession, readers
<1>10. CASE Tick \/ OpenPicker \/ NextSessions \/ PromptPicker \/ UNCHANGED convVars
  BY <1>7, <1>10 DEF Tick, OpenPicker, NextSessions, PromptPicker, readers, convVars
<1> QED BY <1>2, <1>3, <1>4, <1>6, <1>8, <1>9, <1>10 DEF ConversationNext

ReadersInv == RowsInv /\ PromptWalkInv /\ SessionWalkInv /\ PinInv

LEMMA ReadersInvInit == ConversationInit => ReadersInv
<1> SUFFICES ASSUME ConversationInit
             PROVE  ReadersInv
  OBVIOUS
<1> USE DEF ConversationInit
<1>1. RowsInv
  <2>1. NoCall \in ArchiveCallRecords /\ NoCall.pc = "idle"
    BY DEF NoCall, ArchiveCallRecords
  <2>2. DOMAIN sessions = {} /\ sessions \in [DOMAIN sessions -> Rows]
    OBVIOUS
  <2> QED BY <2>1, <2>2 DEF RowsInv
<1>2. PromptWalkInv /\ SessionWalkInv
  <2>1. \A x : Listings(<<>>, x) = {}
    BY DEF Listings
  <2>2. \A x : Times(NotWalking, x) = 0
    BY <2>1, FS_EmptySet, TimesListed DEF NotWalking
  <2> QED BY <2>2 DEF PromptWalkInv, SessionWalkInv, NotWalking
<1>3. PinInv
  BY DEF PinInv, NoPin
<1> QED BY <1>1, <1>2, <1>3 DEF ReadersInv

LEMMA ReadersInvStep ==
  ASSUME ReadersInv, [ConversationNext]_convVars
  PROVE  ReadersInv'
BY RowsInvStep, PromptWalkInvStep, SessionWalkInvStep, PinInvStep DEF ReadersInv

LEMMA ReadersInvImplies == ReadersInv => ReadersMissNothing
<1> SUFFICES ASSUME ReadersInv
             PROVE  ReadersMissNothing
  OBVIOUS
<1>1. PickerListsUntouchedOnce
  BY DEF ReadersInv, SessionWalkInv, PickerListsUntouchedOnce
<1>2. PromptsAreListedOnce
  BY RowsFinite DEF ReadersInv, PromptWalkInv, PromptsAreListedOnce
<1>3. PinnedOffsetsStay
  <2> SUFFICES ASSUME promptPin.count > 0, ~promptPin.inFlight, NEW offset
               PROVE  PromptAt(offset) =
                        {s \in promptPin.ids : Cardinality({t \in promptPin.ids : s < t}) = offset}
    BY DEF PinnedOffsetsStay
  <2>1. \A s : s \in promptPin.ids <=> s \in DOMAIN sessions /\ s <= promptPin.newest
    BY DEF ReadersInv, PinInv
  <2>2. \A s \in DOMAIN sessions :
          {t \in DOMAIN sessions : s < t /\ t <= promptPin.newest} = {t \in promptPin.ids : s < t}
    BY <2>1
  <2> QED BY <2>1, <2>2 DEF PromptAt
<1> QED BY <1>1, <1>2, <1>3 DEF ReadersMissNothing

\* Whoever pages through the conversations or the prompts of the database
\* while turns are started, settled and renamed by any number of processes
\* lists what was there exactly once, and an offset of the pinned history
\* keeps its prompt (internal/store/session.go).
THEOREM ReadersMissNothingCorrect == ConversationSpec => []ReadersMissNothing
<1>1. ConversationInit => ReadersInv
  BY ReadersInvInit
<1>2. ReadersInv /\ [ConversationNext]_convVars => ReadersInv'
  BY ReadersInvStep
<1>3. ReadersInv => ReadersMissNothing
  BY ReadersInvImplies
<1> QED BY <1>1, <1>2, <1>3, PTL DEF ConversationSpec

-----------------------------------------------------------------------------
(* The exact archive: what its readers are shown.                          *)

ArchivedItems == {Archive(o, t) : o \in Archivers, t \in Texts}

\* Records and indexed transcripts have their types, and a file is whole when
\* its owner indexes or names it.
ArchivedInv ==
  /\ turns \subseteq {First, Later} /\ First \in turns
  /\ records \in Seq([session : {First, Later, Other}, size : RecordSizes])
  /\ Len(records) <= MaxRecords /\ artifacts \subseteq ArchivedItems
  /\ DOMAIN archivers = Archivers
  /\ \A o \in Archivers :
       /\ archivers[o].pc \in {"rest", "write", "index", "done"}
       /\ archivers[o].pc # "rest" => archivers[o].text \in Texts
       /\ archivers[o].pc \in {"index", "done"} => files[<<o, archivers[o].text>>] = "whole"
       /\ archivers[o].pc = "done" => Archive(o, archivers[o].text) \in artifacts
  /\ DOMAIN files = Archivers \X Texts

LEMMA ArchivedInvInit == ArchiveInit => ArchivedInv
BY ArchiveAssumption DEF ArchiveInit, ArchivedInv, Resting

\* Steps of the owners.
LEMMA OwnersArchive ==
  ASSUME ArchivedInv, NEW o \in Archivers,
         \/ \E t \in Texts : CreateTranscript(o, t) \/ ReuseTranscript(o, t)
         \/ WriteTranscript(o) \/ IndexTranscript(o) \/ ArchiveFails(o)
  PROVE  ArchivedInv' /\ artifacts \subseteq artifacts' /\ UNCHANGED <<turns, records>>
<1>1. ASSUME NEW t \in Texts, CreateTranscript(o, t)
      PROVE  ArchivedInv' /\ artifacts \subseteq artifacts' /\ UNCHANGED <<turns, records>>
  <2>1. <<o, t>> \in DOMAIN files /\ files[<<o, t>>] = "absent"
    BY <1>1 DEF ArchivedInv, CreateTranscript
  <2>2. /\ archivers'[o] = [pc |-> "write", text |-> t] /\ DOMAIN archivers' = Archivers
        /\ \A q \in Archivers : q # o => archivers'[q] = archivers[q]
        /\ DOMAIN files' = DOMAIN files /\ UNCHANGED <<turns, records, artifacts>>
        /\ \A f \in DOMAIN files : files[f] = "whole" => files'[f] = "whole"
    BY <1>1, <2>1 DEF ArchivedInv, CreateTranscript
  <2>3. \A q \in Archivers : archivers[q].pc \in {"index", "done"} =>
          <<q, archivers[q].text>> \in DOMAIN files
    BY DEF ArchivedInv
  <2> QED BY <2>2, <2>3 DEF ArchivedInv
<1>2. ASSUME NEW t \in Texts, ReuseTranscript(o, t)
      PROVE  ArchivedInv' /\ artifacts \subseteq artifacts' /\ UNCHANGED <<turns, records>>
  <2>1. /\ archivers'[o] = [pc |-> "index", text |-> t] /\ DOMAIN archivers' = Archivers
        /\ \A q \in Archivers : q # o => archivers'[q] = archivers[q]
        /\ files[<<o, t>>] = "whole" /\ UNCHANGED <<turns, records, artifacts, files>>
    BY <1>2 DEF ArchivedInv, ReuseTranscript, SameBytes
  <2> QED BY <2>1 DEF ArchivedInv
<1>3. CASE WriteTranscript(o)
  <2>1. PICK t, done : t = archivers[o].text /\ done = [archivers[o] EXCEPT !.pc = "index"]
    OBVIOUS
  <2>2. t \in Texts /\ <<o, t>> \in DOMAIN files
    BY <1>3, <2>1 DEF ArchivedInv, WriteTranscript
  <2>3. archivers' = [archivers EXCEPT ![o] = done] /\ files' = [files EXCEPT ![<<o, t>>] = "whole"]
        /\ UNCHANGED <<turns, records, artifacts>>
    BY <1>3, <2>1 DEF WriteTranscript
  <2>4. /\ archivers'[o] = done /\ DOMAIN archivers' = Archivers
        /\ \A q \in Archivers : q # o => archivers'[q] = archivers[q]
        /\ DOMAIN files' = DOMAIN files /\ files'[<<o, t>>] = "whole"
        /\ \A f \in DOMAIN files : files[f] = "whole" => files'[f] = "whole"
    BY <2>2, <2>3 DEF ArchivedInv
  <2>5. done.pc = "index" /\ done.text = t
    BY <1>3, <2>1 DEF WriteTranscript, ArchivedInv
  <2>6. \A q \in Archivers : archivers[q].pc \in {"index", "done"} =>
          <<q, archivers[q].text>> \in DOMAIN files
    BY DEF ArchivedInv
  <2> QED BY <2>2, <2>3, <2>4, <2>5, <2>6 DEF ArchivedInv
<1>4. CASE IndexTranscript(o)
  <2>1. PICK t, done : t = archivers[o].text /\ done = [archivers[o] EXCEPT !.pc = "done"]
    OBVIOUS
  <2>2. t \in Texts /\ files[<<o, t>>] = "whole"
    BY <1>4, <2>1 DEF ArchivedInv, IndexTranscript
  <2>3. /\ archivers' = [archivers EXCEPT ![o] = done]
        /\ artifacts' = artifacts \union {Archive(o, t)}
        /\ UNCHANGED <<turns, records, files>>
    BY <1>4, <2>1 DEF IndexTranscript
  <2>4. /\ archivers'[o] = done /\ DOMAIN archivers' = Archivers
        /\ \A q \in Archivers : q # o => archivers'[q] = archivers[q]
    BY <2>3 DEF ArchivedInv
  <2>5. done.pc = "done" /\ done.text = t
    BY <1>4, <2>1 DEF IndexTranscript, ArchivedInv
  <2> QED BY <2>2, <2>3, <2>4, <2>5 DEF ArchivedInv, ArchivedItems
<1>5. CASE ArchiveFails(o)
  <2>1. /\ archivers'[o].pc = "rest" /\ DOMAIN archivers' = Archivers
        /\ \A q \in Archivers : q # o => archivers'[q] = archivers[q]
        /\ UNCHANGED <<turns, records, artifacts, files>>
    BY <1>5 DEF ArchivedInv, ArchiveFails, Resting
  <2> QED BY <2>1 DEF ArchivedInv
<1> QED BY <1>1, <1>2, <1>3, <1>4, <1>5

\* The tools read.
LEMMA ReadsAddNothing ==
  \A room, requested :
    \/ \E o : \/ SearchContext(o, room, requested) \/ StartWalk(o, room, requested)
             \/ \E item, offset : OpenContext(o, item, offset, room, requested)
    \/ FollowCursor(room, requested)
    => UNCHANGED <<turns, records, grants, artifacts, archivers, files>>
<1>1. \A o, room, requested : SearchContext(o, room, requested) =>
        UNCHANGED <<turns, records, grants, artifacts, archivers, files>>
  BY ZenonT(60) DEF SearchContext
<1>2. \A o, room, requested : StartWalk(o, room, requested) =>
        UNCHANGED <<turns, records, grants, artifacts, archivers, files>>
  BY Zenon DEF StartWalk
<1>3. \A o, item, offset, room, requested : OpenContext(o, item, offset, room, requested) =>
        UNCHANGED <<turns, records, grants, artifacts, archivers, files>>
  BY ZenonT(60) DEF OpenContext
<1>4. \A room, requested : FollowCursor(room, requested) =>
        UNCHANGED <<turns, records, grants, artifacts, archivers, files>>
  BY Zenon DEF FollowCursor
<1> QED BY <1>1, <1>2, <1>3, <1>4

\* Turns, records and transcripts are only added.
LEMMA ArchivedInvStep ==
  ASSUME ArchivedInv, [ArchiveNext]_archiveVars
  PROVE  /\ ArchivedInv'
         /\ turns \subseteq turns' /\ artifacts \subseteq artifacts'
         /\ \A n \in DOMAIN records : n \in DOMAIN records' /\ records'[n] = records[n]
<1> DEFINE Goal == /\ ArchivedInv'
                   /\ turns \subseteq turns' /\ artifacts \subseteq artifacts'
                   /\ \A n \in DOMAIN records : n \in DOMAIN records' /\ records'[n] = records[n]
<1>1. CASE UNCHANGED <<turns, records, artifacts, archivers, files>>
  BY <1>1 DEF ArchivedInv
<1>2. ASSUME NEW s \in {First, Later, Other}, NEW size \in RecordSizes, AppendRecord(s, size)
      PROVE  Goal
  <2>1. PICK r : r = [session |-> s, size |-> size]
    OBVIOUS
  <2>2. r \in [session : {First, Later, Other}, size : RecordSizes]
    BY <2>1
  <2>3. /\ records' = Append(records, r) /\ Len(records) < MaxRecords
        /\ UNCHANGED <<turns, artifacts, archivers, files>>
    BY <1>2, <2>1 DEF AppendRecord
  <2>4. /\ records' \in Seq([session : {First, Later, Other}, size : RecordSizes])
        /\ Len(records') = Len(records) + 1 /\ Len(records) \in Nat
        /\ DOMAIN records = 1 .. Len(records) /\ DOMAIN records' = 1 .. Len(records')
        /\ \A n \in 1 .. Len(records) : records'[n] = records[n]
    BY <2>2, <2>3, AppendProperties DEF ArchivedInv
  <2>5. Len(records') <= MaxRecords
    BY <2>3, <2>4, ArchiveAssumption
  <2>6. \A n \in DOMAIN records : n \in DOMAIN records' /\ records'[n] = records[n]
    BY <2>4
  <2> QED BY <2>3, <2>4, <2>5, <2>6 DEF ArchivedInv
<1>3. CASE ContinueConversation
  <2>1. turns' = {First, Later} /\ UNCHANGED <<records, artifacts, archivers, files>>
    BY <1>3 DEF ContinueConversation
  <2> QED BY <2>1 DEF ArchivedInv
<1>4. ASSUME NEW o \in Archivers,
             \/ \E t \in Texts : CreateTranscript(o, t) \/ ReuseTranscript(o, t)
             \/ WriteTranscript(o) \/ IndexTranscript(o) \/ ArchiveFails(o)
      PROVE  Goal
  BY <1>4, OwnersArchive
<1>5. ASSUME NEW cited, Delegate(cited)
      PROVE  Goal
  BY <1>1, <1>5 DEF Delegate
<1>6. ASSUME NEW room \in Rooms, NEW requested \in Requests,
             \/ \E o \in Owners :
                  \/ SearchContext(o, room, requested) \/ StartWalk(o, room, requested)
                  \/ \E item \in Stored, offset \in 0 .. Biggest(Boundaries(Content)) :
                       OpenContext(o, item, offset, room, requested)
             \/ FollowCursor(room, requested)
      PROVE  Goal
  BY <1>1, <1>6, ReadsAddNothing
<1>7. CASE UNCHANGED archiveVars
  BY <1>1, <1>7 DEF archiveVars
<1> QED BY <1>2, <1>3, <1>4, <1>5, <1>6, <1>7 DEF ArchiveNext

\* What a reader may be shown, now and from now on.
Visible(o, item) ==
  /\ item \in Stored /\ SessionOf(item) \in turns
  /\ o \in Attempts => grants.made /\ (OwnArchive(o, item) \/ item \in grants.cited)

LEMMA VisibleStays ==
  ASSUME ArchivedInv, [ArchiveNext]_archiveVars, NEW o, NEW item, Visible(o, item)
  PROVE  Visible(o, item)'
<1>1. /\ turns \subseteq turns' /\ artifacts \subseteq artifacts'
      /\ \A n \in DOMAIN records : n \in DOMAIN records' /\ records'[n] = records[n]
  BY ArchivedInvStep
<1>2. grants.made => grants' = grants
  <2>1. ASSUME NEW cited, Delegate(cited)
        PROVE  ~grants.made
    BY <2>1 DEF Delegate
  <2>2. ASSUME NEW o_1 \in Archivers,
             \/ \E t \in Texts : CreateTranscript(o_1, t) \/ ReuseTranscript(o_1, t)
             \/ WriteTranscript(o_1) \/ IndexTranscript(o_1) \/ ArchiveFails(o_1)
        PROVE  grants' = grants
    BY <2>2 DEF CreateTranscript, ReuseTranscript, WriteTranscript, IndexTranscript, ArchiveFails
  <2>3. ASSUME NEW s, NEW size, AppendRecord(s, size)
        PROVE  grants' = grants
    BY <2>3 DEF AppendRecord
  <2>4. CASE ContinueConversation \/ UNCHANGED archiveVars
    BY <2>4 DEF ContinueConversation, archiveVars
  <2> QED BY <2>1, <2>2, <2>3, <2>4, ReadsAddNothing DEF ArchiveNext
<1>3. item \in Stored' /\ SessionOf(item)' = SessionOf(item)
  <2>1. CASE item \in artifacts
    <3>1. item[1] = "archive"
      BY <2>1 DEF ArchivedInv, ArchivedItems, Archive
    <3> QED BY <1>1, <2>1, <3>1 DEF Stored, SessionOf
  <2>2. ASSUME NEW n \in DOMAIN records, item = Record(n)
        PROVE  item \in Stored' /\ SessionOf(item)' = SessionOf(item)
    BY <1>1, <2>2 DEF Stored, SessionOf, Record
  <2> QED BY <2>1, <2>2 DEF Visible, Stored
<1>4. grants.made => Visible(o, item)'
  BY <1>1, <1>2, <1>3 DEF Visible, OwnArchive
<1>5. o \notin Attempts => Visible(o, item)'
  BY <1>1, <1>3 DEF Visible
<1> QED BY <1>4, <1>5 DEF Visible

LEMMA InScopeIsVisible ==
  \A o : MayRead(o) => \A item \in InScope(o) : Visible(o, item)
BY DEF MayRead, InScope, Visible

\* A page is one of the store's pages.
LEMMA FittedIsBrowsed ==
  \A S, before, k, room : \E j : FittedPage(S, before, k, room) = BrowsePage(S, before, j)
BY Zenon DEF FittedPage

LEMMA ShownIsOlder ==
  \A S, before, k, room : FittedPage(S, before, k, room).shown \subseteq {n \in S : n < before}
<1> SUFFICES ASSUME NEW S, NEW before, NEW k, NEW room
             PROVE  FittedPage(S, before, k, room).shown \subseteq {n \in S : n < before}
  OBVIOUS
<1>1. PICK j : FittedPage(S, before, k, room) = BrowsePage(S, before, j)
  BY FittedIsBrowsed
<1>2. BrowsePage(S, before, j).shown = Newest({n \in S : n < before}, j)
  BY DEF BrowsePage
<1> QED BY <1>1, <1>2 DEF Newest

\* Nobody was shown what is not visible to it, and whoever walks may read.
SeenInv ==
  /\ \A s \in seen : Visible(s[1], s[2])
  /\ walk.owner # Uncreated => MayRead(walk.owner)

\* Everything a step shows is visible to its reader.
LEMMA ShownIsVisible ==
  ASSUME SeenInv, [ArchiveNext]_archiveVars
  PROVE  /\ \A s \in seen' : s \in seen \/ Visible(s[1], s[2])
         /\ walk' = walk \/ MayRead(walk'.owner)
<1> DEFINE Goal == /\ \A s \in seen' : s \in seen \/ Visible(s[1], s[2])
                   /\ walk' = walk \/ MayRead(walk'.owner)
<1>1. ASSUME NEW o, NEW room, NEW requested, SearchContext(o, room, requested)
      PROVE  Goal
  <2>1. MayRead(o) /\ walk' = walk
    BY <1>1, ZenonT(60) DEF SearchContext
  <2>2. PICK found \in SUBSET InScope(o) : seen' = seen \union {<<o, item>> : item \in found}
    BY <1>1, ZenonT(60) DEF SearchContext
  <2>3. \A item \in found : Visible(o, item)
    BY <2>1, <2>2, InScopeIsVisible
  <2> QED BY <2>1, <2>2, <2>3
<1>2. ASSUME NEW o, NEW before, NEW k, NEW room, MayRead(o), NEW shown,
             shown = FittedPage(RecordsInScope(o), before, k, room).shown,
             seen' = seen \union {<<o, Record(n)>> : n \in shown}
      PROVE  \A s \in seen' : s \in seen \/ Visible(s[1], s[2])
  <2>1. \A n \in shown : n \in RecordsInScope(o)
    BY <1>2, ShownIsOlder
  <2>2. \A n \in shown : Visible(o, Record(n))
    BY <1>2, <2>1, InScopeIsVisible DEF RecordsInScope
  <2> QED BY <1>2, <2>2
<1>3. ASSUME NEW o, NEW room, NEW requested, StartWalk(o, room, requested)
      PROVE  Goal
  <2>1. PICK p : p = FittedPage(RecordsInScope(o), MaxRecords + 1,
                                CandidateCount(room, requested), room)
    OBVIOUS
  <2>2. MayRead(o) /\ seen' = seen \union {<<o, Record(n)>> : n \in p.shown}
    BY <1>3, <2>1, Zenon DEF StartWalk
  <2>3. walk' = [owner |-> o, before |-> p.next, listed |-> <<p.shown>>, owed |-> RecordsInScope(o)]
    BY <1>3, <2>1, Zenon DEF StartWalk
  <2>4. walk'.owner = o
    BY <2>3
  <2> QED BY <1>2, <2>1, <2>2, <2>4
<1>4. ASSUME NEW room, NEW requested, FollowCursor(room, requested)
      PROVE  Goal
  <2>1. PICK o, p : o = walk.owner /\ p = FittedPage(RecordsInScope(o), walk.before,
                                                     CandidateCount(room, requested), room)
    OBVIOUS
  <2>2. o # Uncreated /\ seen' = seen \union {<<o, Record(n)>> : n \in p.shown}
    BY <1>4, <2>1, Zenon DEF FollowCursor
  <2>3. walk' = [walk EXCEPT !.before = p.next, !.listed = Append(@, p.shown)]
    BY <1>4, <2>1, Zenon DEF FollowCursor
  <2>4. walk'.owner = walk.owner /\ MayRead(o)
    BY <2>1, <2>2, <2>3 DEF SeenInv
  <2> QED BY <1>2, <2>1, <2>2, <2>4
<1>5. ASSUME NEW o, NEW item, NEW offset, NEW room, NEW requested,
             OpenContext(o, item, offset, room, requested)
      PROVE  Goal
  <2>1. MayRead(o) /\ item \in InScope(o) /\ walk' = walk
    BY <1>5, ZenonT(60) DEF OpenContext
  <2>2. seen' = seen \/ seen' = seen \union {<<o, item>>}
    BY <1>5, ZenonT(60) DEF OpenContext
  <2> QED BY <2>1, <2>2, InScopeIsVisible
<1>6. CASE UNCHANGED <<seen, walk>>
  BY <1>6
<1>7. ASSUME NEW o \in Archivers,
             \/ \E t \in Texts : CreateTranscript(o, t) \/ ReuseTranscript(o, t)
             \/ WriteTranscript(o) \/ IndexTranscript(o) \/ ArchiveFails(o)
      PROVE  UNCHANGED <<seen, walk>>
  BY <1>7 DEF CreateTranscript, ReuseTranscript, WriteTranscript, IndexTranscript, ArchiveFails
<1>8. ASSUME NEW s, NEW size, AppendRecord(s, size)
      PROVE  UNCHANGED <<seen, walk>>
  BY <1>8 DEF AppendRecord
<1>9. ASSUME NEW cited, Delegate(cited)
      PROVE  UNCHANGED <<seen, walk>>
  BY <1>9 DEF Delegate
<1>10. CASE ContinueConversation \/ UNCHANGED archiveVars
  BY <1>6, <1>10 DEF ContinueConversation, archiveVars
<1> QED BY <1>1, <1>3, <1>4, <1>5, <1>6, <1>7, <1>8, <1>9, <1>10 DEF ArchiveNext

LEMMA SeenInvStep ==
  ASSUME ArchivedInv, SeenInv, [ArchiveNext]_archiveVars
  PROVE  SeenInv'
<1>1. \A s \in seen' : Visible(s[1], s[2])
  BY ShownIsVisible DEF SeenInv
<1>2. \A s \in seen' : Visible(s[1], s[2])'
  BY <1>1, VisibleStays
<1>3. \A o : MayRead(o) => MayRead(o)'
  <2>1. grants.made => grants'.made
    <3>1. \A cited : Delegate(cited) => grants'.made
      BY DEF Delegate
    <3>2. ASSUME NEW o \in Archivers,
             \/ \E t \in Texts : CreateTranscript(o, t) \/ ReuseTranscript(o, t)
             \/ WriteTranscript(o) \/ IndexTranscript(o) \/ ArchiveFails(o)
          PROVE  grants' = grants
      BY <3>2 DEF CreateTranscript, ReuseTranscript, WriteTranscript, IndexTranscript, ArchiveFails
    <3>3. \A s, size : AppendRecord(s, size) => grants' = grants
      BY DEF AppendRecord
    <3>4. ContinueConversation \/ UNCHANGED archiveVars => grants' = grants
      BY DEF ContinueConversation, archiveVars
    <3> QED BY <3>1, <3>2, <3>3, <3>4, ReadsAddNothing DEF ArchiveNext
  <2> QED BY <2>1 DEF MayRead
<1>4. PICK o : o = walk'.owner
  OBVIOUS
<1>5. o # Uncreated => MayRead(o)'
  <2>1. o # Uncreated => MayRead(o)
    BY <1>4, ShownIsVisible DEF SeenInv
  <2> QED BY <1>3, <2>1
<1>6. (walk.owner # Uncreated => MayRead(walk.owner))'
  BY <1>4, <1>5
<1> QED BY <1>2, <1>6 DEF SeenInv

LEMMA SeenInvInit == ArchiveInit => SeenInv
BY DEF ArchiveInit, SeenInv, NoWalk

LEMMA SeenInScope == ArchivedInv /\ SeenInv => ReadsStayInScope
<1> SUFFICES ASSUME ArchivedInv, SeenInv, NEW s \in seen
             PROVE  /\ SessionOf(s[2]) # Other
                    /\ s[1] \in Attempts => s[2] \in grants.cited
                                              \/ (s[2][1] = "archive" /\ s[2][2] = s[1])
  BY DEF ReadsStayInScope
<1>1. Visible(s[1], s[2])
  BY DEF SeenInv
<1>2. First # Other /\ Later # Other
  BY DEF First, Later, Other
<1> QED BY <1>1, <1>2 DEF Visible, ArchivedInv, OwnArchive

\* Whatever a reader was shown stays within its authority, for any number of
\* records, transcripts, attempts and tool calls: a specialist sees what it
\* archived itself or what its prompt cites, and nobody another conversation
\* (internal/orchestrator/context_access.go, contextScope).
THEOREM ReadsStayInScopeCorrect == ArchiveSpec => []ReadsStayInScope
<1>1. ArchiveInit => ArchivedInv /\ SeenInv
  BY ArchivedInvInit, SeenInvInit
<1>2. ArchivedInv /\ SeenInv /\ [ArchiveNext]_archiveVars => ArchivedInv' /\ SeenInv'
  BY ArchivedInvStep, SeenInvStep
<1>3. ArchivedInv /\ SeenInv => ReadsStayInScope
  BY SeenInScope
<1> QED BY <1>1, <1>2, <1>3, PTL DEF ArchiveSpec

-----------------------------------------------------------------------------
(* The exact archive: what a walk of the records lists.                    *)

LEMMA BiggestOf ==
  ASSUME NEW S, IsFiniteSet(S), S # {}, S \subseteq Nat
  PROVE  Biggest(S) \in S /\ \A y \in S : Biggest(S) >= y
<1> DEFINE R == {q \in S \X S : q[1] > q[2]}
<1>1. \A x, y \in S : <<x, y>> \in R <=> x > y
  OBVIOUS
<1> HIDE DEF R
<1>2. /\ \A x \in S : <<x, x>> \notin R
      /\ \A x, y, z \in S : <<x, y>> \in R /\ <<y, z>> \in R => <<x, z>> \in R
  BY <1>1
<1>3. PICK x \in S : \A y \in S : <<y, x>> \notin R
  BY <1>2, FirstElement, Zenon
<1>4. \A y \in S : ~(y > x)
  BY <1>1, <1>3
<1>5. \A y \in S : x >= y
  BY <1>4
<1> QED BY <1>5 DEF Biggest

LEMMA CandidateCountType ==
  ASSUME NEW room \in Rooms, NEW requested \in Requests
  PROVE  CandidateCount(room, requested) \in Nat \ {0}
<1>1. room \in Nat /\ requested \in Nat
  BY ArchiveAssumption
<1>2. \A n \in Nat : Biggest({1, n}) \in Nat \ {0}
  <2> SUFFICES ASSUME NEW n \in Nat
               PROVE  Biggest({1, n}) \in Nat \ {0}
    OBVIOUS
  <2>1. IsFiniteSet({1, n})
    <3>1. IsFiniteSet({1}) /\ IsFiniteSet({n}) /\ {1, n} = {1} \union {n}
      BY FS_Singleton
    <3> QED BY <3>1, FS_Union
  <2>2. Biggest({1, n}) \in {1, n} /\ Biggest({1, n}) >= 1
    BY <2>1, BiggestOf
  <2> QED BY <2>2
<1>3. room \div FirstFit \in Nat
  BY <1>1 DEF FirstFit
<1>4. PICK most : most = Biggest({1, room \div FirstFit})
  OBVIOUS
<1>5. most \in Nat \ {0} /\ Biggest({1, requested}) \in Nat \ {0}
  BY <1>1, <1>2, <1>3, <1>4
<1>6. CandidateCount(room, requested) =
        IF room = 0 THEN Biggest({1, requested})
        ELSE IF requested > 0 /\ requested < most THEN requested ELSE most
  BY <1>4 DEF CandidateCount
<1> QED BY <1>1, <1>5, <1>6

\* A page that fits is a page of the store with at least one place.
LEMMA FittedCount ==
  ASSUME NEW S, NEW before, NEW k \in Nat \ {0}, NEW room
  PROVE  \E j \in Nat \ {0} : FittedPage(S, before, k, room) = BrowsePage(S, before, j)
<1> DEFINE Fits(j) == room = 0 \/ WireSize(BrowsePage(S, before, j).shown) <= room
           good == {j \in 1 .. k : Fits(j)}
           count == IF good = {} THEN 1 ELSE Biggest(good)
<1>1. FittedPage(S, before, k, room) = BrowsePage(S, before, count)
  BY Zenon DEF FittedPage
<1> HIDE DEF Fits
<1>2. count \in Nat \ {0}
  <2>1. CASE good = {}
    BY <2>1
  <2>2. CASE good # {}
    <3>1. IsFiniteSet(1 .. k) /\ good \subseteq 1 .. k
      BY FS_Interval
    <3>2. IsFiniteSet(good) /\ good \subseteq Nat
      BY <3>1, FS_Subset
    <3>3. Biggest(good) \in good
      BY <2>2, <3>2, BiggestOf
    <3>4. count = Biggest(good)
      BY <2>2
    <3>5. count \in 1 .. k
      BY <3>1, <3>3, <3>4
    <3> QED BY <3>5
  <2> QED BY <2>1, <2>2
<1> HIDE DEF count
<1> QED BY <1>1, <1>2

\* A page of records is cut at its oldest.
LEMMA BrowseCut ==
  ASSUME NEW S, IsFiniteSet(S), S \subseteq Nat \ {0}, NEW before \in Nat, NEW k \in Nat \ {0},
         NEW p, p = BrowsePage(S, before, k)
  PROVE  /\ p.shown \subseteq S /\ p.next \in Nat
         /\ \A n \in p.shown : n < before
         /\ p.next = 0 => \A n \in S : n < before => n \in p.shown
         /\ p.next # 0 => /\ p.next < before
                          /\ \A n \in S : n < before => (n \in p.shown <=> n >= p.next)
<1> DEFINE older == {n \in S : n < before}
           R == {q \in older \X older : q[1] > q[2]}
           shown == Newest(older, k)
<1>1. /\ p.shown = shown
      /\ p.next = IF older = shown THEN 0 ELSE CHOOSE n \in shown : \A m \in shown : n <= m
  BY DEF BrowsePage
<1>2. IsFiniteSet(older) /\ older \subseteq Nat \ {0} /\ older \subseteq S
      /\ \A n \in older : n < before
  BY FS_Subset
<1>3. \A n \in S : n < before => n \in older
  OBVIOUS
<1>4. \A x, y \in older : <<x, y>> \in R <=> x > y
  OBVIOUS
<1> HIDE DEF older, R
<1>5. shown \subseteq older
  BY DEF Newest
<1>6. ASSUME NEW n \in older
      PROVE  n \in shown <=> Cardinality(Ahead(older, R, n)) < k
  <2>1. {m \in older : m >= n} = Ahead(older, R, n) \union {n}
    <3>1. \A m \in older : m \in Nat /\ (m >= n <=> m > n \/ m = n)
      BY <1>2
    <3>2. \A m \in older : m \in Ahead(older, R, n) <=> m > n
      BY <1>4 DEF Ahead
    <3> QED BY <3>1, <3>2 DEF Ahead
  <2>2. n \notin Ahead(older, R, n)
    BY <1>2, <1>4 DEF Ahead
  <2>3. IsFiniteSet(Ahead(older, R, n)) /\ Cardinality(Ahead(older, R, n)) \in Nat
    BY <1>2, FS_Subset, FS_CardinalityType DEF Ahead
  <2>4. Cardinality({m \in older : m >= n}) = Cardinality(Ahead(older, R, n)) + 1
    BY <2>1, <2>2, <2>3, FS_AddElement
  <2>5. n \in shown <=> Cardinality({m \in older : m >= n}) <= k
    BY DEF Newest
  <2> QED BY <2>3, <2>4, <2>5
<1> HIDE DEF shown
<1>7. CASE older = shown
  BY <1>1, <1>2, <1>3, <1>7
<1>8. CASE older # shown
  <2>1. StrictOrder(older, R)
    <3>1. \A a \in older : <<a, a>> \notin R
      BY <1>2, <1>4
    <3>2. \A a, b, c \in older : <<a, b>> \in R /\ <<b, c>> \in R => <<a, c>> \in R
      BY <1>2, <1>4
    <3>3. \A a, b \in older : a = b \/ <<a, b>> \in R \/ <<b, a>> \in R
      <4>1. \A a, b \in older : a = b \/ a > b \/ b > a
        BY <1>2
      <4> QED BY <1>4, <4>1
    <3> QED BY <3>1, <3>2, <3>3 DEF StrictOrder
  <2>2. FirstRows(older, R, k, shown)
    BY <1>5, <1>6, <1>8 DEF FirstRows
  <2>3. PICK x \in shown : CutAt(older, R, shown, x)
    BY <1>2, <2>1, <2>2, TopRows, Zenon
  <2>4. ASSUME NEW y \in shown
        PROVE  x <= y
    <3>1. x \in older /\ y \in older /\ x \in Nat /\ y \in Nat
      BY <1>2, <1>5
    <3>2. y = x \/ y > x
      BY <1>4, <2>3, <3>1 DEF CutAt
    <3> QED BY <3>1, <3>2
  <2>5. \A y \in shown : (\A t \in shown : y <= t) => y = x
    BY <1>2, <1>5, <2>3, <2>4
  <2>6. p.next = x
    BY <1>1, <1>8, <2>4, <2>5
  <2>7. x \in Nat \ {0} /\ x < before
    BY <1>2, <1>5
  <2>8. \A y \in older \ shown : y < x
    <3> SUFFICES ASSUME NEW y \in older \ shown
                 PROVE  y < x
      OBVIOUS
    <3>1. x \in older /\ y \in older
      BY <1>5
    <3>2. x > y
      BY <1>4, <2>3, <3>1 DEF CutAt
    <3> QED BY <1>2, <3>1, <3>2
  <2>9. \A n \in older : n \in shown <=> n >= x
    BY <1>2, <1>5, <2>4, <2>7, <2>8
  <2> QED BY <1>1, <1>2, <1>3, <1>5, <2>6, <2>7, <2>9
<1> QED BY <1>7, <1>8

\* Records in scope stay in scope of whoever may read.
LEMMA ScopeOnlyGrows ==
  ASSUME ArchivedInv, [ArchiveNext]_archiveVars, NEW o, MayRead(o)
  PROVE  RecordsInScope(o) \subseteq RecordsInScope(o)'
<1> SUFFICES ASSUME NEW n \in RecordsInScope(o)
             PROVE  n \in RecordsInScope(o)'
  OBVIOUS
<1>1. n \in DOMAIN records /\ Visible(o, Record(n))
  BY InScopeIsVisible DEF RecordsInScope
<1>2. n \in DOMAIN records' /\ Visible(o, Record(n))'
  BY <1>1, ArchivedInvStep, VisibleStays
<1> QED BY <1>2 DEF RecordsInScope, InScope, Visible

LEMMA ScopeFinite ==
  ASSUME ArchivedInv, NEW o
  PROVE  IsFiniteSet(RecordsInScope(o)) /\ RecordsInScope(o) \subseteq 1 .. MaxRecords
<1>1. DOMAIN records = 1 .. Len(records) /\ Len(records) \in Nat /\ Len(records) <= MaxRecords
  BY DEF ArchivedInv
<1>2. RecordsInScope(o) \subseteq 1 .. Len(records) /\ IsFiniteSet(1 .. Len(records))
  BY <1>1, FS_Interval DEF RecordsInScope
<1>3. 1 .. Len(records) \subseteq 1 .. MaxRecords
  BY <1>1, ArchiveAssumption
<1> QED BY <1>2, <1>3, FS_Subset

\* A walk has listed what it owes from its cursor on once, and nothing it owes
\* before.
ListedFrom(listed, owed, before) ==
  \A n \in owed : Cardinality(Listings(listed, n)) = IF n >= before THEN 1 ELSE 0

WalkInv ==
  walk.owner # Uncreated =>
    /\ walk.listed \in Seq(SUBSET Nat) /\ walk.before \in Nat
    /\ walk.owed \subseteq RecordsInScope(walk.owner)
    /\ ListedFrom(walk.listed, walk.owed, walk.before)

\* The next page of a walk.
LEMMA WalkedOn ==
  ASSUME ArchivedInv, NEW o, NEW before \in Nat \ {0}, NEW listed \in Seq(SUBSET Nat), NEW owed,
         owed \subseteq RecordsInScope(o), ListedFrom(listed, owed, before),
         NEW room \in Rooms, NEW requested \in Requests, NEW p,
         p = FittedPage(RecordsInScope(o), before, CandidateCount(room, requested), room)
  PROVE  /\ p.next \in Nat /\ Append(listed, p.shown) \in Seq(SUBSET Nat)
         /\ ListedFrom(Append(listed, p.shown), owed, p.next)
<1>1. PICK k \in Nat \ {0} : p = BrowsePage(RecordsInScope(o), before, k)
  BY CandidateCountType, FittedCount
<1>2. PICK S : S = RecordsInScope(o)
  OBVIOUS
<1>3. IsFiniteSet(S) /\ S \subseteq Nat \ {0}
  BY <1>2, ScopeFinite
<1>4. /\ p.shown \subseteq S /\ p.next \in Nat
      /\ \A n \in p.shown : n < before
      /\ p.next = 0 => \A n \in S : n < before => n \in p.shown
      /\ p.next # 0 => /\ p.next < before
                       /\ \A n \in S : n < before => (n \in p.shown <=> n >= p.next)
  BY <1>1, <1>2, <1>3, BrowseCut
<1>5. p.shown \in SUBSET Nat
  BY <1>3, <1>4
<1>6. ASSUME NEW n \in owed
      PROVE  Cardinality(Listings(Append(listed, p.shown), n)) = IF n >= p.next THEN 1 ELSE 0
  <2>1. n \in S /\ n \in Nat
    BY <1>2, <1>3
  <2>2. Cardinality(Listings(Append(listed, p.shown), n))
          = (IF n >= before THEN 1 ELSE 0) + (IF n \in p.shown THEN 1 ELSE 0)
    BY <1>5, OnePageMore DEF ListedFrom
  <2>3. n >= before => n \notin p.shown /\ n >= p.next
    BY <1>4, <2>1
  <2>4. ~(n >= before) => (n \in p.shown <=> n >= p.next)
    BY <1>4, <2>1
  <2> QED BY <2>2, <2>3, <2>4
<1> QED BY <1>4, <1>5, <1>6, OnePageMore DEF ListedFrom

LEMMA WalkInvStep ==
  ASSUME ArchivedInv, SeenInv, WalkInv, [ArchiveNext]_archiveVars
  PROVE  WalkInv'
<1>1. ASSUME NEW o, NEW room \in Rooms, NEW requested \in Requests, StartWalk(o, room, requested)
      PROVE  WalkInv'
  <2>1. PICK p, owed, before :
          /\ before = MaxRecords + 1 /\ owed = RecordsInScope(o)
          /\ p = FittedPage(RecordsInScope(o), before, CandidateCount(room, requested), room)
    OBVIOUS
  <2>2. /\ walk' = [owner |-> o, before |-> p.next, listed |-> <<p.shown>>, owed |-> owed]
        /\ MayRead(o)
    BY <1>1, <2>1, Zenon DEF StartWalk
  <2>3. \A x : Listings(<<>>, x) = {}
    BY DEF Listings
  <2>4. before \in Nat \ {0} /\ \A n \in owed : ~(n >= before)
    BY <2>1, ScopeFinite, ArchiveAssumption
  <2>5. ListedFrom(<<>>, owed, before)
    BY <2>3, <2>4, FS_EmptySet DEF ListedFrom
  <2>6. /\ p.next \in Nat /\ Append(<<>>, p.shown) \in Seq(SUBSET Nat)
        /\ ListedFrom(Append(<<>>, p.shown), owed, p.next)
    <3>1. owed \subseteq RecordsInScope(o) /\ <<>> \in Seq(SUBSET Nat)
      BY <2>1
    <3> QED BY <2>1, <2>4, <2>5, <3>1, WalkedOn, Zenon
  <2>7. Append(<<>>, p.shown) = <<p.shown>>
    OBVIOUS
  <2>8. owed \subseteq RecordsInScope(o)'
    BY <2>1, <2>2, ScopeOnlyGrows
  <2>9. /\ walk'.owner = o /\ walk'.before = p.next /\ walk'.listed = Append(<<>>, p.shown)
        /\ walk'.owed = owed
    BY <2>2, <2>7
  <2> QED BY <2>6, <2>8, <2>9 DEF WalkInv
<1>2. ASSUME NEW room \in Rooms, NEW requested \in Requests, FollowCursor(room, requested)
      PROVE  WalkInv'
  <2>1. PICK o, p, owed, before, listed :
          /\ o = walk.owner /\ before = walk.before /\ owed = walk.owed /\ listed = walk.listed
          /\ p = FittedPage(RecordsInScope(o), before, CandidateCount(room, requested), room)
    OBVIOUS
  <2>2. o # Uncreated /\ before > 0
    BY <1>2, <2>1, Zenon DEF FollowCursor
  <2>3. walk' = [walk EXCEPT !.before = p.next, !.listed = Append(@, p.shown)]
    BY <1>2, <2>1, Zenon DEF FollowCursor
  <2>4. /\ listed \in Seq(SUBSET Nat) /\ before \in Nat \ {0} /\ owed \subseteq RecordsInScope(o)
        /\ ListedFrom(listed, owed, before)
    BY <2>1, <2>2 DEF WalkInv
  <2>5. /\ p.next \in Nat /\ Append(listed, p.shown) \in Seq(SUBSET Nat)
        /\ ListedFrom(Append(listed, p.shown), owed, p.next)
    BY <2>1, <2>4, WalkedOn, Zenon
  <2>6. MayRead(o)
    BY <2>1, <2>2 DEF SeenInv
  <2>7. owed \subseteq RecordsInScope(o)'
    BY <2>4, <2>6, ScopeOnlyGrows
  <2>8. walk'.owner = o /\ walk'.before = p.next /\ walk'.listed = Append(listed, p.shown)
        /\ walk'.owed = owed
    BY <2>1, <2>3
  <2> QED BY <2>5, <2>7, <2>8 DEF WalkInv
<1>3. CASE walk' = walk
  <2>1. PICK o : o = walk.owner
    OBVIOUS
  <2>2. o # Uncreated => RecordsInScope(o) \subseteq RecordsInScope(o)'
    BY <2>1, ScopeOnlyGrows DEF SeenInv
  <2> QED BY <1>3, <2>1, <2>2 DEF WalkInv
<1>4. \A o, room, requested : SearchContext(o, room, requested) => walk' = walk
  BY ZenonT(60) DEF SearchContext
<1>5. \A o, item, offset, room, requested :
        OpenContext(o, item, offset, room, requested) => walk' = walk
  BY ZenonT(60) DEF OpenContext
<1>6. ASSUME NEW o \in Archivers,
             \/ \E t \in Texts : CreateTranscript(o, t) \/ ReuseTranscript(o, t)
             \/ WriteTranscript(o) \/ IndexTranscript(o) \/ ArchiveFails(o)
      PROVE  walk' = walk
  BY <1>6 DEF CreateTranscript, ReuseTranscript, WriteTranscript, IndexTranscript, ArchiveFails
<1>7. \A s, size, cited : AppendRecord(s, size) \/ Delegate(cited) => walk' = walk
  BY DEF AppendRecord, Delegate
<1>8. ContinueConversation \/ UNCHANGED archiveVars => walk' = walk
  BY DEF ContinueConversation, archiveVars
<1> QED BY <1>1, <1>2, <1>3, <1>4, <1>5, <1>6, <1>7, <1>8 DEF ArchiveNext

-----------------------------------------------------------------------------
(* The exact archive: pages of one record.                                 *)

\* Every set of numbers has a least one.
LEMMA LeastElement ==
  ASSUME NEW S \in SUBSET Nat, S # {}
  PROVE  \E n \in S : \A m \in S : n <= m
<1>1. PICK n \in S : \A m \in S : <<m, n>> \notin OpToRel(<, Nat)
  BY NatLessThanWellFounded, WFMin, Zenon
<1>2. \A m \in S : ~(m < n)
  BY <1>1 DEF OpToRel
<1> QED BY <1>2

LEMMA BoundariesOpen ==
  \A c : \E at :
    /\ at = CHOOSE f : f = [i \in 0 .. Len(c) |-> IF i = 0 THEN 0 ELSE f[i - 1] + c[i]]
    /\ Boundaries(c) = {at[i] : i \in 0 .. Len(c)}
BY DEF Boundaries

Bounds(most) == (1 .. most + 1) \X (0 .. most)

\* What the search answers between two bounds, with f for the rest of it.
ProbeStep(c, offset, room, f, low, high) ==
  LET middle == (low + high) \div 2
      r == BoundedOpen(c, offset, middle)
  IN IF low > high
     THEN IF low = 1 THEN Refused ELSE BoundedOpen(c, offset, low - 1)
     ELSE IF r.refused THEN Refused
     ELSE IF OpenHeader + (r.end - r.start) <= room /\ r.end > r.start THEN f[<<middle + 1, high>>]
     ELSE f[<<low, middle - 1>>]

LEMMA ProbeOpen ==
  \A c, offset, most, room :
    ReadProbe(c, offset, most, room) =
      CHOOSE f : f = [bounds \in Bounds(most) |->
                        ProbeStep(c, offset, room, f, bounds[1], bounds[2])]
BY Zenon DEF ReadProbe, ProbeStep, Bounds

\* The lengths of the prefixes of a content.
LEMMA PrefixLengths ==
  ASSUME NEW c \in Seq(Nat)
  PROVE  \E at \in [0 .. Len(c) -> Nat] :
           /\ at[0] = 0
           /\ Boundaries(c) = {at[i] : i \in 0 .. Len(c)}
<1> DEFINE Solves(f, n) == \A i \in 0 .. n : f[i] = IF i = 0 THEN 0 ELSE f[i - 1] + c[i]
           Bad == {n \in 0 .. Len(c) : ~ \E f \in [0 .. n -> Nat] : Solves(f, n)}
<1>1. Len(c) \in Nat /\ \A i \in 1 .. Len(c) : c[i] \in Nat
  OBVIOUS
<1>2. Bad = {}
  <2> SUFFICES ASSUME Bad # {}
               PROVE  FALSE
    OBVIOUS
  <2>1. Bad \in SUBSET Nat
    BY <1>1
  <2> HIDE DEF Bad
  <2>2. PICK n \in Bad : \A m \in Bad : n <= m
    BY <2>1, LeastElement
  <2>3. n \in 0 .. Len(c) /\ n \in Nat /\ ~ \E f \in [0 .. n -> Nat] : Solves(f, n)
    <3> HIDE DEF Solves
    <3>1. n \in 0 .. Len(c) /\ ~ \E f \in [0 .. n -> Nat] : Solves(f, n)
      BY DEF Bad
    <3> QED BY <1>1, <3>1
  <2>4. CASE n = 0
    <3>1. PICK g : g = [i \in 0 .. 0 |-> 0]
      OBVIOUS
    <3>2. g \in [0 .. 0 -> Nat] /\ Solves(g, 0)
      BY <3>1
    <3> QED BY <2>3, <2>4, <3>2
  <2>5. CASE n # 0
    <3>1. n - 1 \in 0 .. Len(c) /\ n - 1 \in Nat /\ ~(n <= n - 1)
      BY <1>1, <2>3, <2>5
    <3>2. n - 1 \notin Bad
      BY <2>2, <3>1
    <3>3. PICK f \in [0 .. (n - 1) -> Nat] : Solves(f, n - 1)
      BY <3>1, <3>2 DEF Bad
    <3>4. PICK g : g = [i \in 0 .. n |-> IF i = n THEN f[n - 1] + c[n] ELSE f[i]]
      OBVIOUS
    <3>5. c[n] \in Nat /\ f[n - 1] \in Nat
      BY <1>1, <2>3, <2>5, <3>1
    <3>6. g \in [0 .. n -> Nat] /\ g[n] = f[n - 1] + c[n] /\ \A i \in 0 .. (n - 1) : g[i] = f[i]
      BY <2>3, <3>1, <3>4, <3>5
    <3>7. ASSUME NEW i \in 0 .. n
          PROVE  g[i] = IF i = 0 THEN 0 ELSE g[i - 1] + c[i]
      <4>1. CASE i = n
        <5>1. n - 1 \in 0 .. (n - 1)
          BY <3>1
        <5> QED BY <2>5, <3>6, <4>1, <5>1
      <4>2. CASE i # n
        <5>1. i \in 0 .. (n - 1) /\ (i # 0 => i - 1 \in 0 .. (n - 1))
          BY <2>3, <4>2
        <5>2. f[i] = IF i = 0 THEN 0 ELSE f[i - 1] + c[i]
          BY <3>3, <5>1
        <5> QED BY <3>6, <5>1, <5>2
      <4> QED BY <4>1, <4>2
    <3>8. Solves(g, n)
      BY <3>7
    <3> QED BY <2>3, <3>6, <3>8
  <2> QED BY <2>4, <2>5
<1>3. PICK f \in [0 .. Len(c) -> Nat] : Solves(f, Len(c))
  <2>1. Len(c) \in 0 .. Len(c)
    BY <1>1
  <2> QED BY <1>2, <2>1
<1>4. f = [i \in 0 .. Len(c) |-> IF i = 0 THEN 0 ELSE f[i - 1] + c[i]]
  BY <1>3
<1>5. PICK at : /\ at = CHOOSE g : g = [i \in 0 .. Len(c) |-> IF i = 0 THEN 0 ELSE g[i - 1] + c[i]]
                /\ Boundaries(c) = {at[i] : i \in 0 .. Len(c)}
  BY BoundariesOpen
<1>6. at = [i \in 0 .. Len(c) |-> IF i = 0 THEN 0 ELSE at[i - 1] + c[i]]
  BY <1>4, <1>5
<1>7. \A i \in 0 .. Len(c) : at[i] = IF i = 0 THEN 0 ELSE at[i - 1] + c[i]
  BY <1>6
<1> DEFINE Wrong == {i \in 0 .. Len(c) : at[i] \notin Nat}
<1>8. Wrong = {}
  <2> SUFFICES ASSUME Wrong # {}
               PROVE  FALSE
    OBVIOUS
  <2>1. Wrong \in SUBSET Nat
    BY <1>1
  <2> HIDE DEF Wrong
  <2>2. PICK n \in Wrong : \A m \in Wrong : n <= m
    BY <2>1, LeastElement
  <2>3. n \in 0 .. Len(c) /\ n \in Nat /\ at[n] \notin Nat
    BY <1>1 DEF Wrong
  <2>4. n # 0
    BY <1>7, <2>3
  <2>5. n - 1 \in 0 .. Len(c) /\ ~(n <= n - 1) /\ n \in 1 .. Len(c)
    BY <1>1, <2>3, <2>4
  <2>6. n - 1 \notin Wrong
    BY <2>2, <2>5
  <2>7. at[n - 1] \in Nat
    BY <2>5, <2>6 DEF Wrong
  <2>8. at[n] = at[n - 1] + c[n] /\ c[n] \in Nat
    BY <1>1, <1>7, <2>3, <2>4, <2>5
  <2> QED BY <2>3, <2>7, <2>8
<1>9. at \in [0 .. Len(c) -> Nat]
  BY <1>6, <1>8
<1>10. at[0] = 0
  BY <1>1, <1>7
<1> QED BY <1>5, <1>9, <1>10

LEMMA BoundariesType ==
  ASSUME NEW c \in Seq(Nat)
  PROVE  /\ Boundaries(c) \subseteq Nat /\ 0 \in Boundaries(c) /\ IsFiniteSet(Boundaries(c))
         /\ Biggest(Boundaries(c)) \in Boundaries(c)
         /\ \A b \in Boundaries(c) : Biggest(Boundaries(c)) >= b
<1>1. PICK at \in [0 .. Len(c) -> Nat] : at[0] = 0 /\ Boundaries(c) = {at[i] : i \in 0 .. Len(c)}
  BY PrefixLengths
<1>2. Len(c) \in Nat
  OBVIOUS
<1>3. Boundaries(c) \subseteq Nat /\ 0 \in Boundaries(c)
  BY <1>1, <1>2
<1>4. IsFiniteSet(Boundaries(c))
  <2>1. IsFiniteSet(0 .. Len(c))
    BY <1>2, FS_Interval
  <2>2. IsFiniteSet({at[i] : i \in 0 .. Len(c)})
    BY <2>1, FS_Image
  <2> QED BY <1>1, <2>2
<1> QED BY <1>3, <1>4, BiggestOf

\* A page that starts and ends between code points, and is not empty unless it
\* is at the end.
Clean(c, r) ==
  /\ r.refused => r.end = 0
  /\ ~r.refused => /\ r.start \in Boundaries(c) /\ r.end \in Boundaries(c)
                   /\ r.end = r.start => r.end = Biggest(Boundaries(c))

LEMMA BoundedIsClean ==
  ASSUME NEW c \in Seq(Nat), NEW offset \in Nat, NEW limit \in Nat
  PROVE  Clean(c, BoundedOpen(c, offset, limit))
<1>1. PICK B : B = Boundaries(c)
  OBVIOUS
<1>2. PICK total : total = Biggest(B)
  OBVIOUS
<1>3. /\ B \subseteq Nat /\ IsFiniteSet(B) /\ total \in B /\ total \in Nat
      /\ \A b \in B : total >= b
  BY <1>1, <1>2, BoundariesType
<1>4. PICK hard : hard = IF limit > 0 /\ limit < total - offset THEN offset + limit ELSE total
  OBVIOUS
<1>5. PICK end : end = Biggest({b \in B : b <= hard})
  OBVIOUS
<1>6. BoundedOpen(c, offset, limit) =
        IF offset \notin B \/ (end = offset /\ offset < total) THEN Refused
        ELSE [start |-> offset, end |-> end, refused |-> FALSE]
  BY <1>1, <1>2, <1>4, <1>5, Zenon DEF BoundedOpen
<1>7. Refused.refused = TRUE /\ Refused.end = 0
  BY DEF Refused
<1>8. CASE offset \notin B \/ (end = offset /\ offset < total)
  BY <1>6, <1>7, <1>8 DEF Clean
<1>9. CASE offset \in B /\ ~(end = offset /\ offset < total)
  <2>1. offset <= hard
    BY <1>3, <1>4, <1>9
  <2>2. IsFiniteSet({b \in B : b <= hard}) /\ {b \in B : b <= hard} # {}
    BY <1>3, <1>9, <2>1, FS_Subset
  <2>3. {b \in B : b <= hard} \subseteq Nat
    BY <1>3
  <2>4. end \in {b \in B : b <= hard}
    BY <1>5, <2>2, <2>3, BiggestOf
  <2>5. end = offset => end = total
    BY <1>3, <1>9
  <2>6. PICK r : r = BoundedOpen(c, offset, limit)
    OBVIOUS
  <2>7. r.start = offset /\ r.end = end /\ r.refused = FALSE
    BY <1>6, <1>9, <2>6
  <2> QED BY <1>1, <1>2, <1>9, <2>4, <2>5, <2>6, <2>7 DEF Clean
<1> QED BY <1>8, <1>9

\* The bounds the search may still narrow n times.
Narrow(most, n) == {b \in Bounds(most) : b[2] < b[1] + n}

\* The rest of a search starts from narrower bounds.
LEMMA ProbeNarrows ==
  ASSUME NEW most \in Nat, NEW n \in Nat, NEW b \in Narrow(most, n), b[1] <= b[2],
         NEW middle, middle = (b[1] + b[2]) \div 2
  PROVE  /\ n > 0 /\ <<middle + 1, b[2]>> \in Narrow(most, n - 1)
         /\ <<b[1], middle - 1>> \in Narrow(most, n - 1)
<1>1. PICK low \in 1 .. most + 1, high \in 0 .. most : b = <<low, high>>
  BY DEF Narrow, Bounds
<1>2. low <= high /\ high < low + n /\ middle = (low + high) \div 2
  BY <1>1 DEF Narrow
<1>3. middle \in Nat /\ low <= middle /\ middle <= high
  BY <1>1, <1>2
<1>4. n > 0 /\ middle + 1 \in 1 .. most + 1 /\ middle - 1 \in 0 .. most
  BY <1>1, <1>2, <1>3
<1>5. high < (middle + 1) + (n - 1) /\ middle - 1 < low + (n - 1)
  BY <1>1, <1>2, <1>3
<1> QED BY <1>1, <1>4, <1>5 DEF Narrow, Bounds

Agree(f, g, most, n) == n > 0 => \A d \in Narrow(most, n - 1) : f[d] = g[d]

LEMMA ProbeLocal ==
  ASSUME NEW most \in Nat, NEW n \in Nat, NEW f, NEW g, Agree(f, g, most, n),
         NEW b \in Narrow(most, n)
  PROVE  \A c, offset, room :
           ProbeStep(c, offset, room, f, b[1], b[2]) = ProbeStep(c, offset, room, g, b[1], b[2])
<1>1. PICK middle : middle = (b[1] + b[2]) \div 2
  OBVIOUS
<1>2. CASE b[1] > b[2]
  BY <1>2 DEF ProbeStep
<1>3. CASE ~(b[1] > b[2])
  <2>1. b[1] <= b[2]
    BY <1>3 DEF Narrow, Bounds
  <2>2. f[<<middle + 1, b[2]>>] = g[<<middle + 1, b[2]>>] /\ f[<<b[1], middle - 1>>] = g[<<b[1], middle - 1>>]
    BY <1>1, <2>1, ProbeNarrows DEF Agree
  <2> QED BY <1>1, <2>2 DEF ProbeStep
<1> QED BY <1>2, <1>3

\* The search is what its definition says.
LEMMA ProbeValue ==
  ASSUME NEW c, NEW offset, NEW room, NEW most \in Nat
  PROVE  \A b \in Bounds(most) : ReadProbe(c, offset, most, room)[b] =
           ProbeStep(c, offset, room, ReadProbe(c, offset, most, room), b[1], b[2])
<1> DEFINE Step(f, b) == ProbeStep(c, offset, room, f, b[1], b[2])
           Solves(f, n) == \A b \in Narrow(most, n) : f[b] = Step(f, b)
           Bad == {n \in Nat : ~ \E f : Solves(f, n)}
<1> HIDE DEF Step
<1>1. Bad = {}
  <2> SUFFICES ASSUME Bad # {}
               PROVE  FALSE
    OBVIOUS
  <2>1. Bad \in SUBSET Nat
    OBVIOUS
  <2> HIDE DEF Bad
  <2>2. PICK n \in Bad : \A m \in Bad : n <= m
    BY <2>1, LeastElement
  <2>3. n \in Nat /\ ~ \E f : Solves(f, n)
    BY DEF Bad
  <2>4. PICK f : n > 0 => Solves(f, n - 1)
    <3>1. n > 0 => n - 1 \in Nat /\ ~(n <= n - 1)
      BY <2>3
    <3>2. n > 0 => n - 1 \notin Bad
      BY <2>2, <3>1
    <3> QED BY <3>1, <3>2 DEF Bad
  <2>5. PICK g : g = [b \in Narrow(most, n) |-> Step(f, b)]
    OBVIOUS
  <2>6. n > 0 => Narrow(most, n - 1) \subseteq Narrow(most, n)
    BY <2>3 DEF Narrow, Bounds
  <2>7. Agree(f, g, most, n)
    BY <2>4, <2>5, <2>6 DEF Agree
  <2>8. \A b \in Narrow(most, n) : Step(f, b) = Step(g, b)
    <3> SUFFICES ASSUME NEW b \in Narrow(most, n)
                 PROVE  Step(f, b) = Step(g, b)
      OBVIOUS
    <3>1. n \in Nat
      BY <2>3
    <3> HIDE <2>3
    <3>2. \A c_, o_, r_ : ProbeStep(c_, o_, r_, f, b[1], b[2]) = ProbeStep(c_, o_, r_, g, b[1], b[2])
      BY <2>7, <3>1, ProbeLocal
    <3> QED BY <3>2 DEF Step
  <2>9. Solves(g, n)
    BY <2>5, <2>8
  <2> QED BY <2>3, <2>9
<1>2. Narrow(most, most + 1) = Bounds(most)
  BY DEF Narrow, Bounds
<1>3. PICK f : Solves(f, most + 1)
  BY <1>1
<1>4. PICK g : g = [b \in Bounds(most) |-> f[b]]
  OBVIOUS
<1>5. \A b \in Bounds(most) : Step(f, b) = Step(g, b)
  <2>1. \A d \in Narrow(most, most) : d \in Bounds(most)
    BY DEF Narrow
  <2>2. most + 1 \in Nat /\ (most + 1) - 1 = most
    OBVIOUS
  <2>3. Agree(f, g, most, most + 1)
    BY <1>4, <2>1, <2>2 DEF Agree
  <2>4. \A b \in Narrow(most, most + 1) : Step(f, b) = Step(g, b)
    <3> SUFFICES ASSUME NEW b \in Narrow(most, most + 1)
                 PROVE  Step(f, b) = Step(g, b)
      OBVIOUS
    <3>1. \A c_, o_, r_ : ProbeStep(c_, o_, r_, f, b[1], b[2]) = ProbeStep(c_, o_, r_, g, b[1], b[2])
      BY <2>2, <2>3, ProbeLocal
    <3> QED BY <3>1 DEF Step
  <2> QED BY <1>2, <2>4
<1>6. g = [b \in Bounds(most) |-> Step(g, b)]
  BY <1>2, <1>3, <1>4, <1>5
<1>7. PICK p : p = ReadProbe(c, offset, most, room)
  OBVIOUS
<1>8. p = CHOOSE h : h = [b \in Bounds(most) |-> Step(h, b)]
  BY <1>7, ProbeOpen DEF Step
<1>9. p = [b \in Bounds(most) |-> Step(p, b)]
  BY <1>6, <1>8
<1>10. \A b \in Bounds(most) : p[b] = Step(p, b)
  BY <1>9
<1> QED BY <1>7, <1>10 DEF Step

LEMMA ProbeIsClean ==
  ASSUME NEW c \in Seq(Nat), NEW offset \in Nat, NEW room, NEW most \in Nat
  PROVE  \A b \in Bounds(most) : Clean(c, ReadProbe(c, offset, most, room)[b])
<1> DEFINE p == ReadProbe(c, offset, most, room)
           Bad == {n \in Nat : \E b \in Narrow(most, n) : ~Clean(c, p[b])}
<1>1. \A b \in Bounds(most) : p[b] = ProbeStep(c, offset, room, p, b[1], b[2])
  BY ProbeValue
<1>2. Clean(c, Refused)
  BY DEF Clean, Refused
<1> HIDE DEF p
<1>3. Bad = {}
  <2> SUFFICES ASSUME Bad # {}
               PROVE  FALSE
    OBVIOUS
  <2>1. Bad \in SUBSET Nat
    OBVIOUS
  <2> HIDE DEF Bad
  <2>2. PICK n \in Bad : \A m \in Bad : n <= m
    BY <2>1, LeastElement
  <2>3. n \in Nat
    BY <2>1
  <2>4. PICK b \in Narrow(most, n) : ~Clean(c, p[b])
    BY DEF Bad
  <2>5. PICK middle : middle = (b[1] + b[2]) \div 2
    OBVIOUS
  <2>6. /\ b[1] \in 1 .. most + 1 /\ b[2] \in 0 .. most
        /\ p[b] = ProbeStep(c, offset, room, p, b[1], b[2])
    BY <1>1 DEF Narrow, Bounds
  <2>7. CASE b[1] > b[2]
    <3>1. p[b] = IF b[1] = 1 THEN Refused ELSE BoundedOpen(c, offset, b[1] - 1)
      BY <2>6, <2>7 DEF ProbeStep
    <3>2. b[1] - 1 \in Nat
      BY <2>6
    <3>3. Clean(c, BoundedOpen(c, offset, b[1] - 1))
      BY <3>2, BoundedIsClean
    <3> QED BY <1>2, <2>4, <3>1, <3>3
  <2>8. CASE b[1] <= b[2]
    <3>1. /\ n > 0 /\ <<middle + 1, b[2]>> \in Narrow(most, n - 1)
          /\ <<b[1], middle - 1>> \in Narrow(most, n - 1)
      BY <2>3, <2>5, <2>8, ProbeNarrows
    <3>2. n - 1 \in Nat /\ ~(n <= n - 1)
      BY <2>3, <3>1
    <3>3. n - 1 \notin Bad
      BY <2>2, <3>2
    <3>4. Clean(c, p[<<middle + 1, b[2]>>]) /\ Clean(c, p[<<b[1], middle - 1>>])
      BY <3>1, <3>2, <3>3 DEF Bad
    <3>5. ~(b[1] > b[2])
      BY <2>6, <2>8
    <3>6. p[b] \in {Refused, p[<<middle + 1, b[2]>>], p[<<b[1], middle - 1>>]}
      BY <2>5, <2>6, <3>5 DEF ProbeStep
    <3> QED BY <1>2, <2>4, <3>4, <3>6
  <2> QED BY <2>6, <2>7, <2>8
<1>4. \A b \in Bounds(most) : b \in Narrow(most, most + 1)
  BY DEF Narrow, Bounds
<1>5. \A b \in Bounds(most) : Clean(c, p[b])
  BY <1>3, <1>4
<1> QED BY <1>5 DEF p

LEMMA OpenIsClean ==
  ASSUME NEW offset \in Nat, NEW requested \in Requests, NEW room \in Rooms
  PROVE  Clean(Content, OpenForModel(Content, offset, requested, room))
<1>1. Content \in Seq(Nat) /\ requested \in Nat /\ room \in Nat
  BY ArchiveAssumption
<1>2. PICK most : most = IF room > 0 /\ (requested = 0 \/ requested > room) THEN room ELSE requested
  OBVIOUS
<1>3. most \in Nat
  BY <1>1, <1>2
<1>4. Clean(Content, BoundedOpen(Content, offset, most))
  BY <1>1, <1>3, BoundedIsClean
<1>5. \/ OpenForModel(Content, offset, requested, room) = BoundedOpen(Content, offset, most)
      \/ /\ room # 0
         /\ OpenForModel(Content, offset, requested, room)
              = ReadProbe(Content, offset, most, room)[<<1, most>>]
  BY <1>2, Zenon DEF OpenForModel
<1>6. <<1, most>> \in Bounds(most)
  BY <1>3 DEF Bounds
<1>7. Clean(Content, ReadProbe(Content, offset, most, room)[<<1, most>>])
  BY <1>1, <1>3, <1>6, ProbeIsClean
<1> QED BY <1>4, <1>5, <1>7

\* The last answer of context_open.
PageInv == PagesEndBetweenCodePoints

LEMMA PageInvStep ==
  ASSUME PageInv, [ArchiveNext]_archiveVars
  PROVE  PageInv'
<1>1. Content \in Seq(Nat) /\ Biggest(Boundaries(Content)) \in Nat
  <2>1. Content \in Seq(Nat)
    BY ArchiveAssumption
  <2> QED BY <2>1, BoundariesType
<1>2. ASSUME NEW o, NEW item, NEW offset \in 0 .. Biggest(Boundaries(Content)),
             NEW room \in Rooms, NEW requested \in Requests,
             OpenContext(o, item, offset, room, requested)
      PROVE  PageInv'
  <2>1. PICK p : p = OpenForModel(Content, offset, requested, room)
    OBVIOUS
  <2>2. page' = [start |-> p.start, end |-> p.end, refused |-> p.refused, room |-> room]
    BY <1>2, <2>1, ZenonT(60) DEF OpenContext
  <2>3. offset \in Nat
    BY <1>1
  <2>4. Clean(Content, p)
    BY <2>1, <2>3, OpenIsClean
  <2>5. page'.start = p.start /\ page'.end = p.end /\ page'.refused = p.refused
    BY <2>2
  <2> QED BY <2>4, <2>5 DEF PageInv, PagesEndBetweenCodePoints, Clean
<1>3. CASE page' = page
  BY <1>3 DEF PageInv, PagesEndBetweenCodePoints
<1>4. \A o, room, requested : SearchContext(o, room, requested) => page' = page
  BY ZenonT(60) DEF SearchContext
<1>5. \A o, room, requested : StartWalk(o, room, requested) => page' = page
  BY Zenon DEF StartWalk
<1>6. \A room, requested : FollowCursor(room, requested) => page' = page
  BY Zenon DEF FollowCursor
<1>7. ASSUME NEW o \in Archivers,
             \/ \E t \in Texts : CreateTranscript(o, t) \/ ReuseTranscript(o, t)
             \/ WriteTranscript(o) \/ IndexTranscript(o) \/ ArchiveFails(o)
      PROVE  page' = page
  BY <1>7 DEF CreateTranscript, ReuseTranscript, WriteTranscript, IndexTranscript, ArchiveFails
<1>8. \A s, size, cited : AppendRecord(s, size) \/ Delegate(cited) => page' = page
  BY DEF AppendRecord, Delegate
<1>9. ContinueConversation \/ UNCHANGED archiveVars => page' = page
  BY DEF ContinueConversation, archiveVars
<1> QED BY <1>2, <1>3, <1>4, <1>5, <1>6, <1>7, <1>8, <1>9 DEF ArchiveNext

ArchiveInv == ArchivedInv /\ SeenInv /\ WalkInv /\ PageInv

LEMMA ArchiveInvInit == ArchiveInit => ArchiveInv
<1> SUFFICES ASSUME ArchiveInit
             PROVE  ArchiveInv
  OBVIOUS
<1>1. WalkInv
  BY DEF ArchiveInit, NoWalk, WalkInv
<1>2. Content \in Seq(Nat)
  BY ArchiveAssumption
<1>3. PageInv
  BY <1>2, BoundariesType DEF ArchiveInit, NoPage, PageInv, PagesEndBetweenCodePoints
<1> QED BY <1>1, <1>3, ArchivedInvInit, SeenInvInit DEF ArchiveInv

LEMMA ArchiveInvImplies == ArchiveInv => ExactSourcesAreReachable
<1> SUFFICES ASSUME ArchiveInv
             PROVE  ExactSourcesAreReachable
  OBVIOUS
<1>1. WalkListsEachOnce
  <2> SUFFICES ASSUME walk.owner # Uncreated, walk.before = 0, NEW n \in walk.owed
               PROVE  Cardinality({i \in DOMAIN walk.listed : n \in walk.listed[i]}) = 1
    BY DEF WalkListsEachOnce
  <2>1. n \in Nat
    BY ScopeFinite DEF ArchiveInv, WalkInv
  <2>2. Cardinality(Listings(walk.listed, n)) = 1
    BY <2>1 DEF ArchiveInv, WalkInv, ListedFrom
  <2> QED BY <2>2 DEF Listings
<1>2. ReferencesAreWhole
  BY DEF ArchiveInv, ArchivedInv, ReferencesAreWhole
<1> QED BY <1>1, <1>2 DEF ArchiveInv, PageInv, ExactSourcesAreReachable

\* What was archived can be read again in full, whatever is appended and
\* archived meanwhile, whatever fails, and however little room an answer has:
\* a walk that follows next_cursor lists what was in scope once, a page of a
\* record ends between code points and is not empty before its end, and a
\* reference names a transcript that is whole and indexed
\* (internal/tooling/tools.go, internal/store/context.go and
\* context_artifact.go).
THEOREM ExactSourcesAreReachableCorrect == ArchiveSpec => []ExactSourcesAreReachable
<1>1. ArchiveInit => ArchiveInv
  BY ArchiveInvInit
<1>2. ArchiveInv /\ [ArchiveNext]_archiveVars => ArchiveInv'
  BY ArchivedInvStep, SeenInvStep, WalkInvStep, PageInvStep DEF ArchiveInv
<1>3. ArchiveInv => ExactSourcesAreReachable
  BY ArchiveInvImplies
<1> QED BY <1>1, <1>2, <1>3, PTL DEF ArchiveSpec

-----------------------------------------------------------------------------
(* The rows, the calls and the counters keep within their bounds.           *)

BoundedRows == [conversation : Ids, title : 0 .. MaxRenames, status : Statuses,
                updated : 1 .. MaxClock]

\* What a call carries to its row is within the bounds of a row.
CarriedOK(call) ==
  /\ call.pc = "insert" => call.conversation \in Ids /\ call.title \in 0 .. MaxRenames
                           /\ call.at \in 1 .. MaxClock
  /\ call.pc = "start" => call.id \in Ids

BoundsInv ==
  /\ RowsInv
  /\ clock \in 1 .. MaxClock /\ allocated \in 0 .. MaxTurns /\ renames \in 0 .. MaxRenames
  /\ \A s \in DOMAIN sessions : sessions[s] \in BoundedRows
  /\ engines \in [EngineProcesses -> SUBSET Ids]
  /\ \A p \in EngineProcesses : CarriedOK(calls[p])
  /\ promptPin.count \in 0 .. MaxTurns

LEMMA BoundsInvInit == ConversationInit => BoundsInv
<1> SUFFICES ASSUME ConversationInit
             PROVE  BoundsInv
  OBVIOUS
<1>1. RowsInv
  BY ReadersInvInit DEF ReadersInv
<1>2. \A p \in EngineProcesses : CarriedOK(calls[p])
  BY DEF ConversationInit, NoCall, CarriedOK
<1>3. DOMAIN sessions = {} /\ promptPin.count = 0
  BY DEF ConversationInit, NoPin
<1>4. engines \in [EngineProcesses -> SUBSET Ids]
  BY DEF ConversationInit
<1> QED BY <1>1, <1>2, <1>3, <1>4, ConversationBounds DEF ConversationInit, BoundsInv

\* A step of a call that leaves the rows and the counters alone.
LEMMA BoundedCall ==
  ASSUME BoundsInv, RowsInv', NEW p \in EngineProcesses, NEW call, CarriedOK(call),
         calls' = [calls EXCEPT ![p] = call], engines' \in [EngineProcesses -> SUBSET Ids],
         allocated' \in 0 .. MaxTurns, UNCHANGED <<sessions, clock, renames, promptPin>>
  PROVE  BoundsInv'
<1>1. /\ calls'[p] = call /\ \A q \in EngineProcesses : q # p => calls'[q] = calls[q]
  BY DEF BoundsInv, RowsInv
<1>2. \A q \in EngineProcesses : CarriedOK(calls'[q])
  BY <1>1 DEF BoundsInv
<1>3. CarriedOK(calls[p])' <=> CarriedOK(calls'[p])
  BY DEF CarriedOK
<1>4. \A q \in EngineProcesses : CarriedOK(calls[q])'
  BY <1>2 DEF CarriedOK
<1> QED BY <1>4 DEF BoundsInv

\* A step that changes rows and no call.
LEMMA BoundedRowsStep ==
  ASSUME BoundsInv, RowsInv', \A s \in DOMAIN sessions' : sessions'[s] \in BoundedRows,
         clock' \in 1 .. MaxClock, renames' \in 0 .. MaxRenames,
         UNCHANGED <<allocated, calls, engines, promptPin>>
  PROVE  BoundsInv'
<1>1. \A q \in EngineProcesses : CarriedOK(calls[q])'
  BY DEF BoundsInv, CarriedOK
<1> QED BY <1>1 DEF BoundsInv, BoundedRows, Ids

LEMMA AllocateBounded ==
  ASSUME BoundsInv, RowsInv', NEW p \in EngineProcesses, NEW conversation \in {0} \union Ids,
         NEW title \in 0 .. MaxRenames, Allocate(p, conversation, title),
         UNCHANGED <<sessions, clock, renames, engines, promptPin>>
  PROVE  BoundsInv'
<1>1. PICK kept : kept = IF conversation = 0 THEN allocated + 1 ELSE conversation
  OBVIOUS
<1>2. PICK call : call = [NoCall EXCEPT !.pc = "insert", !.id = allocated + 1,
                            !.conversation = kept, !.title = title, !.at = clock]
  OBVIOUS
<1>3. /\ allocated' = allocated + 1 /\ allocated < MaxTurns
      /\ calls' = [calls EXCEPT ![p] = call]
  BY <1>1, <1>2 DEF Allocate, Calls
<1>4. kept \in Ids /\ allocated' \in 0 .. MaxTurns
  BY <1>1, <1>3, ConversationBounds DEF BoundsInv, Ids
<1>5. /\ call.pc = "insert" /\ call.conversation = kept /\ call.title = title /\ call.at = clock
  BY <1>2 DEF NoCall
<1>6. CarriedOK(call)
  BY <1>4, <1>5 DEF CarriedOK, BoundsInv
<1> QED BY <1>3, <1>4, <1>6, BoundedCall DEF BoundsInv

LEMMA InsertBounded ==
  ASSUME BoundsInv, RowsInv', NEW p \in EngineProcesses, InsertSession(p)
  PROVE  BoundsInv'
<1>1. PICK call : call = calls[p]
  OBVIOUS
<1>2. PICK row : row = [conversation |-> call.conversation, title |-> call.title,
                        status |-> "running", updated |-> call.at]
  OBVIOUS
<1>3. PICK done : done = [call EXCEPT !.pc = "start"]
  OBVIOUS
<1>4. /\ call.pc = "insert" /\ call \in ArchiveCallRecords /\ CarriedOK(call) /\ call.id \in 1 .. allocated
      /\ sessions' = [s \in DOMAIN sessions \union {call.id} |->
                        IF s = call.id THEN row ELSE sessions[s]]
      /\ calls' = [calls EXCEPT ![p] = done]
      /\ UNCHANGED <<clock, allocated, renames, engines, promptPin>>
  BY <1>1, <1>2, <1>3, Zenon DEF InsertSession, Calls, BoundsInv, RowsInv, readers
<1>5. row \in BoundedRows
  BY <1>2, <1>4 DEF BoundedRows, CarriedOK, Statuses
<1>6. done.pc = "start" /\ done.id = call.id /\ call.id \in Ids
  BY <1>3, <1>4, ConversationBounds DEF ArchiveCallRecords, BoundsInv, Ids
<1>7. CarriedOK(done)
  BY <1>6 DEF CarriedOK
<1>8. \A s \in DOMAIN sessions' : sessions'[s] \in BoundedRows
  BY <1>4, <1>5 DEF BoundsInv
<1>9. /\ calls'[p] = done /\ \A q \in EngineProcesses : q # p => calls'[q] = calls[q]
  BY <1>4 DEF BoundsInv, RowsInv
<1>10. \A q \in EngineProcesses : CarriedOK(calls[q])'
  BY <1>7, <1>9 DEF BoundsInv, CarriedOK
<1> QED BY <1>4, <1>8, <1>10 DEF BoundsInv, BoundedRows, Ids

LEMMA PinBounded ==
  ASSUME BoundsInv, PinPrompts
  PROVE  promptPin'.count \in 0 .. MaxTurns
<1>1. promptPin'.count = Cardinality(DOMAIN sessions)
  BY DEF PinPrompts
<1>2. IsFiniteSet(1 .. allocated) /\ Cardinality(1 .. allocated) = allocated
  <2>1. PICK n \in Nat : n = allocated
    BY DEF BoundsInv, RowsInv
  <2>2. n \in Int /\ 1 \in Int
    OBVIOUS
  <2>3. /\ IsFiniteSet(1 .. n)
        /\ Cardinality(1 .. n) = IF 1 > n THEN 0 ELSE n - 1 + 1
    BY <2>2, FS_Interval, Zenon
  <2> QED BY <2>1, <2>3
<1>3. /\ IsFiniteSet(DOMAIN sessions) /\ Cardinality(DOMAIN sessions) <= allocated
      /\ Cardinality(DOMAIN sessions) \in Nat
  BY <1>2, FS_Subset, FS_CardinalityType DEF BoundsInv, RowsInv
<1> QED BY <1>1, <1>3, ConversationBounds DEF BoundsInv

LEMMA BoundsInvStep ==
  ASSUME BoundsInv, [ConversationNext]_convVars
  PROVE  BoundsInv'
<1>0. RowsInv'
  BY RowsInvStep DEF BoundsInv
<1>1. CASE UNCHANGED <<sessions, clock, allocated, renames, calls, engines>>
           /\ promptPin'.count \in 0 .. MaxTurns
  <2>1. \A q \in EngineProcesses : CarriedOK(calls[q])'
    BY <1>1 DEF BoundsInv, CarriedOK
  <2> QED BY <1>0, <1>1, <2>1 DEF BoundsInv, BoundedRows, Ids
<1>2. CASE Tick
  <2>1. clock' \in 1 .. MaxClock /\ UNCHANGED <<sessions, allocated, renames, calls, engines, promptPin>>
    BY <1>2, ConversationBounds DEF Tick, BoundsInv, readers
  <2> QED BY <1>0, <2>1, BoundedRowsStep DEF BoundsInv
<1>3. ASSUME NEW p \in EngineProcesses, StartSession(p)
      PROVE  BoundsInv'
  <2>1. /\ Allocate(p, 0, 0) /\ 0 \in {0} \union Ids /\ 0 \in 0 .. MaxRenames
        /\ UNCHANGED <<sessions, clock, renames, engines, promptPin>>
    BY <1>3, ConversationBounds DEF StartSession, readers
  <2> QED BY <1>0, <2>1, AllocateBounded, Zenon
<1>4. ASSUME NEW p \in EngineProcesses, ContinueSession(p)
      PROVE  BoundsInv'
  <2>1. calls[p].previous \in DOMAIN sessions
    BY <1>4 DEF ContinueSession, BoundsInv, RowsInv
  <2>2. PICK conversation, title : conversation = sessions[calls[p].previous].conversation
                                   /\ title = sessions[calls[p].previous].title
    OBVIOUS
  <2>3. conversation \in {0} \union Ids /\ title \in 0 .. MaxRenames
    BY <2>1, <2>2 DEF BoundsInv, BoundedRows
  <2>4. Allocate(p, conversation, title) /\ UNCHANGED <<sessions, clock, renames, engines, promptPin>>
    BY <1>4, <2>2 DEF ContinueSession, readers
  <2> QED BY <1>0, <2>3, <2>4, AllocateBounded, Zenon
<1>5. ASSUME NEW p \in EngineProcesses, NEW s \in DOMAIN sessions,
             CheckPrevious(p, s) \/ ResumeSession(p, s)
      PROVE  BoundsInv'
  <2>1. PICK call : call = IF CheckPrevious(p, s) THEN [NoCall EXCEPT !.pc = "checked", !.previous = s]
                           ELSE [NoCall EXCEPT !.pc = "start", !.id = s]
    OBVIOUS
  <2>2. s \in Ids
    BY ConversationBounds DEF BoundsInv, RowsInv, Ids
  <2>3. CarriedOK(call)
    BY <2>1, <2>2 DEF NoCall, CarriedOK
  <2>4. /\ calls' = [calls EXCEPT ![p] = call]
        /\ UNCHANGED <<sessions, clock, allocated, renames, engines, promptPin>>
    BY <1>5, <2>1 DEF CheckPrevious, ResumeSession, Calls, readers
  <2> QED BY <1>0, <2>3, <2>4, BoundedCall DEF BoundsInv
<1>6. ASSUME NEW p \in EngineProcesses, StartRun(p) \/ CallFails(p) \/ EngineDies(p)
      PROVE  BoundsInv'
  <2>1. CarriedOK(NoCall)
    BY DEF NoCall, CarriedOK
  <2>2. /\ calls' = [calls EXCEPT ![p] = NoCall]
        /\ UNCHANGED <<sessions, clock, allocated, renames, promptPin>>
    BY <1>6 DEF StartRun, CallFails, EngineDies, Calls, readers
  <2>3. engines' \in [EngineProcesses -> SUBSET Ids]
    BY <1>6 DEF StartRun, CallFails, EngineDies, BoundsInv, CarriedOK
  <2> QED BY <2>1, <1>0, <2>2, <2>3, BoundedCall DEF BoundsInv
<1>7. ASSUME NEW p \in EngineProcesses, NEW s \in DOMAIN sessions,
             RunReturns(p, s)
      PROVE  BoundsInv'
  <2>1. /\ engines' = [engines EXCEPT ![p] = @ \ {s}]
        /\ UNCHANGED <<sessions, clock, allocated, renames, calls, promptPin>>
    BY <1>7 DEF RunReturns, readers
  <2>2. engines' \in [EngineProcesses -> SUBSET Ids]
    BY <2>1 DEF BoundsInv
  <2>3. \A q \in EngineProcesses : CarriedOK(calls[q])'
    BY <2>1 DEF BoundsInv, CarriedOK
  <2> QED BY <1>0, <2>1, <2>2, <2>3 DEF BoundsInv, BoundedRows, Ids
<1>8. ASSUME NEW p \in EngineProcesses, NEW s \in DOMAIN sessions, NEW status \in Statuses,
             SessionEvent(p, s, status) \/ CancelElsewhere(p, s)
      PROVE  BoundsInv'
  <2>1. /\ DOMAIN sessions' = DOMAIN sessions
        /\ \A t \in DOMAIN sessions : sessions'[t] \in BoundedRows
        /\ UNCHANGED <<clock, allocated, renames, calls, engines, promptPin>>
    BY <1>8 DEF SessionEvent, CancelElsewhere, BoundsInv, BoundedRows, Statuses, readers
  <2> QED BY <1>0, <2>1, BoundedRowsStep DEF BoundsInv
<1>9. ASSUME NEW s \in DOMAIN sessions, RenameSession(s)
      PROVE  BoundsInv'
  <2> DEFINE renamed(t) == [sessions[t] EXCEPT !.title = renames + 1, !.updated = clock]
  <2>1. /\ renames' = renames + 1 /\ renames' \in 0 .. MaxRenames
        /\ UNCHANGED <<clock, allocated, calls, engines, promptPin>>
    <3>1. /\ renames' = renames + 1 /\ renames < MaxRenames
          /\ UNCHANGED <<clock, allocated, calls, engines, promptPin>>
      BY <1>9, Zenon DEF RenameSession, readers
    <3> QED BY <3>1, ConversationBounds DEF BoundsInv
  <2>2. ASSUME NEW t \in DOMAIN sessions
        PROVE  renamed(t) \in BoundedRows
    <3>1. sessions[t] \in BoundedRows /\ renames + 1 \in 0 .. MaxRenames /\ clock \in 1 .. MaxClock
      BY <2>1 DEF BoundsInv
    <3> QED BY <3>1 DEF BoundedRows
  <2>3. sessions' = [t \in DOMAIN sessions |->
                       IF sessions[t].conversation = sessions[s].conversation
                         THEN renamed(t) ELSE sessions[t]]
    BY <1>9 DEF RenameSession
  <2> HIDE DEF renamed
  <2>4. \A t \in DOMAIN sessions' : sessions'[t] \in BoundedRows
    BY <2>2, <2>3 DEF BoundsInv
  <2> QED BY <1>0, <2>1, <2>4, BoundedRowsStep DEF BoundsInv
<1>10. ASSUME NEW p \in EngineProcesses, InsertSession(p)
       PROVE  BoundsInv'
  BY <1>0, <1>10, InsertBounded
<1>11. CASE OpenPicker \/ NextSessions \/ PromptPicker \/ UNCHANGED convVars
  <2>1. UNCHANGED <<sessions, clock, allocated, renames, calls, engines, promptPin>>
    BY <1>11 DEF OpenPicker, NextSessions, PromptPicker, convVars
  <2> QED BY <1>1, <2>1 DEF BoundsInv
<1>12. CASE PinPrompts
  <2>1. UNCHANGED <<sessions, clock, allocated, renames, calls, engines>>
    BY <1>12 DEF PinPrompts
  <2> QED BY <1>1, <1>12, <2>1, PinBounded
<1>13. CASE ConversationNext
  <2>1. "running" \in Statuses
    BY DEF Statuses
  <2>2. ASSUME NEW p \in EngineProcesses, NEW s \in DOMAIN sessions,
               \/ CheckPrevious(p, s) \/ ResumeSession(p, s)
               \/ RunReturns(p, s) \/ CancelElsewhere(p, s)
               \/ \E status \in Statuses : SessionEvent(p, s, status)
        PROVE  BoundsInv'
    BY <1>5, <1>7, <1>8, <2>1, <2>2
  <2>3. ASSUME NEW p \in EngineProcesses,
               \/ StartSession(p) \/ ContinueSession(p) \/ InsertSession(p)
               \/ StartRun(p) \/ CallFails(p) \/ EngineDies(p)
        PROVE  BoundsInv'
    BY <1>3, <1>4, <1>6, <1>10, <2>3
  <2> QED BY <1>2, <1>9, <1>11, <1>12, <1>13, <2>2, <2>3, Zenon DEF ConversationNext
<1> QED BY <1>11, <1>13

\* Sessions, conversations and titles stay within what was handed out, and an
\* engine runs only sessions that exist: the type of the sessions table and of
\* the engines that work on it.
THEOREM ConversationTypeCorrect == ConversationSpec => []ConversationTypeOK
<1>1. BoundsInv => ConversationTypeOK
  <2> SUFFICES ASSUME BoundsInv
               PROVE  ConversationTypeOK
    OBVIOUS
  <2>1. DOMAIN sessions \subseteq Ids
    BY ConversationBounds DEF BoundsInv, RowsInv, Ids
  <2>2. \A p \in EngineProcesses : calls[p].pc \in {"idle", "checked", "insert", "start"}
    BY DEF BoundsInv, RowsInv, ArchiveCallRecords
  <2> QED BY <2>1, <2>2 DEF BoundsInv, BoundedRows, ConversationTypeOK
<1> QED BY <1>1, BoundsInvInit, BoundsInvStep, PTL DEF ConversationSpec

-----------------------------------------------------------------------------
(* What the archive and its readers hold.                                   *)

ArchiverRecords ==
  [pc : {"rest", "write", "index", "done"}, text : Texts \union {Uncreated}]

\* Beside what the archive holds: grants cite items, a reader was shown items,
\* and its cursor and its last page stay within the archive.
HoldingsInv ==
  /\ grants \in [made : BOOLEAN, cited : SUBSET Items]
  /\ files \in [Archivers \X Texts -> {"absent", "partial", "whole"}]
  /\ archivers \in [Archivers -> ArchiverRecords]
  /\ seen \subseteq (Owners \X Items)
  /\ walk.owner \in Owners \union {Uncreated} /\ walk.before \in 0 .. MaxRecords + 1
  /\ page.end \in 0 .. Biggest(Boundaries(Content))
  /\ reads \in 0 .. MaxReads

LEMMA ContentEnds == Biggest(Boundaries(Content)) \in Nat
<1>1. Content \in Seq(Nat)
  BY ArchiveAssumption
<1> QED BY <1>1, BoundariesType

LEMMA HoldingsInit == ArchiveInit => HoldingsInv
<1> SUFFICES ASSUME ArchiveInit
             PROVE  HoldingsInv
  OBVIOUS
<1>1. grants \in [made : BOOLEAN, cited : SUBSET Items]
  BY DEF ArchiveInit
<1>2. files \in [Archivers \X Texts -> {"absent", "partial", "whole"}]
  BY DEF ArchiveInit
<1>3. archivers \in [Archivers -> ArchiverRecords]
  BY DEF ArchiveInit, Resting, ArchiverRecords
<1>4. /\ walk.owner \in Owners \union {Uncreated} /\ walk.before \in 0 .. MaxRecords + 1
      /\ page.end \in 0 .. Biggest(Boundaries(Content)) /\ reads \in 0 .. MaxReads
  BY ContentEnds, ArchiveAssumption DEF ArchiveInit, NoWalk, NoPage
<1> QED BY <1>1, <1>2, <1>3, <1>4 DEF ArchiveInit, HoldingsInv

\* What is stored is an item.
LEMMA StoredAreItems ==
  ASSUME ArchivedInv
  PROVE  Stored \subseteq Items
<1>1. {Record(n) : n \in DOMAIN records} \subseteq {Record(n) : n \in 1 .. MaxRecords}
  BY ArchiveAssumption DEF ArchivedInv
<1> QED BY <1>1 DEF Stored, Items, ArchivedInv, ArchivedItems

\* A page shows items, and its cursor is a place in the archive.
LEMMA FittedWithin ==
  ASSUME ArchivedInv, NEW o, NEW before \in 0 .. MaxRecords + 1, NEW room \in Rooms,
         NEW requested \in Requests, NEW p,
         p = FittedPage(RecordsInScope(o), before, CandidateCount(room, requested), room)
  PROVE  p.next \in 0 .. MaxRecords + 1 /\ \A n \in p.shown : Record(n) \in Items
<1>1. PICK k \in Nat \ {0} : p = BrowsePage(RecordsInScope(o), before, k)
  BY CandidateCountType, FittedCount
<1>2. PICK S : S = RecordsInScope(o)
  OBVIOUS
<1>3. IsFiniteSet(S) /\ S \subseteq Nat \ {0} /\ S \subseteq 1 .. MaxRecords
  BY <1>2, ScopeFinite
<1>4. /\ p.shown \subseteq S /\ p.next \in Nat /\ (p.next # 0 => p.next < before)
  BY <1>1, <1>2, <1>3, BrowseCut
<1>5. p.next \in 0 .. MaxRecords + 1
  BY <1>4, ArchiveAssumption
<1>6. \A n \in p.shown : Record(n) \in Items
  BY <1>3, <1>4 DEF Items
<1> QED BY <1>5, <1>6

\* A step that shows nothing.
LEMMA NothingShown ==
  ASSUME HoldingsInv, UNCHANGED <<seen, walk, page, reads>>,
         grants' \in [made : BOOLEAN, cited : SUBSET Items],
         files' \in [Archivers \X Texts -> {"absent", "partial", "whole"}],
         archivers' \in [Archivers -> ArchiverRecords]
  PROVE  HoldingsInv'
BY DEF HoldingsInv

\* A step of a reader.
LEMMA SomethingShown ==
  ASSUME HoldingsInv, UNCHANGED <<grants, files, archivers>>,
         seen' \subseteq (Owners \X Items),
         walk'.owner \in Owners \union {Uncreated}, walk'.before \in 0 .. MaxRecords + 1,
         page'.end \in 0 .. Biggest(Boundaries(Content)), reads' \in 0 .. MaxReads
  PROVE  HoldingsInv'
BY DEF HoldingsInv, ArchiverRecords

LEMMA HoldingsStep ==
  ASSUME ArchivedInv, HoldingsInv, [ArchiveNext]_archiveVars
  PROVE  HoldingsInv'
<1>1. CASE UNCHANGED <<grants, files, archivers, seen, walk, page, reads>>
  BY <1>1, NothingShown DEF HoldingsInv
<1>2. ASSUME NEW s, NEW size, AppendRecord(s, size)
      PROVE  HoldingsInv'
  BY <1>1, <1>2 DEF AppendRecord
<1>3. ASSUME NEW cited \in SUBSET Stored, Delegate(cited)
      PROVE  HoldingsInv'
  <2>1. grants' = [made |-> TRUE, cited |-> cited] /\ UNCHANGED <<files, archivers, seen, walk, page, reads>>
    BY <1>3 DEF Delegate
  <2>2. grants' \in [made : BOOLEAN, cited : SUBSET Items]
    BY <2>1, StoredAreItems
  <2> QED BY <2>1, <2>2, NothingShown DEF HoldingsInv
<1>4. ASSUME NEW o \in Archivers, NEW t \in Texts, CreateTranscript(o, t) \/ ReuseTranscript(o, t)
      PROVE  HoldingsInv'
  <2>1. PICK r : r \in ArchiverRecords /\ archivers' = [archivers EXCEPT ![o] = r]
    BY <1>4 DEF CreateTranscript, ReuseTranscript, ArchiverRecords
  <2>2. files' = files \/ files' = [files EXCEPT ![<<o, t>>] = "partial"]
    BY <1>4 DEF CreateTranscript, ReuseTranscript
  <2>3. UNCHANGED <<grants, seen, walk, page, reads>>
    BY <1>4 DEF CreateTranscript, ReuseTranscript
  <2> QED BY <2>1, <2>2, <2>3, NothingShown DEF HoldingsInv
<1>5. ASSUME NEW o \in Archivers, WriteTranscript(o) \/ IndexTranscript(o) \/ ArchiveFails(o)
      PROVE  HoldingsInv'
  <2>1. PICK r : r \in ArchiverRecords /\ archivers' = [archivers EXCEPT ![o] = r]
    <3>1. CASE ArchiveFails(o)
      BY <3>1 DEF ArchiveFails, Resting, ArchiverRecords
    <3>2. CASE WriteTranscript(o) \/ IndexTranscript(o)
      <4>1. PICK a : a = archivers[o]
        OBVIOUS
      <4>2. a \in ArchiverRecords
        BY <4>1 DEF HoldingsInv
      <4>3. \A pc \in {"index", "done"} : [a EXCEPT !.pc = pc] \in ArchiverRecords
        BY <4>2 DEF ArchiverRecords
      <4>4. \E pc \in {"index", "done"} : archivers' = [archivers EXCEPT ![o].pc = pc]
        BY <3>2 DEF WriteTranscript, IndexTranscript
      <4> QED BY <4>1, <4>3, <4>4
    <3> QED BY <1>5, <3>1, <3>2
  <2>2. files' = files \/ files' = [files EXCEPT ![<<o, archivers[o].text>>] = "whole"]
    BY <1>5 DEF WriteTranscript, IndexTranscript, ArchiveFails
  <2>3. UNCHANGED <<grants, seen, walk, page, reads>>
    BY <1>5 DEF WriteTranscript, IndexTranscript, ArchiveFails
  <2> QED BY <2>1, <2>2, <2>3, NothingShown DEF HoldingsInv
<1>6. ASSUME NEW o \in Owners, NEW room \in Rooms, NEW requested \in Requests,
             SearchContext(o, room, requested)
      PROVE  HoldingsInv'
  <2>1. /\ reads < MaxReads /\ reads' = reads + 1
        /\ UNCHANGED <<grants, files, archivers, walk, page>>
    BY <1>6, ZenonT(60) DEF SearchContext
  <2>2. PICK found \in SUBSET InScope(o) : seen' = seen \union {<<o, item>> : item \in found}
    BY <1>6, ZenonT(60) DEF SearchContext
  <2>3. seen' \subseteq (Owners \X Items)
    BY <2>2, StoredAreItems DEF InScope, HoldingsInv
  <2>4. reads' \in 0 .. MaxReads
    BY <2>1, ArchiveAssumption DEF HoldingsInv
  <2> QED BY <2>1, <2>3, <2>4, SomethingShown DEF HoldingsInv
<1>7. ASSUME NEW o \in Owners, NEW room \in Rooms, NEW requested \in Requests,
             StartWalk(o, room, requested)
      PROVE  HoldingsInv'
  <2>1. PICK p, before : before = MaxRecords + 1 /\
          p = FittedPage(RecordsInScope(o), before, CandidateCount(room, requested), room)
    OBVIOUS
  <2>2. before \in 0 .. MaxRecords + 1
    BY <2>1, ArchiveAssumption
  <2>3. p.next \in 0 .. MaxRecords + 1 /\ \A n \in p.shown : Record(n) \in Items
    BY <2>1, <2>2, FittedWithin, Zenon
  <2>4. /\ walk' = [owner |-> o, before |-> p.next, listed |-> <<p.shown>>,
                    owed |-> RecordsInScope(o)]
        /\ reads < MaxReads /\ reads' = reads + 1
        /\ UNCHANGED <<grants, files, archivers, page>>
        /\ seen' = seen \union {<<o, Record(n)>> : n \in p.shown}
    BY <1>7, <2>1, ZenonT(60) DEF StartWalk
  <2>5. seen' \subseteq (Owners \X Items)
    BY <2>3, <2>4 DEF HoldingsInv
  <2>6. walk'.owner = o /\ walk'.before = p.next
    BY <2>4
  <2>7. reads' \in 0 .. MaxReads
    BY <2>4, ArchiveAssumption DEF HoldingsInv
  <2> QED BY <2>3, <2>4, <2>5, <2>6, <2>7, SomethingShown DEF HoldingsInv
<1>8. ASSUME NEW room \in Rooms, NEW requested \in Requests, FollowCursor(room, requested)
      PROVE  HoldingsInv'
  <2>1. PICK o, p, before : /\ o = walk.owner /\ before = walk.before
          /\ p = FittedPage(RecordsInScope(o), before, CandidateCount(room, requested), room)
    OBVIOUS
  <2>2. before \in 0 .. MaxRecords + 1 /\ o \in Owners \union {Uncreated}
    BY <2>1 DEF HoldingsInv
  <2>3. p.next \in 0 .. MaxRecords + 1 /\ \A n \in p.shown : Record(n) \in Items
    BY <2>1, <2>2, FittedWithin, Zenon
  <2>4. /\ walk' = [walk EXCEPT !.before = p.next, !.listed = Append(@, p.shown)]
        /\ o # Uncreated /\ UNCHANGED <<grants, files, archivers, page, reads>>
        /\ seen' = seen \union {<<o, Record(n)>> : n \in p.shown}
    BY <1>8, <2>1, ZenonT(60) DEF FollowCursor
  <2>5. seen' \subseteq (Owners \X Items)
    BY <2>2, <2>3, <2>4 DEF HoldingsInv
  <2>6. walk'.owner = o /\ walk'.before \in 0 .. MaxRecords + 1
    <3>1. walk'.owner = walk.owner /\ walk'.before \in {p.next, walk.before}
      BY <2>4
    <3> QED BY <2>1, <2>2, <2>3, <3>1
  <2> QED BY <2>2, <2>4, <2>5, <2>6, SomethingShown DEF HoldingsInv
<1>9. ASSUME NEW o \in Owners, NEW item \in Stored,
             NEW offset \in 0 .. Biggest(Boundaries(Content)),
             NEW room \in Rooms, NEW requested \in Requests,
             OpenContext(o, item, offset, room, requested)
      PROVE  HoldingsInv'
  <2>1. PICK p : p = OpenForModel(Content, offset, requested, room)
    OBVIOUS
  <2>2. page' = [start |-> p.start, end |-> p.end, refused |-> p.refused, room |-> room]
    BY <1>9, <2>1, ZenonT(60) DEF OpenContext
  <2>3. /\ reads < MaxReads /\ reads' = reads + 1
        /\ UNCHANGED <<grants, files, archivers, walk>>
        /\ (seen' = seen \/ seen' = seen \union {<<o, item>>})
    BY <1>9, ZenonT(60) DEF OpenContext
  <2>4. Clean(Content, p)
    BY <2>1, ContentEnds, OpenIsClean
  <2>5. p.end \in 0 .. Biggest(Boundaries(Content))
    <3>1. Content \in Seq(Nat)
      BY ArchiveAssumption
    <3>2. /\ Boundaries(Content) \subseteq Nat
          /\ \A b \in Boundaries(Content) : Biggest(Boundaries(Content)) >= b
      BY <3>1, BoundariesType
    <3> QED BY <2>4, <3>2, ContentEnds DEF Clean
  <2>6. page'.end = p.end
    BY <2>2
  <2>7. seen' \subseteq (Owners \X Items)
    BY <2>3, StoredAreItems DEF HoldingsInv
  <2>8. reads' \in 0 .. MaxReads
    BY <2>3, ArchiveAssumption DEF HoldingsInv
  <2> QED BY <2>3, <2>5, <2>6, <2>7, <2>8, SomethingShown DEF HoldingsInv
<1>10. CASE ContinueConversation \/ UNCHANGED archiveVars
  BY <1>1, <1>10 DEF ContinueConversation, archiveVars
<1> QED BY <1>2, <1>3, <1>4, <1>5, <1>6, <1>7, <1>8, <1>9, <1>10, ZenonT(60) DEF ArchiveNext

\* Whatever is appended, archived, delegated and read, in any order: what is
\* shown is an item of the archive, and a cursor or a page of an answer stays
\* within what there is to read (internal/store/context.go,
\* internal/tooling/tools.go, boundedContextOpen).
THEOREM ArchiveTypeCorrect == ArchiveSpec => []ArchiveTypeOK
<1>1. ArchiveInit => ArchivedInv /\ HoldingsInv
  BY ArchivedInvInit, HoldingsInit
<1>2. ArchivedInv /\ HoldingsInv /\ [ArchiveNext]_archiveVars => ArchivedInv' /\ HoldingsInv'
  BY ArchivedInvStep, HoldingsStep
<1>3. ArchivedInv /\ HoldingsInv => ArchiveTypeOK
  BY DEF ArchivedInv, HoldingsInv, ArchiveTypeOK, ArchiverRecords, ArchivedItems
<1> QED BY <1>1, <1>2, <1>3, PTL DEF ArchiveSpec

=============================================================================
