------------------------- MODULE CheckpointStore -------------------------
(***************************************************************************)
(* The checkpoint table and its append-only version history                *)
(* (internal/store/checkpoint.go), shared by the processes that open one   *)
(* database.  A transaction reads from the snapshot of its first read;     *)
(* SQLite refuses its first write when another process has committed       *)
(* since.  Within a process appendMu makes writers take turns, so a        *)
(* process has one transaction at a time.                                  *)
(***************************************************************************)
EXTENDS Naturals, Sequences, SequencesExt

CONSTANTS StoreProcesses,  \* processes that open the database
          CheckpointKeys,
          CheckpointValues,
          MaxVersions      \* bound: versions kept of one key

ASSUME CheckpointAssumption == MaxVersions \in Nat

VARIABLES checkpoints,        \* key -> value, the mutable heads
          checkpointVersions, \* key -> the archived values, in version order
          checkpointTx        \* what each process is doing

checkpointVars == <<checkpoints, checkpointVersions, checkpointTx>>

NoValue == "no value"

\* `stale': another process has committed since the snapshot was taken.
ClosedStore == [pc |-> "closed", key |-> NoValue, value |-> NoValue,
                version |-> 0, missing |-> {}, stale |-> FALSE]
OpenedStore == [ClosedStore EXCEPT !.pc = "open"]

CheckpointTypeOK ==
  /\ checkpoints \in [CheckpointKeys -> CheckpointValues \union {NoValue}]
  /\ checkpointVersions \in [CheckpointKeys -> Seq(CheckpointValues)]
  /\ checkpointTx \in
       [StoreProcesses ->
         [pc : {"closed", "backfill", "open", "set"},
          key : CheckpointKeys \union {NoValue},
          value : CheckpointValues \union {NoValue},
          version : 0 .. MaxVersions + 1,
          missing : SUBSET (CheckpointKeys \X CheckpointValues),
          stale : BOOLEAN]]

\* A database an earlier release wrote may hold heads and no versions.
CheckpointInit ==
  /\ checkpoints \in [CheckpointKeys -> CheckpointValues \union {NoValue}]
  /\ checkpointVersions = [k \in CheckpointKeys |-> <<>>]
  /\ checkpointTx = [p \in StoreProcesses |-> ClosedStore]

\* p commits: the other transactions now read an old snapshot.
Commits(p, tx) ==
  checkpointTx' = [q \in StoreProcesses |->
                     IF q = p THEN tx ELSE [checkpointTx[q] EXCEPT !.stale = TRUE]]

-----------------------------------------------------------------------------
(* Open: backfillCheckpointVersions                                        *)

\* mutant: the heads of an earlier release are left as they are
BugNoBackfill(p) ==
  /\ checkpointTx[p].pc = "closed"
  /\ checkpointTx' = [checkpointTx EXCEPT ![p] = OpenedStore]
  /\ UNCHANGED <<checkpoints, checkpointVersions>>

\* The heads without a version are read outside the transaction that archives
\* them.
BackfillRead(p) ==
  /\ checkpointTx[p].pc = "closed"
  /\ LET missing == {kv \in CheckpointKeys \X CheckpointValues :
                       checkpoints[kv[1]] = kv[2] /\ checkpointVersions[kv[1]] = <<>>}
     IN checkpointTx' = [checkpointTx EXCEPT
                           ![p] = IF missing = {} THEN OpenedStore
                                  ELSE [ClosedStore EXCEPT !.pc = "backfill",
                                                           !.missing = missing]]
  /\ UNCHANGED <<checkpoints, checkpointVersions>>

\* Each is archived as version 1, all or nothing.
BackfillCommit(p) ==
  LET missing == checkpointTx[p].missing IN
  /\ checkpointTx[p].pc = "backfill"
  /\ \A kv \in missing : checkpointVersions[kv[1]] = <<>>
  /\ checkpointVersions' =
       [k \in CheckpointKeys |->
          IF k \in {kv[1] : kv \in missing}
            THEN <<(CHOOSE kv \in missing : kv[1] = k)[2]>>
            ELSE checkpointVersions[k]]
  /\ Commits(p, OpenedStore)
  /\ UNCHANGED checkpoints

\* Version 1 of a key exists by now, or the database fails: so does Open.
OpenFails(p) ==
  /\ checkpointTx[p].pc = "backfill"
  /\ checkpointTx' = [checkpointTx EXCEPT ![p] = ClosedStore]
  /\ UNCHANGED <<checkpoints, checkpointVersions>>

-----------------------------------------------------------------------------
(* Set and Delete                                                          *)

\* mutant: the value is compared with the live head, not with the history
BugCompareHead(p) ==
  /\ checkpointTx[p].pc = "open"
  /\ \E k \in CheckpointKeys, v \in CheckpointValues :
       LET next == IF checkpoints[k] = v THEN 0 ELSE Len(checkpointVersions[k]) + 1
       IN
       /\ next <= MaxVersions
       /\ checkpointTx' = [checkpointTx EXCEPT
                             ![p] = [ClosedStore EXCEPT !.pc = "set", !.key = k,
                                                        !.value = v, !.version = next]]
  /\ UNCHANGED <<checkpoints, checkpointVersions>>

\* Set reads the digest of the latest version and, when the value differs,
\* the number of the next one; version 0 stands for no new version.
SetRead(p) ==
  /\ checkpointTx[p].pc = "open"
  /\ \E k \in CheckpointKeys, v \in CheckpointValues :
       LET archived == checkpointVersions[k]
           next == IF archived # <<>> /\ Last(archived) = v
                     THEN 0 ELSE Len(archived) + 1
       IN
       /\ next <= MaxVersions
       /\ checkpointTx' = [checkpointTx EXCEPT
                             ![p] = [ClosedStore EXCEPT !.pc = "set", !.key = k,
                                                        !.value = v, !.version = next]]
  /\ UNCHANGED <<checkpoints, checkpointVersions>>

\* mutant: the archive statement replaces a version that exists
BugReplaceVersion(p) ==
  LET tx == checkpointTx[p] IN
  /\ tx.pc = "set"
  /\ checkpointVersions' =
       IF tx.version = 0 THEN checkpointVersions
       ELSE [checkpointVersions EXCEPT
               ![tx.key] = Append(SubSeq(@, 1, tx.version - 1), tx.value)]
  /\ checkpoints' = [checkpoints EXCEPT ![tx.key] = tx.value]
  /\ Commits(p, OpenedStore)

SetCommit(p) ==
  LET tx == checkpointTx[p] IN
  /\ tx.pc = "set" /\ ~tx.stale
  /\ checkpointVersions' =
       IF tx.version = 0 THEN checkpointVersions
       ELSE [checkpointVersions EXCEPT ![tx.key] = Append(@, tx.value)]
  /\ checkpoints' = [checkpoints EXCEPT ![tx.key] = tx.value]
  /\ Commits(p, OpenedStore)

\* mutant: a failed transaction is never rolled back
BugNoRollback(p) ==
  /\ checkpointTx[p].pc = "set"
  /\ checkpointTx' = [checkpointTx EXCEPT ![p].pc = "failed"]
  /\ UNCHANGED <<checkpoints, checkpointVersions>>

\* A refused write, a failing commit or the death of the process: nothing of
\* the transaction remains.
SetFails(p) ==
  /\ checkpointTx[p].pc = "set"
  /\ checkpointTx' = [checkpointTx EXCEPT ![p] = OpenedStore]
  /\ UNCHANGED <<checkpoints, checkpointVersions>>

\* Delete removes the head alone, in one statement.
DeleteCheckpoint(p) ==
  /\ checkpointTx[p].pc = "open"
  /\ \E k \in CheckpointKeys :
       /\ checkpoints[k] # NoValue
       /\ checkpoints' = [checkpoints EXCEPT ![k] = NoValue]
  /\ Commits(p, OpenedStore)
  /\ UNCHANGED checkpointVersions

StoreCloses(p) ==
  /\ checkpointTx[p].pc = "open"
  /\ checkpointTx' = [checkpointTx EXCEPT ![p] = ClosedStore]
  /\ UNCHANGED <<checkpoints, checkpointVersions>>

CheckpointNext ==
  \E p \in StoreProcesses :
    \/ BackfillRead(p) \/ BackfillCommit(p) \/ OpenFails(p)
    \/ SetRead(p) \/ SetCommit(p) \/ SetFails(p)
    \/ DeleteCheckpoint(p) \/ StoreCloses(p)

CheckpointSpec == CheckpointInit /\ [][CheckpointNext]_checkpointVars

-----------------------------------------------------------------------------
\* "The exact append-only history": a version once archived is never changed,
\* renumbered or removed, whatever two processes, a backfill and deletions do.
VersionsAreAppendOnly ==
  [][\A k \in CheckpointKeys :
       IsPrefix(checkpointVersions[k], checkpointVersions'[k])]_checkpointVars

\* "Rewriting identical bytes does not create provenance": neighbouring
\* versions differ, also across a deletion and across processes.
VersionsAreDistinctStates ==
  \A k \in CheckpointKeys : \A i \in 1 .. Len(checkpointVersions[k]) - 1 :
    checkpointVersions[k][i] # checkpointVersions[k][i + 1]

\* Recovery evidence is complete: once a process has opened the database, a
\* live checkpoint is the newest version of its key (Set writes both in one
\* transaction; the backfill covers what older releases wrote).
HeadIsArchived ==
  (\E p \in StoreProcesses : checkpointTx[p].pc \in {"open", "set"}) =>
    \A k \in CheckpointKeys :
      checkpoints[k] # NoValue =>
        checkpointVersions[k] # <<>> /\ Last(checkpointVersions[k]) = checkpoints[k]

\* The history of a key tells the states it went through, each once and the
\* live one included.
HistoryIsComplete == VersionsAreDistinctStates /\ HeadIsArchived

=============================================================================
