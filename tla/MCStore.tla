------------------------------ MODULE MCStore ------------------------------
(***************************************************************************)
(* One run for the stores and what processes keep in them: `storePart'     *)
(* picks one in the initial state and only that one moves, so their state  *)
(* spaces add up.                                                          *)
(***************************************************************************)
EXTENDS MCEventLedger, CheckpointStore, Conversations, ContextArchive, ContextEpochs,
        ModelSurface, ProcessManager

CONSTANTS late

VARIABLE storePart

-----------------------------------------------------------------------------
(* One process with two readers: one from the start, one from event 1.     *)
OneProcess == {here}
TwoSubscribers == {reader, late}
OneLate == [x \in Subscriber |-> IF x = reader THEN 0 ELSE 1]

\* A record of three code points.
ThreeCodePoints == <<1, 3, 2>>

-----------------------------------------------------------------------------
(* The parts. The idle ones start in one fixed state.                      *)
StoreParts == {"stream", "checkpoints", "conversations", "archive", "epochs", "surface", "commands"}

StoreInit ==
  /\ storePart \in StoreParts
  /\ Init /\ CheckpointInit /\ ConversationInit /\ ArchiveInit /\ ViewInit /\ SurfaceInit /\ ProcessInit
  /\ storePart = "checkpoints" \/ checkpoints = [k \in CheckpointKeys |-> NoValue]

StreamMoves ==
  /\ storePart = "stream" /\ Next
  /\ UNCHANGED <<storePart, checkpointVars, convVars, archiveVars, viewVars, surfaceVars, processVars>>

CheckpointsMoves ==
  /\ storePart = "checkpoints" /\ CheckpointNext
  /\ UNCHANGED <<storePart, vars, convVars, archiveVars, viewVars, surfaceVars, processVars>>

ConversationsMoves ==
  /\ storePart = "conversations" /\ ConversationNext
  /\ UNCHANGED <<storePart, vars, checkpointVars, archiveVars, viewVars, surfaceVars, processVars>>

ArchiveMoves ==
  /\ storePart = "archive" /\ ArchiveNext
  /\ UNCHANGED <<storePart, vars, checkpointVars, convVars, viewVars, surfaceVars, processVars>>

EpochsMoves ==
  /\ storePart = "epochs" /\ ViewNext
  /\ UNCHANGED <<storePart, vars, checkpointVars, convVars, archiveVars, surfaceVars, processVars>>

SurfaceMoves ==
  /\ storePart = "surface" /\ SurfaceNext
  /\ UNCHANGED <<storePart, vars, checkpointVars, convVars, archiveVars, viewVars, processVars>>

CommandsMoves ==
  /\ storePart = "commands" /\ ProcessNext
  /\ UNCHANGED <<storePart, vars, checkpointVars, convVars, archiveVars, viewVars, surfaceVars>>

StoreNext ==
  \/ StreamMoves \/ CheckpointsMoves \/ ConversationsMoves \/ ArchiveMoves
  \/ EpochsMoves \/ SurfaceMoves \/ CommandsMoves

storeVars ==
  <<storePart, vars, checkpointVars, convVars, archiveVars, viewVars, surfaceVars, processVars>>

StoreSpec == StoreInit /\ [][StoreNext]_storeVars

-----------------------------------------------------------------------------
\* Every part's state has its type.
StoreTypeOK ==
  /\ TypeOK /\ CheckpointTypeOK /\ ConversationTypeOK /\ ArchiveTypeOK
  /\ ViewTypeOK /\ SurfaceTypeOK /\ ProcessTypeOK

=============================================================================
