------------------------- MODULE CompositionProofs -------------------------
(***************************************************************************)
(* The composed systems.  Each part of one takes only steps of its own     *)
(* component and stays what it is while another moves, so what is proved   *)
(* of a component alone holds of it in the composition.                    *)
(***************************************************************************)
EXTENDS MCStore, MCServices, MCDesk, EventLedgerProofs, ArchiveProofs, StoreProofs,
        InterfaceProofs, TeamProofs

-----------------------------------------------------------------------------
(* The stores.                                                             *)

\* Every step is a step of one part and leaves the variables of the others.
LEMMA StoreSteps ==
  ASSUME [StoreNext]_storeVars
  PROVE  /\ [Next]_vars /\ [CheckpointNext]_checkpointVars /\ [ConversationNext]_convVars
         /\ [ArchiveNext]_archiveVars /\ [ViewNext]_viewVars /\ [SurfaceNext]_surfaceVars
         /\ [ProcessNext]_processVars
<1>1. CASE UNCHANGED storeVars
  BY <1>1 DEF storeVars
<1>2. CASE StreamMoves
  BY <1>2 DEF StreamMoves
<1>3. CASE CheckpointsMoves
  BY <1>3 DEF CheckpointsMoves
<1>4. CASE ConversationsMoves
  BY <1>4 DEF ConversationsMoves
<1>5. CASE ArchiveMoves
  BY <1>5 DEF ArchiveMoves
<1>6. CASE EpochsMoves
  BY <1>6 DEF EpochsMoves
<1>7. CASE SurfaceMoves
  BY <1>7 DEF SurfaceMoves
<1>8. CASE CommandsMoves
  BY <1>8 DEF CommandsMoves
<1> QED BY <1>1, <1>2, <1>3, <1>4, <1>5, <1>6, <1>7, <1>8 DEF StoreNext

\* Sharing a database and a process, the event ledger, the checkpoints, the
\* sessions, the archive, the views, the surface and the commands each behave
\* as they do alone (store.Open: one table or file for each, none written by
\* another's operations).
THEOREM StoreRunsItsParts ==
  StoreSpec => /\ Spec /\ CheckpointSpec /\ ConversationSpec
               /\ ArchiveSpec /\ ViewSpec /\ SurfaceSpec
               /\ ProcessInit /\ [][ProcessNext]_processVars
<1>1. StoreInit => /\ Init /\ CheckpointInit /\ ConversationInit /\ ArchiveInit
                   /\ ViewInit /\ SurfaceInit /\ ProcessInit
  BY DEF StoreInit
<1> QED BY <1>1, StoreSteps, PTL DEF StoreSpec, Spec, CheckpointSpec, ConversationSpec,
           ArchiveSpec, ViewSpec, SurfaceSpec

\* Commands need no fairness for what is always so.
LEMMA CommandsInStore ==
  ProcessInit /\ [][ProcessNext]_processVars => [](ProcessTypeOK /\ NothingIsLeftBehind)
<1>1. CommandInv /\ [ProcessNext]_processVars => CommandInv'
  BY CommandStep
<1>2. ProcessInit => CommandInv
  BY CommandInitInv
<1>3. CommandInv => ProcessTypeOK /\ NothingIsLeftBehind
  BY CommandsLeaveNothing DEF CommandInv
<1> QED BY <1>1, <1>2, <1>3, PTL

\* In every state of the composed stores each part's state has its type.
THEOREM StoreTypeCorrect == StoreSpec => []StoreTypeOK
<1>1. /\ TypeOK /\ CheckpointTypeOK /\ ConversationTypeOK /\ ArchiveTypeOK
      /\ ViewTypeOK /\ SurfaceTypeOK /\ ProcessTypeOK
      => StoreTypeOK
  BY DEF StoreTypeOK
<1> QED BY <1>1, CommandsInStore, StoreRunsItsParts, LedgerTypeCorrect, CheckpointTypeCorrect,
           ConversationTypeCorrect, ArchiveTypeCorrect, ViewTypeCorrect, SurfaceTypeCorrect, PTL

\* What the stores promise together, for one process: readers miss nothing, the
\* history of a checkpoint is complete and only grows, what is cited can be
\* read and nothing outside a scope is, views are numbered in order, the
\* surface is exact and only grows, and no command is left behind.
THEOREM StoreCorrect ==
  ASSUME NEW p \in Process, Process = {p}
  PROVE  StoreSpec =>
           /\ []HistoryIsComplete /\ []ReadersMissNothing /\ []ExactSourcesAreReachable
           /\ []ReadsStayInScope /\ []EpochsAreInOrder /\ []SurfaceIsExact
           /\ []NothingIsLeftBehind
           /\ OrderedStream /\ VersionsAreAppendOnly /\ SurfaceOnlyGrows
<1>1. Spec => OrderedStream
  BY StreamCorrect
<1> QED BY <1>1, CommandsInStore, StoreRunsItsParts, HistoryIsCompleteCorrect,
           ReadersMissNothingCorrect, ExactSourcesAreReachableCorrect, ReadsStayInScopeCorrect,
           EpochsAreInOrderCorrect, SurfaceIsExactCorrect, VersionsAppendOnlyCorrect,
           SurfaceOnlyGrowsCorrect, PTL

-----------------------------------------------------------------------------
(* The services.                                                           *)

LEMMA ServicesSteps ==
  ASSUME [ServicesNext]_servicesVars
  PROVE  /\ [Next]_vars /\ [ProcessNext]_processVars
         /\ [CompactionNext]_compactionVars /\ [WindowNext]_windowVars
<1>1. CASE UNCHANGED servicesVars
  BY <1>1 DEF servicesVars
<1>2. CASE DeliveryMoves
  BY <1>2 DEF DeliveryMoves
<1>3. CASE CommandsMove
  BY <1>3 DEF CommandsMove
<1>4. CASE CompactionMoves
  BY <1>4 DEF CompactionMoves
<1>5. CASE WindowMoves
  BY <1>5 DEF WindowMoves
<1> QED BY <1>1, <1>2, <1>3, <1>4, <1>5 DEF ServicesNext

\* Each service behaves, fairness included, as it does alone: no service's
\* goroutine waits for another's (ledger subscriptions, background.Manager,
\* the compaction of a run, the window's stream).
THEOREM ServicesRunTheirParts ==
  ServicesSpec => FairSpec /\ ProcessSpec /\ CompactionSpec /\ WindowSpec
<1>1. ServicesInit => Init /\ ProcessInit /\ CompactionInit /\ WindowInit
  BY DEF ServicesInit
<1> QED BY <1>1, ServicesSteps, PTL DEF ServicesSpec, FairSpec, Spec, ProcessSpec,
           CompactionSpec, WindowSpec

\* In every state of the composed services each part's state has its type.
THEOREM ServicesTypeCorrect == ServicesSpec => []ServicesTypeOK
<1>1. TypeOK /\ ProcessTypeOK /\ CompactionTypeOK /\ WindowTypeOK => ServicesTypeOK
  BY DEF ServicesTypeOK
<1> QED BY <1>1, ServicesRunTheirParts, LedgerTypeCorrect, ProcessTypeCorrect,
           CompactionTypeCorrect, WindowTypeCorrect, PTL DEF FairSpec

\* What the services promise together, liveness apart: a subscriber loses only
\* events another process overtook, a run's requests stay valid and what is
\* dropped from them is archived, and the window's graph is the ledger's.
THEOREM ServicesCorrect ==
  ServicesSpec => /\ []LosesOnlyOvertaken /\ []RequestsStayValid /\ []GraphFollowsTheLedger
                  /\ DroppedIsArchived
BY ServicesRunTheirParts, LosesOnlyOvertakenCorrect, RequestsStayValidCorrect,
   GraphFollowsTheLedgerCorrect, DroppedIsArchivedCorrect, PTL DEF FairSpec

-----------------------------------------------------------------------------
(* The desk.                                                               *)

LEMMA DeskSteps ==
  ASSUME [DeskNext]_deskVars
  PROVE  /\ [TeamNext]_teamVars /\ [GraphNext]_graphVars
         /\ [TerminalNext]_terminalVars /\ [HistoryNext]_historyVars
<1>1. CASE UNCHANGED deskVars
  BY <1>1 DEF deskVars
<1>2. CASE TeamsMoves
  BY <1>2 DEF TeamsMoves
<1>3. CASE GraphMoves
  BY <1>3 DEF GraphMoves
<1>4. CASE TerminalMoves
  BY <1>4 DEF TerminalMoves
<1>5. CASE HistoryMoves
  BY <1>5 DEF HistoryMoves
<1> QED BY <1>1, <1>2, <1>3, <1>4, <1>5 DEF DeskNext

\* The profiles a user edits, a turn's graph, the terminal and its history each
\* behave as they do alone (nativegui.Host, thinking.Projection, tui.Model).
THEOREM DeskRunsItsParts ==
  DeskSpec => TeamSpec /\ GraphSpec /\ TerminalSpec /\ HistorySpec
<1>1. DeskInit => TeamInit /\ GraphInit /\ TerminalInit /\ HistoryInit
  BY DEF DeskInit
<1> QED BY <1>1, DeskSteps, PTL DEF DeskSpec, TeamSpec, GraphSpec, TerminalSpec, HistorySpec

\* In every state of the composed desk each part's state has its type.
THEOREM DeskTypeCorrect == DeskSpec => []DeskTypeOK
<1>1. TeamTypeOK /\ GraphTypeOK /\ TerminalTypeOK /\ HistoryTypeOK => DeskTypeOK
  BY DEF DeskTypeOK
<1> QED BY <1>1, DeskRunsItsParts, TeamTypesCorrect, GraphTypeCorrect, TerminalTypeCorrect,
           HistoryTypeCorrect, PTL

\* What the desk promises together: no revision of a profile is lost, answers
\* are truthful and drafts mean their Team, the graph shows the work, a prompt
\* is in one place and the composer is released, and late answers are harmless.
THEOREM DeskCorrect ==
  DeskSpec => /\ []NoLostRevision /\ []AnswersAreTruthful /\ []DraftsMeanTheirTeam
              /\ []GraphShowsTheWork /\ []PromptsHaveOnePlace /\ []ComposerIsReleased
              /\ []LateAnswersAreHarmless /\ LookupsStepByOne
BY DeskRunsItsParts, NoLostRevisionCorrect, AnswersAreTruthfulCorrect,
   DraftsMeanTheirTeamCorrect, GraphShowsTheWorkCorrect, PromptsHaveOnePlaceCorrect,
   ComposerIsReleasedCorrect, LateAnswersAreHarmlessCorrect, LookupsStepByOneCorrect, PTL
=============================================================================
