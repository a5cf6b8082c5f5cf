----------------------------- MODULE MCServices -----------------------------
(***************************************************************************)
(* One run for the services with goroutines of their own: `servicePart'    *)
(* picks one in the initial state and only that one moves, so their state  *)
(* spaces add up.  The idle ones have nothing to run, so each keeps its    *)
(* fairness.                                                               *)
(***************************************************************************)
EXTENDS MCEventLedger, ProcessManager, ContextCompaction, LiveWindow

VARIABLE servicePart

-----------------------------------------------------------------------------
\* A catalogue that knows the window alone.
SmallWindow == [window |-> 9, input |-> 0, output |-> 0]

-----------------------------------------------------------------------------
ServiceParts == {"delivery", "commands", "compaction", "window"}

servicesVars == <<servicePart, vars, processVars, compactionVars, windowVars>>

ServicesInit ==
  /\ servicePart \in ServiceParts
  /\ Init /\ ProcessInit /\ CompactionInit /\ WindowInit

DeliveryMoves ==
  /\ servicePart = "delivery" /\ Next
  /\ UNCHANGED <<servicePart, processVars, compactionVars, windowVars>>

CommandsMove ==
  /\ servicePart = "commands" /\ ProcessNext
  /\ UNCHANGED <<servicePart, vars, compactionVars, windowVars>>

CompactionMoves ==
  /\ servicePart = "compaction" /\ CompactionNext
  /\ UNCHANGED <<servicePart, vars, processVars, windowVars>>

WindowMoves ==
  /\ servicePart = "window" /\ WindowNext
  /\ UNCHANGED <<servicePart, vars, processVars, compactionVars>>

ServicesNext == DeliveryMoves \/ CommandsMove \/ CompactionMoves \/ WindowMoves

ServicesSpec ==
  /\ ServicesInit /\ [][ServicesNext]_servicesVars
  /\ Fairness /\ ProcessFairness /\ CompactionFairness /\ WindowFairness

-----------------------------------------------------------------------------
\* Every part's state has its type.
ServicesTypeOK == TypeOK /\ ProcessTypeOK /\ CompactionTypeOK /\ WindowTypeOK

\* Nobody waits for ever: not the goroutine of a closed subscription, a closing
\* runtime, a call that waits on a command that has ended, or the run whose
\* request the provider keeps rejecting.
NobodyWaitsForever ==
  GoroutineEnds /\ CloseReturns /\ FinishedCommandIsCollected /\ RecoveryEnds
=============================================================================
