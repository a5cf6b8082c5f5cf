--------------------------- MODULE MCSessionTeam ----------------------------
(***************************************************************************)
(* One run for a process that stays: `scenario` picks, in the initial      *)
(* state, either a team that works undisturbed, or a store call that fails *)
(* under a user who steers or cancels, and then perhaps the call that was  *)
(* to record it.                                                           *)
(***************************************************************************)
EXTENDS MCSessionRuntime, FiniteSets

VARIABLE scenario

TeamInit == Init /\ scenario \in {"team", "faults"}

\* Three works, one of them a consultation; nobody disturbs.
Undisturbed == faults' = 0 /\ steer' = "idle" /\ ~userCancelled'

\* Two delegations and two turns, the second of which cannot coordinate.  A
\* second fault is one that leaves the end of the session unrecorded.
Disturbed ==
    /\ faults' = 2 => unrecorded'
    /\ ~(ledger'.instructions > 0 /\ userCancelled')
    /\ \A w \in Consultation : ~Known(ledger', w)
    /\ ledger'.turns <= 2
    /\ ledger'.turns = 2 /\ leaderPc = "model" /\ leaderPc' = "cancel" => plan'.answer

\* A decision cancels one work at most; an answer cancels all that is active.
OneCancellation == plan'.answer \/ Cardinality(plan'.cancel) <= 1

TeamNext ==
    /\ Next
    /\ scenario' = scenario /\ OneCancellation
    /\ IF scenario = "team" THEN Undisturbed ELSE Disturbed
=============================================================================
