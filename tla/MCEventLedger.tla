--------------------------- MODULE MCEventLedger ----------------------------
(***************************************************************************)
(* Values for the constants of EventLedger.                                *)
(***************************************************************************)
EXTENDS EventLedger

CONSTANTS here, there, reader

TwoProcesses == {here, there}
OneSubscriber == {reader}
AllAtP == [x \in Subscriber |-> here]
FromStart == [x \in Subscriber |-> 0]
=============================================================================
