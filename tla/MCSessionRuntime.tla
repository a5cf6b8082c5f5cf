-------------------------- MODULE MCSessionRuntime --------------------------
(***************************************************************************)
(* Values for the constants of SessionRuntime.                             *)
(***************************************************************************)
EXTENDS SessionRuntime

CONSTANTS a, b

TwoDelegations == {1, 2}
ThreeWorks == {1, 2, 3}
TwoAgents == {a, b}
EachOther == [x \in Agent |-> Agent \ {x}]
=============================================================================
