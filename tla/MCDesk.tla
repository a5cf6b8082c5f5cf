------------------------------ MODULE MCDesk -------------------------------
(***************************************************************************)
(* One run for what a user sits in front of: `deskPart' picks a component  *)
(* in the initial state and only that one moves, so their state spaces add *)
(* up.                                                                     *)
(***************************************************************************)
EXTENDS TeamProfiles, ThinkingGraph, TerminalSession, TerminalHistory

CONSTANTS g

VARIABLE deskPart

-----------------------------------------------------------------------------
(* Teams a user draws: agents are numbers, so are models.                  *)
Drawn(id, model) == [id |-> id, model |-> model]

TeamSketch(peers, specialists, peerEdges, specialistEdges) ==
  [primary |-> Drawn(1, 1), peers |-> peers, specialists |-> specialists,
   peerEdges |-> peerEdges, specialistEdges |-> specialistEdges, complete |-> TRUE]

SomeSketches ==
  {TeamSketch(<<>>, <<>>, <<>>, <<>>),
   TeamSketch(<<Drawn(3, 3), Drawn(2, 2)>>, <<Drawn(4, 4)>>,
              <<<<2, 1>>, <<3, 2>>>>, <<<<2, 4>>, <<1, 4>>>>),
   TeamSketch(<<Drawn(3, 3), Drawn(2, 2)>>, <<Drawn(4, 0)>>, <<>>, <<<<1, 4>>>>),
   TeamSketch(<<Drawn(3, 3), Drawn(2, 2)>>, <<>>, <<<<1, 2>>, <<2, 1>>>>, <<>>),
   TeamSketch(<<Drawn(2, 1)>>, <<Drawn(0, 4)>>, <<>>, <<>>),
   TeamSketch(<<Drawn(2, 2), Drawn(2, 3)>>, <<>>, <<<<2, 3>>>>, <<<<2, 2>>>>)}

Member(id, model, peers, specialists) ==
  [id |-> id, model |-> model, peers |-> peers, specialists |-> specialists]

OneImport ==
  {[gateway |-> g, revision |-> 2, complete |-> TRUE,
    models |-> [a \in {7, 8, 9, 10} |-> a - 6], tuned |-> {8, 10}, policy |-> TRUE,
    agents |-> <<Member(1, 7, <<>>, <<4>>), Member(3, 9, <<1>>, <<>>), Member(2, 8, <<3>>, <<4>>)>>,
    specialists |-> <<[id |-> 4, model |-> 10]>>]}

FourModels == [x \in {g} |-> {1, 2, 3, 4}]

-----------------------------------------------------------------------------
(* The parts. The idle ones start in one fixed state.                      *)
DeskParts == {"teams", "graph", "tools", "terminal", "history"}

WorkIds == Permutations(Works)

DeskInit ==
  /\ deskPart \in DeskParts
  /\ TeamInit /\ GraphInit /\ TerminalInit /\ HistoryInit
  /\ deskPart = "teams" \/ sketch = TeamSketch(<<>>, <<>>, <<>>, <<>>)
  /\ deskPart = "terminal" \/ ~ui.starting

TeamsMoves ==
  /\ deskPart = "teams" /\ TeamNext
  /\ UNCHANGED <<deskPart, graphVars, terminalVars, historyVars>>

\* Two works in a turn that is not answered, or one work, a tool and the answer.
GraphMoves ==
  /\ deskPart \in {"graph", "tools"} /\ GraphNext
  /\ deskPart = "graph" =>
       toolCalls' = toolCalls /\ AnswerEdge \notin DOMAIN edges'
  /\ deskPart = "tools" =>
       /\ turnStatus' # "failed"
       /\ \E w \in Works : \A v \in Works \ {w} : work'[v] = NoWork
  /\ UNCHANGED <<deskPart, teamVars, terminalVars, historyVars>>

TerminalMoves ==
  /\ deskPart = "terminal" /\ TerminalNext
  /\ UNCHANGED <<deskPart, teamVars, graphVars, historyVars>>

\* Three lookups with at most one picker, or two with two.
HistoryMoves ==
  /\ deskPart = "history" /\ HistoryNext
  /\ history'.nextToken + picker'.generation <= 4
  /\ UNCHANGED <<deskPart, teamVars, graphVars, terminalVars>>

DeskNext ==
  \/ TeamsMoves \/ GraphMoves \/ TerminalMoves \/ HistoryMoves

deskVars == <<deskPart, teamVars, graphVars, terminalVars, historyVars>>

DeskSpec == DeskInit /\ [][DeskNext]_deskVars

-----------------------------------------------------------------------------
\* Every part's state has its type.
DeskTypeOK == TeamTypeOK /\ GraphTypeOK /\ TerminalTypeOK /\ HistoryTypeOK

=============================================================================
