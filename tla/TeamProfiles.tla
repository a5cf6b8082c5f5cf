--------------------------- MODULE TeamProfiles ---------------------------
(***************************************************************************)
(* Immutable Team revisions and the windows that edit them                 *)
(* (internal/profile, internal/store/profile.go, internal/nativegui).      *)
(*                                                                         *)
(* A Team is published as a sequence of immutable revisions.  Every team   *)
(* window is a process of its own: its host loads a revision, turns it     *)
(* into a draft, validates what the user draws against the catalog it      *)
(* loaded and publishes it as the next revision, while other windows and   *)
(* `alt profile import` write to the same table.  The native side calls    *)
(* its host twice for one request: a sizing probe, which runs it, and a    *)
(* transfer, which must only fetch the answer.                             *)
(*                                                                         *)
(* One Team is followed.  Member ids are naturals in the order of their    *)
(* names and 0 is a blank id; definitions, labels and the wording of the   *)
(* diagnostics are left out, and `complete` says whether the Team's name   *)
(* and every definition are filled in.  A profile also holds settings no   *)
(* window shows: `tuned` has the aliases with a reasoning effort or        *)
(* options, and `policy` says whether a disclosure policy or metadata is   *)
(* set.  Only an imported profile has them: a draft carries none.          *)
(***************************************************************************)
EXTENDS Integers, Sequences, FiniteSets, SequencesExt

CONSTANTS Windows,       \* open team windows
          Gateways,      \* gateway accounts
          Offered,       \* Offered[g]: the models in g's catalog
          Sketches,      \* what a user may draw
          Imports,       \* profiles in files that may be imported
          NoModel,       \* no model chosen
          NoGateway,     \* no gateway chosen, or no catalog loaded
          MaxRevision    \* bound: revisions published

ASSUME TeamAssumption == /\ NoModel \notin UNION {Offered[g] : g \in Gateways}
                         /\ NoGateway \notin Gateways

VARIABLES sketch,        \* the Team the users of this behaviour want to draw
          importable,    \* profile files not imported yet
          minted,        \* the Team's id exists: some window started it, or it was imported
          revisions,     \* stored revisions: number -> [profile, base, parent]
          windows        \* per window: the host's and the native side's state

teamVars == <<sketch, importable, minted, revisions, windows>>

Blank == 0

(***************************************************************************)
(* Profiles.                                                               *)
(***************************************************************************)
\* The ids of the leadership-capable agents; the first is the primary.
Agents(p) == {p.agents[i].id : i \in DOMAIN p.agents}

\* The ids of the stateless specialists.
SpecialistIds(p) == {p.specialists[i].id : i \in DOMAIN p.specialists}

\* The declared peer relationships, at the endpoint that declares them.
Declared(p) == UNION {{i} \X DOMAIN p.agents[i].peers : i \in DOMAIN p.agents}

\* PeerAgentsFor: an edge declared on either endpoint connects both.
PeersOf(p, id) ==
  {b \in Agents(p) \ {id} :
     \E i \in DOMAIN p.agents :
       \/ p.agents[i].id = id /\ b \in ToSet(p.agents[i].peers)
       \/ p.agents[i].id = b  /\ id \in ToSet(p.agents[i].peers)}

\* The alias of every member's model.
Assigned(p) ==
  {<<p.agents[i].id, p.agents[i].model>> : i \in DOMAIN p.agents}
    \cup {<<p.specialists[i].id, p.specialists[i].model>> : i \in DOMAIN p.specialists}

\* validateModelReference and registerModel: every alias is known, one member
\* is one model and one model is one member.
ModelsAssignedOnce(p) ==
  /\ \A a \in Assigned(p) : a[2] \in DOMAIN p.models
  /\ \A a, b \in Assigned(p) : (a[1] = b[1]) <=> (p.models[a[2]] = p.models[b[2]])

\* Ids are given, and no two members share one.
MembersDistinct(p) ==
  /\ Blank \notin Agents(p) \cup SpecialistIds(p)
  /\ Cardinality(Agents(p)) = Len(p.agents)
  /\ Cardinality(SpecialistIds(p)) = Len(p.specialists)
  /\ Agents(p) \cap SpecialistIds(p) = {}

\* The undirected edge a declaration stands for.
EdgeOf(p, d) == {p.agents[d[1]].id, p.agents[d[1]].peers[d[2]]}

\* Peer relationships connect two known agents and are declared once, on
\* either endpoint.
PeersDeclaredOnce(p) ==
  /\ \A d \in Declared(p) : EdgeOf(p, d) \subseteq Agents(p) /\ Cardinality(EdgeOf(p, d)) = 2
  /\ \A d, e \in Declared(p) : EdgeOf(p, d) = EdgeOf(p, e) => d = e

\* Call permissions name known specialists, once per agent.
CallsDeclaredOnce(p) ==
  \A i \in DOMAIN p.agents :
    /\ ToSet(p.agents[i].specialists) \subseteq SpecialistIds(p)
    /\ IsInjective(p.agents[i].specialists)

\* Models whose own fields are missing: the diagnostics under models.<alias>.
UnnamedModels(p) == {a \in DOMAIN p.models : p.models[a] = NoModel}

\* Every other error of Validate.
StructureHolds(p) ==
  /\ p.revision >= 1
  /\ p.complete
  /\ p.gateway # NoGateway
  /\ DOMAIN p.models # {}
  /\ Blank \notin DOMAIN p.models
  /\ ModelsAssignedOnce(p)
  /\ MembersDistinct(p)
  /\ PeersDeclaredOnce(p)
  /\ CallsDeclaredOnce(p)

Valid(p) == StructureHolds(p) /\ UnnamedModels(p) = {}

(***************************************************************************)
(* Drafts.                                                                 *)
(***************************************************************************)
\* The elements of S as a sequence, in the order Below.
Ordered(S, Below(_,_)) ==
  CHOOSE s \in [1..Cardinality(S) -> S] : \A i, j \in DOMAIN s : i < j => Below(s[i], s[j])

\* The members of a draft, in the order the profile lists them.
MembersOf(t) == <<t.primary>> \o t.peers \o t.specialists

\* A draft member whose id is given.
Named(m) == m.id # Blank

\* The members whose ids are given, in the order they are drawn.
WithIds(s) ==
  LET kept == Ordered({i \in DOMAIN s : Named(s[i])}, <)
  IN  [k \in DOMAIN kept |-> s[kept[k]]]

\* The model table of a draft: an id given twice keeps the later model.
ModelTable(t) ==
  LET m == MembersOf(t)
      last(id) == CHOOSE i \in DOMAIN m :
                    m[i].id = id /\ \A j \in DOMAIN m : m[j].id = id => j <= i
  IN  [id \in {m[i].id : i \in DOMAIN m} \ {Blank} |-> m[last(id)].model]

\* appendUnique
AppendUnique(s, v) == IF v \in ToSet(s) THEN s ELSE Append(s, v)

\* updateAgent finds the first agent with the id.
FirstAgent(p, id) == CHOOSE i \in DOMAIN p.agents :
                       p.agents[i].id = id /\ \A j \in 1..(i - 1) : p.agents[j].id # id

\* assignPeer: the edge is recorded on its first endpoint, or on the second
\* when the first is no agent.
AssignPeer(p, e) ==
  LET put(id, other) == [p EXCEPT !.agents[FirstAgent(p, id)].peers = AppendUnique(@, other)]
  IN  IF Blank \in {e[1], e[2]} THEN p
      ELSE IF e[1] \in Agents(p) THEN put(e[1], e[2])
      ELSE IF e[2] \in Agents(p) THEN put(e[2], e[1])
      ELSE p

\* mutant: only the primary's permissions are recorded.
BugAssignPrimaryOnly(p, e) ==
  IF e[1] = p.agents[1].id
  THEN [p EXCEPT !.agents[1].specialists = AppendUnique(@, e[2])]
  ELSE p

AssignSpecialist(p, e) ==
  IF e[1] \in Agents(p)
  THEN [p EXCEPT !.agents[FirstAgent(p, e[1])].specialists = AppendUnique(@, e[2])]
  ELSE p

\* A loop over the edges of a draft.
ForEach(step(_,_), p, edges) ==
  LET after[n \in 0..Len(edges)] == IF n = 0 THEN p ELSE step(after[n - 1], edges[n])
  IN  after[Len(edges)]

\* TeamDraft.Profile: blank members are dropped, a member's alias is its id,
\* and the settings no window shows are left at their defaults.
ProfileOf(d, revision) ==
  LET t     == d.team
      agent(m) == [id |-> m.id, model |-> m.id, peers |-> <<>>, specialists |-> <<>>]
      peers == WithIds(t.peers)
      calls == WithIds(t.specialists)
      bare  == [gateway     |-> d.gateway,
                revision    |-> revision,
                complete    |-> t.complete,
                models      |-> ModelTable(t),
                tuned       |-> {},
                policy      |-> FALSE,
                agents      |-> <<agent(t.primary)>> \o [i \in DOMAIN peers |-> agent(peers[i])],
                specialists |-> [i \in DOMAIN calls |-> [id |-> calls[i].id, model |-> calls[i].id]]]
  IN  ForEach(AssignSpecialist, ForEach(AssignPeer, bare, t.peerEdges), t.specialistEdges)

\* Pairs in the order of their ids.
PairBelow(a, b) == a[1] < b[1] \/ (a[1] = b[1] /\ a[2] < b[2])

MemberBelow(a, b) == a.id < b.id

\* DraftFromProfile: every undirected edge once, from its smaller endpoint; of
\* a model its choice alone.
DraftOf(p) ==
  LET member(a) == [id |-> a.id, model |-> p.models[a.model]]
      sorted(s) == Ordered({member(s[i]) : i \in DOMAIN s}, MemberBelow)
      edges == {e \in Agents(p) \X Agents(p) : e[1] < e[2] /\ e[2] \in PeersOf(p, e[1])}
      calls == {c \in Agents(p) \X SpecialistIds(p) :
                  \E i \in DOMAIN p.agents :
                    p.agents[i].id = c[1] /\ c[2] \in ToSet(p.agents[i].specialists)}
  IN  [gateway |-> p.gateway,
       base    |-> p.revision,
       team    |-> [primary         |-> member(p.agents[1]),
                    peers           |-> sorted(Tail(p.agents)),
                    specialists     |-> sorted(p.specialists),
                    peerEdges       |-> Ordered(edges, PairBelow),
                    specialistEdges |-> Ordered(calls, PairBelow),
                    complete        |-> p.complete]]

\* The checks DiagnosticsForDraft makes of the edges as they are drawn.
EdgesDrawable(t) ==
  LET agents == {t.primary.id} \cup {t.peers[i].id : i \in DOMAIN t.peers}
      calls  == {t.specialists[i].id : i \in DOMAIN t.specialists}
      ends(i) == {t.peerEdges[i][1], t.peerEdges[i][2]}
  IN  /\ \A i \in DOMAIN t.peerEdges : ends(i) \subseteq agents \ {Blank} /\ Cardinality(ends(i)) = 2
      /\ \A i, j \in DOMAIN t.peerEdges : ends(i) = ends(j) => i = j
      /\ \A i \in DOMAIN t.specialistEdges :
           /\ t.specialistEdges[i][1] \in agents \ {Blank}
           /\ t.specialistEdges[i][2] \in calls \ {Blank}

\* mutant: a member whose model is not chosen passes.
BugMembersUnchosen(t, offered) ==
  \A i \in DOMAIN MembersOf(t) :
    LET m == MembersOf(t)[i] IN m.id # Blank /\ m.model \in offered \cup {NoModel}

\* The checks it makes of the members: an id, a model, and a model the
\* catalog of the draft's own gateway offers.
MembersChosen(t, offered) ==
  \A i \in DOMAIN MembersOf(t) :
    LET m == MembersOf(t)[i] IN m.id # Blank /\ m.model # NoModel /\ m.model \in offered

\* DiagnosticsForDraft finds no error.  The missing fields of a model nobody
\* chose are not reported under the model: the member's own check covers them.
Accepted(d, catalog) ==
  LET p       == ProfileOf(d, d.base + 1)
      members == MembersOf(d.team)
      empty   == {members[i].id : i \in {j \in DOMAIN members :
                    members[j].model = NoModel /\ members[j].id # Blank}}
      offered == IF catalog = d.gateway /\ catalog # NoGateway THEN Offered[catalog] ELSE {}
  IN  /\ StructureHolds(p)
      /\ UnnamedModels(p) \subseteq empty
      /\ MembersChosen(d.team, offered)
      /\ EdgesDrawable(d.team)

(***************************************************************************)
(* What is decoded from a profile file or from a window's request: fields  *)
(* of these types, whatever the rules above say of their values.           *)
(***************************************************************************)
IsProfile(p) ==
  /\ p = [gateway |-> p.gateway, revision |-> p.revision, complete |-> p.complete,
          models |-> p.models, tuned |-> p.tuned, policy |-> p.policy,
          agents |-> p.agents, specialists |-> p.specialists]
  /\ p.agents \in Seq([id : Nat, model : Nat, peers : Seq(Nat), specialists : Seq(Nat)]) \ {<<>>}
  /\ p.specialists \in Seq([id : Nat, model : Nat])

IsMember(m) == m = [id |-> m.id, model |-> m.model] /\ m.id \in Nat

IsTeam(t) ==
  /\ t = [primary |-> t.primary, peers |-> t.peers, specialists |-> t.specialists,
          peerEdges |-> t.peerEdges, specialistEdges |-> t.specialistEdges,
          complete |-> t.complete]
  /\ IsMember(t.primary)
  /\ t.peers \in Seq(ToSet(t.peers)) /\ \A i \in DOMAIN t.peers : IsMember(t.peers[i])
  /\ t.specialists \in Seq(ToSet(t.specialists))
  /\ \A i \in DOMAIN t.specialists : IsMember(t.specialists[i])
  /\ t.peerEdges \in Seq(Nat \X Nat) /\ t.specialistEdges \in Seq(Nat \X Nat)

ASSUME TeamShapes ==
  /\ MaxRevision \in Nat
  /\ \A p \in Imports : /\ IsProfile(p) /\ p.gateway \in Gateways \cup {NoGateway}
                        /\ p.revision \in Int /\ p.revision <= MaxRevision
  /\ \A t \in Sketches : IsTeam(t)

(***************************************************************************)
(* The revision table.                                                     *)
(***************************************************************************)
\* The newest revision, 0 when the Team has none.
NewestRevision(rs) == IF DOMAIN rs = {} THEN 0 ELSE CHOOSE r \in DOMAIN rs : \A o \in DOMAIN rs : o <= r

\* A row of the table. `base` and `parent` are not columns: they record the
\* revision the writer had loaded and the newest one when it wrote.
Row(p, base, parent) == [profile |-> p, base |-> base, parent |-> parent]

\* mutant: the revision the editor loaded is not compared with the newest one.
BugPublishUnchecked(rs, d) ==
  LET latest == NewestRevision(rs)
      p      == ProfileOf(d, latest + 1)
  IN  IF ~Valid(p) THEN [kind |-> "invalid", rows |-> rs]
      ELSE [kind |-> "published",
            rows |-> [r \in DOMAIN rs \cup {latest + 1} |->
                        IF r = latest + 1 THEN Row(p, d.base, latest) ELSE rs[r]]]

\* mutant: the published document keeps the revision it was loaded with.
BugKeepRevision(rs, d) ==
  LET latest == NewestRevision(rs)
      p      == ProfileOf(d, d.base)
  IN  IF latest # d.base THEN [kind |-> "stale", rows |-> rs]
      ELSE [kind |-> "published",
            rows |-> [r \in DOMAIN rs \cup {latest + 1} |->
                        IF r = latest + 1 THEN Row(p, d.base, latest) ELSE rs[r]]]

\* PublishProfile: the comparison with the newest revision and the insert are
\* one transaction.
PublishProfile(rs, d) ==
  LET latest == NewestRevision(rs)
      p      == ProfileOf(d, latest + 1)
  IN  IF latest # d.base THEN [kind |-> "stale", rows |-> rs]
      ELSE IF ~Valid(p) THEN [kind |-> "invalid", rows |-> rs]
      ELSE [kind |-> "published",
            rows |-> [r \in DOMAIN rs \cup {latest + 1} |->
                        IF r = latest + 1 THEN Row(p, d.base, latest) ELSE rs[r]]]

\* ImportProfile: a revision number that is taken keeps what it holds.
ImportProfile(p) ==
  /\ Valid(p)
  /\ importable' = importable \ {p}
  /\ p.revision \notin DOMAIN revisions
  /\ revisions' = [r \in DOMAIN revisions \cup {p.revision} |->
                     IF r = p.revision THEN Row(p, NewestRevision(revisions), NewestRevision(revisions))
                     ELSE revisions[r]]
  /\ minted' = TRUE
  /\ UNCHANGED <<sketch, windows>>

(***************************************************************************)
(* The host.  A window's host answers one request at a time.               *)
(***************************************************************************)
NoDraft == [gateway |-> NoGateway, base |-> 0,
            team |-> [primary |-> [id |-> 1, model |-> NoModel], peers |-> <<>>,
                      specialists |-> <<>>, peerEdges |-> <<>>, specialistEdges |-> <<>>,
                      complete |-> FALSE]]

NoAsk == [op |-> "none"]

Answer(kind, revision) == [kind |-> kind, revision |-> revision]

NoAnswer == Answer("none", 0)

Closed == [view |-> "closed", draft |-> NoDraft, catalog |-> NoGateway,
           call |-> NoAsk, frozen |-> NoAnswer, shown |-> NoAnswer, wrote |-> {}]

\* loadCatalog keeps the catalog it has when the gateway does not answer.
Catalog(h, g, answers) == IF answers THEN g ELSE h.catalog

\* Selecting another gateway clears every model of the draft.
WithoutModels(t) ==
  LET clear(m) == [m EXCEPT !.model = NoModel]
  IN  [t EXCEPT !.primary = clear(@),
                !.peers = [i \in DOMAIN @ |-> clear(@[i])],
                !.specialists = [i \in DOMAIN @ |-> clear(@[i])]]

WithGateway(d, gateway) ==
  IF d.gateway = gateway THEN d
  ELSE [d EXCEPT !.gateway = gateway, !.team = WithoutModels(@)]

\* Host.exchange: what the host and the table are after request q, and the
\* answer. `answers` says whether the gateway returns its catalog.
Exchange(h, q, rs, answers) ==
  CASE q.op = "new" ->
         [host |-> [h EXCEPT !.view = "new", !.draft = NoDraft, !.catalog = NoGateway],
          rows |-> rs, answer |-> Answer("init", 0)]
    [] q.op \in {"edit", "inspect"} ->
         LET p == rs[q.revision].profile
         IN  [host |-> [h EXCEPT !.view = q.op, !.draft = DraftOf(p),
                                 !.catalog = Catalog(h, p.gateway, answers)],
              rows |-> rs, answer |-> Answer("init", 0)]
    [] q.op = "gateway" ->
         IF h.view = "inspect" \/ ~answers
         THEN [host |-> h, rows |-> rs, answer |-> Answer("refused", 0)]
         ELSE [host |-> [h EXCEPT !.catalog = q.gateway, !.draft = WithGateway(@, q.gateway)],
               rows |-> rs, answer |-> Answer("init", 0)]
    [] q.op = "publish" ->
         IF h.view = "inspect" \/ ~Accepted(h.draft, h.catalog)
         THEN [host |-> h, rows |-> rs, answer |-> Answer("refused", 0)]
         ELSE LET out == PublishProfile(rs, h.draft)
              IN  [host |-> IF out.kind = "published"
                            THEN [h EXCEPT !.draft.base = NewestRevision(out.rows),
                                           !.wrote = @ \cup {NewestRevision(out.rows)}]
                            ELSE h,
                   rows |-> out.rows,
                   answer |-> Answer(out.kind, IF out.kind = "published" THEN NewestRevision(out.rows) ELSE 0)]

\* What a window may ask next. After a publication it opens the revision.
AsksOf(w) ==
  LET h == windows[w]
  IN  IF h.shown.kind = "published" THEN {[op |-> "inspect", revision |-> h.shown.revision]}
      ELSE {[op |-> "new"] : x \in IF minted THEN {} ELSE {1}}
             \cup [op : {"edit", "inspect"}, revision : DOMAIN revisions]
             \cup (IF h.view \in {"new", "edit"}
                   THEN [op : {"gateway"}, gateway : Gateways] \cup {[op |-> "publish"]} ELSE {})

\* ExchangeSized with capacity 0, the sizing probe: the request runs and its
\* answer is frozen.
Probe(w, q, answers) ==
  /\ windows[w].call = NoAsk
  /\ q \in AsksOf(w)
  /\ NewestRevision(revisions) < MaxRevision \/ q.op # "publish"
  /\ LET out == Exchange([windows[w] EXCEPT !.wrote = {}], q, revisions, answers)
     IN  /\ windows' = [windows EXCEPT ![w] = [out.host EXCEPT !.call = q, !.frozen = out.answer,
                                                               !.shown = NoAnswer]]
         /\ revisions' = out.rows
  /\ minted' = (minted \/ q.op = "new")
  /\ UNCHANGED <<sketch, importable>>

\* mutant: the second call runs the request again instead of fetching the
\* frozen answer.
BugTransferRuns(w) ==
  /\ windows[w].call # NoAsk
  /\ LET out == Exchange(windows[w], windows[w].call, revisions, TRUE)
     IN  /\ windows' = [windows EXCEPT ![w] =
                         [out.host EXCEPT !.call = NoAsk, !.frozen = NoAnswer,
                            !.shown = IF windows[w].call.op = "publish" THEN out.answer ELSE NoAnswer]]
         /\ revisions' = out.rows
  /\ UNCHANGED <<sketch, importable, minted>>

\* The second call: the same request fetches the frozen answer. The window
\* keeps what a publication answered; of the others it keeps the draft.
Transfer(w) ==
  /\ windows[w].call # NoAsk
  /\ windows' = [windows EXCEPT ![w].call = NoAsk,
                   ![w].shown = IF windows[w].call.op = "publish" THEN windows[w].frozen ELSE NoAnswer,
                   ![w].frozen = NoAnswer]
  /\ UNCHANGED <<sketch, importable, minted, revisions>>

\* The user draws the Team in an editing window. The window keeps the gateway
\* and the base revision it was given, and sends the drawing with the next
\* request.
Draw(w) ==
  /\ windows[w].call = NoAsk
  /\ windows[w].view \in {"new", "edit"}
  /\ windows[w].shown.kind # "published"
  /\ windows[w].draft.team # sketch
  /\ windows' = [windows EXCEPT ![w].draft.team = sketch, ![w].shown = NoAnswer, ![w].wrote = {}]
  /\ UNCHANGED <<sketch, importable, minted, revisions>>

TeamInit ==
  /\ sketch \in Sketches
  /\ importable = Imports
  /\ minted = FALSE
  /\ revisions = [r \in {} |-> NoDraft]
  /\ windows = [w \in Windows |-> Closed]

TeamNext ==
  \/ \E p \in importable : ImportProfile(p)
  \/ \E w \in Windows :
       \/ \E q \in AsksOf(w), answers \in BOOLEAN : Probe(w, q, answers)
       \/ Transfer(w)
       \/ Draw(w)

TeamSpec == TeamInit /\ [][TeamNext]_teamVars

(***************************************************************************)
(* Properties.                                                             *)
(***************************************************************************)
\* Types of the window and table state; a row's number is the one its document carries.
TeamTypeOK ==
  /\ importable \subseteq Imports
  /\ minted \in BOOLEAN
  /\ DOMAIN revisions \subseteq 1..MaxRevision
  /\ \A r \in DOMAIN revisions : revisions[r].profile.revision = r
  /\ \A w \in Windows :
       /\ windows[w].view \in {"closed", "new", "edit", "inspect"}
       /\ windows[w].catalog \in Gateways \cup {NoGateway}
       /\ windows[w].shown.kind \in {"none", "init", "refused", "stale", "invalid", "published"}

\* No window publishes over a revision its user has not seen: the newest
\* revision when it wrote is the one its draft was made from.
NoLostRevision == \A r \in DOMAIN revisions : revisions[r].parent = revisions[r].base

\* A publication is executed once per request, and the answer the window
\* shows is the one of that execution: it says "published" exactly when the
\* request added a revision, and names it.
AnswersAreTruthful ==
  \A w \in Windows :
    windows[w].call = NoAsk =>
      windows[w].wrote = IF windows[w].shown.kind = "published"
                         THEN {windows[w].shown.revision} ELSE {}

\* A draft the diagnostics accept is only ever refused for being stale: the
\* checks the window makes imply those the table makes.
AcceptedDraftsAreValid ==
  \A w \in Windows : windows[w].shown.kind # "invalid" /\ windows[w].frozen.kind # "invalid"

\* What a profile says of the Team's graph: the members and their models, who is
\* primary, which agents are peers and who may call which specialist.
Meaning(p) ==
  [gateway  |-> p.gateway,
   primary  |-> p.agents[1].id,
   models   |-> {<<a[1], p.models[a[2]]>> : a \in Assigned(p)},
   peers    |-> {<<a, PeersOf(p, a)>> : a \in Agents(p)},
   calls    |-> {<<p.agents[i].id, ToSet(p.agents[i].specialists)>> : i \in DOMAIN p.agents}]

\* What it says that no window shows: whose model is tuned, and the policy.
Unshown(p) ==
  [tuned  |-> {a[1] : a \in {b \in Assigned(p) : b[2] \in p.tuned}},
   policy |-> p.policy]

\* Opening a stored revision and publishing it untouched would store the same
\* graph: gateway, members, their models, peers and calls. What the window does
\* not show goes back to its default: no model is tuned and no policy is set.
DraftsKeepTheTeam ==
  \A r \in DOMAIN revisions :
    LET p    == revisions[r].profile
        next == ProfileOf(DraftOf(p), r + 1)
    IN  Meaning(next) = Meaning(p) /\ Unshown(next) = [tuned |-> {}, policy |-> FALSE]

\* A draft stands for its Team's graph: what the window accepts the table
\* accepts, and opening a revision and publishing it changes nothing of the Team
\* but the settings the window does not show, which it clears.
DraftsMeanTheirTeam == AcceptedDraftsAreValid /\ DraftsKeepTheTeam

=============================================================================
