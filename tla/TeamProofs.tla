----------------------------- MODULE TeamProofs -----------------------------
(***************************************************************************)
(* Proofs about TeamProfiles: publications are ordered and answered        *)
(* truthfully, and a Team that is opened as a draft and published again    *)
(* says what it said.                                                      *)
(*                                                                         *)
(* The second part follows a profile through DraftFromProfile and          *)
(* TeamDraft.Profile: how a finite set is listed in order, what a loop     *)
(* over the edges leaves on each agent, what the draft of a profile holds, *)
(* and what the profile of that draft says.                                *)
(***************************************************************************)
EXTENDS TeamProfiles, FiniteSetTheorems, SequenceTheorems, WellFoundedInduction, TLAPS

-----------------------------------------------------------------------------
(* Team revisions and the windows that edit them.                          *)

IsHost(h) ==
  h \in [view : {h.view}, draft : {h.draft}, catalog : {h.catalog}, call : {h.call},
         frozen : {h.frozen}, shown : {h.shown}, wrote : {h.wrote}]

\* What an answer says was written.
Claimed(a) == IF a.kind = "published" THEN {a.revision} ELSE {}

\* Between a probe and its transfer the frozen answer is the one to be shown.
WindowAnswers(h) ==
  /\ h.call = NoAsk => h.wrote = Claimed(h.shown)
  /\ h.call # NoAsk => h.wrote = IF h.call.op = "publish" THEN Claimed(h.frozen) ELSE {}
  /\ h.shown.kind # "invalid" /\ h.frozen.kind # "invalid"

TeamInv ==
  /\ NoLostRevision
  /\ DOMAIN windows = Windows /\ windows = [w \in Windows |-> windows[w]]
  /\ \A w \in Windows : IsHost(windows[w]) /\ WindowAnswers(windows[w])

LEMMA HostSelects ==
  ASSUME NEW h, IsHost(h), NEW d, NEW c
  PROVE  LET g == [h EXCEPT !.catalog = c, !.draft = d]
         IN  IsHost(g) /\ g.wrote = h.wrote
BY DEF IsHost

Publisher(h, n) == [h EXCEPT !.draft.base = n, !.wrote = @ \cup {n}]

LEMMA HostPublishes ==
  \A h, n : IsHost(h) => /\ IsHost(Publisher(h, n))
                        /\ Publisher(h, n).wrote = h.wrote \cup {n}
<1> TAKE h, n
<1> HAVE IsHost(h)
<1> QED BY DEF IsHost, Publisher

\* DiagnosticsForDraft covers Validate: a member whose model's fields are
\* missing has no model chosen, which the draft's own check refuses.
LEMMA AcceptedIsValid ==
  ASSUME NEW d, NEW catalog, Accepted(d, catalog)
  PROVE  Valid(ProfileOf(d, d.base + 1))
<1> DEFINE p == ProfileOf(d, d.base + 1)
           members == MembersOf(d.team)
           empty == {members[i].id : i \in {j \in DOMAIN members :
                       members[j].model = NoModel /\ members[j].id # Blank}}
           offered == IF catalog = d.gateway /\ catalog # NoGateway THEN Offered[catalog] ELSE {}
<1>1. StructureHolds(p) /\ UnnamedModels(p) \subseteq empty /\ MembersChosen(d.team, offered)
  <2> HIDE DEF members
  <2> QED BY DEF Accepted, members
<1>2. \A i \in DOMAIN members : members[i].model # NoModel
  BY <1>1 DEF MembersChosen
<1> HIDE DEF p, members
<1>3. empty = {}
  BY <1>2
<1> QED BY <1>1, <1>3 DEF Valid, p

\* Publishing compares and writes in one transaction.
LEMMA PublishedRows ==
  ASSUME NEW rs, NEW d
  PROVE  LET out == PublishProfile(rs, d) IN
         /\ out.kind \in {"stale", "invalid", "published"}
         /\ out.kind = "invalid" => ~Valid(ProfileOf(d, d.base + 1))
         /\ \A r \in DOMAIN out.rows :
              \/ r \in DOMAIN rs /\ out.rows[r] = rs[r]
              \/ out.rows[r].parent = out.rows[r].base
<1> DEFINE latest == NewestRevision(rs)
           p == ProfileOf(d, latest + 1)
           rows == [r \in DOMAIN rs \cup {latest + 1} |->
                      IF r = latest + 1 THEN Row(p, d.base, latest) ELSE rs[r]]
<1>1. PublishProfile(rs, d) = IF latest # d.base THEN [kind |-> "stale", rows |-> rs]
                              ELSE IF ~Valid(p) THEN [kind |-> "invalid", rows |-> rs]
                              ELSE [kind |-> "published", rows |-> rows]
  BY DEF PublishProfile
<1>2. latest = d.base => p = ProfileOf(d, d.base + 1)
  OBVIOUS
<1>3. latest = d.base => \A r \in DOMAIN rows :
                           \/ r \in DOMAIN rs /\ rows[r] = rs[r]
                           \/ rows[r].parent = rows[r].base
  BY DEF Row
<1> HIDE DEF latest, p, rows
<1> QED BY <1>1, <1>2, <1>3

\* One request: what the host answers and what it wrote.
LEMMA ExchangeResult ==
  ASSUME NEW h, IsHost(h), h.wrote = {}, NEW q, NEW rs, NEW offered,
         q.op \in {"new", "edit", "inspect", "gateway", "publish"}
  PROVE  LET out == Exchange(h, q, rs, offered) IN
         /\ IsHost(out.host) /\ out.answer.kind # "invalid"
         /\ out.host.wrote = IF q.op = "publish" THEN Claimed(out.answer) ELSE {}
         /\ \A r \in DOMAIN out.rows :
              \/ r \in DOMAIN rs /\ out.rows[r] = rs[r]
              \/ out.rows[r].parent = out.rows[r].base
<1> DEFINE out == Exchange(h, q, rs, offered)
<1> SUFFICES
      /\ IsHost(out.host) /\ out.answer.kind # "invalid"
      /\ out.host.wrote = IF q.op = "publish" THEN Claimed(out.answer) ELSE {}
      /\ \A r \in DOMAIN out.rows :
           \/ r \in DOMAIN rs /\ out.rows[r] = rs[r]
           \/ out.rows[r].parent = out.rows[r].base
  OBVIOUS
<1>1. ASSUME NEW v, NEW d, NEW c,
             out = [host |-> [h EXCEPT !.view = v, !.draft = d, !.catalog = c],
                    rows |-> rs, answer |-> Answer("init", 0)]
      PROVE  /\ IsHost(out.host) /\ out.answer.kind # "invalid"
             /\ out.host.wrote = {} /\ out.rows = rs
  <2> DEFINE g == [h EXCEPT !.view = v, !.draft = d, !.catalog = c]
  <2>1. IsHost(g) /\ g.wrote = {}
    BY DEF IsHost
  <2>2. out.host = g /\ out.rows = rs /\ out.answer = Answer("init", 0)
    BY <1>1
  <2> HIDE DEF out, g
  <2> QED BY <2>1, <2>2 DEF Answer
<1>2. CASE q.op \in {"new", "edit", "inspect"}
  <2>1. \E v, d, c : out = [host |-> [h EXCEPT !.view = v, !.draft = d, !.catalog = c],
                           rows |-> rs, answer |-> Answer("init", 0)]
    <3>1. CASE q.op = "new"
      BY <3>1 DEF Exchange
    <3>2. CASE q.op \in {"edit", "inspect"}
      BY <3>2 DEF Exchange
    <3> QED BY <1>2, <3>1, <3>2
  <2>2. PICK v, d, c : out = [host |-> [h EXCEPT !.view = v, !.draft = d, !.catalog = c],
                              rows |-> rs, answer |-> Answer("init", 0)]
    BY <2>1
  <2>3. /\ IsHost(out.host) /\ out.answer.kind # "invalid"
        /\ out.host.wrote = {} /\ out.rows = rs
    BY <1>1, <2>2
  <2>4. q.op # "publish"
    BY <1>2
  <2> HIDE DEF out
  <2> QED BY <2>3, <2>4
<1>3. CASE q.op = "gateway"
  <2>1. \/ out = [host |-> h, rows |-> rs, answer |-> Answer("refused", 0)]
        \/ \E d : out = [host |-> [h EXCEPT !.catalog = q.gateway, !.draft = d],
                         rows |-> rs, answer |-> Answer("init", 0)]
    BY <1>3 DEF Exchange
  <2> HIDE DEF out
  <2>2. CASE out = [host |-> h, rows |-> rs, answer |-> Answer("refused", 0)]
    BY <1>3, <2>2 DEF Answer
  <2>3. ASSUME NEW d, out = [host |-> [h EXCEPT !.catalog = q.gateway, !.draft = d],
                             rows |-> rs, answer |-> Answer("init", 0)]
        PROVE  /\ IsHost(out.host) /\ out.answer.kind # "invalid"
               /\ out.host.wrote = {} /\ out.rows = rs
    BY <2>3, HostSelects DEF Answer
  <2> QED BY <1>3, <2>1, <2>2, <2>3
<1>4. CASE q.op = "publish"
  <2> DEFINE pub == PublishProfile(rs, h.draft)
             n == NewestRevision(pub.rows)
  <2>1. CASE h.view = "inspect" \/ ~Accepted(h.draft, h.catalog)
    <3>1. out = [host |-> h, rows |-> rs, answer |-> Answer("refused", 0)]
      BY <1>4, <2>1 DEF Exchange
    <3> HIDE DEF out
    <3> QED BY <1>4, <3>1 DEF Answer, Claimed
  <2>2. CASE ~(h.view = "inspect" \/ ~Accepted(h.draft, h.catalog))
    <3>1. out = [host |-> IF pub.kind = "published"
                            THEN [h EXCEPT !.draft.base = n, !.wrote = @ \cup {n}]
                            ELSE h,
                 rows |-> pub.rows,
                 answer |-> Answer(pub.kind, IF pub.kind = "published" THEN n ELSE 0)]
      BY <1>4, <2>2 DEF Exchange
    <3>2. /\ pub.kind \in {"stale", "published"}
          /\ \A r \in DOMAIN pub.rows :
               \/ r \in DOMAIN rs /\ pub.rows[r] = rs[r]
               \/ pub.rows[r].parent = pub.rows[r].base
      BY <2>2, AcceptedIsValid, PublishedRows
    <3> HIDE DEF out, pub, n
    <3>3. CASE pub.kind = "stale"
      BY <1>4, <3>1, <3>2, <3>3 DEF Answer, Claimed
    <3>4. CASE pub.kind = "published"
      <4>1. IsHost(Publisher(h, n)) /\ Publisher(h, n).wrote = h.wrote \cup {n}
        BY HostPublishes, Zenon
      <4>2. out = [host |-> Publisher(h, n), rows |-> pub.rows,
                   answer |-> Answer(pub.kind, n)]
        BY <3>1, <3>4 DEF Publisher
      <4>3. Publisher(h, n).wrote = {n}
        BY <4>1
      <4> HIDE DEF out
      <4> QED BY <1>4, <3>2, <3>4, <4>1, <4>2, <4>3 DEF Answer, Claimed
    <3> QED BY <3>2, <3>3, <3>4
  <2> QED BY <2>1, <2>2
<1> QED BY <1>2, <1>3, <1>4

LEMMA ImportStep ==
  ASSUME TeamInv, NEW p, ImportProfile(p)
  PROVE  TeamInv'
<1>1. /\ windows' = windows
      /\ revisions' = [r \in DOMAIN revisions \cup {p.revision} |->
                         IF r = p.revision
                         THEN Row(p, NewestRevision(revisions), NewestRevision(revisions))
                         ELSE revisions[r]]
  BY DEF ImportProfile
<1>2. NoLostRevision'
  BY <1>1 DEF TeamInv, NoLostRevision, Row
<1> QED BY <1>1, <1>2 DEF TeamInv

LEMMA GatewayProbeStep ==
  ASSUME TeamInv, NEW w \in Windows, NEW q \in AsksOf(w), NEW offered, Probe(w, q, offered)
  PROVE  TeamInv'
<1>1. q.op \in {"new", "edit", "inspect", "gateway", "publish"}
  <2>1. \/ q = [op |-> "inspect", revision |-> windows[w].shown.revision]
        \/ q \in {[op |-> "new"] : x \in IF minted THEN {} ELSE {1}}
        \/ q \in [op : {"edit", "inspect"}, revision : DOMAIN revisions]
        \/ q \in [op : {"gateway"}, gateway : Gateways]
        \/ q = [op |-> "publish"]
    BY DEF AsksOf
  <2> QED BY <2>1
<1>2. PICK h : h = [windows[w] EXCEPT !.wrote = {}]
  OBVIOUS
<1>3. IsHost(windows[w]) /\ DOMAIN windows = Windows
  BY DEF TeamInv
<1>4. IsHost(h) /\ h.wrote = {}
  BY <1>2, <1>3 DEF IsHost
<1> DEFINE out == Exchange(h, q, revisions, offered)
           g == [out.host EXCEPT !.call = q, !.frozen = out.answer, !.shown = NoAnswer]
<1>5. windows' = [windows EXCEPT ![w] = g] /\ revisions' = out.rows
  BY <1>2 DEF Probe
<1>6. /\ IsHost(out.host) /\ out.answer.kind # "invalid"
      /\ out.host.wrote = IF q.op = "publish" THEN Claimed(out.answer) ELSE {}
      /\ \A r \in DOMAIN out.rows :
           \/ r \in DOMAIN revisions /\ out.rows[r] = revisions[r]
           \/ out.rows[r].parent = out.rows[r].base
  BY <1>1, <1>4, ExchangeResult
<1> HIDE DEF out
<1>7. /\ IsHost(g) /\ g.call = q /\ g.frozen = out.answer /\ g.shown = NoAnswer
      /\ g.wrote = out.host.wrote
  BY <1>6 DEF IsHost
<1> HIDE DEF g
<1>8. WindowAnswers(g)
  <2>1. q # NoAsk
    BY <1>1 DEF NoAsk
  <2>2. NoAnswer.kind # "invalid"
    BY DEF NoAnswer, Answer
  <2> QED BY <1>6, <1>7, <2>1, <2>2 DEF WindowAnswers
<1>9. /\ DOMAIN windows' = Windows /\ windows' = [v \in Windows |-> windows'[v]]
      /\ windows'[w] = g /\ \A v \in Windows : v # w => windows'[v] = windows[v]
  BY <1>3, <1>5
<1>10. NoLostRevision'
  BY <1>5, <1>6 DEF TeamInv, NoLostRevision
<1> QED BY <1>7, <1>8, <1>9, <1>10 DEF TeamInv

LEMMA TransferStep ==
  ASSUME TeamInv, NEW w \in Windows, Transfer(w)
  PROVE  TeamInv'
<1> DEFINE h == windows[w]
           g == [h EXCEPT !.call = NoAsk,
                          !.shown = IF h.call.op = "publish" THEN h.frozen ELSE NoAnswer,
                          !.frozen = NoAnswer]
<1>1. h.call # NoAsk /\ IsHost(h) /\ WindowAnswers(h) /\ DOMAIN windows = Windows
  BY DEF Transfer, TeamInv
<1>2. windows' = [windows EXCEPT ![w] = g] /\ revisions' = revisions
  BY <1>1 DEF Transfer, IsHost
<1>3. /\ IsHost(g) /\ g.call = NoAsk /\ g.frozen = NoAnswer /\ g.wrote = h.wrote
      /\ g.shown = IF h.call.op = "publish" THEN h.frozen ELSE NoAnswer
  BY <1>1 DEF IsHost
<1> HIDE DEF g
<1>4. WindowAnswers(g)
  <2>1. NoAnswer.kind = "none" /\ Claimed(NoAnswer) = {}
    BY DEF NoAnswer, Answer, Claimed
  <2> QED BY <1>1, <1>3, <2>1 DEF WindowAnswers
<1>5. /\ DOMAIN windows' = Windows /\ windows' = [v \in Windows |-> windows'[v]]
      /\ windows'[w] = g /\ \A v \in Windows : v # w => windows'[v] = windows[v]
  BY <1>1, <1>2
<1> QED BY <1>2, <1>3, <1>4, <1>5 DEF TeamInv, NoLostRevision

LEMMA DrawStep ==
  ASSUME TeamInv, NEW w \in Windows, Draw(w)
  PROVE  TeamInv'
<1> DEFINE h == windows[w]
           g == [h EXCEPT !.draft.team = sketch, !.shown = NoAnswer, !.wrote = {}]
<1>1. h.call = NoAsk /\ IsHost(h) /\ WindowAnswers(h) /\ DOMAIN windows = Windows
  BY DEF Draw, TeamInv
<1>2. windows' = [windows EXCEPT ![w] = g] /\ revisions' = revisions
  BY <1>1 DEF Draw, IsHost
<1>3. /\ IsHost(g) /\ g.call = NoAsk /\ g.frozen = h.frozen /\ g.wrote = {}
      /\ g.shown = NoAnswer
  BY <1>1 DEF IsHost
<1> HIDE DEF g
<1>4. WindowAnswers(g)
  <2>1. NoAnswer.kind = "none" /\ Claimed(NoAnswer) = {}
    BY DEF NoAnswer, Answer, Claimed
  <2> QED BY <1>1, <1>3, <2>1 DEF WindowAnswers
<1>5. /\ DOMAIN windows' = Windows /\ windows' = [v \in Windows |-> windows'[v]]
      /\ windows'[w] = g /\ \A v \in Windows : v # w => windows'[v] = windows[v]
  BY <1>1, <1>2
<1> QED BY <1>2, <1>3, <1>4, <1>5 DEF TeamInv, NoLostRevision

\* What every window holds and shows agrees with what was written.
THEOREM TeamCorrect == TeamSpec => []TeamInv
<1>1. TeamInit => TeamInv
  <2> SUFFICES ASSUME TeamInit
               PROVE  TeamInv
    OBVIOUS
  <2>1. IsHost(Closed) /\ WindowAnswers(Closed)
    BY DEF IsHost, WindowAnswers, Closed, NoAnswer, Answer, Claimed
  <2> QED BY <2>1 DEF TeamInit, TeamInv, NoLostRevision
<1>2. TeamInv /\ [TeamNext]_teamVars => TeamInv'
  <2> SUFFICES ASSUME TeamInv, [TeamNext]_teamVars
               PROVE  TeamInv'
    OBVIOUS
  <2>1. CASE UNCHANGED teamVars
    BY <2>1 DEF teamVars, TeamInv, NoLostRevision
  <2> QED BY <2>1, ImportStep, GatewayProbeStep, TransferStep, DrawStep DEF TeamNext
<1> QED BY <1>1, <1>2, PTL DEF TeamSpec

\* No window publishes over a revision its user has not seen: whatever windows,
\* imports and retries there are, the newest revision when one is written is
\* the one its draft was made from (Store.PublishProfile).
THEOREM NoLostRevisionCorrect == TeamSpec => []NoLostRevision
<1>1. TeamInv => NoLostRevision
  BY DEF TeamInv
<1> QED BY <1>1, TeamCorrect, PTL

\* The answer a window shows is the one of the only execution of its request:
\* "published" exactly when that request added a revision, and which one (the
\* sizing probe executes, the transfer fetches: Host.exchange, ExchangeSized).
THEOREM AnswersAreTruthfulCorrect == TeamSpec => []AnswersAreTruthful
<1>1. TeamInv => AnswersAreTruthful
  BY DEF TeamInv, WindowAnswers, Claimed, AnswersAreTruthful
<1> QED BY <1>1, TeamCorrect, PTL

\* A draft the window's diagnostics accept is never refused as invalid by the
\* table, for any Team that can be drawn: DiagnosticsForDraft implies Validate.
THEOREM AcceptedDraftsAreValidCorrect == TeamSpec => []AcceptedDraftsAreValid
<1>1. TeamInv => AcceptedDraftsAreValid
  BY DEF TeamInv, WindowAnswers, AcceptedDraftsAreValid
<1> QED BY <1>1, TeamCorrect, PTL

-----------------------------------------------------------------------------
(* Through a draft and back.                                               *)

\* Every set of numbers has a least one.
LEMMA LeastOf ==
  ASSUME NEW S \in SUBSET Nat, S # {}
  PROVE  \E n \in S : \A m \in S : n <= m
<1>1. PICK n \in S : \A m \in S : <<m, n>> \notin OpToRel(<, Nat)
  BY NatLessThanWellFounded, WFMin, Zenon
<1>2. \A m \in S : ~(m < n)
  BY <1>1 DEF OpToRel
<1> QED BY <1>2

\* A strict total order on S, as a set of pairs.
Orders(R, S) ==
  /\ \A x \in S : <<x, x>> \notin R
  /\ \A x, y, z \in S : <<x, y>> \in R /\ <<y, z>> \in R => <<x, z>> \in R
  /\ \A x, y \in S : x = y \/ <<x, y>> \in R \/ <<y, x>> \in R

\* A finite ordered set has a last element.
LEMMA LastElement ==
  ASSUME NEW S, IsFiniteSet(S), S # {}, NEW R, Orders(R, S)
  PROVE  \E x \in S : \A y \in S \ {x} : <<y, x>> \in R
<1> DEFINE After(x) == {y \in S : <<x, y>> \in R}
           Sizes == {Cardinality(After(x)) : x \in S}
<1>1. \A x \in S : IsFiniteSet(After(x)) /\ Cardinality(After(x)) \in Nat
  BY FS_Subset, FS_CardinalityType
<1>2. PICK n \in Sizes : \A m \in Sizes : n <= m
  <2>1. Sizes \in SUBSET Nat /\ Sizes # {}
    BY <1>1
  <2> HIDE DEF Sizes
  <2> QED BY <2>1, LeastOf
<1>3. PICK x \in S : n = Cardinality(After(x))
  BY <1>2
<1>4. ASSUME NEW y \in S, <<x, y>> \in R
      PROVE  FALSE
  <2>1. After(y) \subseteq After(x) /\ y \in After(x) /\ y \notin After(y)
    BY <1>4 DEF Orders
  <2>2. After(y) # After(x)
    BY <2>1
  <2>3. Cardinality(After(y)) <= Cardinality(After(x))
        /\ Cardinality(After(y)) # Cardinality(After(x))
    <3>1. IsFiniteSet(After(x))
      BY <1>1
    <3> HIDE DEF After
    <3> QED BY <2>1, <2>2, <3>1, FS_Subset
  <2>4. Cardinality(After(x)) <= Cardinality(After(y))
    BY <1>2, <1>3
  <2>5. Cardinality(After(x)) \in Nat /\ Cardinality(After(y)) \in Nat
    BY <1>1
  <2> HIDE DEF After
  <2> QED BY <2>3, <2>4, <2>5
<1> QED BY <1>4 DEF Orders

\* s lists S in the order R.
Lists(s, S, R) ==
  /\ s \in [1..Cardinality(S) -> S]
  /\ \A i, j \in 1..Cardinality(S) : i < j => <<s[i], s[j]>> \in R

\* A finite ordered set can be listed.
LEMMA OrderedExists ==
  ASSUME NEW S, IsFiniteSet(S), NEW R, Orders(R, S)
  PROVE  \E s : Lists(s, S, R)
<1> DEFINE Bad == {T \in SUBSET S : \A s : ~Lists(s, T, R)}
           Sizes == {Cardinality(T) : T \in Bad}
<1>1. SUFFICES ASSUME Bad # {}
               PROVE  FALSE
  OBVIOUS
<1>2. \A T \in SUBSET S : IsFiniteSet(T) /\ Cardinality(T) \in Nat /\ Orders(R, T)
  BY FS_Subset, FS_CardinalityType DEF Orders
<1>3. PICK n \in Sizes : \A m \in Sizes : n <= m
  <2>1. Sizes \in SUBSET Nat /\ Sizes # {}
    BY <1>1, <1>2
  <2> HIDE DEF Sizes
  <2> QED BY <2>1, LeastOf
<1>4. PICK T \in Bad : n = Cardinality(T)
  BY <1>3
<1>5. T # {}
  <2>1. ASSUME T = {}
        PROVE  FALSE
    <3>1. Cardinality(T) = 0
      BY <2>1, FS_EmptySet
    <3>2. Lists([i \in 1..0 |-> i], T, R)
      BY <3>1 DEF Lists
    <3> QED BY <3>2
  <2> QED BY <2>1
<1>6. PICK x \in T : \A y \in T \ {x} : <<y, x>> \in R
  <2>1. IsFiniteSet(T) /\ Orders(R, T)
    BY <1>2
  <2> HIDE DEF Bad
  <2> QED BY <1>5, <2>1, LastElement
<1>7. /\ Cardinality(T \ {x}) = n - 1 /\ n \in Nat /\ n - 1 \in Nat /\ T \ {x} \in SUBSET S
      /\ Cardinality(T) = n
  BY <1>2, <1>4, <1>6, FS_RemoveElement
<1>8. T \ {x} \notin Bad
  <2>1. ASSUME T \ {x} \in Bad
        PROVE  n <= Cardinality(T \ {x})
    BY <1>3, <2>1
  <2> QED BY <1>7, <2>1
<1>9. PICK s : Lists(s, T \ {x}, R)
  BY <1>7, <1>8
<1>10. /\ s \in [1..n - 1 -> T \ {x}]
       /\ \A i, j \in 1..n - 1 : i < j => <<s[i], s[j]>> \in R
  BY <1>7, <1>9 DEF Lists
<1>11. Lists([i \in 1..n |-> IF i = n THEN x ELSE s[i]], T, R)
  <2> DEFINE u == [i \in 1..n |-> IF i = n THEN x ELSE s[i]]
  <2>1. \A i \in 1..n : i # n => i \in 1..n - 1
    BY <1>7
  <2>2. u \in [1..n -> T]
    BY <1>6, <1>10, <2>1
  <2>3. ASSUME NEW i \in 1..n, NEW j \in 1..n, i < j
        PROVE  <<u[i], u[j]>> \in R
    <3>1. i # n /\ i \in 1..n - 1 /\ u[i] = s[i] /\ s[i] \in T \ {x}
      BY <1>7, <1>10, <2>1, <2>3
    <3>2. CASE j = n
      BY <1>6, <3>1, <3>2
    <3>3. CASE j # n
      BY <1>10, <2>1, <2>3, <3>1, <3>3
    <3> QED BY <3>2, <3>3
  <2> HIDE DEF u
  <2>4. Lists(u, T, R)
    BY <1>7, <2>2, <2>3 DEF Lists
  <2> QED BY <2>4 DEF u
<1> QED BY <1>11

\* A list of S names every element of S.
LEMMA ListsAll ==
  ASSUME NEW S, IsFiniteSet(S), NEW R, Orders(R, S), NEW s, Lists(s, S, R)
  PROVE  /\ s \in Seq(S) /\ DOMAIN s = 1..Cardinality(S) /\ Len(s) = Cardinality(S)
         /\ {s[i] : i \in DOMAIN s} = S
         /\ \A i, j \in DOMAIN s : s[i] = s[j] => i = j
<1> DEFINE n == Cardinality(S)
<1>1. n \in Nat
  BY FS_CardinalityType
<1>2. s \in [1..n -> S] /\ \A i, j \in 1..n : i < j => <<s[i], s[j]>> \in R
  BY DEF Lists
<1> HIDE DEF n
<1>3. \A i, j \in 1..n : s[i] = s[j] => i = j
  <2>1. \A i, j \in 1..n : i < j => s[i] # s[j]
    BY <1>2 DEF Orders
  <2>2. \A i, j \in 1..n : i = j \/ i < j \/ j < i
    BY <1>1
  <2> QED BY <2>1, <2>2
<1>4. s \in Injection(1..n, S)
  BY <1>2, <1>3 DEF Injection, IsInjective
<1>5. IsFiniteSet(1..n) /\ Cardinality(1..n) = n
  <2>1. 0 <= n + 1 BY <1>1
  <2>2. n = IF 1 > n THEN 0 ELSE n - 1 + 1
    BY <1>1
  <2> QED BY <1>1, <2>2, FS_Interval
<1>6. s \in Surjection(1..n, S)
  BY <1>4, <1>5, FS_Injection DEF n
<1> QED BY <1>1, <1>2, <1>3, <1>6 DEF Surjection, n

\* The elements of S in some order, each once.
Enumerates(s, S) ==
  /\ s \in Seq(S) /\ DOMAIN s = 1..Len(s) /\ {s[i] : i \in DOMAIN s} = S
  /\ \A i, j \in DOMAIN s : s[i] = s[j] => i = j

ByPlace(S) == Ordered(S, <)
ByPair(S) == Ordered(S, PairBelow)
ByMember(S) == Ordered(S, MemberBelow)

LEMMA PlacesListed ==
  ASSUME NEW S \in SUBSET Nat, IsFiniteSet(S)
  PROVE  Enumerates(ByPlace(S), S)
<1> DEFINE R == {e \in S \X S : e[1] < e[2]}
<1>1. \A x, y \in S : <<x, y>> \in R <=> x < y
  OBVIOUS
<1> HIDE DEF R
<1>2. Orders(R, S)
  BY <1>1 DEF Orders
<1>3. PICK f : Lists(f, S, R)
  BY <1>2, OrderedExists
<1> DEFINE P(s) == s \in [1..Cardinality(S) -> S] /\ \A i, j \in DOMAIN s : i < j => s[i] < s[j]
<1>4. P(f)
  BY <1>1, <1>3 DEF Lists
<1>5. ByPlace(S) = CHOOSE s : P(s)
  BY Zenon DEF ByPlace, Ordered
<1>6. P(ByPlace(S))
  <2> HIDE DEF P
  <2> QED BY <1>4, <1>5, Zenon
<1>7. Lists(ByPlace(S), S, R)
  BY <1>1, <1>6 DEF Lists
<1> QED BY <1>2, <1>7, ListsAll DEF Enumerates

LEMMA PairsListed ==
  ASSUME NEW S \in SUBSET (Nat \X Nat), IsFiniteSet(S)
  PROVE  Enumerates(ByPair(S), S)
<1> DEFINE R == {e \in S \X S : PairBelow(e[1], e[2])}
<1>1. \A x, y \in S : <<x, y>> \in R <=> PairBelow(x, y)
  OBVIOUS
<1> HIDE DEF R
<1>2. Orders(R, S)
  <2>1. \A x \in S : ~PairBelow(x, x)
    BY DEF PairBelow
  <2>2. \A x, y, z \in S : PairBelow(x, y) /\ PairBelow(y, z) => PairBelow(x, z)
    BY DEF PairBelow
  <2>3. \A x, y \in S : x = y \/ PairBelow(x, y) \/ PairBelow(y, x)
    BY DEF PairBelow
  <2> QED BY <1>1, <2>1, <2>2, <2>3 DEF Orders
<1>3. PICK f : Lists(f, S, R)
  BY <1>2, OrderedExists
<1> DEFINE P(s) == s \in [1..Cardinality(S) -> S]
                   /\ \A i, j \in DOMAIN s : i < j => PairBelow(s[i], s[j])
<1>4. P(f)
  BY <1>1, <1>3 DEF Lists
<1>5. ByPair(S) = CHOOSE s : P(s)
  BY Zenon DEF ByPair, Ordered
<1>6. P(ByPair(S))
  <2> HIDE DEF P
  <2> QED BY <1>4, <1>5, Zenon
<1>7. Lists(ByPair(S), S, R)
  BY <1>1, <1>6 DEF Lists
<1> QED BY <1>2, <1>7, ListsAll DEF Enumerates

LEMMA MembersListed ==
  ASSUME NEW S, IsFiniteSet(S), \A m \in S : m.id \in Nat,
         \A m, o \in S : m.id = o.id => m = o
  PROVE  Enumerates(ByMember(S), S)
<1> DEFINE R == {e \in S \X S : MemberBelow(e[1], e[2])}
<1>1. \A x, y \in S : <<x, y>> \in R <=> MemberBelow(x, y)
  OBVIOUS
<1> HIDE DEF R
<1>2. Orders(R, S)
  BY <1>1 DEF Orders, MemberBelow
<1>3. PICK f : Lists(f, S, R)
  BY <1>2, OrderedExists
<1> DEFINE P(s) == s \in [1..Cardinality(S) -> S]
                   /\ \A i, j \in DOMAIN s : i < j => MemberBelow(s[i], s[j])
<1>4. P(f)
  BY <1>1, <1>3 DEF Lists
<1>5. ByMember(S) = CHOOSE s : P(s)
  BY Zenon DEF ByMember, Ordered
<1>6. P(ByMember(S))
  <2> HIDE DEF P
  <2> QED BY <1>4, <1>5, Zenon
<1>7. Lists(ByMember(S), S, R)
  BY <1>1, <1>6 DEF Lists
<1> QED BY <1>2, <1>7, ListsAll DEF Enumerates

\* One step of the loop over the peer edges, or of the one over the calls.
StepOf(kind, p, e) == IF kind = "peer" THEN AssignPeer(p, e) ELSE AssignSpecialist(p, e)

\* g has what the loop has after each step.
StepsFrom(g, kind, p, e) ==
  /\ DOMAIN g = 0..Len(e) /\ g[0] = p
  /\ \A n \in 1..Len(e) : g[n] = StepOf(kind, g[n - 1], e[n])

LEMMA StepsExist ==
  ASSUME NEW kind, NEW p, NEW e, Len(e) \in Nat
  PROVE  \E g : StepsFrom(g, kind, p, e)
<1> DEFINE N == Len(e)
           Upon(g, k) == /\ DOMAIN g = 0..k /\ g[0] = p
                         /\ \A n \in 1..k : g[n] = StepOf(kind, g[n - 1], e[n])
           Bad == {k \in 0..N : \A g : ~Upon(g, k)}
<1>1. Bad = {}
  <2> SUFFICES ASSUME Bad # {} PROVE FALSE
    OBVIOUS
  <2>1. PICK k \in Bad : \A m \in Bad : k <= m
    <3>1. Bad \in SUBSET Nat
      OBVIOUS
    <3> HIDE DEF Bad
    <3> QED BY <3>1, LeastOf
  <2>2. k # 0
    <3>1. Upon([n \in 0..0 |-> p], 0)
      OBVIOUS
    <3> HIDE DEF Upon
    <3> QED BY <3>1
  <2>3. k - 1 \in 0..N /\ k \in Nat /\ ~(k <= k - 1)
    BY <2>2
  <2>4. PICK g : Upon(g, k - 1)
    <3> HIDE DEF Upon
    <3> QED BY <2>1, <2>3
  <2>5. Upon([n \in 0..k |-> IF n = k THEN StepOf(kind, g[k - 1], e[k]) ELSE g[n]], k)
    <3> DEFINE u == [n \in 0..k |-> IF n = k THEN StepOf(kind, g[k - 1], e[k]) ELSE g[n]]
    <3>1. \A n \in 0..k : n # k => n \in 0..k - 1 /\ u[n] = g[n]
      BY <2>3
    <3>2. u[k] = StepOf(kind, g[k - 1], e[k]) /\ DOMAIN u = 0..k
      BY <2>3
    <3> HIDE DEF u
    <3>3. ASSUME NEW n \in 1..k
          PROVE  u[n] = StepOf(kind, u[n - 1], e[n])
      <4>1. n - 1 \in 0..k /\ n - 1 # k /\ u[n - 1] = g[n - 1]
        BY <2>3, <3>1
      <4>2. CASE n = k
        BY <3>2, <4>1, <4>2
      <4>3. CASE n # k
        <5>1. n \in 1..k - 1 /\ u[n] = g[n]
          BY <2>3, <3>1, <4>3
        <5> QED BY <2>4, <4>1, <5>1
      <4> QED BY <4>2, <4>3
    <3>4. u[0] = p
      BY <2>2, <2>3, <2>4, <3>1
    <3> QED BY <3>2, <3>3, <3>4 DEF u
  <2> HIDE DEF Upon
  <2> QED BY <2>5
<1>2. PICK f : Upon(f, N)
  <2>1. N \in 0..N
    OBVIOUS
  <2> HIDE DEF Upon, N
  <2> QED BY <1>1, <2>1
<1> QED BY <1>2 DEF StepsFrom

AfterPeers(p, e) == ForEach(AssignPeer, p, e)
AfterCalls(p, e) == ForEach(AssignSpecialist, p, e)

\* g has what the loop over the peer edges has after each of them.
PeerRun(g, p, e) ==
  /\ DOMAIN g = 0..Len(e) /\ g[0] = p
  /\ \A n \in 1..Len(e) : g[n] = AssignPeer(g[n - 1], e[n])
  /\ AfterPeers(p, e) = g[Len(e)]

LEMMA PeerLoop ==
  ASSUME NEW p, NEW e, Len(e) \in Nat
  PROVE  \E g : PeerRun(g, p, e)
<1> DEFINE N == Len(e)
<1>1. \A q, x : StepOf("peer", q, x) = AssignPeer(q, x)
  BY Zenon DEF StepOf
<1>2. PICK f : StepsFrom(f, "peer", p, e)
  BY StepsExist
<1> DEFINE R(g) == g = [n \in 0..N |-> IF n = 0 THEN p ELSE AssignPeer(g[n - 1], e[n])]
<1>3. R([n \in 0..N |-> f[n]])
  <2> DEFINE h == [n \in 0..N |-> f[n]]
  <2>1. \A n \in 0..N : n # 0 => n \in 1..N /\ n - 1 \in 0..N
    OBVIOUS
  <2>2. \A n \in 0..N : h[n] = f[n]
    OBVIOUS
  <2> HIDE DEF h
  <2>3. \A n \in 0..N : f[n] = IF n = 0 THEN p ELSE AssignPeer(h[n - 1], e[n])
    BY <1>1, <1>2, <2>1, <2>2 DEF StepsFrom
  <2> QED BY <2>3 DEF h
<1>4. R(CHOOSE g : R(g))
  <2> HIDE DEF R
  <2> QED BY <1>3, Zenon
<1>5. PICK g : g = CHOOSE h : R(h)
  OBVIOUS
<1>6. AfterPeers(p, e) = g[Len(e)]
  BY <1>5, Zenon DEF ForEach, AfterPeers
<1>7. R(g)
  <2> HIDE DEF R
  <2> QED BY <1>4, <1>5, Zenon
<1>8. DOMAIN g = 0..N /\ g[0] = p /\ \A n \in 1..N : g[n] = AssignPeer(g[n - 1], e[n])
  BY <1>7
<1> QED BY <1>6, <1>8 DEF PeerRun

\* g has what the loop over the calls has after each of them.
CallRun(g, p, e) ==
  /\ DOMAIN g = 0..Len(e) /\ g[0] = p
  /\ \A n \in 1..Len(e) : g[n] = AssignSpecialist(g[n - 1], e[n])
  /\ AfterCalls(p, e) = g[Len(e)]

LEMMA CallLoop ==
  ASSUME NEW p, NEW e, Len(e) \in Nat
  PROVE  \E g : CallRun(g, p, e)
<1> DEFINE N == Len(e)
<1>1. \A q, x : StepOf("call", q, x) = AssignSpecialist(q, x)
  BY Zenon DEF StepOf
<1>2. PICK f : StepsFrom(f, "call", p, e)
  BY StepsExist
<1> DEFINE R(g) == g = [n \in 0..N |-> IF n = 0 THEN p ELSE AssignSpecialist(g[n - 1], e[n])]
<1>3. R([n \in 0..N |-> f[n]])
  <2> DEFINE h == [n \in 0..N |-> f[n]]
  <2>1. \A n \in 0..N : n # 0 => n \in 1..N /\ n - 1 \in 0..N
    OBVIOUS
  <2>2. \A n \in 0..N : h[n] = f[n]
    OBVIOUS
  <2> HIDE DEF h
  <2>3. \A n \in 0..N : f[n] = IF n = 0 THEN p ELSE AssignSpecialist(h[n - 1], e[n])
    BY <1>1, <1>2, <2>1, <2>2 DEF StepsFrom
  <2> QED BY <2>3 DEF h
<1>4. R(CHOOSE g : R(g))
  <2> HIDE DEF R
  <2> QED BY <1>3, Zenon
<1>5. PICK g : g = CHOOSE h : R(h)
  OBVIOUS
<1>6. AfterCalls(p, e) = g[Len(e)]
  BY <1>5, Zenon DEF ForEach, AfterCalls
<1>7. R(g)
  <2> HIDE DEF R
  <2> QED BY <1>4, <1>5, Zenon
<1>8. DOMAIN g = 0..N /\ g[0] = p /\ \A n \in 1..N : g[n] = AssignSpecialist(g[n - 1], e[n])
  BY <1>7
<1> QED BY <1>6, <1>8 DEF CallRun

-----------------------------------------------------------------------------
\* q has the members of p: only what its agents declare may differ.
SameMembers(p, q) ==
  /\ IsProfile(q)
  /\ q.gateway = p.gateway /\ q.revision = p.revision /\ q.complete = p.complete
  /\ q.models = p.models /\ q.tuned = p.tuned /\ q.policy = p.policy
  /\ q.specialists = p.specialists
  /\ DOMAIN q.agents = DOMAIN p.agents
  /\ \A i \in DOMAIN p.agents : /\ q.agents[i].id = p.agents[i].id
                                /\ q.agents[i].model = p.agents[i].model

AgentRecords == [id : Nat, model : Nat, peers : Seq(Nat), specialists : Seq(Nat)]
SpecialistRecords == [id : Nat, model : Nat]

\* The fields of a profile that is well formed.
LEMMA ProfileFields ==
  ASSUME NEW p, IsProfile(p)
  PROVE  /\ p.agents \in Seq(AgentRecords) /\ Len(p.agents) \in Nat \ {0}
         /\ DOMAIN p.agents = 1..Len(p.agents) /\ 1 \in DOMAIN p.agents
         /\ p.specialists \in Seq(SpecialistRecords)
         /\ DOMAIN p.specialists = 1..Len(p.specialists) /\ Len(p.specialists) \in Nat
         /\ \A i \in DOMAIN p.agents :
              /\ p.agents[i] \in AgentRecords
              /\ p.agents[i].id \in Nat /\ p.agents[i].model \in Nat
              /\ p.agents[i].peers \in Seq(Nat) /\ p.agents[i].specialists \in Seq(Nat)
         /\ \A i \in DOMAIN p.specialists : /\ p.specialists[i].id \in Nat
                                            /\ p.specialists[i].model \in Nat
<1>1. p.agents \in Seq(AgentRecords) /\ p.agents # <<>>
      /\ p.specialists \in Seq(SpecialistRecords)
  BY DEF IsProfile, AgentRecords, SpecialistRecords
<1>2. Len(p.agents) \in Nat \ {0} /\ DOMAIN p.agents = 1..Len(p.agents)
      /\ DOMAIN p.specialists = 1..Len(p.specialists) /\ Len(p.specialists) \in Nat
  BY <1>1
<1>3. ASSUME NEW i \in DOMAIN p.agents
      PROVE  p.agents[i] \in AgentRecords
  BY <1>1
<1>4. ASSUME NEW i \in DOMAIN p.specialists
      PROVE  p.specialists[i] \in SpecialistRecords
  BY <1>1
<1>5. ASSUME NEW i \in DOMAIN p.agents
      PROVE  /\ p.agents[i].id \in Nat /\ p.agents[i].model \in Nat
             /\ p.agents[i].peers \in Seq(Nat) /\ p.agents[i].specialists \in Seq(Nat)
  BY <1>3 DEF AgentRecords
<1>6. ASSUME NEW i \in DOMAIN p.specialists
      PROVE  p.specialists[i].id \in Nat /\ p.specialists[i].model \in Nat
  BY <1>4 DEF SpecialistRecords
<1> QED BY <1>1, <1>2, <1>3, <1>5, <1>6

\* A write to one agent's declarations.
LEMMA AgentWritten ==
  ASSUME NEW p, IsProfile(p), NEW j \in DOMAIN p.agents, NEW a \in AgentRecords,
         a.id = p.agents[j].id, a.model = p.agents[j].model
  PROVE  /\ SameMembers(p, [p EXCEPT !.agents[j] = a])
         /\ \A i \in DOMAIN p.agents :
              [p EXCEPT !.agents[j] = a].agents[i] = IF i = j THEN a ELSE p.agents[i]
<1> DEFINE all == [p.agents EXCEPT ![j] = a]
           q == [gateway |-> p.gateway, revision |-> p.revision, complete |-> p.complete,
                 models |-> p.models, tuned |-> p.tuned, policy |-> p.policy, agents |-> all,
                 specialists |-> p.specialists]
<1>1. q = [p EXCEPT !.agents[j] = a]
  <2>1. PICK g, r, c, m, tu, po, ag, sp :
          /\ p = [gateway |-> g, revision |-> r, complete |-> c, models |-> m, tuned |-> tu,
                  policy |-> po, agents |-> ag, specialists |-> sp]
          /\ g = p.gateway /\ r = p.revision /\ c = p.complete /\ m = p.models
          /\ tu = p.tuned /\ po = p.policy
          /\ ag = p.agents /\ sp = p.specialists
    BY DEF IsProfile
  <2>2. q = [gateway |-> g, revision |-> r, complete |-> c, models |-> m, tuned |-> tu,
             policy |-> po, agents |-> [ag EXCEPT ![j] = a], specialists |-> sp]
    BY <2>1
  <2>3. [[gateway |-> g, revision |-> r, complete |-> c, models |-> m, tuned |-> tu,
          policy |-> po, agents |-> ag, specialists |-> sp] EXCEPT !.agents[j] = a]
          = [gateway |-> g, revision |-> r, complete |-> c, models |-> m, tuned |-> tu,
             policy |-> po, agents |-> [ag EXCEPT ![j] = a], specialists |-> sp]
    OBVIOUS
  <2>4. \A x, y : x = y => [x EXCEPT !.agents[j] = a] = [y EXCEPT !.agents[j] = a]
    OBVIOUS
  <2>5. [p EXCEPT !.agents[j] = a]
          = [[gateway |-> g, revision |-> r, complete |-> c, models |-> m, tuned |-> tu,
              policy |-> po, agents |-> ag, specialists |-> sp] EXCEPT !.agents[j] = a]
    BY <2>1, <2>4, Zenon
  <2> HIDE DEF q
  <2> QED BY <2>2, <2>3, <2>5, Zenon
<1>2. /\ all \in Seq(AgentRecords) /\ DOMAIN all = DOMAIN p.agents /\ all # <<>>
      /\ \A i \in DOMAIN p.agents : all[i] = IF i = j THEN a ELSE p.agents[i]
  BY ProfileFields
<1> HIDE DEF all
<1>3. IsProfile(q)
  BY <1>2, ProfileFields DEF IsProfile, AgentRecords, SpecialistRecords
<1>4. SameMembers(p, q)
  BY <1>2, <1>3 DEF SameMembers
<1> QED BY <1>1, <1>2, <1>4

LEMMA FirstAgentFound ==
  ASSUME NEW p, IsProfile(p), NEW id \in Agents(p)
  PROVE  FirstAgent(p, id) \in DOMAIN p.agents /\ p.agents[FirstAgent(p, id)].id = id
<1> DEFINE Found == {i \in DOMAIN p.agents : p.agents[i].id = id}
<1>1. Found \in SUBSET Nat /\ Found # {}
  BY ProfileFields DEF Agents
<1>2. PICK n \in Found : \A m \in Found : n <= m
  <2> HIDE DEF Found
  <2> QED BY <1>1, LeastOf
<1>3. n \in DOMAIN p.agents /\ p.agents[n].id = id /\ \A j \in 1..(n - 1) : p.agents[j].id # id
  <2>1. \A j \in 1..(n - 1) : j \in DOMAIN p.agents /\ ~(n <= j)
    BY <1>1, ProfileFields
  <2> QED BY <1>2, <2>1
<1> QED BY <1>3 DEF FirstAgent

LEMMA UniqueAppended ==
  ASSUME NEW s \in Seq(Nat), NEW v \in Nat
  PROVE  AppendUnique(s, v) \in Seq(Nat) /\ ToSet(AppendUnique(s, v)) = ToSet(s) \cup {v}
<1>1. CASE v \in ToSet(s)
  BY <1>1 DEF AppendUnique
<1>2. CASE v \notin ToSet(s)
  <2>1. /\ Append(s, v) \in Seq(Nat) /\ DOMAIN Append(s, v) = 1..(Len(s) + 1)
        /\ Append(s, v)[Len(s) + 1] = v /\ \A i \in 1..Len(s) : Append(s, v)[i] = s[i]
        /\ DOMAIN s = 1..Len(s) /\ Len(s) \in Nat
    OBVIOUS
  <2>2. ToSet(Append(s, v)) = ToSet(s) \cup {v}
    BY <2>1 DEF ToSet
  <2> QED BY <1>2, <2>1, <2>2 DEF AppendUnique
<1> QED BY <1>1, <1>2

\* No two agents share an id.
Distinct(p) == \A i, j \in DOMAIN p.agents : p.agents[i].id = p.agents[j].id => i = j

\* The agent id of p declares other as a peer.
PutPeer(p, id, other) == [p EXCEPT !.agents[FirstAgent(p, id)].peers = AppendUnique(@, other)]

PeerAdded(p, q, id, other) ==
  /\ SameMembers(p, q)
  /\ \A i \in DOMAIN p.agents : q.agents[i].specialists = p.agents[i].specialists
  /\ \E j \in DOMAIN p.agents :
       /\ p.agents[j].id = id
       /\ \A i \in DOMAIN p.agents \ {j} : q.agents[i].peers = p.agents[i].peers
       /\ ToSet(q.agents[j].peers) = ToSet(p.agents[j].peers) \cup {other}

LEMMA PeerPut ==
  ASSUME NEW p, IsProfile(p), NEW id \in Agents(p), NEW other \in Nat
  PROVE  PeerAdded(p, PutPeer(p, id, other), id, other)
<1>1. PICK j \in DOMAIN p.agents : j = FirstAgent(p, id) /\ p.agents[j].id = id
  BY FirstAgentFound
<1>2. PICK a : a = [p.agents[j] EXCEPT !.peers = AppendUnique(@, other)]
  OBVIOUS
<1>3. p.agents[j] \in AgentRecords /\ p.agents[j].peers \in Seq(Nat)
  BY ProfileFields
<1>4. AppendUnique(p.agents[j].peers, other) \in Seq(Nat)
      /\ ToSet(AppendUnique(p.agents[j].peers, other)) = ToSet(p.agents[j].peers) \cup {other}
  BY <1>3, UniqueAppended
<1>5. /\ a \in AgentRecords /\ a.id = p.agents[j].id /\ a.model = p.agents[j].model
      /\ a.specialists = p.agents[j].specialists
      /\ a.peers = AppendUnique(p.agents[j].peers, other)
  BY <1>2, <1>3, <1>4 DEF AgentRecords
<1>6. PICK q : q = [p EXCEPT !.agents[j] = a]
  OBVIOUS
<1>7. PutPeer(p, id, other) = q
  BY <1>1, <1>2, <1>6 DEF PutPeer
<1>8. /\ SameMembers(p, q)
      /\ \A i \in DOMAIN p.agents : q.agents[i] = IF i = j THEN a ELSE p.agents[i]
  BY <1>5, <1>6, AgentWritten
<1>9. PeerAdded(p, q, id, other)
  BY <1>1, <1>4, <1>5, <1>8 DEF PeerAdded
<1> QED BY <1>7, <1>9

\* What one peer edge writes.
PeerWrites(p, q, e) ==
  /\ SameMembers(p, q)
  /\ \A i \in DOMAIN p.agents : q.agents[i].specialists = p.agents[i].specialists
  /\ Distinct(p) /\ Blank \notin {e[1], e[2]} /\ e[1] \in Agents(p) =>
       \A i \in DOMAIN p.agents :
          ToSet(q.agents[i].peers)
            = ToSet(p.agents[i].peers) \cup (IF p.agents[i].id = e[1] THEN {e[2]} ELSE {})

LEMMA PeerWritten ==
  ASSUME NEW p, IsProfile(p), NEW e \in Nat \X Nat
  PROVE  PeerWrites(p, AssignPeer(p, e), e)
<1>1. SameMembers(p, p) /\ e[1] \in Nat /\ e[2] \in Nat
  BY DEF SameMembers
<1>2. CASE Blank \in {e[1], e[2]}
  BY <1>1, <1>2 DEF AssignPeer, PeerWrites
<1>3. CASE Blank \notin {e[1], e[2]} /\ e[1] \in Agents(p)
  <2>1. AssignPeer(p, e) = PutPeer(p, e[1], e[2])
    BY <1>3, Zenon DEF AssignPeer, PutPeer
  <2>2. PeerAdded(p, AssignPeer(p, e), e[1], e[2])
    BY <1>1, <1>3, <2>1, PeerPut
  <2> QED BY <2>2 DEF PeerAdded, PeerWrites, Distinct
<1>4. CASE Blank \notin {e[1], e[2]} /\ e[1] \notin Agents(p) /\ e[2] \in Agents(p)
  <2>1. AssignPeer(p, e) = PutPeer(p, e[2], e[1])
    BY <1>4, Zenon DEF AssignPeer, PutPeer
  <2>2. PeerAdded(p, AssignPeer(p, e), e[2], e[1])
    BY <1>1, <1>4, <2>1, PeerPut
  <2> QED BY <1>4, <2>2 DEF PeerAdded, PeerWrites
<1>5. CASE Blank \notin {e[1], e[2]} /\ e[1] \notin Agents(p) /\ e[2] \notin Agents(p)
  BY <1>1, <1>5 DEF AssignPeer, PeerWrites
<1> QED BY <1>2, <1>3, <1>4, <1>5

\* What one call edge writes.
CallWrites(p, q, e) ==
  /\ SameMembers(p, q)
  /\ \A i \in DOMAIN p.agents : q.agents[i].peers = p.agents[i].peers
  /\ Distinct(p) /\ e[1] \in Agents(p) =>
       \A i \in DOMAIN p.agents :
          ToSet(q.agents[i].specialists)
            = ToSet(p.agents[i].specialists)
                \cup (IF p.agents[i].id = e[1] THEN {e[2]} ELSE {})

LEMMA CallWritten ==
  ASSUME NEW p, IsProfile(p), NEW e \in Nat \X Nat
  PROVE  CallWrites(p, AssignSpecialist(p, e), e)
<1>1. SameMembers(p, p)
  BY DEF SameMembers
<1>2. CASE e[1] \in Agents(p)
  <2>1. PICK j \in DOMAIN p.agents : j = FirstAgent(p, e[1]) /\ p.agents[j].id = e[1]
    BY <1>2, FirstAgentFound
  <2>2. PICK a : a = [p.agents[j] EXCEPT !.specialists = AppendUnique(@, e[2])]
    OBVIOUS
  <2>3. p.agents[j] \in AgentRecords /\ p.agents[j].specialists \in Seq(Nat)
    BY ProfileFields
  <2>4. AppendUnique(p.agents[j].specialists, e[2]) \in Seq(Nat)
        /\ ToSet(AppendUnique(p.agents[j].specialists, e[2]))
             = ToSet(p.agents[j].specialists) \cup {e[2]}
    BY <2>3, UniqueAppended
  <2>5. /\ a \in AgentRecords /\ a.id = p.agents[j].id /\ a.model = p.agents[j].model
        /\ a.peers = p.agents[j].peers
        /\ a.specialists = AppendUnique(p.agents[j].specialists, e[2])
    BY <2>2, <2>3, <2>4 DEF AgentRecords
  <2>6. AssignSpecialist(p, e) = [p EXCEPT !.agents[j] = a]
    BY <1>2, <2>1, <2>2 DEF AssignSpecialist
  <2>7. /\ SameMembers(p, AssignSpecialist(p, e))
        /\ \A i \in DOMAIN p.agents :
             AssignSpecialist(p, e).agents[i] = IF i = j THEN a ELSE p.agents[i]
    BY <2>5, <2>6, AgentWritten
  <2> QED BY <2>1, <2>4, <2>5, <2>7 DEF Distinct, CallWrites
<1>3. CASE e[1] \notin Agents(p)
  BY <1>1, <1>3 DEF AssignSpecialist, CallWrites
<1> QED BY <1>2, <1>3

LEMMA MembersKept ==
  ASSUME NEW p, NEW q, NEW r, SameMembers(p, q), SameMembers(q, r)
  PROVE  /\ SameMembers(p, r) /\ IsProfile(r)
         /\ Agents(q) = Agents(p) /\ (Distinct(p) => Distinct(q)) /\ DOMAIN q.agents = DOMAIN p.agents
         /\ \A i \in DOMAIN p.agents : q.agents[i].id = p.agents[i].id
BY DEF SameMembers, Agents, Distinct

\* What the edges e declare of the agent id.
Ends(e, n, id) == {e[k][2] : k \in {j \in 1..n : e[j][1] = id}}

LEMMA NoEnds == \A e, id : Ends(e, 0, id) = {}
BY DEF Ends

LEMMA OneMoreEnd ==
  ASSUME NEW e, NEW n \in Nat \ {0}, NEW id
  PROVE  Ends(e, n, id) = Ends(e, n - 1, id) \cup (IF e[n][1] = id THEN {e[n][2]} ELSE {})
<1>1. 1..n = (1..n - 1) \cup {n}
  OBVIOUS
<1> QED BY <1>1 DEF Ends

\* The peers of q after the loop over the first n edges of e.
PeersAfter(p, q, e, n) ==
  /\ SameMembers(p, q)
  /\ \A i \in DOMAIN p.agents : q.agents[i].specialists = p.agents[i].specialists
  /\ Distinct(p) /\ (\A k \in DOMAIN e : Blank \notin {e[k][1], e[k][2]} /\ e[k][1] \in Agents(p)) =>
       \A i \in DOMAIN p.agents :
          ToSet(q.agents[i].peers) = ToSet(p.agents[i].peers) \cup Ends(e, n, p.agents[i].id)

LEMMA PeersAssigned ==
  ASSUME NEW p, IsProfile(p), NEW e \in Seq(Nat \X Nat)
  PROVE  PeersAfter(p, AfterPeers(p, e), e, Len(e))
<1>1. Len(e) \in Nat /\ DOMAIN e = 1..Len(e) /\ \A n \in 1..Len(e) : e[n] \in Nat \X Nat
  OBVIOUS
<1>0. PICK g : PeerRun(g, p, e)
  BY <1>1, PeerLoop
<1>2. /\ DOMAIN g = 0..Len(e) /\ g[0] = p
      /\ \A n \in 1..Len(e) : g[n] = AssignPeer(g[n - 1], e[n])
      /\ AfterPeers(p, e) = g[Len(e)]
  BY <1>0 DEF PeerRun
<1> DEFINE Bad == {n \in 0..Len(e) : ~PeersAfter(p, g[n], e, n)}
<1>3. Bad = {}
  <2> SUFFICES ASSUME Bad # {} PROVE FALSE
    OBVIOUS
  <2>1. PICK n \in Bad : \A m \in Bad : n <= m
    <3>1. Bad \in SUBSET Nat
      OBVIOUS
    <3> HIDE DEF Bad
    <3> QED BY <3>1, LeastOf
  <2>2. n # 0
    <3>1. PeersAfter(p, p, e, 0)
      BY NoEnds DEF PeersAfter, SameMembers
    <3> QED BY <1>2, <2>1, <3>1
  <2>3. n \in 1..Len(e) /\ n - 1 \in 0..Len(e) /\ n \in Nat \ {0} /\ ~(n <= n - 1)
    BY <1>1, <2>2
  <2>4. PICK q, r : q = g[n - 1] /\ r = g[n]
    OBVIOUS
  <2>5. PeersAfter(p, q, e, n - 1)
    BY <2>1, <2>3, <2>4
  <2>6. PeerWrites(q, r, e[n])
    <3>1. IsProfile(q) /\ e[n] \in Nat \X Nat /\ r = AssignPeer(q, e[n])
      BY <1>1, <1>2, <2>3, <2>4, <2>5 DEF PeersAfter, SameMembers
    <3> QED BY <3>1, PeerWritten
  <2>7. SameMembers(p, q) /\ SameMembers(q, r)
    BY <2>5, <2>6 DEF PeersAfter, PeerWrites
  <2>8. /\ SameMembers(p, r) /\ Agents(q) = Agents(p) /\ (Distinct(p) => Distinct(q))
        /\ DOMAIN q.agents = DOMAIN p.agents
        /\ \A i \in DOMAIN p.agents : q.agents[i].id = p.agents[i].id
    BY <2>7, MembersKept
  <2>9. \A i \in DOMAIN p.agents : r.agents[i].specialists = p.agents[i].specialists
    BY <2>5, <2>6, <2>8 DEF PeersAfter, PeerWrites
  <2>10. ASSUME Distinct(p),
                \A k \in DOMAIN e : Blank \notin {e[k][1], e[k][2]} /\ e[k][1] \in Agents(p),
                NEW i \in DOMAIN p.agents
         PROVE  ToSet(r.agents[i].peers) = ToSet(p.agents[i].peers) \cup Ends(e, n, p.agents[i].id)
    <3>1. ToSet(q.agents[i].peers) = ToSet(p.agents[i].peers) \cup Ends(e, n - 1, p.agents[i].id)
      BY <2>5, <2>10 DEF PeersAfter
    <3>2. Blank \notin {e[n][1], e[n][2]} /\ e[n][1] \in Agents(q)
      BY <1>1, <2>3, <2>8, <2>10
    <3>3. ToSet(r.agents[i].peers)
            = ToSet(q.agents[i].peers) \cup (IF p.agents[i].id = e[n][1] THEN {e[n][2]} ELSE {})
      BY <2>6, <2>8, <2>10, <3>2 DEF PeerWrites
    <3>4. Ends(e, n, p.agents[i].id)
            = Ends(e, n - 1, p.agents[i].id)
                \cup (IF e[n][1] = p.agents[i].id THEN {e[n][2]} ELSE {})
      BY <2>3, OneMoreEnd
    <3> QED BY <3>1, <3>3, <3>4
  <2>11. PeersAfter(p, r, e, n)
    BY <2>8, <2>9, <2>10 DEF PeersAfter
  <2> QED BY <2>1, <2>4, <2>11
<1>4. Len(e) \in 0..Len(e)
  BY <1>1
<1> QED BY <1>2, <1>3, <1>4

\* The calls of q after the loop over the first n call edges of e.
CallsAfter(p, q, e, n) ==
  /\ SameMembers(p, q)
  /\ \A i \in DOMAIN p.agents : q.agents[i].peers = p.agents[i].peers
  /\ Distinct(p) /\ (\A k \in DOMAIN e : e[k][1] \in Agents(p)) =>
       \A i \in DOMAIN p.agents :
          ToSet(q.agents[i].specialists)
            = ToSet(p.agents[i].specialists) \cup Ends(e, n, p.agents[i].id)

LEMMA CallsAssigned ==
  ASSUME NEW p, IsProfile(p), NEW e \in Seq(Nat \X Nat)
  PROVE  CallsAfter(p, AfterCalls(p, e), e, Len(e))
<1>1. Len(e) \in Nat /\ DOMAIN e = 1..Len(e) /\ \A n \in 1..Len(e) : e[n] \in Nat \X Nat
  OBVIOUS
<1>0. PICK g : CallRun(g, p, e)
  BY <1>1, CallLoop
<1>2. /\ DOMAIN g = 0..Len(e) /\ g[0] = p
      /\ \A n \in 1..Len(e) : g[n] = AssignSpecialist(g[n - 1], e[n])
      /\ AfterCalls(p, e) = g[Len(e)]
  BY <1>0 DEF CallRun
<1> DEFINE Bad == {n \in 0..Len(e) : ~CallsAfter(p, g[n], e, n)}
<1>3. Bad = {}
  <2> SUFFICES ASSUME Bad # {} PROVE FALSE
    OBVIOUS
  <2>1. PICK n \in Bad : \A m \in Bad : n <= m
    <3>1. Bad \in SUBSET Nat
      OBVIOUS
    <3> HIDE DEF Bad
    <3> QED BY <3>1, LeastOf
  <2>2. n # 0
    <3>1. CallsAfter(p, p, e, 0)
      BY NoEnds DEF CallsAfter, SameMembers
    <3> QED BY <1>2, <2>1, <3>1
  <2>3. n \in 1..Len(e) /\ n - 1 \in 0..Len(e) /\ n \in Nat \ {0} /\ ~(n <= n - 1)
    BY <1>1, <2>2
  <2>4. PICK q, r : q = g[n - 1] /\ r = g[n]
    OBVIOUS
  <2>5. CallsAfter(p, q, e, n - 1)
    BY <2>1, <2>3, <2>4
  <2>6. CallWrites(q, r, e[n])
    <3>1. IsProfile(q) /\ e[n] \in Nat \X Nat /\ r = AssignSpecialist(q, e[n])
      BY <1>1, <1>2, <2>3, <2>4, <2>5 DEF CallsAfter, SameMembers
    <3> QED BY <3>1, CallWritten
  <2>7. SameMembers(p, q) /\ SameMembers(q, r)
    BY <2>5, <2>6 DEF CallsAfter, CallWrites
  <2>8. /\ SameMembers(p, r) /\ Agents(q) = Agents(p) /\ (Distinct(p) => Distinct(q))
        /\ DOMAIN q.agents = DOMAIN p.agents
        /\ \A i \in DOMAIN p.agents : q.agents[i].id = p.agents[i].id
    BY <2>7, MembersKept
  <2>9. \A i \in DOMAIN p.agents : r.agents[i].peers = p.agents[i].peers
    BY <2>5, <2>6, <2>8 DEF CallsAfter, CallWrites
  <2>10. ASSUME Distinct(p), \A k \in DOMAIN e : e[k][1] \in Agents(p),
                NEW i \in DOMAIN p.agents
         PROVE  ToSet(r.agents[i].specialists)
                  = ToSet(p.agents[i].specialists) \cup Ends(e, n, p.agents[i].id)
    <3>1. ToSet(q.agents[i].specialists)
            = ToSet(p.agents[i].specialists) \cup Ends(e, n - 1, p.agents[i].id)
      BY <2>5, <2>10 DEF CallsAfter
    <3>2. e[n][1] \in Agents(q)
      BY <1>1, <2>3, <2>8, <2>10
    <3>3. ToSet(r.agents[i].specialists)
            = ToSet(q.agents[i].specialists)
                \cup (IF p.agents[i].id = e[n][1] THEN {e[n][2]} ELSE {})
      BY <2>6, <2>8, <2>10, <3>2 DEF CallWrites
    <3>4. Ends(e, n, p.agents[i].id)
            = Ends(e, n - 1, p.agents[i].id)
                \cup (IF e[n][1] = p.agents[i].id THEN {e[n][2]} ELSE {})
      BY <2>3, OneMoreEnd
    <3> QED BY <3>1, <3>3, <3>4
  <2>11. CallsAfter(p, r, e, n)
    BY <2>8, <2>9, <2>10 DEF CallsAfter
  <2> QED BY <2>1, <2>4, <2>11
<1>4. Len(e) \in 0..Len(e)
  BY <1>1
<1> QED BY <1>2, <1>3, <1>4

-----------------------------------------------------------------------------
\* The places of the members whose ids are given.
NamedPlaces(s) == {i \in DOMAIN s : Named(s[i])}

\* No two places of s hold the same id.
IdsDiffer(s) == \A i, j \in DOMAIN s : s[i].id = s[j].id => i = j

\* u has the members of s whose ids are given.
Kept(u, s) ==
  /\ Len(u) \in Nat /\ DOMAIN u = 1..Len(u)
  /\ {u[k] : k \in DOMAIN u} = {s[i] : i \in NamedPlaces(s)}
  /\ IdsDiffer(s) => IdsDiffer(u)

LEMMA NamedKept ==
  ASSUME NEW S, NEW s \in Seq(S)
  PROVE  Kept(WithIds(s), s)
<1>1. PICK kept : kept = ByPlace(NamedPlaces(s))
  OBVIOUS
<1>2. WithIds(s) = [k \in DOMAIN kept |-> s[kept[k]]]
  BY <1>1, Zenon DEF WithIds, ByPlace, NamedPlaces
<1>3. DOMAIN s = 1..Len(s) /\ Len(s) \in Nat /\ IsFiniteSet(1..Len(s))
  BY FS_Interval
<1>4. NamedPlaces(s) \in SUBSET Nat /\ IsFiniteSet(NamedPlaces(s)) /\ NamedPlaces(s) \subseteq DOMAIN s
  BY <1>3, FS_Subset DEF NamedPlaces
<1>5. Enumerates(kept, NamedPlaces(s))
  BY <1>1, <1>4, PlacesListed
<1>6. DOMAIN kept = 1..Len(kept) /\ Len(kept) \in Nat
      /\ {kept[k] : k \in DOMAIN kept} = NamedPlaces(s)
  BY <1>5 DEF Enumerates
<1>7. \A k \in DOMAIN kept : kept[k] \in DOMAIN s /\ s[kept[k]] \in S
  BY <1>4, <1>6
<1>8. PICK u : u = [k \in DOMAIN kept |-> s[kept[k]]]
  OBVIOUS
<1>9. u \in Seq(S) /\ Len(u) \in Nat /\ DOMAIN u = 1..Len(u) /\ DOMAIN u = DOMAIN kept
      /\ \A k \in DOMAIN kept : u[k] = s[kept[k]]
  BY <1>6, <1>7, <1>8
<1>10. {u[k] : k \in DOMAIN u} = {s[i] : i \in NamedPlaces(s)}
  <2>1. \A k \in DOMAIN u : kept[k] \in NamedPlaces(s) /\ u[k] = s[kept[k]]
    BY <1>6, <1>9
  <2>2. \A i \in NamedPlaces(s) : \E k \in DOMAIN u : i = kept[k] /\ u[k] = s[kept[k]]
    BY <1>6, <1>9
  <2> QED BY <2>1, <2>2
<1>11. IdsDiffer(s) => IdsDiffer(u)
  BY <1>5, <1>7, <1>9 DEF IdsDiffer, Enumerates
<1>12. Kept(u, s)
  BY <1>9, <1>10, <1>11 DEF Kept
<1> QED BY <1>2, <1>8, <1>12

\* The members of a team whose ids are given: the primary always counts.
NamedPeers(t) == {t.peers[i] : i \in NamedPlaces(t.peers)}
NamedSpecialists(t) == {t.specialists[i] : i \in NamedPlaces(t.specialists)}

AgentFrom(m) == [id |-> m.id, model |-> m.id, peers |-> <<>>, specialists |-> <<>>]
SpecialistFrom(m) == [id |-> m.id, model |-> m.id]

PeerAgents(t) == [i \in DOMAIN WithIds(t.peers) |-> AgentFrom(WithIds(t.peers)[i])]

\* The profile of a draft before its edges are recorded.
BareOf(d, r) ==
  [gateway     |-> d.gateway,
   revision    |-> r,
   complete    |-> d.team.complete,
   models      |-> ModelTable(d.team),
   tuned       |-> {},
   policy      |-> FALSE,
   agents      |-> <<AgentFrom(d.team.primary)>> \o PeerAgents(d.team),
   specialists |-> [i \in DOMAIN WithIds(d.team.specialists) |->
                      SpecialistFrom(WithIds(d.team.specialists)[i])]]

LEMMA ProfileIsLoops ==
  \A d, r : ProfileOf(d, r)
              = AfterCalls(AfterPeers(BareOf(d, r), d.team.peerEdges), d.team.specialistEdges)
BY Zenon DEF ProfileOf, AfterCalls, AfterPeers, BareOf, PeerAgents, AgentFrom, SpecialistFrom

Bare(q, d, r) ==
  /\ IsProfile(q)
  /\ q.gateway = d.gateway /\ q.revision = r /\ q.complete = d.team.complete
  /\ q.models = ModelTable(d.team) /\ q.tuned = {} /\ q.policy = FALSE
  /\ q.agents[1] = AgentFrom(d.team.primary)
  /\ {q.agents[i] : i \in DOMAIN q.agents}
       = {AgentFrom(m) : m \in {d.team.primary} \cup NamedPeers(d.team)}
  /\ {q.specialists[i] : i \in DOMAIN q.specialists}
       = {SpecialistFrom(m) : m \in NamedSpecialists(d.team)}
  /\ IdsDiffer(d.team.peers) /\ (\A i \in DOMAIN d.team.peers : d.team.peers[i].id # d.team.primary.id)
       => Distinct(q)

LEMMA TeamMembersTyped ==
  ASSUME NEW t, IsTeam(t)
  PROVE  /\ \A m \in NamedPeers(t) \cup NamedSpecialists(t) \cup {t.primary} : IsMember(m)
         /\ t.peers \in Seq(ToSet(t.peers)) /\ t.specialists \in Seq(ToSet(t.specialists))
         /\ t.peerEdges \in Seq(Nat \X Nat) /\ t.specialistEdges \in Seq(Nat \X Nat)
BY DEF IsTeam, NamedPeers, NamedSpecialists, NamedPlaces

LEMMA BareProfile ==
  ASSUME NEW d, NEW r, IsTeam(d.team)
  PROVE  Bare(BareOf(d, r), d, r)
<1>1. PICK t, ps, ss : t = d.team /\ ps = WithIds(t.peers) /\ ss = WithIds(t.specialists)
  OBVIOUS
<1>2. /\ Len(ps) \in Nat /\ DOMAIN ps = 1..Len(ps)
      /\ {ps[k] : k \in DOMAIN ps} = NamedPeers(t)
      /\ Len(ss) \in Nat /\ DOMAIN ss = 1..Len(ss)
      /\ {ss[k] : k \in DOMAIN ss} = NamedSpecialists(t)
      /\ (IdsDiffer(t.peers) => IdsDiffer(ps))
  <2>1. Kept(ps, t.peers) /\ Kept(ss, t.specialists)
    BY <1>1, NamedKept, TeamMembersTyped
  <2> QED BY <2>1 DEF Kept, NamedPeers, NamedSpecialists
<1>3. \A m \in NamedPeers(t) \cup NamedSpecialists(t) \cup {t.primary} :
        AgentFrom(m) \in AgentRecords /\ SpecialistFrom(m) \in SpecialistRecords
  BY <1>1, TeamMembersTyped
     DEF IsMember, AgentFrom, SpecialistFrom, AgentRecords, SpecialistRecords
<1>4. PICK pa, sa : /\ pa = [i \in DOMAIN ps |-> AgentFrom(ps[i])]
                    /\ sa = [i \in DOMAIN ss |-> SpecialistFrom(ss[i])]
  OBVIOUS
<1>5. /\ pa \in Seq(AgentRecords) /\ sa \in Seq(SpecialistRecords)
      /\ DOMAIN pa = DOMAIN ps /\ DOMAIN sa = DOMAIN ss /\ Len(pa) = Len(ps)
      /\ \A i \in DOMAIN ps : pa[i] = AgentFrom(ps[i])
      /\ \A i \in DOMAIN ss : sa[i] = SpecialistFrom(ss[i])
  BY <1>2, <1>3, <1>4
<1>6. PICK all : all = <<AgentFrom(t.primary)>> \o pa
  OBVIOUS
<1>7. /\ all \in Seq(AgentRecords) /\ all # <<>> /\ all[1] = AgentFrom(t.primary)
      /\ DOMAIN all = 1..(1 + Len(ps))
      /\ \A i \in 1..Len(ps) : all[i + 1] = pa[i]
  <2>1. <<AgentFrom(t.primary)>> \in Seq(AgentRecords)
    BY <1>3
  <2>2. pa \in Seq(AgentRecords) /\ Len(pa) = Len(ps) /\ Len(ps) \in Nat
    BY <1>2, <1>5
  <2> QED BY <1>6, <2>1, <2>2
<1>8. {all[i] : i \in DOMAIN all} = {AgentFrom(m) : m \in {t.primary} \cup NamedPeers(t)}
  <2>1. \A i \in DOMAIN all : i # 1 => i - 1 \in DOMAIN ps /\ all[i] = AgentFrom(ps[i - 1])
    BY <1>2, <1>5, <1>7
  <2>2. \A k \in DOMAIN ps : k + 1 \in DOMAIN all /\ all[k + 1] = AgentFrom(ps[k])
    BY <1>2, <1>5, <1>7
  <2>3. 1 \in DOMAIN all
    BY <1>2, <1>7
  <2>4. ASSUME NEW i \in DOMAIN all
        PROVE  \E m \in {t.primary} \cup NamedPeers(t) : all[i] = AgentFrom(m)
    <3>1. CASE i = 1
      BY <1>7, <3>1
    <3>2. CASE i # 1
      BY <1>2, <2>1, <3>2
    <3> QED BY <3>1, <3>2
  <2>5. ASSUME NEW m \in {t.primary} \cup NamedPeers(t)
        PROVE  \E i \in DOMAIN all : all[i] = AgentFrom(m)
    <3>1. CASE m = t.primary
      BY <1>7, <2>3, <3>1
    <3>2. CASE m \in NamedPeers(t)
      BY <1>2, <2>2, <3>2
    <3> QED BY <3>1, <3>2
  <2> QED BY <2>4, <2>5
<1>9. {sa[i] : i \in DOMAIN sa} = {SpecialistFrom(m) : m \in NamedSpecialists(t)}
  BY <1>2, <1>5
<1>10. BareOf(d, r) = [gateway |-> d.gateway, revision |-> r, complete |-> t.complete,
                       models |-> ModelTable(t), tuned |-> {}, policy |-> FALSE,
                       agents |-> all, specialists |-> sa]
  BY <1>1, <1>4, <1>6, Zenon DEF BareOf, PeerAgents
<1>11. PICK q : q = BareOf(d, r)
  OBVIOUS
<1>12. /\ q.gateway = d.gateway /\ q.revision = r /\ q.complete = t.complete
       /\ q.models = ModelTable(t) /\ q.tuned = {} /\ q.policy = FALSE
       /\ q.agents = all /\ q.specialists = sa
       /\ q = [gateway |-> q.gateway, revision |-> q.revision, complete |-> q.complete,
               models |-> q.models, tuned |-> q.tuned, policy |-> q.policy,
               agents |-> q.agents, specialists |-> q.specialists]
  BY <1>10, <1>11
<1>13. IsProfile(q)
  BY <1>5, <1>7, <1>12 DEF IsProfile, AgentRecords, SpecialistRecords
<1>14. ASSUME IdsDiffer(t.peers), \A i \in DOMAIN t.peers : t.peers[i].id # t.primary.id
       PROVE  Distinct(q)
  <2>1. \A k \in DOMAIN ps : ps[k].id # t.primary.id
    BY <1>2, <1>14 DEF NamedPeers, NamedPlaces
  <2>2. q.agents[1].id = t.primary.id
    BY <1>7, <1>12 DEF AgentFrom
  <2>3. \A i \in DOMAIN q.agents : i # 1 => i - 1 \in DOMAIN ps /\ q.agents[i].id = ps[i - 1].id
    BY <1>2, <1>5, <1>7, <1>12 DEF AgentFrom
  <2>4. DOMAIN q.agents \subseteq Nat
    BY <1>2, <1>7, <1>12
  <2>5. \A i, j \in DOMAIN ps : ps[i].id = ps[j].id => i = j
    BY <1>2, <1>14 DEF IdsDiffer
  <2>6. ASSUME NEW i \in DOMAIN q.agents, NEW j \in DOMAIN q.agents,
               q.agents[i].id = q.agents[j].id
        PROVE  i = j
    <3>1. CASE i = 1 \/ j = 1
      BY <2>1, <2>2, <2>3, <2>6, <3>1
    <3>2. CASE i # 1 /\ j # 1
      <4>1. i - 1 = j - 1
        BY <2>3, <2>5, <2>6, <3>2
      <4> QED BY <2>4, <4>1
    <3> QED BY <3>1, <3>2
  <2> QED BY <2>6 DEF Distinct
<1>15. /\ q.gateway = d.gateway /\ q.revision = r /\ q.complete = d.team.complete
       /\ q.models = ModelTable(d.team) /\ q.tuned = {} /\ q.policy = FALSE
       /\ q.agents[1] = AgentFrom(d.team.primary)
  BY <1>1, <1>7, <1>12
<1>16. {q.agents[i] : i \in DOMAIN q.agents}
         = {AgentFrom(m) : m \in {d.team.primary} \cup NamedPeers(d.team)}
  BY <1>1, <1>8, <1>12, Zenon
<1>17. {q.specialists[i] : i \in DOMAIN q.specialists}
         = {SpecialistFrom(m) : m \in NamedSpecialists(d.team)}
  BY <1>1, <1>9, <1>12, Zenon
<1>18. IdsDiffer(d.team.peers) /\ (\A i \in DOMAIN d.team.peers : d.team.peers[i].id # d.team.primary.id)
         => Distinct(q)
  BY <1>1, <1>14
<1>19. Bare(q, d, r)
  BY <1>13, <1>15, <1>16, <1>17, <1>18, Zenon DEF Bare
<1> QED BY <1>11, <1>19

-----------------------------------------------------------------------------
\* What the profile of a draft has: the members that are given, and on each
\* agent the ends of the edges that start at it.
DrawnIn(q, d, r) ==
  \E b :
    /\ Bare(b, d, r) /\ SameMembers(b, q)
    /\ Distinct(b)
       /\ (\A k \in DOMAIN d.team.peerEdges :
             /\ Blank \notin {d.team.peerEdges[k][1], d.team.peerEdges[k][2]}
             /\ d.team.peerEdges[k][1] \in Agents(b))
       /\ (\A k \in DOMAIN d.team.specialistEdges : d.team.specialistEdges[k][1] \in Agents(b))
       => \A i \in DOMAIN b.agents :
            /\ ToSet(q.agents[i].peers)
                 = Ends(d.team.peerEdges, Len(d.team.peerEdges), b.agents[i].id)
            /\ ToSet(q.agents[i].specialists)
                 = Ends(d.team.specialistEdges, Len(d.team.specialistEdges), b.agents[i].id)

\* Nothing is declared in a bare profile.
LEMMA BareDeclaresNothing ==
  ASSUME NEW b, NEW d, NEW r, Bare(b, d, r), NEW i \in DOMAIN b.agents
  PROVE  ToSet(b.agents[i].peers) = {} /\ ToSet(b.agents[i].specialists) = {}
<1>1. PICK m : b.agents[i] = AgentFrom(m)
  BY DEF Bare
<1>2. b.agents[i].peers = <<>> /\ b.agents[i].specialists = <<>>
  BY <1>1 DEF AgentFrom
<1> QED BY <1>2 DEF ToSet

\* TeamDraft.Profile writes the draft.
LEMMA DraftWritten ==
  ASSUME NEW d, NEW r, IsTeam(d.team)
  PROVE  DrawnIn(ProfileOf(d, r), d, r)
<1>1. PICK b, e, c : b = BareOf(d, r) /\ e = d.team.peerEdges /\ c = d.team.specialistEdges
  OBVIOUS
<1>0. Bare(b, d, r)
  BY <1>1, BareProfile, Zenon
<1>2. Bare(b, d, r) /\ IsProfile(b)
  BY <1>0 DEF Bare
<1>3. e \in Seq(Nat \X Nat) /\ c \in Seq(Nat \X Nat)
  BY <1>1, TeamMembersTyped
<1>4. PICK m : m = AfterPeers(b, e)
  OBVIOUS
<1>5. PICK q : q = AfterCalls(m, c)
  OBVIOUS
<1>6. q = ProfileOf(d, r)
  BY <1>1, <1>4, <1>5, ProfileIsLoops, Zenon
<1>7. PeersAfter(b, m, e, Len(e))
  BY <1>2, <1>3, <1>4, PeersAssigned
<1>8. SameMembers(b, m) /\ IsProfile(m)
  BY <1>7 DEF PeersAfter, SameMembers
<1>9. CallsAfter(m, q, c, Len(c))
  BY <1>3, <1>5, <1>8, CallsAssigned
<1>10. SameMembers(m, q)
  BY <1>9 DEF CallsAfter
<1>11. /\ SameMembers(b, q) /\ Agents(m) = Agents(b) /\ (Distinct(b) => Distinct(m))
       /\ DOMAIN m.agents = DOMAIN b.agents
       /\ \A i \in DOMAIN b.agents : m.agents[i].id = b.agents[i].id
  BY <1>8, <1>10, MembersKept
<1>12. ASSUME Distinct(b),
              \A k \in DOMAIN e : Blank \notin {e[k][1], e[k][2]} /\ e[k][1] \in Agents(b),
              \A k \in DOMAIN c : c[k][1] \in Agents(b),
              NEW i \in DOMAIN b.agents
       PROVE  /\ ToSet(q.agents[i].peers) = Ends(e, Len(e), b.agents[i].id)
              /\ ToSet(q.agents[i].specialists) = Ends(c, Len(c), b.agents[i].id)
  <2>1. ToSet(b.agents[i].peers) = {} /\ ToSet(b.agents[i].specialists) = {}
    BY <1>2, BareDeclaresNothing
  <2>2. ToSet(m.agents[i].peers) = Ends(e, Len(e), b.agents[i].id)
        /\ m.agents[i].specialists = b.agents[i].specialists
    BY <1>7, <1>12, <2>1 DEF PeersAfter
  <2>3. Distinct(m) /\ \A k \in DOMAIN c : c[k][1] \in Agents(m)
    BY <1>11, <1>12
  <2>4. ToSet(q.agents[i].specialists)
          = ToSet(m.agents[i].specialists) \cup Ends(c, Len(c), m.agents[i].id)
        /\ q.agents[i].peers = m.agents[i].peers
    BY <1>9, <1>11, <2>3 DEF CallsAfter
  <2> QED BY <1>11, <2>1, <2>2, <2>4
<1>13. DrawnIn(q, d, r)
  BY <1>1, <1>2, <1>11, <1>12 DEF DrawnIn
<1> QED BY <1>6, <1>13

\* The profile of any draft is well formed.
LEMMA ProfileTyped ==
  ASSUME NEW d, NEW r, IsTeam(d.team)
  PROVE  IsProfile(ProfileOf(d, r))
BY DraftWritten DEF DrawnIn, SameMembers

\* Numbers of a sequence that are as many as its places differ.
Differ(f, n) == \A i, j \in 1..n : f[i] = f[j] => i = j

LEMMA AllDiffer ==
  ASSUME NEW n \in Nat, NEW f, NEW T, T = {f[i] : i \in 1..n}, Cardinality(T) = n
  PROVE  Differ(f, n)
<1>1. IsFiniteSet(1..n) /\ Cardinality(1..n) = n
  <2>1. n = IF 1 > n THEN 0 ELSE n - 1 + 1
    OBVIOUS
  <2> QED BY <2>1, FS_Interval
<1>3. PICK g : g = [i \in 1..n |-> f[i]]
  OBVIOUS
<1>4. g \in Surjection(1..n, T)
  BY <1>3 DEF Surjection
<1>5. IsFiniteSet(T) /\ Cardinality(T) = n
  BY <1>1, <1>4, FS_Surjection
<1>6. g \in Injection(1..n, T)
  BY <1>1, <1>4, <1>5, FS_SurjSameCardinalityImpliesInj
<1> QED BY <1>3, <1>6 DEF Injection, IsInjective, Differ

\* The members of a valid profile have ids of their own.
MembersApart(p) ==
  /\ Distinct(p)
  /\ \A i, j \in DOMAIN p.specialists : p.specialists[i].id = p.specialists[j].id => i = j
  /\ \A i \in DOMAIN p.agents : p.agents[i].id # Blank
  /\ \A i \in DOMAIN p.specialists : p.specialists[i].id # Blank
  /\ \A i \in DOMAIN p.agents, j \in DOMAIN p.specialists :
       p.agents[i].id # p.specialists[j].id

LEMMA ValidApart ==
  ASSUME NEW p, IsProfile(p), Valid(p)
  PROVE  MembersApart(p)
<1>1. MembersDistinct(p)
  BY DEF Valid, StructureHolds
<1>2. /\ Blank \notin Agents(p) \cup SpecialistIds(p)
      /\ Cardinality(Agents(p)) = Len(p.agents)
      /\ Cardinality(SpecialistIds(p)) = Len(p.specialists)
      /\ Agents(p) \cap SpecialistIds(p) = {}
  BY <1>1 DEF MembersDistinct
<1>3. /\ DOMAIN p.agents = 1..Len(p.agents) /\ Len(p.agents) \in Nat
      /\ DOMAIN p.specialists = 1..Len(p.specialists) /\ Len(p.specialists) \in Nat
  BY ProfileFields
<1>4. PICK f : f = [i \in 1..Len(p.agents) |-> p.agents[i].id]
  OBVIOUS
<1>5. Agents(p) = {f[i] : i \in 1..Len(p.agents)}
  BY <1>3, <1>4 DEF Agents
<1>6. Differ(f, Len(p.agents))
  BY <1>2, <1>3, <1>5, AllDiffer, Zenon
<1>7. PICK g : g = [i \in 1..Len(p.specialists) |-> p.specialists[i].id]
  OBVIOUS
<1>8. SpecialistIds(p) = {g[i] : i \in 1..Len(p.specialists)}
  BY <1>3, <1>7 DEF SpecialistIds
<1>9. Differ(g, Len(p.specialists))
  BY <1>2, <1>3, <1>8, AllDiffer, Zenon
<1>10. \A i \in DOMAIN p.agents : p.agents[i].id \in Agents(p)
  BY DEF Agents
<1>11. \A i \in DOMAIN p.specialists : p.specialists[i].id \in SpecialistIds(p)
  BY DEF SpecialistIds
<1>12. \A i, j \in DOMAIN p.agents : p.agents[i].id = p.agents[j].id => i = j
  BY <1>3, <1>4, <1>6 DEF Differ
<1>13. \A i, j \in DOMAIN p.specialists : p.specialists[i].id = p.specialists[j].id => i = j
  BY <1>3, <1>7, <1>9 DEF Differ
<1>14. /\ \A i \in DOMAIN p.agents : p.agents[i].id # Blank
       /\ \A i \in DOMAIN p.specialists : p.specialists[i].id # Blank
       /\ \A i \in DOMAIN p.agents, j \in DOMAIN p.specialists :
            p.agents[i].id # p.specialists[j].id
  <2> HIDE DEF Blank
  <2> QED BY <1>2, <1>10, <1>11
<1> QED BY <1>12, <1>13, <1>14 DEF MembersApart, Distinct

-----------------------------------------------------------------------------
\* What DraftFromProfile draws of a profile.
MemberOf(p, a) == [id |-> a.id, model |-> p.models[a.model]]

PeerMembers(p) == {MemberOf(p, Tail(p.agents)[i]) : i \in DOMAIN Tail(p.agents)}
SpecialistMembers(p) == {MemberOf(p, p.specialists[i]) : i \in DOMAIN p.specialists}

PeerPairs(p) == {e \in Agents(p) \X Agents(p) : e[1] < e[2] /\ e[2] \in PeersOf(p, e[1])}
CallPairs(p) == {c \in Agents(p) \X SpecialistIds(p) :
                   \E i \in DOMAIN p.agents :
                     p.agents[i].id = c[1] /\ c[2] \in ToSet(p.agents[i].specialists)}

DraftTeam(p) ==
  [primary         |-> MemberOf(p, p.agents[1]),
   peers           |-> ByMember(PeerMembers(p)),
   specialists     |-> ByMember(SpecialistMembers(p)),
   peerEdges       |-> ByPair(PeerPairs(p)),
   specialistEdges |-> ByPair(CallPairs(p)),
   complete        |-> p.complete]

LEMMA DraftIs ==
  \A p : DraftOf(p) = [gateway |-> p.gateway, base |-> p.revision, team |-> DraftTeam(p)]
BY Zenon DEF DraftOf, DraftTeam, ByMember, ByPair, PeerMembers, SpecialistMembers, MemberOf,
             PeerPairs, CallPairs

\* The members the draft of a valid profile draws are members of the profile.
MembersDrawn(p, t) ==
  /\ IsTeam(t)
  /\ t.primary = MemberOf(p, p.agents[1])
  /\ NamedPeers(t) = PeerMembers(p) /\ NamedSpecialists(t) = SpecialistMembers(p)
  /\ {t.peers[i] : i \in DOMAIN t.peers} = PeerMembers(p)
  /\ {t.specialists[i] : i \in DOMAIN t.specialists} = SpecialistMembers(p)
  /\ {t.peerEdges[i] : i \in DOMAIN t.peerEdges} = PeerPairs(p)
  /\ {t.specialistEdges[i] : i \in DOMAIN t.specialistEdges} = CallPairs(p)
  /\ Enumerates(t.peers, PeerMembers(p)) /\ Enumerates(t.specialists, SpecialistMembers(p))
  /\ Enumerates(t.peerEdges, PeerPairs(p)) /\ Enumerates(t.specialistEdges, CallPairs(p))

\* Every peer is an agent after the first.
LEMMA TailAgents ==
  ASSUME NEW p, IsProfile(p)
  PROVE  PeerMembers(p) = {MemberOf(p, p.agents[i]) : i \in DOMAIN p.agents \ {1}}
<1>1. p.agents \in Seq(AgentRecords) /\ p.agents # <<>> /\ Len(p.agents) \in Nat \ {0}
      /\ DOMAIN p.agents = 1..Len(p.agents)
  BY ProfileFields
<1>2. DOMAIN Tail(p.agents) = 1..(Len(p.agents) - 1)
      /\ \A i \in 1..(Len(p.agents) - 1) : Tail(p.agents)[i] = p.agents[i + 1]
  BY <1>1
<1>3. \A i \in DOMAIN Tail(p.agents) :
        i + 1 \in DOMAIN p.agents \ {1} /\ Tail(p.agents)[i] = p.agents[i + 1]
  BY <1>1, <1>2
<1>4. \A i \in DOMAIN p.agents \ {1} :
        i - 1 \in DOMAIN Tail(p.agents) /\ Tail(p.agents)[i - 1] = p.agents[i]
  BY <1>1, <1>2
<1> QED BY <1>3, <1>4 DEF PeerMembers

\* The sets a draft is made of are finite.
LEMMA DrawnFinite ==
  ASSUME NEW p, IsProfile(p)
  PROVE  /\ IsFiniteSet(PeerMembers(p)) /\ IsFiniteSet(SpecialistMembers(p))
         /\ PeerPairs(p) \in SUBSET (Nat \X Nat) /\ IsFiniteSet(PeerPairs(p))
         /\ CallPairs(p) \in SUBSET (Nat \X Nat) /\ IsFiniteSet(CallPairs(p))
<1>1. /\ DOMAIN p.agents = 1..Len(p.agents) /\ Len(p.agents) \in Nat
      /\ DOMAIN p.specialists = 1..Len(p.specialists) /\ Len(p.specialists) \in Nat
  BY ProfileFields
<1>2. IsFiniteSet(DOMAIN p.agents) /\ IsFiniteSet(DOMAIN p.specialists)
      /\ IsFiniteSet(DOMAIN p.agents \ {1})
  <2>1. IsFiniteSet(DOMAIN p.agents) /\ IsFiniteSet(DOMAIN p.specialists)
    BY <1>1, FS_Interval, SMTT(30)
  <2>2. DOMAIN p.agents \ {1} \in SUBSET (DOMAIN p.agents)
    OBVIOUS
  <2> QED BY <2>1, <2>2, FS_Subset
<1>3. IsFiniteSet(PeerMembers(p))
  <2>1. PICK f : f = [i \in DOMAIN p.agents \ {1} |-> MemberOf(p, p.agents[i])]
    OBVIOUS
  <2>2. f \in Surjection(DOMAIN p.agents \ {1}, PeerMembers(p))
    BY <2>1, TailAgents DEF Surjection
  <2> QED BY <1>2, <2>2, FS_Surjection
<1>4. IsFiniteSet(SpecialistMembers(p))
  <2>1. PICK f : f = [i \in DOMAIN p.specialists |-> MemberOf(p, p.specialists[i])]
    OBVIOUS
  <2>2. f \in Surjection(DOMAIN p.specialists, SpecialistMembers(p))
    BY <2>1 DEF Surjection, SpecialistMembers
  <2> QED BY <1>2, <2>2, FS_Surjection
<1>5. IsFiniteSet(Agents(p)) /\ Agents(p) \in SUBSET Nat
  <2>1. PICK f : f = [i \in DOMAIN p.agents |-> p.agents[i].id]
    OBVIOUS
  <2>2. f \in Surjection(DOMAIN p.agents, Agents(p))
    BY <2>1 DEF Surjection, Agents
  <2>3. Agents(p) \in SUBSET Nat
    BY ProfileFields DEF Agents
  <2> QED BY <1>2, <2>2, <2>3, FS_Surjection
<1>6. IsFiniteSet(SpecialistIds(p)) /\ SpecialistIds(p) \in SUBSET Nat
  <2>1. PICK f : f = [i \in DOMAIN p.specialists |-> p.specialists[i].id]
    OBVIOUS
  <2>2. f \in Surjection(DOMAIN p.specialists, SpecialistIds(p))
    BY <2>1 DEF Surjection, SpecialistIds
  <2>3. SpecialistIds(p) \in SUBSET Nat
    BY ProfileFields DEF SpecialistIds
  <2> QED BY <1>2, <2>2, <2>3, FS_Surjection
<1>7. IsFiniteSet(Agents(p) \X Agents(p)) /\ IsFiniteSet(Agents(p) \X SpecialistIds(p))
  BY <1>5, <1>6, FS_Product
<1>8. PeerPairs(p) \subseteq Agents(p) \X Agents(p) /\ CallPairs(p) \subseteq Agents(p) \X SpecialistIds(p)
  BY DEF PeerPairs, CallPairs
<1>9. IsFiniteSet(PeerPairs(p)) /\ IsFiniteSet(CallPairs(p))
  BY <1>7, <1>8, FS_Subset
<1>10. PeerPairs(p) \in SUBSET (Nat \X Nat) /\ CallPairs(p) \in SUBSET (Nat \X Nat)
  BY <1>5, <1>6, <1>8
<1> QED BY <1>3, <1>4, <1>9, <1>10

\* DraftFromProfile draws a well-formed team.
LEMMA DraftDrawn ==
  ASSUME NEW p, IsProfile(p), MembersApart(p)
  PROVE  MembersDrawn(p, DraftTeam(p))
<1>1. PICK t : t = DraftTeam(p)
  OBVIOUS
<1>2. PICK ps, ss, pe, se : /\ ps = ByMember(PeerMembers(p)) /\ ss = ByMember(SpecialistMembers(p))
                            /\ pe = ByPair(PeerPairs(p)) /\ se = ByPair(CallPairs(p))
  OBVIOUS
<1>3. t = [primary |-> MemberOf(p, p.agents[1]), peers |-> ps, specialists |-> ss,
           peerEdges |-> pe, specialistEdges |-> se, complete |-> p.complete]
  BY <1>1, <1>2, Zenon DEF DraftTeam
<1>4. /\ t.primary = MemberOf(p, p.agents[1]) /\ t.peers = ps /\ t.specialists = ss
      /\ t.peerEdges = pe /\ t.specialistEdges = se /\ t.complete = p.complete
      /\ t = [primary |-> t.primary, peers |-> t.peers, specialists |-> t.specialists,
              peerEdges |-> t.peerEdges, specialistEdges |-> t.specialistEdges,
              complete |-> t.complete]
  BY <1>3
<1>5. \A i \in DOMAIN p.agents : /\ IsMember(MemberOf(p, p.agents[i]))
                                 /\ MemberOf(p, p.agents[i]).id = p.agents[i].id
                                 /\ p.agents[i].id # Blank
  BY ProfileFields DEF IsMember, MemberOf, MembersApart
<1>6. \A i \in DOMAIN p.specialists : /\ IsMember(MemberOf(p, p.specialists[i]))
                                      /\ MemberOf(p, p.specialists[i]).id = p.specialists[i].id
                                      /\ p.specialists[i].id # Blank
  BY ProfileFields DEF IsMember, MemberOf, MembersApart
<1>7. Enumerates(ps, PeerMembers(p))
  <2>1. \A m \in PeerMembers(p) : \E i \in DOMAIN p.agents : m = MemberOf(p, p.agents[i])
    BY TailAgents
  <2>2. \A m \in PeerMembers(p) : m.id \in Nat
    BY <1>5, <2>1 DEF IsMember
  <2>3. \A m, o \in PeerMembers(p) : m.id = o.id => m = o
    BY <1>5, <2>1 DEF MembersApart, Distinct
  <2> QED BY <1>2, <2>2, <2>3, DrawnFinite, MembersListed
<1>8. Enumerates(ss, SpecialistMembers(p))
  <2>1. \A m \in SpecialistMembers(p) :
          \E i \in DOMAIN p.specialists : m = MemberOf(p, p.specialists[i])
    BY DEF SpecialistMembers
  <2>2. \A m \in SpecialistMembers(p) : m.id \in Nat
    BY <1>6, <2>1 DEF IsMember
  <2>3. \A m, o \in SpecialistMembers(p) : m.id = o.id => m = o
    BY <1>6, <2>1 DEF MembersApart
  <2> QED BY <1>2, <2>2, <2>3, DrawnFinite, MembersListed
<1>9. Enumerates(pe, PeerPairs(p)) /\ Enumerates(se, CallPairs(p))
  BY <1>2, DrawnFinite, PairsListed
<1>10. /\ {ps[i] : i \in DOMAIN ps} = PeerMembers(p) /\ {ss[i] : i \in DOMAIN ss} = SpecialistMembers(p)
       /\ {pe[i] : i \in DOMAIN pe} = PeerPairs(p) /\ {se[i] : i \in DOMAIN se} = CallPairs(p)
  BY <1>7, <1>8, <1>9 DEF Enumerates
<1>11. \A i \in DOMAIN ps : IsMember(ps[i]) /\ Named(ps[i])
  <2>1. \A m \in PeerMembers(p) : IsMember(m) /\ Named(m)
    BY <1>5, TailAgents DEF Named
  <2> QED BY <1>10, <2>1
<1>12. \A i \in DOMAIN ss : IsMember(ss[i]) /\ Named(ss[i])
  <2>1. \A m \in SpecialistMembers(p) : IsMember(m) /\ Named(m)
    BY <1>6 DEF Named, SpecialistMembers
  <2> QED BY <1>10, <2>1
<1>13. IsTeam(t)
  <2>1. IsMember(t.primary)
    BY <1>4, <1>5, ProfileFields
  <2>2. pe \in Seq(Nat \X Nat) /\ se \in Seq(Nat \X Nat)
    BY <1>9, DrawnFinite DEF Enumerates
  <2>3. ps \in Seq(ToSet(ps)) /\ ss \in Seq(ToSet(ss))
    BY <1>7, <1>8 DEF Enumerates, ToSet
  <2> QED BY <1>4, <1>11, <1>12, <2>1, <2>2, <2>3 DEF IsTeam
<1>14. NamedPeers(t) = PeerMembers(p) /\ NamedSpecialists(t) = SpecialistMembers(p)
  BY <1>4, <1>10, <1>11, <1>12 DEF NamedPeers, NamedSpecialists, NamedPlaces
<1>15. MembersDrawn(p, t)
  BY <1>4, <1>7, <1>8, <1>9, <1>10, <1>13, <1>14 DEF MembersDrawn
<1> QED BY <1>1, <1>15

-----------------------------------------------------------------------------
\* The last place of s with the id.
LastPlace(s, id) == CHOOSE i \in DOMAIN s : s[i].id = id /\ \A j \in DOMAIN s : s[j].id = id => j <= i

LEMMA LastFound ==
  ASSUME NEW S, NEW s \in Seq(S), NEW id, \E i \in DOMAIN s : s[i].id = id
  PROVE  LastPlace(s, id) \in DOMAIN s /\ s[LastPlace(s, id)].id = id
<1>1. DOMAIN s = 1..Len(s) /\ Len(s) \in Nat
  OBVIOUS
<1> DEFINE Behind == {k \in 0..Len(s) : Len(s) - k \in DOMAIN s /\ s[Len(s) - k].id = id}
<1>2. Behind \in SUBSET Nat
  OBVIOUS
<1>3. Behind # {}
  <2>1. PICK i \in DOMAIN s : s[i].id = id
    OBVIOUS
  <2>2. Len(s) - i \in 0..Len(s) /\ Len(s) - (Len(s) - i) = i
    BY <1>1
  <2> QED BY <2>1, <2>2
<1>4. PICK k \in Behind : \A m \in Behind : k <= m
  <2> HIDE DEF Behind
  <2> QED BY <1>2, <1>3, LeastOf
<1>5. PICK i : i = Len(s) - k
  OBVIOUS
<1>6. i \in DOMAIN s /\ s[i].id = id
  BY <1>4, <1>5
<1>7. ASSUME NEW j \in DOMAIN s, s[j].id = id
      PROVE  j <= i
  <2>1. Len(s) - j \in 0..Len(s) /\ Len(s) - (Len(s) - j) = j
    BY <1>1
  <2>2. Len(s) - j \in Behind
    BY <1>7, <2>1
  <2>3. k <= Len(s) - j
    BY <1>4, <2>2
  <2> QED BY <1>1, <1>4, <1>5, <2>3
<1> QED BY <1>6, <1>7 DEF LastPlace

\* s is a followed by b.
Joins(s, a, b, S) ==
  /\ s \in Seq(S) /\ Len(s) = Len(a) + Len(b) /\ DOMAIN s = 1..Len(s)
  /\ Len(a) \in Nat /\ Len(b) \in Nat /\ DOMAIN a = 1..Len(a) /\ DOMAIN b = 1..Len(b)
  /\ \A i \in 1..Len(a) : s[i] = a[i]
  /\ \A i \in 1..Len(b) : s[i + Len(a)] = b[i]

LEMMA Joined ==
  ASSUME NEW S, NEW a \in Seq(S), NEW b \in Seq(S)
  PROVE  Joins(a \o b, a, b, S)
<1>1. a \o b \in Seq(S) /\ Len(a \o b) = Len(a) + Len(b)
  OBVIOUS
<1>2. Len(a) \in Nat /\ Len(b) \in Nat /\ DOMAIN a = 1..Len(a) /\ DOMAIN b = 1..Len(b)
  OBVIOUS
<1>3. \A i \in 1..Len(a) : (a \o b)[i] = a[i]
  OBVIOUS
<1>4. \A i \in 1..Len(b) : (a \o b)[i + Len(a)] = b[i]
  BY <1>2
<1> QED BY <1>1, <1>2, <1>3, <1>4 DEF Joins

\* All the members of a team.
TeamMembers(t) == {MembersOf(t)[i] : i \in DOMAIN MembersOf(t)}

LEMMA TeamMembersAre ==
  ASSUME NEW t, IsTeam(t)
  PROVE  /\ TeamMembers(t) = {t.primary} \cup {t.peers[i] : i \in DOMAIN t.peers}
                               \cup {t.specialists[i] : i \in DOMAIN t.specialists}
         /\ MembersOf(t) \in Seq(TeamMembers(t))
<1>1. PICK a, b, c, S : /\ a = <<t.primary>> /\ b = t.peers /\ c = t.specialists
                        /\ S = {t.primary} \cup ToSet(b) \cup ToSet(c)
  OBVIOUS
<1>2. b \in Seq(ToSet(b)) /\ c \in Seq(ToSet(c))
  BY <1>1, TeamMembersTyped
<1>3. a \in Seq(S) /\ b \in Seq(S) /\ c \in Seq(S) /\ Len(a) = 1 /\ a[1] = t.primary
  BY <1>1, <1>2
<1>4. PICK m : m = a \o b \o c
  OBVIOUS
<1>5. MembersOf(t) = m
  BY <1>1, <1>4 DEF MembersOf
<1>6. /\ m \in Seq(S) /\ DOMAIN m = 1..(1 + Len(b) + Len(c)) /\ m[1] = t.primary
      /\ DOMAIN b = 1..Len(b) /\ DOMAIN c = 1..Len(c) /\ Len(b) \in Nat /\ Len(c) \in Nat
      /\ \A i \in 1..Len(b) : m[i + 1] = b[i]
      /\ \A i \in 1..Len(c) : m[i + 1 + Len(b)] = c[i]
  <2>1. PICK ab : ab = a \o b
    OBVIOUS
  <2>2. Joins(ab, a, b, S)
    BY <1>3, <2>1, Joined
  <2>3. Joins(m, ab, c, S)
    <3>1. ab \in Seq(S) /\ m = ab \o c
      BY <1>4, <2>1, <2>2 DEF Joins
    <3> QED BY <1>3, <3>1, Joined
  <2>4. Len(ab) = 1 + Len(b) /\ ab[1] = t.primary /\ \A i \in 1..Len(b) : ab[i + 1] = b[i]
    BY <1>3, <2>2 DEF Joins
  <2>5. /\ Len(b) \in Nat /\ Len(c) \in Nat /\ DOMAIN b = 1..Len(b) /\ DOMAIN c = 1..Len(c)
        /\ m \in Seq(S) /\ Len(m) = Len(ab) + Len(c) /\ DOMAIN m = 1..Len(m)
        /\ \A i \in 1..Len(ab) : m[i] = ab[i]
        /\ \A i \in 1..Len(c) : m[i + Len(ab)] = c[i]
    BY <2>2, <2>3 DEF Joins
  <2>6. m[1] = t.primary /\ \A i \in 1..Len(b) : m[i + 1] = b[i]
    <3>1. 1 \in 1..Len(ab) /\ \A i \in 1..Len(b) : i + 1 \in 1..Len(ab)
      BY <2>4, <2>5
    <3> QED BY <2>4, <2>5, <3>1
  <2>7. ASSUME NEW i \in 1..Len(c)
        PROVE  m[i + 1 + Len(b)] = c[i]
    <3>1. i + 1 + Len(b) = i + Len(ab)
      BY <2>4, <2>5
    <3> QED BY <2>5, <3>1
  <2>8. DOMAIN m = 1..(1 + Len(b) + Len(c))
    BY <2>4, <2>5
  <2> QED BY <2>5, <2>6, <2>7, <2>8
<1>7. \A i \in DOMAIN m : m[i] \in S
  BY <1>6
<1>8. S \subseteq {m[i] : i \in DOMAIN m}
  <2>1. 1 \in DOMAIN m /\ (\A i \in DOMAIN b : i + 1 \in DOMAIN m)
        /\ \A i \in DOMAIN c : i + 1 + Len(b) \in DOMAIN m
    BY <1>6
  <2>2. ASSUME NEW x \in S
        PROVE  \E i \in DOMAIN m : m[i] = x
    <3>1. CASE x = t.primary
      BY <1>6, <2>1, <3>1
    <3>2. CASE x \in ToSet(b)
      BY <1>6, <2>1, <3>2 DEF ToSet
    <3>3. CASE x \in ToSet(c)
      BY <1>6, <2>1, <3>3 DEF ToSet
    <3> QED BY <1>1, <2>2, <3>1, <3>2, <3>3
  <2> QED BY <2>2
<1>9. S = {m[i] : i \in DOMAIN m}
  BY <1>7, <1>8
<1>10. TeamMembers(t) = S
  BY <1>5, <1>9, Zenon DEF TeamMembers
<1> QED BY <1>1, <1>5, <1>6, <1>10 DEF ToSet

\* The table of a team has the model of every member whose id is its own.
LEMMA TableHas ==
  ASSUME NEW t, IsTeam(t), NEW m \in TeamMembers(t), Named(m),
         \A o \in TeamMembers(t) : o.id = m.id => o = m
  PROVE  ModelTable(t)[m.id] = m.model
<1>1. PICK s : s = MembersOf(t)
  OBVIOUS
<1>2. s \in Seq(TeamMembers(t))
  BY <1>1, TeamMembersAre
<1>3. \E i \in DOMAIN s : s[i].id = m.id
  BY <1>1 DEF TeamMembers
<1>4. LastPlace(s, m.id) \in DOMAIN s /\ s[LastPlace(s, m.id)].id = m.id
  BY <1>2, <1>3, LastFound
<1>5. s[LastPlace(s, m.id)] = m
  BY <1>1, <1>4 DEF TeamMembers
<1>6. m.id \in {s[i].id : i \in DOMAIN s} \ {Blank}
  BY <1>3 DEF Named
<1>7. PICK T : T = {s[i].id : i \in DOMAIN s} \ {Blank}
  OBVIOUS
<1>8. ModelTable(t) = [id \in T |-> s[LastPlace(s, id)].model]
  <2>1. ModelTable(t)
          = [id \in {MembersOf(t)[i].id : i \in DOMAIN MembersOf(t)} \ {Blank} |->
               MembersOf(t)[LastPlace(MembersOf(t), id)].model]
    BY Zenon DEF ModelTable, LastPlace
  <2> QED BY <1>1, <1>7, <2>1
<1> QED BY <1>5, <1>6, <1>7, <1>8

-----------------------------------------------------------------------------
\* The parts of what a profile says.
ModelsSaid(p) == {<<a[1], p.models[a[2]]>> : a \in Assigned(p)}
PeersSaid(p) == {<<a, PeersOf(p, a)>> : a \in Agents(p)}
CallsSaid(p) == {<<p.agents[i].id, ToSet(p.agents[i].specialists)>> : i \in DOMAIN p.agents}

LEMMA MeaningIs ==
  \A p : Meaning(p) = [gateway |-> p.gateway, primary |-> p.agents[1].id, models |-> ModelsSaid(p),
                       peers |-> PeersSaid(p), calls |-> CallsSaid(p)]
BY Zenon DEF Meaning, ModelsSaid, PeersSaid, CallsSaid

\* Every member of the profile, as the draft draws it.
DrawnMembers(p) == {MemberOf(p, p.agents[i]) : i \in DOMAIN p.agents} \cup SpecialistMembers(p)

LEMMA ModelsAreMembers ==
  ASSUME NEW p
  PROVE  ModelsSaid(p) = {<<m.id, m.model>> : m \in DrawnMembers(p)}
<1>1. \A a : MemberOf(p, a).id = a.id /\ MemberOf(p, a).model = p.models[a.model]
  BY DEF MemberOf
<1>2. ASSUME NEW x \in ModelsSaid(p)
      PROVE  \E m \in DrawnMembers(p) : x = <<m.id, m.model>>
  <2>1. PICK a \in Assigned(p) : x = <<a[1], p.models[a[2]]>>
    BY <1>2 DEF ModelsSaid
  <2>2. CASE \E i \in DOMAIN p.agents : a = <<p.agents[i].id, p.agents[i].model>>
    BY <1>1, <2>1, <2>2 DEF DrawnMembers
  <2>3. CASE \E i \in DOMAIN p.specialists : a = <<p.specialists[i].id, p.specialists[i].model>>
    BY <1>1, <2>1, <2>3 DEF DrawnMembers, SpecialistMembers
  <2> QED BY <2>1, <2>2, <2>3 DEF Assigned
<1>3. ASSUME NEW m \in DrawnMembers(p)
      PROVE  <<m.id, m.model>> \in ModelsSaid(p)
  <2>1. CASE \E i \in DOMAIN p.agents : m = MemberOf(p, p.agents[i])
    <3>1. PICK i \in DOMAIN p.agents : m = MemberOf(p, p.agents[i])
      BY <2>1
    <3>2. <<p.agents[i].id, p.agents[i].model>> \in Assigned(p)
      BY DEF Assigned
    <3> QED BY <1>1, <3>1, <3>2 DEF ModelsSaid
  <2>2. CASE \E i \in DOMAIN p.specialists : m = MemberOf(p, p.specialists[i])
    <3>1. PICK i \in DOMAIN p.specialists : m = MemberOf(p, p.specialists[i])
      BY <2>2
    <3>2. <<p.specialists[i].id, p.specialists[i].model>> \in Assigned(p)
      BY DEF Assigned
    <3> QED BY <1>1, <3>1, <3>2 DEF ModelsSaid
  <2> QED BY <1>3, <2>1, <2>2 DEF DrawnMembers, SpecialistMembers
<1> QED BY <1>2, <1>3

\* The edge ends of an id, when e lists the pairs S.
LEMMA EndsOf ==
  ASSUME NEW e, NEW S, Enumerates(e, S), NEW id, \A x \in S : x = <<x[1], x[2]>>
  PROVE  \A o : o \in Ends(e, Len(e), id) <=> <<id, o>> \in S
<1>1. DOMAIN e = 1..Len(e) /\ {e[i] : i \in DOMAIN e} = S
  BY DEF Enumerates
<1>2. \A k \in 1..Len(e) : e[k] \in S
  BY <1>1
<1>3. \A y \in S : \E k \in 1..Len(e) : e[k] = y
  BY <1>1
<1> QED BY <1>2, <1>3 DEF Ends

\* q is what the draft of p is published as.
Republished(p, q) ==
  /\ IsProfile(q) /\ q.gateway = p.gateway /\ q.agents[1].id = p.agents[1].id
  /\ q.tuned = {} /\ q.policy = FALSE
  /\ \A i \in DOMAIN q.agents : \E j \in DOMAIN p.agents :
       q.agents[i].id = p.agents[j].id /\ q.agents[i].model = p.agents[j].id
  /\ \A j \in DOMAIN p.agents : \E i \in DOMAIN q.agents :
       q.agents[i].id = p.agents[j].id /\ q.agents[i].model = p.agents[j].id
  /\ \A i \in DOMAIN q.specialists : \E j \in DOMAIN p.specialists :
       /\ q.specialists[i].id = p.specialists[j].id
       /\ q.specialists[i].model = p.specialists[j].id
  /\ \A j \in DOMAIN p.specialists : \E i \in DOMAIN q.specialists :
       /\ q.specialists[i].id = p.specialists[j].id
       /\ q.specialists[i].model = p.specialists[j].id
  /\ \A m \in DrawnMembers(p) : q.models[m.id] = m.model
  /\ \A i \in DOMAIN q.agents : \A o :
       /\ o \in ToSet(q.agents[i].peers) <=> <<q.agents[i].id, o>> \in PeerPairs(p)
       /\ o \in ToSet(q.agents[i].specialists) <=> <<q.agents[i].id, o>> \in CallPairs(p)

\* The draft of a valid profile has its ids apart and its edges between agents.
LEMMA DraftApart ==
  ASSUME NEW p, IsProfile(p), MembersApart(p), NEW t, MembersDrawn(p, t)
  PROVE  /\ IdsDiffer(t.peers) /\ \A i \in DOMAIN t.peers : t.peers[i].id # t.primary.id
         /\ \A m, o \in DrawnMembers(p) : m.id = o.id => m = o
         /\ \A m \in DrawnMembers(p) : Named(m)
         /\ TeamMembers(t) = DrawnMembers(p)
<1>1. 1 \in DOMAIN p.agents
  BY ProfileFields
<1>2. \A i \in DOMAIN p.agents : MemberOf(p, p.agents[i]).id = p.agents[i].id
  BY DEF MemberOf
<1>3. \A i \in DOMAIN p.specialists : MemberOf(p, p.specialists[i]).id = p.specialists[i].id
  BY DEF MemberOf
<1>4. \A m \in DrawnMembers(p) :
        \/ \E i \in DOMAIN p.agents : m = MemberOf(p, p.agents[i])
        \/ \E i \in DOMAIN p.specialists : m = MemberOf(p, p.specialists[i])
  BY DEF DrawnMembers, SpecialistMembers
<1>5. \A m, o \in DrawnMembers(p) : m.id = o.id => m = o
  <2> SUFFICES ASSUME NEW m \in DrawnMembers(p), NEW o \in DrawnMembers(p), m.id = o.id
               PROVE  m = o
    OBVIOUS
  <2>1. CASE \E i \in DOMAIN p.agents : m = MemberOf(p, p.agents[i])
    <3>1. PICK i \in DOMAIN p.agents : m = MemberOf(p, p.agents[i])
      BY <2>1
    <3>2. CASE \E j \in DOMAIN p.agents : o = MemberOf(p, p.agents[j])
      BY <1>2, <3>1, <3>2 DEF MembersApart, Distinct
    <3>3. CASE \E j \in DOMAIN p.specialists : o = MemberOf(p, p.specialists[j])
      BY <1>2, <1>3, <3>1, <3>3 DEF MembersApart
    <3> QED BY <1>4, <3>2, <3>3
  <2>2. CASE \E i \in DOMAIN p.specialists : m = MemberOf(p, p.specialists[i])
    <3>1. PICK i \in DOMAIN p.specialists : m = MemberOf(p, p.specialists[i])
      BY <2>2
    <3>2. CASE \E j \in DOMAIN p.agents : o = MemberOf(p, p.agents[j])
      BY <1>2, <1>3, <3>1, <3>2 DEF MembersApart
    <3>3. CASE \E j \in DOMAIN p.specialists : o = MemberOf(p, p.specialists[j])
      BY <1>3, <3>1, <3>3 DEF MembersApart
    <3> QED BY <1>4, <3>2, <3>3
  <2> QED BY <1>4, <2>1, <2>2
<1>6. \A m \in DrawnMembers(p) : Named(m)
  BY <1>2, <1>3, <1>4 DEF MembersApart, Named
<1>7. /\ PeerMembers(p) = {MemberOf(p, p.agents[i]) : i \in DOMAIN p.agents \ {1}}
      /\ t.primary = MemberOf(p, p.agents[1])
  BY TailAgents DEF MembersDrawn
<1>8. \A i \in DOMAIN t.peers : t.peers[i] \in PeerMembers(p)
  BY DEF MembersDrawn
<1>9. \A i \in DOMAIN t.peers : t.peers[i].id # t.primary.id
  <2>1. \A m \in PeerMembers(p) : m.id # t.primary.id
    BY <1>1, <1>2, <1>7 DEF MembersApart, Distinct
  <2> QED BY <1>8, <2>1
<1>10. IdsDiffer(t.peers)
  <2>1. PeerMembers(p) \subseteq DrawnMembers(p)
    BY <1>7 DEF DrawnMembers
  <2>2. \A i, j \in DOMAIN t.peers : t.peers[i] = t.peers[j] => i = j
    BY DEF MembersDrawn, Enumerates
  <2> QED BY <1>5, <1>8, <2>1, <2>2 DEF IdsDiffer
<1>11. TeamMembers(t) = DrawnMembers(p)
  <2>1. TeamMembers(t) = {t.primary} \cup PeerMembers(p) \cup SpecialistMembers(p)
    BY TeamMembersAre DEF MembersDrawn
  <2>2. {t.primary} \cup PeerMembers(p) = {MemberOf(p, p.agents[i]) : i \in DOMAIN p.agents}
    BY <1>1, <1>7
  <2> QED BY <2>1, <2>2 DEF DrawnMembers
<1> QED BY <1>5, <1>6, <1>9, <1>10, <1>11

\* TeamDraft.Profile reads a profile back from its draft.
LEMMA DraftRepublished ==
  ASSUME NEW p, IsProfile(p), MembersApart(p), NEW r
  PROVE  Republished(p, ProfileOf(DraftOf(p), r))
<1>1. PICK d, t, q : d = DraftOf(p) /\ t = DraftTeam(p) /\ q = ProfileOf(d, r)
  OBVIOUS
<1>2. d.team = t /\ d.gateway = p.gateway
  BY <1>1, DraftIs
<1>3. MembersDrawn(p, t)
  BY <1>1, DraftDrawn
<1>4. IsTeam(t) /\ IsTeam(d.team)
  BY <1>2, <1>3 DEF MembersDrawn
<1>5. DrawnIn(q, d, r)
  BY <1>1, <1>4, DraftWritten
<1>6. PICK b : /\ Bare(b, d, r) /\ SameMembers(b, q)
               /\ Distinct(b)
                  /\ (\A k \in DOMAIN t.peerEdges :
                        /\ Blank \notin {t.peerEdges[k][1], t.peerEdges[k][2]}
                        /\ t.peerEdges[k][1] \in Agents(b))
                  /\ (\A k \in DOMAIN t.specialistEdges : t.specialistEdges[k][1] \in Agents(b))
                  => \A i \in DOMAIN b.agents :
                       /\ ToSet(q.agents[i].peers)
                            = Ends(t.peerEdges, Len(t.peerEdges), b.agents[i].id)
                       /\ ToSet(q.agents[i].specialists)
                            = Ends(t.specialistEdges, Len(t.specialistEdges), b.agents[i].id)
  BY <1>2, <1>5 DEF DrawnIn
<1>7. /\ IsProfile(q) /\ q.gateway = p.gateway /\ q.models = ModelTable(t)
      /\ q.tuned = {} /\ q.policy = FALSE
      /\ DOMAIN q.agents = DOMAIN b.agents /\ q.specialists = b.specialists
      /\ \A i \in DOMAIN b.agents : /\ q.agents[i].id = b.agents[i].id
                                    /\ q.agents[i].model = b.agents[i].model
  BY <1>2, <1>6 DEF Bare, SameMembers
<1>8. /\ b.agents[1] = AgentFrom(t.primary)
      /\ {b.agents[i] : i \in DOMAIN b.agents} = {AgentFrom(m) : m \in {t.primary} \cup PeerMembers(p)}
      /\ {b.specialists[i] : i \in DOMAIN b.specialists}
           = {SpecialistFrom(m) : m \in SpecialistMembers(p)}
  BY <1>2, <1>3, <1>6 DEF Bare, MembersDrawn
<1>9. 1 \in DOMAIN p.agents /\ 1 \in DOMAIN q.agents
  BY <1>7, ProfileFields
<1>10. {t.primary} \cup PeerMembers(p) = {MemberOf(p, p.agents[i]) : i \in DOMAIN p.agents}
  BY <1>3, <1>9, TailAgents DEF MembersDrawn
<1>11. q.agents[1].id = p.agents[1].id
  BY <1>3, <1>7, <1>8, <1>9 DEF MembersDrawn, MemberOf, AgentFrom
<1>12. /\ \A i \in DOMAIN q.agents : \E j \in DOMAIN p.agents :
            q.agents[i].id = p.agents[j].id /\ q.agents[i].model = p.agents[j].id
       /\ \A j \in DOMAIN p.agents : \E i \in DOMAIN q.agents :
            q.agents[i].id = p.agents[j].id /\ q.agents[i].model = p.agents[j].id
  <2>0. {b.agents[i] : i \in DOMAIN b.agents}
          = {AgentFrom(m) : m \in {MemberOf(p, p.agents[i]) : i \in DOMAIN p.agents}}
    BY <1>8, <1>10, Zenon
  <2>1. ASSUME NEW i \in DOMAIN q.agents
        PROVE  \E j \in DOMAIN p.agents :
                 q.agents[i].id = p.agents[j].id /\ q.agents[i].model = p.agents[j].id
    <3>1. b.agents[i] \in {b.agents[k] : k \in DOMAIN b.agents}
      BY <1>7
    <3>2. PICK j \in DOMAIN p.agents : b.agents[i] = AgentFrom(MemberOf(p, p.agents[j]))
      BY <2>0, <3>1
    <3> QED BY <1>7, <3>2 DEF AgentFrom, MemberOf
  <2>2. ASSUME NEW j \in DOMAIN p.agents
        PROVE  \E i \in DOMAIN q.agents :
                 q.agents[i].id = p.agents[j].id /\ q.agents[i].model = p.agents[j].id
    <3>1. AgentFrom(MemberOf(p, p.agents[j])) \in {b.agents[k] : k \in DOMAIN b.agents}
      BY <2>0
    <3>2. PICK i \in DOMAIN b.agents : b.agents[i] = AgentFrom(MemberOf(p, p.agents[j]))
      BY <3>1
    <3> QED BY <1>7, <3>2 DEF AgentFrom, MemberOf
  <2> QED BY <2>1, <2>2
<1>13. /\ \A i \in DOMAIN q.specialists : \E j \in DOMAIN p.specialists :
            /\ q.specialists[i].id = p.specialists[j].id
            /\ q.specialists[i].model = p.specialists[j].id
       /\ \A j \in DOMAIN p.specialists : \E i \in DOMAIN q.specialists :
            /\ q.specialists[i].id = p.specialists[j].id
            /\ q.specialists[i].model = p.specialists[j].id
  <2>1. ASSUME NEW i \in DOMAIN q.specialists
        PROVE  \E j \in DOMAIN p.specialists :
                 /\ q.specialists[i].id = p.specialists[j].id
                 /\ q.specialists[i].model = p.specialists[j].id
    <3>1. PICK j \in DOMAIN p.specialists :
            q.specialists[i] = SpecialistFrom(MemberOf(p, p.specialists[j]))
      BY <1>7, <1>8 DEF SpecialistMembers
    <3> QED BY <3>1 DEF SpecialistFrom, MemberOf
  <2>2. ASSUME NEW j \in DOMAIN p.specialists
        PROVE  \E i \in DOMAIN q.specialists :
                 /\ q.specialists[i].id = p.specialists[j].id
                 /\ q.specialists[i].model = p.specialists[j].id
    <3>1. PICK i \in DOMAIN q.specialists :
            q.specialists[i] = SpecialistFrom(MemberOf(p, p.specialists[j]))
      BY <1>7, <1>8 DEF SpecialistMembers
    <3> QED BY <3>1 DEF SpecialistFrom, MemberOf
  <2> QED BY <2>1, <2>2
<1>14. /\ IdsDiffer(t.peers) /\ \A i \in DOMAIN t.peers : t.peers[i].id # t.primary.id
       /\ \A m, o \in DrawnMembers(p) : m.id = o.id => m = o
       /\ \A m \in DrawnMembers(p) : Named(m)
       /\ TeamMembers(t) = DrawnMembers(p)
  BY <1>3, DraftApart
<1>15. \A m \in DrawnMembers(p) : q.models[m.id] = m.model
  BY <1>4, <1>7, <1>14, TableHas
<1>16. Distinct(b)
  BY <1>2, <1>6, <1>14 DEF Bare
<1>17. Agents(b) = Agents(p)
  BY <1>7, <1>12 DEF Agents
<1>18. /\ {t.peerEdges[k] : k \in DOMAIN t.peerEdges} = PeerPairs(p)
       /\ {t.specialistEdges[k] : k \in DOMAIN t.specialistEdges} = CallPairs(p)
       /\ Enumerates(t.peerEdges, PeerPairs(p)) /\ Enumerates(t.specialistEdges, CallPairs(p))
  BY <1>3 DEF MembersDrawn
<1>19. Blank \notin Agents(p)
  BY DEF MembersApart, Agents
<1>20. \A k \in DOMAIN t.peerEdges : /\ Blank \notin {t.peerEdges[k][1], t.peerEdges[k][2]}
                                     /\ t.peerEdges[k][1] \in Agents(b)
  <2>1. \A x \in PeerPairs(p) : x[1] \in Agents(p) /\ x[2] \in Agents(p)
    BY DEF PeerPairs
  <2>2. \A k \in DOMAIN t.peerEdges : t.peerEdges[k] \in PeerPairs(p)
    BY <1>18
  <2> HIDE DEF Blank
  <2> QED BY <1>17, <1>19, <2>1, <2>2
<1>21. \A k \in DOMAIN t.specialistEdges : t.specialistEdges[k][1] \in Agents(b)
  <2>1. \A x \in CallPairs(p) : x[1] \in Agents(p)
    BY DEF CallPairs
  <2>2. \A k \in DOMAIN t.specialistEdges : t.specialistEdges[k] \in CallPairs(p)
    BY <1>18
  <2> QED BY <1>17, <2>1, <2>2
<1>22. ASSUME NEW i \in DOMAIN q.agents
       PROVE  \A o :
                /\ o \in ToSet(q.agents[i].peers) <=> <<q.agents[i].id, o>> \in PeerPairs(p)
                /\ o \in ToSet(q.agents[i].specialists) <=> <<q.agents[i].id, o>> \in CallPairs(p)
  <2>1. /\ ToSet(q.agents[i].peers) = Ends(t.peerEdges, Len(t.peerEdges), q.agents[i].id)
        /\ ToSet(q.agents[i].specialists)
             = Ends(t.specialistEdges, Len(t.specialistEdges), q.agents[i].id)
    BY <1>6, <1>7, <1>16, <1>20, <1>21
  <2>2. /\ \A x \in PeerPairs(p) : x = <<x[1], x[2]>>
        /\ \A x \in CallPairs(p) : x = <<x[1], x[2]>>
    BY DEF PeerPairs, CallPairs
  <2>3. /\ \A o : o \in Ends(t.peerEdges, Len(t.peerEdges), q.agents[i].id)
                    <=> <<q.agents[i].id, o>> \in PeerPairs(p)
        /\ \A o : o \in Ends(t.specialistEdges, Len(t.specialistEdges), q.agents[i].id)
                    <=> <<q.agents[i].id, o>> \in CallPairs(p)
    BY <1>18, <2>2, EndsOf
  <2> QED BY <2>1, <2>3
<1>23. Republished(p, q)
  BY <1>7, <1>11, <1>12, <1>13, <1>15, <1>22 DEF Republished
<1> QED BY <1>1, <1>23

\* Being peers is mutual.
LEMMA PeersMutual ==
  ASSUME NEW p, NEW a \in Agents(p), NEW b \in Agents(p)
  PROVE  b \in PeersOf(p, a) <=> a \in PeersOf(p, b)
BY DEF PeersOf

\* Publishing the draft of a profile says what the profile says, and leaves what
\* no window shows at its defaults.
LEMMA MeaningKept ==
  ASSUME NEW p, IsProfile(p), Valid(p), NEW r
  PROVE  /\ Meaning(ProfileOf(DraftOf(p), r)) = Meaning(p)
         /\ Unshown(ProfileOf(DraftOf(p), r)) = [tuned |-> {}, policy |-> FALSE]
<1>1. PICK q : q = ProfileOf(DraftOf(p), r)
  OBVIOUS
<1>2. MembersApart(p)
  BY ValidApart
<1>3. Republished(p, q)
  BY <1>1, <1>2, DraftRepublished
<1>4. Agents(q) = Agents(p) /\ SpecialistIds(q) = SpecialistIds(p)
  BY <1>3 DEF Republished, Agents, SpecialistIds
<1>5. ModelsSaid(q) = ModelsSaid(p)
  <2>1. \A m \in DrawnMembers(p) : q.models[m.id] = m.model
    BY <1>3 DEF Republished
  <2>2. \A a : MemberOf(p, a).id = a.id
    BY DEF MemberOf
  <2>3. ASSUME NEW x \in Assigned(q)
        PROVE  \E m \in DrawnMembers(p) : x = <<m.id, m.id>>
    <3>1. CASE \E i \in DOMAIN q.agents : x = <<q.agents[i].id, q.agents[i].model>>
      <4>1. PICK j \in DOMAIN p.agents : x = <<p.agents[j].id, p.agents[j].id>>
        BY <1>3, <3>1 DEF Republished
      <4>2. MemberOf(p, p.agents[j]) \in DrawnMembers(p)
        BY DEF DrawnMembers
      <4> QED BY <2>2, <4>1, <4>2
    <3>2. CASE \E i \in DOMAIN q.specialists : x = <<q.specialists[i].id, q.specialists[i].model>>
      <4>1. PICK j \in DOMAIN p.specialists : x = <<p.specialists[j].id, p.specialists[j].id>>
        BY <1>3, <3>2 DEF Republished
      <4>2. MemberOf(p, p.specialists[j]) \in DrawnMembers(p)
        BY DEF DrawnMembers, SpecialistMembers
      <4> QED BY <2>2, <4>1, <4>2
    <3> QED BY <2>3, <3>1, <3>2 DEF Assigned
  <2>4. ASSUME NEW m \in DrawnMembers(p)
        PROVE  <<m.id, m.id>> \in Assigned(q)
    <3>1. CASE \E j \in DOMAIN p.agents : m = MemberOf(p, p.agents[j])
      BY <1>3, <2>2, <3>1 DEF Republished, Assigned
    <3>2. CASE \E j \in DOMAIN p.specialists : m = MemberOf(p, p.specialists[j])
      BY <1>3, <2>2, <3>2 DEF Republished, Assigned
    <3> QED BY <2>4, <3>1, <3>2 DEF DrawnMembers, SpecialistMembers
  <2>5. ModelsSaid(q) = {<<m.id, m.model>> : m \in DrawnMembers(p)}
    <3>1. ASSUME NEW x \in Assigned(q)
          PROVE  \E m \in DrawnMembers(p) : <<x[1], q.models[x[2]]>> = <<m.id, m.model>>
      <4>1. PICK m \in DrawnMembers(p) : x = <<m.id, m.id>>
        BY <2>3
      <4>2. q.models[m.id] = m.model /\ x[1] = m.id /\ x[2] = m.id
        BY <2>1, <4>1
      <4> QED BY <4>2
    <3>2. ASSUME NEW m \in DrawnMembers(p)
          PROVE  \E x \in Assigned(q) : <<x[1], q.models[x[2]]>> = <<m.id, m.model>>
      <4>1. PICK x \in Assigned(q) : x = <<m.id, m.id>>
        BY <2>4
      <4>2. q.models[m.id] = m.model /\ x[1] = m.id /\ x[2] = m.id
        BY <2>1, <4>1
      <4> QED BY <4>2
    <3> QED BY <3>1, <3>2 DEF ModelsSaid
  <2> QED BY <2>5, ModelsAreMembers
<1>6. ASSUME NEW a \in Agents(p)
      PROVE  PeersOf(q, a) = PeersOf(p, a)
  <2>1. ASSUME NEW b \in Agents(p), b # a
        PROVE  b \in PeersOf(q, a) <=> (<<a, b>> \in PeerPairs(p) \/ <<b, a>> \in PeerPairs(p))
    <3>2. \A i \in DOMAIN q.agents : \A o :
            o \in ToSet(q.agents[i].peers) <=> <<q.agents[i].id, o>> \in PeerPairs(p)
      BY <1>3 DEF Republished
    <3>3. \A x \in Agents(p) : \E i \in DOMAIN q.agents : q.agents[i].id = x
      BY <1>4 DEF Agents
    <3> QED BY <1>4, <2>1, <3>2, <3>3 DEF PeersOf
  <2>2. ASSUME NEW b \in Agents(p), b # a
        PROVE  (<<a, b>> \in PeerPairs(p) \/ <<b, a>> \in PeerPairs(p)) <=> b \in PeersOf(p, a)
    <3>1. a \in Nat /\ b \in Nat
      BY ProfileFields DEF Agents
    <3>2. a < b \/ b < a
      BY <2>2, <3>1
    <3> QED BY <2>2, <3>1, <3>2, PeersMutual DEF PeerPairs
  <2>3. PeersOf(q, a) \subseteq Agents(p) \ {a} /\ PeersOf(p, a) \subseteq Agents(p) \ {a}
    BY <1>4 DEF PeersOf
  <2> QED BY <2>1, <2>2, <2>3
<1>7. PeersSaid(q) = PeersSaid(p)
  BY <1>4, <1>6 DEF PeersSaid
<1>8. \A i \in DOMAIN q.agents, j \in DOMAIN p.agents :
        q.agents[i].id = p.agents[j].id => ToSet(q.agents[i].specialists) = ToSet(p.agents[j].specialists)
  <2> SUFFICES ASSUME NEW i \in DOMAIN q.agents, NEW j \in DOMAIN p.agents,
                      q.agents[i].id = p.agents[j].id
               PROVE  ToSet(q.agents[i].specialists) = ToSet(p.agents[j].specialists)
    OBVIOUS
  <2>1. /\ \A o : o \in ToSet(q.agents[i].specialists) <=> <<p.agents[j].id, o>> \in CallPairs(p)
        /\ p.agents[j].id \in Agents(p)
    BY <1>3 DEF Republished, Agents
  <2>2. ToSet(p.agents[j].specialists) \subseteq SpecialistIds(p)
    BY DEF Valid, StructureHolds, CallsDeclaredOnce
  <2>3. \A o \in SpecialistIds(p) :
          <<p.agents[j].id, o>> \in CallPairs(p) <=> o \in ToSet(p.agents[j].specialists)
    BY <1>2, <2>1 DEF CallPairs, MembersApart, Distinct
  <2>4. \A o : <<p.agents[j].id, o>> \in CallPairs(p) => o \in SpecialistIds(p)
    BY DEF CallPairs
  <2> QED BY <2>1, <2>2, <2>3, <2>4
<1>9. CallsSaid(q) = CallsSaid(p)
  <2>1. \A i \in DOMAIN q.agents : \E j \in DOMAIN p.agents : q.agents[i].id = p.agents[j].id
    BY <1>4 DEF Agents
  <2>2. \A j \in DOMAIN p.agents : \E i \in DOMAIN q.agents : q.agents[i].id = p.agents[j].id
    BY <1>4 DEF Agents
  <2> QED BY <1>8, <2>1, <2>2 DEF CallsSaid
<1>10. q.gateway = p.gateway /\ q.agents[1].id = p.agents[1].id
  BY <1>3 DEF Republished
<1>11. Meaning(q) = Meaning(p)
  BY <1>5, <1>7, <1>9, <1>10, MeaningIs
<1>12. Unshown(q) = [tuned |-> {}, policy |-> FALSE]
  BY <1>3 DEF Republished, Unshown
<1> QED BY <1>1, <1>11, <1>12

-----------------------------------------------------------------------------
(* What is stored and drawn is well formed.                                *)

IsDraft(d) ==
  /\ d = [gateway |-> d.gateway, base |-> d.base, team |-> d.team]
  /\ d.gateway \in Gateways \cup {NoGateway} /\ IsTeam(d.team)

\* Every row holds a valid profile of its own number.
TableShaped(rs) ==
  /\ DOMAIN rs \subseteq 1..MaxRevision
  /\ \A r \in DOMAIN rs :
       LET p == rs[r].profile
       IN  IsProfile(p) /\ Valid(p) /\ p.revision = r /\ p.gateway \in Gateways \cup {NoGateway}

Kinds == {"none", "init", "refused", "stale", "invalid", "published"}

\* An answer that names a revision names a stored one.
AnswerShaped(a, rs) ==
  /\ a.kind \in Kinds
  /\ a.kind = "published" => a.revision \in DOMAIN rs

EditorShaped(h) ==
  /\ IsDraft(h.draft)
  /\ h.view \in {"closed", "new", "edit", "inspect"}
  /\ h.catalog \in Gateways \cup {NoGateway}

HostShaped(h, rs) ==
  EditorShaped(h) /\ AnswerShaped(h.shown, rs) /\ AnswerShaped(h.frozen, rs)

ShapeInv ==
  /\ TeamInv
  /\ importable \subseteq Imports /\ sketch \in Sketches /\ minted \in BOOLEAN
  /\ TableShaped(revisions)
  /\ \A w \in Windows : HostShaped(windows[w], revisions)

\* The newest revision of a table.
LEMMA NewestIs ==
  ASSUME NEW rs, DOMAIN rs \subseteq 1..MaxRevision
  PROVE  /\ NewestRevision(rs) \in Nat /\ \A o \in DOMAIN rs : o <= NewestRevision(rs)
         /\ DOMAIN rs # {} => NewestRevision(rs) \in DOMAIN rs
<1>1. MaxRevision \in Nat
  BY TeamShapes
<1>2. CASE DOMAIN rs = {}
  BY <1>2 DEF NewestRevision
<1>3. CASE DOMAIN rs # {}
  <2> DEFINE Below == {k \in 0..MaxRevision : MaxRevision - k \in DOMAIN rs}
  <2>1. Below \in SUBSET Nat
    OBVIOUS
  <2>2. Below # {}
    <3>1. PICK r \in DOMAIN rs : TRUE
      BY <1>3
    <3>2. MaxRevision - r \in 0..MaxRevision /\ MaxRevision - (MaxRevision - r) = r
      BY <1>1
    <3> QED BY <3>1, <3>2
  <2>3. PICK k \in Below : \A m \in Below : k <= m
    <3> HIDE DEF Below
    <3> QED BY <2>1, <2>2, LeastOf
  <2>4. PICK n : n = MaxRevision - k
    OBVIOUS
  <2>5. n \in DOMAIN rs
    BY <2>3, <2>4
  <2>6. ASSUME NEW o \in DOMAIN rs
        PROVE  o <= n
    <3>1. MaxRevision - o \in 0..MaxRevision /\ MaxRevision - (MaxRevision - o) = o
      BY <1>1
    <3>2. k <= MaxRevision - o
      BY <2>3, <3>1
    <3> QED BY <1>1, <2>3, <2>4, <3>2
  <2>7. NewestRevision(rs) = CHOOSE r \in DOMAIN rs : \A o \in DOMAIN rs : o <= r
    BY <1>3 DEF NewestRevision
  <2>8. NewestRevision(rs) \in DOMAIN rs /\ \A o \in DOMAIN rs : o <= NewestRevision(rs)
    BY <2>5, <2>6, <2>7
  <2> QED BY <1>1, <2>8
<1> QED BY <1>2, <1>3

\* The table with one more row.
WithRow(rs, n, row) == [r \in DOMAIN rs \cup {n} |-> IF r = n THEN row ELSE rs[r]]

LEMMA RowAdded ==
  ASSUME NEW rs, TableShaped(rs), NEW n \in 1..MaxRevision, NEW row,
         IsProfile(row.profile), Valid(row.profile), row.profile.revision = n,
         row.profile.gateway \in Gateways \cup {NoGateway}
  PROVE  /\ TableShaped(WithRow(rs, n, row)) /\ DOMAIN rs \subseteq DOMAIN WithRow(rs, n, row)
         /\ n \in DOMAIN WithRow(rs, n, row)
BY DEF TableShaped, WithRow

\* A longer table knows what the shorter one knew.
LEMMA HostsStayShaped ==
  ASSUME NEW rs, NEW os, DOMAIN rs \subseteq DOMAIN os, NEW h, HostShaped(h, rs)
  PROVE  HostShaped(h, os)
BY DEF HostShaped, AnswerShaped

LEMMA ImportShapes ==
  ASSUME ShapeInv, NEW p \in importable, ImportProfile(p)
  PROVE  ShapeInv'
<1>1. TeamInv'
  BY ImportStep DEF ShapeInv
<1>2. IsProfile(p) /\ p.gateway \in Gateways \cup {NoGateway} /\ p.revision \in Int
      /\ p.revision <= MaxRevision /\ MaxRevision \in Nat
  BY TeamShapes DEF ShapeInv
<1>3. Valid(p) /\ p.revision >= 1
  BY DEF ImportProfile, Valid, StructureHolds
<1>4. p.revision \in 1..MaxRevision
  BY <1>2, <1>3
<1>5. PICK row : row = Row(p, NewestRevision(revisions), NewestRevision(revisions))
  OBVIOUS
<1>6. row.profile = p
  BY <1>5 DEF Row
<1>7. /\ revisions' = WithRow(revisions, p.revision, row)
      /\ importable' \subseteq importable /\ minted' \in BOOLEAN /\ sketch' = sketch
      /\ windows' = windows
  BY <1>5 DEF ImportProfile, WithRow
<1>8. TableShaped(revisions') /\ DOMAIN revisions \subseteq DOMAIN revisions'
  BY <1>2, <1>3, <1>4, <1>6, <1>7, RowAdded DEF ShapeInv
<1> QED BY <1>1, <1>7, <1>8, HostsStayShaped DEF ShapeInv

\* Clearing the models of a drawn team leaves a drawn team.
LEMMA ModelsCleared ==
  ASSUME NEW t, IsTeam(t)
  PROVE  IsTeam(WithoutModels(t))
<1> DEFINE clear(m) == [m EXCEPT !.model = NoModel]
<1>1. PICK a, b, c : /\ a = clear(t.primary) /\ b = [i \in DOMAIN t.peers |-> clear(t.peers[i])]
                     /\ c = [i \in DOMAIN t.specialists |-> clear(t.specialists[i])]
  OBVIOUS
<1>2. WithoutModels(t) = [t EXCEPT !.primary = a, !.peers = b, !.specialists = c]
  BY <1>1 DEF WithoutModels
<1>3. \A m : IsMember(m) => IsMember(clear(m))
  BY DEF IsMember
<1> HIDE DEF clear
<1>4. IsMember(a) /\ (\A i \in DOMAIN b : IsMember(b[i])) /\ \A i \in DOMAIN c : IsMember(c[i])
  BY <1>1, <1>3 DEF IsTeam
<1>5. b \in Seq(ToSet(b)) /\ c \in Seq(ToSet(c))
  <2>1. /\ DOMAIN t.peers = 1..Len(t.peers) /\ Len(t.peers) \in Nat
        /\ DOMAIN t.specialists = 1..Len(t.specialists) /\ Len(t.specialists) \in Nat
    BY DEF IsTeam
  <2>2. DOMAIN b = 1..Len(t.peers) /\ b = [i \in 1..Len(t.peers) |-> b[i]]
        /\ DOMAIN c = 1..Len(t.specialists) /\ c = [i \in 1..Len(t.specialists) |-> c[i]]
    BY <1>1, <2>1
  <2> QED BY <2>1, <2>2 DEF ToSet
<1>6. PICK u : u = WithoutModels(t)
  OBVIOUS
<1>7. /\ u = [primary |-> a, peers |-> b, specialists |-> c, peerEdges |-> t.peerEdges,
              specialistEdges |-> t.specialistEdges, complete |-> t.complete]
  BY <1>2, <1>6 DEF IsTeam
<1>8. /\ u = [primary |-> u.primary, peers |-> u.peers, specialists |-> u.specialists,
              peerEdges |-> u.peerEdges, specialistEdges |-> u.specialistEdges,
              complete |-> u.complete]
      /\ u.primary = a /\ u.peers = b /\ u.specialists = c
      /\ u.peerEdges = t.peerEdges /\ u.specialistEdges = t.specialistEdges
  BY <1>7
<1>9. t.peerEdges \in Seq(Nat \X Nat) /\ t.specialistEdges \in Seq(Nat \X Nat)
  BY DEF IsTeam
<1>10. IsTeam(u)
  BY <1>4, <1>5, <1>8, <1>9 DEF IsTeam
<1> QED BY <1>6, <1>10

\* A stored revision opens as a draft.
LEMMA DraftShaped ==
  ASSUME NEW p, IsProfile(p), Valid(p), p.gateway \in Gateways \cup {NoGateway}
  PROVE  IsDraft(DraftOf(p))
<1>1. MembersDrawn(p, DraftTeam(p))
  BY ValidApart, DraftDrawn
<1>2. IsTeam(DraftTeam(p))
  BY <1>1 DEF MembersDrawn
<1>3. PICK t : t = DraftTeam(p)
  OBVIOUS
<1>4. DraftOf(p) = [gateway |-> p.gateway, base |-> p.revision, team |-> t]
  BY <1>3, DraftIs
<1> QED BY <1>2, <1>3, <1>4 DEF IsDraft

\* The new Team of a window.
LEMMA NoDraftShaped == IsDraft(NoDraft)
<1>1. IsMember([id |-> 1, model |-> NoModel])
  BY DEF IsMember
<1>2. PICK t : t = NoDraft.team
  OBVIOUS
<1>3. t = [primary |-> [id |-> 1, model |-> NoModel], peers |-> <<>>, specialists |-> <<>>,
           peerEdges |-> <<>>, specialistEdges |-> <<>>, complete |-> FALSE]
  BY <1>2 DEF NoDraft
<1>4. /\ t.primary = [id |-> 1, model |-> NoModel] /\ t.peers = <<>> /\ t.specialists = <<>>
      /\ t.peerEdges = <<>> /\ t.specialistEdges = <<>>
      /\ t = [primary |-> t.primary, peers |-> t.peers, specialists |-> t.specialists,
              peerEdges |-> t.peerEdges, specialistEdges |-> t.specialistEdges,
              complete |-> t.complete]
  BY <1>3
<1>5. \A S : <<>> \in Seq(S)
  OBVIOUS
<1>6. DOMAIN <<>> = {}
  OBVIOUS
<1>7. IsTeam(t)
  BY <1>1, <1>4, <1>5, <1>6 DEF IsTeam
<1> QED BY <1>2, <1>7 DEF IsDraft, NoDraft

\* What a publication leaves of the table.
LEMMA PublishShapes ==
  ASSUME NEW rs, TableShaped(rs), NEW d, IsDraft(d), NewestRevision(rs) < MaxRevision
  PROVE  LET out == PublishProfile(rs, d) IN
         /\ out.kind \in {"stale", "invalid", "published"}
         /\ TableShaped(out.rows) /\ DOMAIN rs \subseteq DOMAIN out.rows
         /\ out.kind = "published" => NewestRevision(out.rows) \in DOMAIN out.rows
<1>1. PICK n, p, row, rows, out :
        /\ n = NewestRevision(rs) + 1 /\ p = ProfileOf(d, n) /\ row = Row(p, d.base, n - 1)
        /\ rows = WithRow(rs, n, row) /\ out = PublishProfile(rs, d)
  OBVIOUS
<1>2. NewestRevision(rs) \in Nat /\ n \in 1..MaxRevision /\ n - 1 = NewestRevision(rs)
  <2>1. NewestRevision(rs) \in Nat /\ MaxRevision \in Nat
    BY NewestIs, TeamShapes DEF TableShaped
  <2> QED BY <1>1, <2>1
<1>3. out = IF NewestRevision(rs) # d.base THEN [kind |-> "stale", rows |-> rs]
            ELSE IF ~Valid(p) THEN [kind |-> "invalid", rows |-> rs]
            ELSE [kind |-> "published", rows |-> rows]
  BY <1>1, <1>2 DEF PublishProfile, WithRow
<1>4. CASE out.kind # "published"
  <2>1. out.rows = rs /\ out.kind \in {"stale", "invalid"}
    BY <1>3, <1>4
  <2> QED BY <1>1, <2>1
<1>5. CASE out.kind = "published"
  <2>1. Valid(p) /\ out.rows = rows
    BY <1>3, <1>5
  <2>2. DrawnIn(p, d, n)
    BY <1>1, DraftWritten DEF IsDraft
  <2>3. IsProfile(p) /\ p.revision = n /\ p.gateway \in Gateways \cup {NoGateway}
    BY <2>2 DEF DrawnIn, SameMembers, Bare, IsDraft
  <2>4. row.profile = p
    BY <1>1 DEF Row
  <2>5. TableShaped(rows) /\ DOMAIN rs \subseteq DOMAIN rows /\ n \in DOMAIN rows
    BY <1>1, <1>2, <2>1, <2>3, <2>4, RowAdded
  <2>6. NewestRevision(rows) \in DOMAIN rows
    BY <2>5, NewestIs DEF TableShaped
  <2> QED BY <1>1, <1>5, <2>1, <2>5, <2>6
<1> QED BY <1>4, <1>5

\* What a window may ask: a stored revision, a gateway account.
AskShaped(q, rs) ==
  \/ q.op = "new"
  \/ q.op \in {"edit", "inspect"} /\ q.revision \in DOMAIN rs
  \/ q.op = "gateway" /\ q.gateway \in Gateways
  \/ q.op = "publish" /\ NewestRevision(rs) < MaxRevision

\* What a request leaves of the host and of the table.
RequestLeaves(out, rs) ==
  /\ IsHost(out.host) /\ EditorShaped(out.host) /\ AnswerShaped(out.answer, out.rows)
  /\ TableShaped(out.rows) /\ DOMAIN rs \subseteq DOMAIN out.rows

LEMMA HostEdited ==
  ASSUME NEW h, IsHost(h), EditorShaped(h), NEW v \in {"new", "edit", "inspect"},
         NEW d, IsDraft(d), NEW c \in Gateways \cup {NoGateway}
  PROVE  LET g == [h EXCEPT !.view = v, !.draft = d, !.catalog = c]
         IN  IsHost(g) /\ EditorShaped(g)
BY DEF IsHost, EditorShaped

LEMMA HostRegated ==
  ASSUME NEW h, IsHost(h), EditorShaped(h), NEW d, IsDraft(d), NEW c \in Gateways \cup {NoGateway}
  PROVE  LET g == [h EXCEPT !.catalog = c, !.draft = d]
         IN  IsHost(g) /\ EditorShaped(g)
BY DEF IsHost, EditorShaped

LEMMA PublisherShaped ==
  ASSUME NEW h, IsHost(h), EditorShaped(h), NEW n
  PROVE  IsHost(Publisher(h, n)) /\ EditorShaped(Publisher(h, n))
<1>1. PICK d, v, c : d = h.draft /\ v = h.view /\ c = h.catalog
  OBVIOUS
<1>2. d = [gateway |-> d.gateway, base |-> d.base, team |-> d.team]
      /\ d.gateway \in Gateways \cup {NoGateway} /\ IsTeam(d.team)
  BY <1>1 DEF EditorShaped, IsDraft
<1>3. PICK e : e = [d EXCEPT !.base = n]
  OBVIOUS
<1>4. e = [gateway |-> d.gateway, base |-> n, team |-> d.team]
  BY <1>2, <1>3
<1>5. IsDraft(e)
  BY <1>2, <1>4 DEF IsDraft
<1>6. PICK w : w = h.wrote \cup {n}
  OBVIOUS
<1>7. Publisher(h, n) = [h EXCEPT !.draft = e, !.wrote = w]
  BY <1>1, <1>3, <1>6 DEF Publisher, IsHost
<1>8. PICK g : g = [h EXCEPT !.draft = e, !.wrote = w]
  OBVIOUS
<1>9. IsHost(g) /\ g.draft = e /\ g.view = h.view /\ g.catalog = h.catalog
  BY <1>8 DEF IsHost
<1> QED BY <1>5, <1>7, <1>8, <1>9 DEF EditorShaped

LEMMA ExchangeShapes ==
  ASSUME NEW h, IsHost(h), EditorShaped(h), NEW rs, TableShaped(rs),
         NEW q, AskShaped(q, rs), NEW answering
  PROVE  RequestLeaves(Exchange(h, q, rs, answering), rs)
<1>1. PICK out : out = Exchange(h, q, rs, answering)
  OBVIOUS
<1>2. \A os, x : AnswerShaped(Answer("init", x), os) /\ AnswerShaped(Answer("refused", x), os)
                 /\ AnswerShaped(Answer("stale", x), os)
  BY DEF AnswerShaped, Answer, Kinds
<1>3. IsDraft(h.draft) /\ h.catalog \in Gateways \cup {NoGateway}
  BY DEF EditorShaped
<1>4. CASE q.op = "new"
  <2>1. PICK g : g = [h EXCEPT !.view = "new", !.draft = NoDraft, !.catalog = NoGateway]
    OBVIOUS
  <2>2. IsHost(g) /\ EditorShaped(g)
    BY <2>1, HostEdited, NoDraftShaped
  <2>3. out = [host |-> g, rows |-> rs, answer |-> Answer("init", 0)]
    BY <1>1, <1>4, <2>1 DEF Exchange
  <2>4. out.host = g /\ out.rows = rs /\ out.answer = Answer("init", 0)
    BY <2>3
  <2> QED BY <1>1, <1>2, <2>2, <2>4 DEF RequestLeaves
<1>5. CASE q.op \in {"edit", "inspect"}
  <2>1. PICK p : p = rs[q.revision].profile
    OBVIOUS
  <2>2. IsProfile(p) /\ Valid(p) /\ p.gateway \in Gateways \cup {NoGateway}
    BY <1>5, <2>1 DEF AskShaped, TableShaped
  <2>3. PICK d, c : d = DraftOf(p) /\ c = Catalog(h, p.gateway, answering)
    OBVIOUS
  <2>4. IsDraft(d) /\ c \in Gateways \cup {NoGateway}
    BY <1>3, <2>2, <2>3, DraftShaped DEF Catalog
  <2>5. PICK g : g = [h EXCEPT !.view = q.op, !.draft = d, !.catalog = c]
    OBVIOUS
  <2>6. IsHost(g) /\ EditorShaped(g)
    BY <1>5, <2>4, <2>5, HostEdited
  <2>7. out = [host |-> g, rows |-> rs, answer |-> Answer("init", 0)]
    BY <1>1, <1>5, <2>1, <2>3, <2>5 DEF Exchange
  <2>8. out.host = g /\ out.rows = rs /\ out.answer = Answer("init", 0)
    BY <2>7
  <2> QED BY <1>1, <1>2, <2>6, <2>8 DEF RequestLeaves
<1>6. CASE q.op = "gateway"
  <2>1. CASE h.view = "inspect" \/ ~answering
    <3>1. out = [host |-> h, rows |-> rs, answer |-> Answer("refused", 0)]
      BY <1>1, <1>6, <2>1 DEF Exchange
    <3>2. out.host = h /\ out.rows = rs /\ out.answer = Answer("refused", 0)
      BY <3>1
    <3> QED BY <1>1, <1>2, <3>2 DEF RequestLeaves
  <2>2. CASE ~(h.view = "inspect" \/ ~answering)
    <3>1. PICK d, e : d = h.draft /\ e = WithGateway(d, q.gateway)
      OBVIOUS
    <3>2. IsDraft(e)
      <4>1. CASE d.gateway = q.gateway
        BY <1>3, <3>1, <4>1 DEF WithGateway
      <4>2. CASE d.gateway # q.gateway
        <5>1. PICK t : t = WithoutModels(d.team)
          OBVIOUS
        <5>2. d = [gateway |-> d.gateway, base |-> d.base, team |-> d.team] /\ IsTeam(d.team)
          BY <1>3, <3>1 DEF IsDraft
        <5>3. IsTeam(t)
          BY <5>1, <5>2, ModelsCleared
        <5>4. e = [d EXCEPT !.gateway = q.gateway, !.team = t]
          BY <3>1, <4>2, <5>1 DEF WithGateway
        <5>5. e = [gateway |-> q.gateway, base |-> d.base, team |-> t]
          BY <5>2, <5>4
        <5> QED BY <1>6, <5>3, <5>5 DEF IsDraft, AskShaped
      <4> QED BY <4>1, <4>2
    <3>3. PICK g : g = [h EXCEPT !.catalog = q.gateway, !.draft = e]
      OBVIOUS
    <3>4. IsHost(g) /\ EditorShaped(g)
      BY <1>6, <3>2, <3>3, HostRegated DEF AskShaped
    <3>5. out = [host |-> g, rows |-> rs, answer |-> Answer("init", 0)]
      <4>1. [h EXCEPT !.catalog = q.gateway, !.draft = WithGateway(@, q.gateway)] = g
        BY <3>1, <3>3 DEF IsHost
      <4> QED BY <1>1, <1>6, <2>2, <4>1 DEF Exchange
    <3>6. out.host = g /\ out.rows = rs /\ out.answer = Answer("init", 0)
      BY <3>5
    <3> QED BY <1>1, <1>2, <3>4, <3>6 DEF RequestLeaves
  <2> QED BY <2>1, <2>2
<1>7. CASE q.op = "publish"
  <2>1. CASE h.view = "inspect" \/ ~Accepted(h.draft, h.catalog)
    <3>1. out = [host |-> h, rows |-> rs, answer |-> Answer("refused", 0)]
      BY <1>1, <1>7, <2>1 DEF Exchange
    <3>2. out.host = h /\ out.rows = rs /\ out.answer = Answer("refused", 0)
      BY <3>1
    <3> QED BY <1>1, <1>2, <3>2 DEF RequestLeaves
  <2>2. CASE ~(h.view = "inspect" \/ ~Accepted(h.draft, h.catalog))
    <3>1. PICK pub, n : pub = PublishProfile(rs, h.draft) /\ n = NewestRevision(pub.rows)
      OBVIOUS
    <3>2. /\ pub.kind \in {"stale", "invalid", "published"}
          /\ TableShaped(pub.rows) /\ DOMAIN rs \subseteq DOMAIN pub.rows
          /\ pub.kind = "published" => n \in DOMAIN pub.rows
      BY <1>3, <1>7, <3>1, PublishShapes DEF AskShaped
    <3>3. out = [host |-> IF pub.kind = "published" THEN Publisher(h, n) ELSE h,
                 rows |-> pub.rows,
                 answer |-> Answer(pub.kind, IF pub.kind = "published" THEN n ELSE 0)]
      BY <1>1, <1>7, <2>2, <3>1 DEF Exchange, Publisher
    <3>4. /\ out.host = IF pub.kind = "published" THEN Publisher(h, n) ELSE h
          /\ out.rows = pub.rows
          /\ out.answer = Answer(pub.kind, IF pub.kind = "published" THEN n ELSE 0)
      BY <3>3
    <3>5. IsHost(out.host) /\ EditorShaped(out.host)
      BY <3>4, PublisherShaped
    <3>6. AnswerShaped(out.answer, out.rows)
      BY <3>2, <3>4 DEF AnswerShaped, Answer, Kinds
    <3> QED BY <1>1, <3>2, <3>4, <3>5, <3>6 DEF RequestLeaves
  <2> QED BY <2>1, <2>2
<1> QED BY <1>4, <1>5, <1>6, <1>7 DEF AskShaped

\* The window's own questions are answered from what is stored.
LEMMA AsksShaped ==
  ASSUME ShapeInv, NEW w \in Windows, NEW q \in AsksOf(w),
         NewestRevision(revisions) < MaxRevision \/ q.op # "publish"
  PROVE  AskShaped(q, revisions)
<1>1. \/ q = [op |-> "inspect", revision |-> windows[w].shown.revision]
         /\ windows[w].shown.kind = "published"
      \/ q \in {[op |-> "new"] : x \in IF minted THEN {} ELSE {1}}
      \/ q \in [op : {"edit", "inspect"}, revision : DOMAIN revisions]
      \/ q \in [op : {"gateway"}, gateway : Gateways]
      \/ q = [op |-> "publish"]
  BY DEF AsksOf
<1>2. windows[w].shown.kind = "published" => windows[w].shown.revision \in DOMAIN revisions
  BY DEF ShapeInv, HostShaped, AnswerShaped
<1>3. CASE q = [op |-> "inspect", revision |-> windows[w].shown.revision]
           /\ windows[w].shown.kind = "published"
  BY <1>2, <1>3 DEF AskShaped
<1>4. CASE q \in {[op |-> "new"] : x \in IF minted THEN {} ELSE {1}}
  BY <1>4 DEF AskShaped
<1>5. CASE q \in [op : {"edit", "inspect"}, revision : DOMAIN revisions]
  BY <1>5 DEF AskShaped
<1>6. CASE q \in [op : {"gateway"}, gateway : Gateways]
  BY <1>6 DEF AskShaped
<1>7. CASE q = [op |-> "publish"]
  BY <1>7 DEF AskShaped
<1> QED BY <1>1, <1>3, <1>4, <1>5, <1>6, <1>7

LEMMA ProbeShapes ==
  ASSUME ShapeInv, NEW w \in Windows, NEW q \in AsksOf(w), NEW answering, Probe(w, q, answering)
  PROVE  ShapeInv'
<1>1. TeamInv'
  BY GatewayProbeStep DEF ShapeInv
<1>2. PICK h, out : /\ h = [windows[w] EXCEPT !.wrote = {}]
                    /\ out = Exchange(h, q, revisions, answering)
  OBVIOUS
<1>3. IsHost(windows[w]) /\ DOMAIN windows = Windows /\ HostShaped(windows[w], revisions)
  BY DEF ShapeInv, TeamInv
<1>4. IsHost(h) /\ EditorShaped(h)
  BY <1>2, <1>3 DEF IsHost, HostShaped, EditorShaped
<1>5. AskShaped(q, revisions)
  BY AsksShaped DEF Probe
<1>6. RequestLeaves(out, revisions)
  BY <1>2, <1>4, <1>5, ExchangeShapes DEF ShapeInv
<1>7. PICK g : g = [out.host EXCEPT !.call = q, !.frozen = out.answer, !.shown = NoAnswer]
  OBVIOUS
<1>8. /\ windows' = [windows EXCEPT ![w] = g] /\ revisions' = out.rows
      /\ importable' = importable /\ sketch' = sketch /\ minted' = (minted \/ q.op = "new")
  BY <1>2, <1>7 DEF Probe
<1>9. /\ g.draft = out.host.draft /\ g.view = out.host.view /\ g.catalog = out.host.catalog
      /\ g.frozen = out.answer /\ g.shown = NoAnswer
  BY <1>6, <1>7 DEF RequestLeaves, IsHost
<1>10. HostShaped(g, revisions')
  <2>1. AnswerShaped(NoAnswer, revisions')
    BY DEF AnswerShaped, NoAnswer, Answer, Kinds
  <2> QED BY <1>6, <1>8, <1>9, <2>1 DEF RequestLeaves, HostShaped, EditorShaped
<1>11. TableShaped(revisions') /\ DOMAIN revisions \subseteq DOMAIN revisions'
  BY <1>6, <1>8 DEF RequestLeaves
<1>12. windows'[w] = g /\ \A v \in Windows : v # w => windows'[v] = windows[v]
  BY <1>3, <1>8
<1>13. \A v \in Windows : HostShaped(windows'[v], revisions')
  BY <1>10, <1>11, <1>12, HostsStayShaped DEF ShapeInv
<1>14. minted' \in BOOLEAN
  BY <1>8
<1> QED BY <1>1, <1>8, <1>11, <1>13, <1>14 DEF ShapeInv

LEMMA TransferShapes ==
  ASSUME ShapeInv, NEW w \in Windows, Transfer(w)
  PROVE  ShapeInv'
<1>1. TeamInv'
  BY TransferStep DEF ShapeInv
<1>2. PICK h, a : h = windows[w] /\ a = IF h.call.op = "publish" THEN h.frozen ELSE NoAnswer
  OBVIOUS
<1>3. IsHost(h) /\ DOMAIN windows = Windows /\ HostShaped(h, revisions)
  BY <1>2 DEF ShapeInv, TeamInv
<1>4. PICK g : g = [h EXCEPT !.call = NoAsk, !.shown = a, !.frozen = NoAnswer]
  OBVIOUS
<1>5. /\ windows' = [windows EXCEPT ![w] = g] /\ revisions' = revisions
      /\ importable' = importable /\ sketch' = sketch /\ minted' = minted
  BY <1>2, <1>3, <1>4 DEF Transfer, IsHost
<1>6. /\ g.draft = h.draft /\ g.view = h.view /\ g.catalog = h.catalog
      /\ g.frozen = NoAnswer /\ g.shown = a
  BY <1>3, <1>4 DEF IsHost
<1>7. HostShaped(g, revisions)
  <2>1. AnswerShaped(NoAnswer, revisions)
    BY DEF AnswerShaped, NoAnswer, Answer, Kinds
  <2> QED BY <1>2, <1>3, <1>6, <2>1 DEF HostShaped, EditorShaped
<1>8. windows'[w] = g /\ \A v \in Windows : v # w => windows'[v] = windows[v]
  BY <1>3, <1>5
<1> QED BY <1>1, <1>5, <1>7, <1>8 DEF ShapeInv

LEMMA DrawShapes ==
  ASSUME ShapeInv, NEW w \in Windows, Draw(w)
  PROVE  ShapeInv'
<1>1. TeamInv'
  BY DrawStep DEF ShapeInv
<1>2. PICK h, d, e : h = windows[w] /\ d = h.draft /\ e = [d EXCEPT !.team = sketch]
  OBVIOUS
<1>3. IsHost(h) /\ DOMAIN windows = Windows /\ HostShaped(h, revisions)
  BY <1>2 DEF ShapeInv, TeamInv
<1>4. IsDraft(e)
  <2>1. d = [gateway |-> d.gateway, base |-> d.base, team |-> d.team]
        /\ d.gateway \in Gateways \cup {NoGateway}
    BY <1>2, <1>3 DEF HostShaped, EditorShaped, IsDraft
  <2>2. e = [gateway |-> d.gateway, base |-> d.base, team |-> sketch]
    BY <1>2, <2>1
  <2>3. IsTeam(sketch)
    BY TeamShapes DEF ShapeInv
  <2> QED BY <2>1, <2>2, <2>3 DEF IsDraft
<1>5. PICK g : g = [h EXCEPT !.draft = e, !.shown = NoAnswer, !.wrote = {}]
  OBVIOUS
<1>6. /\ windows' = [windows EXCEPT ![w] = g] /\ revisions' = revisions
      /\ importable' = importable /\ sketch' = sketch /\ minted' = minted
  BY <1>2, <1>3, <1>5 DEF Draw, IsHost
<1>7. /\ g.draft = e /\ g.view = h.view /\ g.catalog = h.catalog
      /\ g.frozen = h.frozen /\ g.shown = NoAnswer
  BY <1>3, <1>5 DEF IsHost
<1>8. HostShaped(g, revisions)
  <2>1. AnswerShaped(NoAnswer, revisions)
    BY DEF AnswerShaped, NoAnswer, Answer, Kinds
  <2> QED BY <1>3, <1>4, <1>7, <2>1 DEF HostShaped, EditorShaped
<1>9. windows'[w] = g /\ \A v \in Windows : v # w => windows'[v] = windows[v]
  BY <1>3, <1>6
<1> QED BY <1>1, <1>6, <1>8, <1>9 DEF ShapeInv

\* Every stored profile and every draft is well formed, whatever is imported,
\* drawn and published.
THEOREM ShapeCorrect == TeamSpec => []ShapeInv
<1>1. TeamInit => ShapeInv
  <2> SUFFICES ASSUME TeamInit
               PROVE  ShapeInv
    OBVIOUS
  <2>1. IsHost(Closed) /\ WindowAnswers(Closed)
    BY DEF IsHost, WindowAnswers, Closed, NoAnswer, Answer, Claimed
  <2>2. TeamInv
    BY <2>1 DEF TeamInit, TeamInv, NoLostRevision
  <2>3. HostShaped(Closed, revisions)
    BY NoDraftShaped DEF HostShaped, EditorShaped, AnswerShaped, Closed, NoAnswer, Answer, Kinds
  <2>4. TableShaped(revisions)
    BY DEF TableShaped, TeamInit
  <2> QED BY <2>2, <2>3, <2>4 DEF ShapeInv, TeamInit
<1>2. ShapeInv /\ [TeamNext]_teamVars => ShapeInv'
  <2> SUFFICES ASSUME ShapeInv, [TeamNext]_teamVars
               PROVE  ShapeInv'
    OBVIOUS
  <2>1. CASE UNCHANGED teamVars
    BY <2>1 DEF teamVars, ShapeInv, TeamInv, NoLostRevision
  <2> QED BY <2>1, ImportShapes, ProbeShapes, TransferShapes, DrawShapes DEF TeamNext
<1> QED BY <1>1, <1>2, PTL DEF TeamSpec

\* Types of the window and table state, a row's number being the one its
\* document carries (PublishProfile, ImportProfile, Host.exchange).
THEOREM TeamTypesCorrect == TeamSpec => []TeamTypeOK
<1>1. ShapeInv => TeamTypeOK
  BY DEF ShapeInv, TableShaped, HostShaped, EditorShaped, AnswerShaped, Kinds, TeamTypeOK
<1> QED BY <1>1, ShapeCorrect, PTL

\* Opening a stored revision and publishing it untouched says of the Team's
\* graph what the revision says, for every profile that validates: its gateway,
\* primary, models, peers and calls. The settings no window shows, the tuning of
\* its models and its policy, are cleared, whatever they were
\* (DraftFromProfile, TeamDraft.Profile).
THEOREM DraftsKeepTheTeamCorrect == TeamSpec => []DraftsKeepTheTeam
<1>1. ShapeInv => DraftsKeepTheTeam
  BY MeaningKept DEF ShapeInv, TableShaped, DraftsKeepTheTeam
<1> QED BY <1>1, ShapeCorrect, PTL

\* A draft stands for its Team's graph: what the diagnostics accept the table
\* accepts, and a revision that is opened and published says what it said, the
\* settings no window shows apart, which are cleared.
THEOREM DraftsMeanTheirTeamCorrect == TeamSpec => []DraftsMeanTheirTeam
<1> QED BY AcceptedDraftsAreValidCorrect, DraftsKeepTheTeamCorrect, PTL DEF DraftsMeanTheirTeam
=============================================================================
