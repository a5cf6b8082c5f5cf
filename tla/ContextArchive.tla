------------------------- MODULE ContextArchive -------------------------
(***************************************************************************)
(* The exact archive of a conversation and how a model reads it back:      *)
(* records and exact transcripts (internal/store/context.go,               *)
(* context_artifact.go; the end of tooling/context_compaction.go), the     *)
(* authority of each reader (orchestrator/context_access.go) and the three *)
(* context tools, which fit their pages to the room left in the model's    *)
(* envelope (tooling/tools.go).                                            *)
(* A record's place in `records' stands for its (created_at, id).          *)
(***************************************************************************)
EXTENDS Naturals, Sequences, FiniteSets

CONSTANTS Attempts,      \* attempts of the one delegation
          Archivers,     \* owners whose working context is compacted
          Texts,         \* transcripts an owner may archive
          RecordSizes,   \* sizes of a search or browse match on the wire
          Content,       \* a record's bytes: the widths of its code points
          Rooms,         \* bytes left in the envelope, 0 when no ceiling is known
          Requests,      \* limits and max_bytes a model asks for, 0 for none
          OpenHeader,    \* bytes of a context_open answer besides its content
          MaxRecords,    \* bound: records
          MaxReads       \* bound: tool calls

\* A negative limit is refused before the tool runs (tools.go:269-310).
ASSUME ArchiveAssumption ==
  /\ Rooms \subseteq Nat /\ Requests \subseteq Nat /\ MaxRecords \in Nat
  /\ Content \in Seq(Nat \ {0}) /\ OpenHeader \in Nat /\ MaxReads \in Nat

VARIABLES turns,     \* the sessions of this conversation
          records,   \* context_records
          grants,    \* whether the delegation exists, and the items its prompt cites
          files,     \* exact transcripts on disk
          artifacts, \* context_artifacts
          archivers, \* owner -> what its archiveAgentTranscript is doing
          seen,      \* <<owner, item>>: what each reader was shown
          walk,      \* a reader following next_cursor
          page,      \* the last context_open answer
          reads

archiveVars == <<turns, records, grants, files, artifacts, archivers, seen,
                 walk, page, reads>>

First == "session"
Later == "continuation"
Other == "another conversation's session"
Agent == "agent"
Peer == "peer"
Owners == {Agent, Peer} \union Attempts
Uncreated == "not created"
FirstFit == 1   \* bytes of a match whose preview is empty
PageHeader == 1

Record(n) == <<"record", n>>
Archive(o, t) == <<"archive", o, t>>
Items == {Record(n) : n \in 1 .. MaxRecords}
           \union {Archive(o, t) : o \in Archivers, t \in Texts}
Stored == {Record(n) : n \in DOMAIN records} \union artifacts

Biggest(S) == CHOOSE x \in S : \A y \in S : x >= y

\* The code point boundaries of a content; the last is its length.
Boundaries(c) ==
  LET at[i \in 0 .. Len(c)] == IF i = 0 THEN 0 ELSE at[i - 1] + c[i]
  IN {at[i] : i \in 0 .. Len(c)}

NoWalk == [owner |-> Uncreated, before |-> 0, listed |-> <<>>, owed |-> {}]
NoPage == [start |-> 0, end |-> 0, refused |-> FALSE, room |-> 0]
Resting == [pc |-> "rest", text |-> Uncreated]

ArchiveTypeOK ==
  /\ turns \subseteq {First, Later}
  /\ records \in Seq([session : {First, Later, Other}, size : RecordSizes])
  /\ grants \in [made : BOOLEAN, cited : SUBSET Items]
  /\ files \in [Archivers \X Texts -> {"absent", "partial", "whole"}]
  /\ artifacts \subseteq {Archive(o, t) : o \in Archivers, t \in Texts}
  /\ archivers \in [Archivers -> [pc : {"rest", "write", "index", "done"},
                               text : Texts \union {Uncreated}]]
  /\ seen \subseteq (Owners \X Items)
  /\ walk.before \in 0 .. MaxRecords + 1
  /\ page.end \in 0 .. Biggest(Boundaries(Content))
  /\ reads \in 0 .. MaxReads

ArchiveInit ==
  /\ turns = {First}
  /\ records = <<>>
  /\ grants = [made |-> FALSE, cited |-> {}]
  /\ files = [f \in Archivers \X Texts |-> "absent"]
  /\ artifacts = {}
  /\ archivers = [o \in Archivers |-> Resting]
  /\ seen = {}
  /\ walk = NoWalk
  /\ page = NoPage
  /\ reads = 0

-----------------------------------------------------------------------------
(* Writing                                                                 *)

\* insertContextRecord, in the transaction of the event.
AppendRecord(s, size) ==
  /\ Len(records) < MaxRecords
  /\ s \in turns \union {Other}
  /\ records' = Append(records, [session |-> s, size |-> size])
  /\ UNCHANGED <<turns, grants, files, artifacts, archivers, seen, walk, page, reads>>

\* A continuation joins the conversation.
ContinueConversation ==
  /\ turns' = {First, Later}
  /\ turns # turns'
  /\ UNCHANGED <<records, grants, files, artifacts, archivers, seen, walk, page, reads>>

\* The lead delegates: the prompt cites at most one item it can name.
Delegate(cited) ==
  /\ ~grants.made
  /\ Cardinality(cited) <= 1
  /\ cited \subseteq Stored
  /\ grants' = [made |-> TRUE, cited |-> cited]
  /\ UNCHANGED <<turns, records, files, artifacts, archivers, seen, walk, page, reads>>

\* archiveAgentTranscript names the file by its owner and content; O_EXCL
\* lets one writer create it.
CreateTranscript(o, t) ==
  /\ archivers[o].pc = "rest"
  /\ files[<<o, t>>] = "absent"
  /\ files' = [files EXCEPT ![<<o, t>>] = "partial"]
  /\ archivers' = [archivers EXCEPT ![o] = [pc |-> "write", text |-> t]]
  /\ UNCHANGED <<turns, records, grants, artifacts, seen, walk, page, reads>>

WriteTranscript(o) ==
  /\ archivers[o].pc = "write"
  /\ files' = [files EXCEPT ![<<o, archivers[o].text>>] = "whole"]
  /\ archivers' = [archivers EXCEPT ![o].pc = "index"]
  /\ UNCHANGED <<turns, records, grants, artifacts, seen, walk, page, reads>>

\* mutant: a file that exists is taken as the transcript
BugTrustFile(o, t) == files[<<o, t>>] # "absent"

\* An existing file must hold the very bytes ("reference collision").
SameBytes(o, t) == files[<<o, t>>] = "whole"

ReuseTranscript(o, t) ==
  /\ archivers[o].pc = "rest"
  /\ SameBytes(o, t)
  /\ archivers' = [archivers EXCEPT ![o] = [pc |-> "index", text |-> t]]
  /\ UNCHANGED <<turns, records, grants, files, artifacts, seen, walk, page, reads>>

\* ArchiveContextArtifact: the digest is part of the reference, so an indexed
\* transcript is left alone.
IndexTranscript(o) ==
  /\ archivers[o].pc = "index"
  /\ artifacts' = artifacts \union {Archive(o, archivers[o].text)}
  /\ archivers' = [archivers EXCEPT ![o].pc = "done"]
  /\ UNCHANGED <<turns, records, grants, files, seen, walk, page, reads>>

\* A write or the index fails, or the process dies: the caller learns of no
\* reference and may try again.
ArchiveFails(o) ==
  /\ archivers[o].pc \in {"write", "index"}
  /\ archivers' = [archivers EXCEPT ![o] = Resting]
  /\ UNCHANGED <<turns, records, grants, files, artifacts, seen, walk, page, reads>>

-----------------------------------------------------------------------------
(* Authority: contextScope and the two scope predicates                    *)

SessionOf(item) == IF item[1] = "record" THEN records[item[2]].session ELSE First

\* mutant: a specialist reads what any attempt of its delegation archived
BugDelegationOwner(o, item) == item[1] = "archive" /\ item[2] \in Attempts

OwnArchive(o, item) == item[1] = "archive" /\ item[2] = o

\* A specialist is refused before its delegation is in the projection.
MayRead(o) == o \in Attempts => grants.made

\* Agents and peers read the whole conversation; an attempt reads what it
\* archived itself and what its prompt cites.
InScope(o) ==
  {item \in Stored :
     /\ SessionOf(item) \in turns
     /\ o \in Attempts => OwnArchive(o, item) \/ item \in grants.cited}

RecordsInScope(o) == {n \in DOMAIN records : Record(n) \in InScope(o)}

-----------------------------------------------------------------------------
(* Fitting the answers                                                     *)

Newest(S, k) == {n \in S : Cardinality({m \in S : m >= n}) <= k}

\* contextCandidateCount, for a room that is known and positive or unknown.
CandidateCount(room, requested) ==
  LET most == Biggest({1, room \div FirstFit}) IN
  IF room = 0 THEN Biggest({1, requested})
  ELSE IF requested > 0 /\ requested < most THEN requested ELSE most

WireSize(S) ==
  LET total[T \in SUBSET S] ==
        IF T = {} THEN 0
        ELSE LET n == Biggest(T) IN records[n].size + total[T \ {n}]
  IN PageHeader + total[S]

\* BrowseContextInScope: the newest records before the cursor; the cursor of
\* the next page is the last record shown, 0 when none is older.
BrowsePage(S, before, k) ==
  LET older == {n \in S : n < before}
      shown == Newest(older, k)
  IN [shown |-> shown,
      next |-> IF older = shown THEN 0 ELSE CHOOSE n \in shown : \A m \in shown : n <= m]

\* mutant: an oversized page is trimmed and keeps its cursor
BugTrimPage(S, before, k, room) ==
  LET p == BrowsePage(S, before, k)
      fits == {j \in 1 .. k : WireSize(Newest(p.shown, j)) <= room}
  IN IF room = 0 \/ fits = {} THEN p
     ELSE [p EXCEPT !.shown = Newest(p.shown, Biggest(fits))]

\* browseContextForModel queries again for the most records that fit, or for
\* one whose preview is cut.
FittedPage(S, before, k, room) ==
  LET Fits(j) == room = 0 \/ WireSize(BrowsePage(S, before, j).shown) <= room
      good == {j \in 1 .. k : Fits(j)}
  IN BrowsePage(S, before, IF good = {} THEN 1 ELSE Biggest(good))

Refused == [start |-> 0, end |-> 0, refused |-> TRUE]

\* mutant: a page ends wherever the limit falls
BugSplitCodePoint(c, offset, limit) ==
  LET total == Biggest(Boundaries(c)) IN
  [start |-> offset, refused |-> FALSE,
   end |-> IF limit > 0 /\ limit < total - offset THEN offset + limit ELSE total]

\* mutant: max_bytes is not capped by the end of the content
BugReadPastEnd(c, offset, limit) ==
  [start |-> offset, refused |-> FALSE,
   end |-> IF limit > 0 THEN offset + limit ELSE Biggest(Boundaries(c))]

\* boundedContextOpen
BoundedOpen(c, offset, limit) ==
  LET total == Biggest(Boundaries(c))
      hard == IF limit > 0 /\ limit < total - offset THEN offset + limit ELSE total
      end == Biggest({b \in Boundaries(c) : b <= hard})
  IN IF offset \notin Boundaries(c) \/ (end = offset /\ offset < total) THEN Refused
     ELSE [start |-> offset, end |-> end, refused |-> FALSE]

\* The binary search of openContextForModel between low and high bytes for the
\* largest page that fits; the best page so far is the one of low - 1 bytes.  A
\* probe the reader refuses ends the call.
ReadProbe(c, offset, most, room) ==
  LET probe[bounds \in (1 .. most + 1) \X (0 .. most)] ==
        LET middle == (bounds[1] + bounds[2]) \div 2
            r == BoundedOpen(c, offset, middle)
        IN IF bounds[1] > bounds[2]
           THEN IF bounds[1] = 1 THEN Refused ELSE BoundedOpen(c, offset, bounds[1] - 1)
           ELSE IF r.refused THEN Refused
           ELSE IF OpenHeader + (r.end - r.start) <= room /\ r.end > r.start
           THEN probe[<<middle + 1, bounds[2]>>]
           ELSE probe[<<bounds[1], middle - 1>>]
  IN probe

OpenForModel(c, offset, requested, room) ==
  LET most == IF room > 0 /\ (requested = 0 \/ requested > room) THEN room ELSE requested
      whole == BoundedOpen(c, offset, most)
  IN IF room = 0 \/ whole.refused \/ OpenHeader + (whole.end - whole.start) <= room THEN whole
     ELSE ReadProbe(c, offset, most, room)[<<1, most>>]

-----------------------------------------------------------------------------
(* The tools                                                               *)

\* context_search: the index answers with any matches in scope; the longest
\* prefix that fits is shown, or one with a shorter preview.
SearchContext(o, room, requested) ==
  /\ reads < MaxReads
  /\ MayRead(o)
  /\ reads' = reads + 1
  /\ \E found \in SUBSET InScope(o) :
       /\ Cardinality(found) <= CandidateCount(room, requested)
       /\ seen' = seen \union {<<o, item>> : item \in found}
  /\ UNCHANGED <<turns, records, grants, files, artifacts, archivers, walk, page>>

\* context_browse without a cursor.
StartWalk(o, room, requested) ==
  LET p == FittedPage(RecordsInScope(o), MaxRecords + 1, CandidateCount(room, requested), room)
  IN
  /\ reads < MaxReads
  /\ MayRead(o)
  /\ reads' = reads + 1
  /\ walk' = [owner |-> o, before |-> p.next, listed |-> <<p.shown>>,
              owed |-> RecordsInScope(o)]
  /\ seen' = seen \union {<<o, Record(n)>> : n \in p.shown}
  /\ UNCHANGED <<turns, records, grants, files, artifacts, archivers, page>>

\* context_browse with the next_cursor of the last page.
FollowCursor(room, requested) ==
  LET o == walk.owner
      p == FittedPage(RecordsInScope(o), walk.before, CandidateCount(room, requested), room)
  IN
  /\ o # Uncreated /\ walk.before > 0
  /\ walk' = [walk EXCEPT !.before = p.next, !.listed = Append(@, p.shown)]
  /\ seen' = seen \union {<<o, Record(n)>> : n \in p.shown}
  /\ UNCHANGED <<turns, records, grants, files, artifacts, archivers, page, reads>>

\* context_open of an item in scope, at any byte_offset the model asks for.
OpenContext(o, item, offset, room, requested) ==
  /\ reads < MaxReads
  /\ MayRead(o)
  /\ item \in InScope(o)
  /\ LET p == OpenForModel(Content, offset, requested, room)
     IN /\ page' = [start |-> p.start, end |-> p.end, refused |-> p.refused, room |-> room]
        /\ seen' = IF p.refused THEN seen ELSE seen \union {<<o, item>>}
  /\ reads' = reads + 1
  /\ UNCHANGED <<turns, records, grants, files, artifacts, archivers, walk>>

ArchiveNext ==
  \/ \E s \in {First, Later, Other}, size \in RecordSizes : AppendRecord(s, size)
  \/ ContinueConversation
  \/ \E cited \in SUBSET Stored : Delegate(cited)
  \/ \E o \in Archivers :
       \/ \E t \in Texts : CreateTranscript(o, t) \/ ReuseTranscript(o, t)
       \/ WriteTranscript(o)
       \/ IndexTranscript(o)
       \/ ArchiveFails(o)
  \/ \E room \in Rooms, requested \in Requests :
       \/ \E o \in Owners :
            \/ SearchContext(o, room, requested)
            \/ StartWalk(o, room, requested)
            \/ \E item \in Stored, offset \in 0 .. Biggest(Boundaries(Content)) :
                 OpenContext(o, item, offset, room, requested)
       \/ FollowCursor(room, requested)

ArchiveSpec == ArchiveInit /\ [][ArchiveNext]_archiveVars

-----------------------------------------------------------------------------
(* Properties                                                              *)

\* What a specialist was ever shown is an exact transcript of its own attempt
\* or an item its prompt cites: an earlier attempt of the same delegation and
\* the rest of the conversation stay hidden (context_access.go:204-212).
\* Nobody is shown another conversation.
ReadsStayInScope ==
  \A s \in seen :
    /\ SessionOf(s[2]) # Other
    /\ s[1] \in Attempts => s[2] \in grants.cited \/ (s[2][1] = "archive" /\ s[2][2] = s[1])

\* A walk that follows next_cursor to its end shows every record that was in
\* scope when it began, once, whatever was appended meanwhile and however the
\* pages were cut to fit ("trimming an already-fetched page would skip
\* evidence", tools.go:477).
WalkListsEachOnce ==
  walk.owner # Uncreated /\ walk.before = 0 =>
    \A n \in walk.owed :
      Cardinality({i \in DOMAIN walk.listed : n \in walk.listed[i]}) = 1

\* A page of an exact record starts and ends between code points, and one with
\* more to come is not empty, so reading on from next_byte_offset ends.
PagesEndBetweenCodePoints ==
  ~page.refused =>
    /\ {page.start, page.end} \subseteq Boundaries(Content)
    /\ page.end = page.start => page.end \in {0, Biggest(Boundaries(Content))}

\* A reference handed to the compaction names a transcript that is whole on
\* disk and indexed, through failed attempts and retries.
ReferencesAreWhole ==
  \A o \in Archivers : archivers[o].pc = "done" =>
    /\ files[<<o, archivers[o].text>>] = "whole"
    /\ Archive(o, archivers[o].text) \in artifacts

\* What was archived can be read again in full: the walk of the records, the
\* pages of one record, and the reference to a transcript.
ExactSourcesAreReachable ==
  WalkListsEachOnce /\ PagesEndBetweenCodePoints /\ ReferencesAreWhole

=============================================================================
