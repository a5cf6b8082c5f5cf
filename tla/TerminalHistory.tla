-------------------------- MODULE TerminalHistory --------------------------
(***************************************************************************)
(* What the terminal reads from the store while the user goes on typing:   *)
(* Up and Down walk the prompt history, entry by entry, through lookups at *)
(* offsets of a pinned snapshot (internal/tui/history.go), and the pickers *)
(* load their rows page by page (internal/tui/picker.go).  Every read is a *)
(* command whose answer arrives later, among keys that change what it was  *)
(* asked for (internal/tui/model.go).                                      *)
(*                                                                         *)
(* A prompt written in this process is a positive number, the stored       *)
(* prompt at offset k of the snapshot is -(k + 1), and 0 is the empty      *)
(* composer.                                                               *)
(***************************************************************************)
EXTENDS Integers, Sequences, FiniteSets, SequencesExt

CONSTANTS StoredPrompts, \* prompts in the snapshot, and rows of a picker
          RowsPerPage,   \* rows a page asks for
          MaxWritten,    \* bound: drafts written or pasted, and prompts sent
          MaxLookups,    \* bound: lookups
          MaxPickers     \* bound: pickers opened

ASSUME HistoryAssumption ==
  /\ RowsPerPage \in Nat \ {0}
  /\ {StoredPrompts, MaxWritten, MaxLookups, MaxPickers} \subseteq Nat

VARIABLES input,   \* the composer's text
          drafted, \* drafts so far
          history, \* Model.history
          answers, \* lookups under way: token and offset
          picker,  \* Model.picker and Model.pickerPage
          pages    \* page loads under way

historyVars == <<input, drafted, history, answers, picker, pages>>

NothingPending == [token |-> 0, offset |-> 0]

StoredAt(offset) == -(offset + 1)

(***************************************************************************)
(* Prompt history.                                                         *)
(***************************************************************************)
ResetNavigation(h) ==
  [h EXCEPT !.cursor = -1, !.draft = 0, !.active = FALSE, !.pending = NothingPending]

\* The entry at a cursor: prompts of this process first, newest first.
IsKnown(h, index) ==
  index >= 0 /\ (index < Len(h.local) \/ (index - Len(h.local)) \in DOMAIN h.persistent)

ValueAt(h, index) ==
  IF index < Len(h.local) THEN h.local[Len(h.local) - index] ELSE h.persistent[index - Len(h.local)]

\* The cache of prompts read from the snapshot, with one more.
Remember(persistent, offset, prompt) ==
  [k \in DOMAIN persistent \cup {offset} |-> IF k = offset THEN prompt ELSE persistent[k]]

\* mutant: sending a prompt leaves the navigation where it was
BugRecordKeepsPlace(h, value) ==
  IF h.local # <<>> /\ Last(h.local) = value THEN h ELSE [h EXCEPT !.local = Append(@, value)]

\* record
RecordPrompt(h, value) ==
  ResetNavigation(IF h.local # <<>> /\ Last(h.local) = value THEN h
                  ELSE [h EXCEPT !.local = Append(@, value)])

\* Keys reach the composer only when no picker is open.
Composing == picker.kind = "none"

\* A key that changes the draft.
WriteDraft ==
  /\ Composing
  /\ drafted < MaxWritten
  /\ drafted' = drafted + 1
  /\ input' = drafted + 1
  /\ history' = ResetNavigation(history)
  /\ UNCHANGED <<answers, picker, pages>>

\* A paste and the text an external editor returns are no keys: navigation
\* stays as it was.
PasteDraft ==
  /\ Composing
  /\ drafted < MaxWritten
  /\ drafted' = drafted + 1
  /\ input' = drafted + 1
  /\ UNCHANGED <<history, answers, picker, pages>>

\* submit and the slash commands record what they send.
SubmitDraft ==
  /\ Composing
  /\ input # 0
  /\ Len(history.local) < MaxWritten
  /\ input' = 0
  /\ history' = RecordPrompt(history, input)
  /\ UNCHANGED <<drafted, answers, picker, pages>>

\* A key the composer handles itself, among them an Up or Down that the
\* history leaves alone.
FallThrough ==
  /\ history' = ResetNavigation(history)
  /\ UNCHANGED <<input, answers>>

\* A key that moves within the draft or leaves it as it is, among them an Up
\* above whose line there is more of the draft and a Down with more below it
\* (atInputStart, atInputEnd): the text stays, the navigation does not.
KeepDraft ==
  /\ Composing
  /\ FallThrough
  /\ UNCHANGED <<drafted, picker, pages>>

Show(h, index) ==
  /\ history' = [h EXCEPT !.cursor = index]
  /\ input' = ValueAt(h, index)
  /\ UNCHANGED answers

\* Up at the start of the draft: older
OlderPrompt ==
  LET h == IF history.active THEN history
           ELSE [history EXCEPT !.draft = input, !.cursor = -1, !.active = TRUE]
      target == h.cursor + 1
      lookup == [token |-> h.nextToken + 1, offset |-> target - Len(h.local)]
  IN  /\ Composing
      /\ IF history.pending # NothingPending THEN FallThrough
         ELSE IF target >= Len(h.local) + h.count
         THEN IF IsKnown(h, h.cursor) THEN Show(h, h.cursor) ELSE FallThrough
         ELSE IF IsKnown(h, target) THEN Show(h, target)
         ELSE /\ h.nextToken < MaxLookups
              /\ history' = [h EXCEPT !.nextToken = @ + 1, !.pending = lookup]
              /\ answers' = answers \cup {lookup}
              /\ UNCHANGED input
      /\ UNCHANGED <<drafted, picker, pages>>

\* Down at its end: newer, which also drops an outstanding lookup.
NewerPrompt ==
  LET h == [history EXCEPT !.pending = NothingPending]
  IN  /\ Composing
      /\ IF ~h.active THEN FallThrough
         ELSE IF h.cursor > 0
         THEN IF IsKnown(h, h.cursor - 1) THEN Show(h, h.cursor - 1)
              ELSE FallThrough
         ELSE /\ input' = h.draft
              /\ history' = ResetNavigation(h)
              /\ UNCHANGED answers
      /\ UNCHANGED <<drafted, picker, pages>>

\* mutant: any answer is taken for the pending one
BugResolveAnyAnswer(a, outcome) ==
  /\ a \in answers
  /\ answers' = answers \ {a}
  /\ IF history.pending = NothingPending THEN UNCHANGED <<history, input>>
     ELSE IF outcome = "failed"
     THEN history' = [history EXCEPT !.pending = NothingPending] /\ UNCHANGED input
     ELSE /\ history' = [history EXCEPT
                           !.pending = NothingPending,
                           !.persistent = Remember(@, history.pending.offset, StoredAt(a.offset)),
                           !.cursor = Len(history.local) + history.pending.offset]
          /\ input' = StoredAt(a.offset)
  /\ UNCHANGED <<drafted, picker, pages>>

\* mutant: a failed lookup stays pending
BugResolveFailedStays(a, outcome) ==
  /\ a \in answers
  /\ answers' = answers \ {a}
  /\ IF history.pending.token # a.token \/ outcome = "failed" THEN UNCHANGED <<history, input>>
     ELSE /\ history' = [history EXCEPT
                           !.pending = NothingPending,
                           !.persistent = Remember(@, a.offset, StoredAt(a.offset)),
                           !.cursor = Len(history.local) + a.offset]
          /\ input' = StoredAt(a.offset)
  /\ UNCHANGED <<drafted, picker, pages>>

\* promptLookupMsg and resolve: an answer to another lookup is ignored; one
\* that failed or found nothing ends the lookup alone.
Resolve(a, outcome) ==
  LET h == [history EXCEPT !.pending = NothingPending]
  IN  /\ a \in answers
      /\ answers' = answers \ {a}
      /\ IF history.pending.token # a.token THEN UNCHANGED <<history, input>>
         ELSE IF outcome = "failed" THEN history' = h /\ UNCHANGED input
         ELSE /\ history' = [h EXCEPT !.persistent = Remember(@, history.pending.offset, StoredAt(a.offset)),
                                      !.cursor = Len(h.local) + history.pending.offset,
                                      !.active = TRUE]
              /\ input' = StoredAt(a.offset)
      /\ UNCHANGED <<drafted, picker, pages>>

\* promptHistorySnapshotMsg: the snapshot arrives some time after the start.
InitializeHistory ==
  /\ history.count = 0
  /\ StoredPrompts > 0
  /\ history' = ResetNavigation([history EXCEPT !.count = StoredPrompts])
  /\ UNCHANGED <<input, drafted, answers, picker, pages>>

(***************************************************************************)
(* Paged pickers.                                                          *)
(***************************************************************************)
NoPicker(generation) ==
  [kind |-> "none", generation |-> generation, loading |-> FALSE, exhausted |-> FALSE,
   cursor |-> 0, listed |-> <<>>]

\* loadNextPickerPage asks for the page after the cursor.
LoadPage(p) ==
  /\ picker' = [p EXCEPT !.loading = TRUE]
  /\ pages' = pages \cup {[kind |-> p.kind, generation |-> p.generation, cursor |-> p.cursor]}

\* openPagedPicker, from /resume, ctrl+r or the launch options
OpenPagedPicker(kind) ==
  /\ Composing
  /\ picker.generation < MaxPickers
  /\ LoadPage([NoPicker(picker.generation + 1) EXCEPT !.kind = kind])
  /\ UNCHANGED <<input, drafted, history, answers>>

\* maybeLoadNextPickerPage, when the selection reaches the last row
NextPickerPage ==
  /\ picker.kind # "none"
  /\ ~picker.loading /\ ~picker.exhausted
  /\ LoadPage(picker)
  /\ UNCHANGED <<input, drafted, history, answers>>

\* mutant: a page is applied to any picker of its kind
BugApplyAnyGeneration(g, outcome) ==
  LET last == IF g.cursor + RowsPerPage < StoredPrompts THEN g.cursor + RowsPerPage ELSE StoredPrompts
  IN  /\ g \in pages
      /\ pages' = pages \ {g}
      /\ picker' = IF picker.kind # g.kind THEN picker
                   ELSE [picker EXCEPT !.loading = FALSE, !.cursor = last,
                                       !.exhausted = outcome = "failed" \/ last = StoredPrompts]
      /\ UNCHANGED <<input, drafted, history, answers>>

\* applySessionPage and applyPromptPage: a page of another picker is
\* dropped, a failed one ends the list, rows seen before are left out.
ApplyPage(g, outcome) ==
  LET last == IF g.cursor + RowsPerPage < StoredPrompts THEN g.cursor + RowsPerPage ELSE StoredPrompts
      rows == [i \in 1..(last - g.cursor) |-> g.cursor + i]
      new  == SelectSeq(rows, LAMBDA row : row \notin ToSet(picker.listed))
  IN  /\ g \in pages
      /\ pages' = pages \ {g}
      /\ picker' = IF picker.kind # g.kind \/ picker.generation # g.generation THEN picker
                   ELSE IF outcome = "failed"
                   THEN [picker EXCEPT !.loading = FALSE, !.exhausted = TRUE]
                   ELSE [picker EXCEPT !.loading = FALSE, !.listed = @ \o new, !.cursor = last,
                                       !.exhausted = last = StoredPrompts]
      /\ UNCHANGED <<input, drafted, history, answers>>

\* Enter and esc close the picker; a prompt that was chosen replaces the
\* draft and leaves the navigation as it is.
ClosePicker(row) ==
  /\ picker.kind # "none"
  /\ row \in {0} \cup ToSet(picker.listed)
  /\ picker' = NoPicker(picker.generation)
  /\ input' = IF row > 0 /\ picker.kind = "history" THEN StoredAt(row - 1) ELSE input
  /\ UNCHANGED <<drafted, history, answers, pages>>

(***************************************************************************)
(* The specification.                                                      *)
(***************************************************************************)
HistoryInit ==
  /\ input = 0
  /\ drafted = 0
  /\ history = [count |-> 0, persistent |-> <<>>, local |-> <<>>, cursor |-> -1, draft |-> 0,
                active |-> FALSE, nextToken |-> 0, pending |-> NothingPending]
  /\ answers = {}
  /\ picker = NoPicker(0)
  /\ pages = {}

HistoryNext ==
  \/ WriteDraft \/ PasteDraft \/ SubmitDraft \/ KeepDraft \/ OlderPrompt \/ NewerPrompt \/ InitializeHistory
  \/ \E a \in answers, outcome \in {"found", "failed"} : Resolve(a, outcome)
  \/ \E kind \in {"session", "history"} : OpenPagedPicker(kind)
  \/ NextPickerPage
  \/ \E g \in pages, outcome \in {"found", "failed"} : ApplyPage(g, outcome)
  \/ \E row \in 0..StoredPrompts : ClosePicker(row)

HistorySpec == HistoryInit /\ [][HistoryNext]_historyVars

(***************************************************************************)
(* Properties.                                                             *)
(***************************************************************************)
\* Type invariant: the cursor names an entry that is there, a cached entry is
\* the prompt stored at its offset.
HistoryTypeOK ==
  /\ input \in -StoredPrompts..MaxWritten
  /\ history.draft \in -StoredPrompts..MaxWritten
  /\ history.count \in {0, StoredPrompts}
  /\ history.cursor \in -1..(Len(history.local) + history.count - 1)
  /\ DOMAIN history.persistent \subseteq 0..(StoredPrompts - 1)
  /\ \A k \in DOMAIN history.persistent : history.persistent[k] = StoredAt(k)
  /\ history.nextToken \in 0..MaxLookups
  /\ picker.kind \in {"none", "session", "history"}
  /\ picker.generation \in 0..MaxPickers

\* While navigation holds Up back for a lookup, that very lookup is under way
\* and its answer will be accepted: Up is never dead for good, whatever
\* fails, goes missing or arrives late (older, resolve, promptLookupMsg).
NavigationIsNotStuck ==
  history.pending # NothingPending => history.active /\ history.pending \in answers

\* An answer moves the history by one entry, to the one after the entry that
\* was shown when it was asked for: a late answer never makes the walk skip
\* or repeat an entry (TestPromptHistoryRejectsStaleOffsetReply).
LookupsStepByOne ==
  [][\A a \in answers \ answers' :
       input' # input /\ history'.cursor # history.cursor =>
         /\ history'.cursor = history.cursor + 1
         /\ input' = ValueAt(history', history'.cursor)]_historyVars

\* A picker waits for one page at a time, its own, and only while that page is
\* under way: pages asked for by a picker that was closed neither end the
\* wait nor let a second load of the same rows begin (pickerGeneration,
\* pickerPage.loading).
PickerLoadsOnePage ==
  Cardinality({g \in pages : g.generation = picker.generation /\ g.kind = picker.kind})
    = IF picker.loading THEN 1 ELSE 0

\* An answer that comes late, or never, leaves neither the navigation nor a
\* picker waiting for something that is not under way.
LateAnswersAreHarmless == NavigationIsNotStuck /\ PickerLoadsOnePage

=============================================================================
