-------------------------- MODULE ContextBudget --------------------------
(***************************************************************************)
(* The arithmetic of a working context: contextBudget of                   *)
(* internal/tooling/context_budget.go and the cuts of a conversation in    *)
(* context_compaction.go, as operators.  A message is a record of its      *)
(* identity, role, encoded size, the tool calls it makes, the call it      *)
(* answers, and the usage the gateway reported with it (0 when it did      *)
(* not; of a gateway that reports a total alone, `prompt' is the total     *)
(* less the completion); a tool header is its encoded size.                *)
(***************************************************************************)
EXTENDS Integers, Sequences

Message(id, role, size, calls, answers, prompt, completion) ==
  [id |-> id, role |-> role, size |-> size, calls |-> calls, answers |-> answers,
   prompt |-> prompt, completion |-> completion]

Least(a, b) == IF a < b THEN a ELSE b
Greatest(a, b) == IF a > b THEN a ELSE b
Highest(S) == IF S = {} THEN 0 ELSE CHOOSE x \in S : \A y \in S : y <= x

\* Byte n/d of a token is the smallest observed ratio of encoded size to
\* completion tokens; one byte a token until the gateway reports usage.
Ratio(messages) ==
  LET observed == {i \in DOMAIN messages : messages[i].role = "assistant"
                                             /\ messages[i].completion > 0}
      ratios == {[n |-> 1, d |-> 1]} \union
                {[n |-> messages[i].size, d |-> messages[i].completion] : i \in observed}
  IN CHOOSE r \in ratios : \A s \in ratios : r.n * s.d <= s.n * r.d

\* estimateByteTokens: rounded up.
Tokens(size, ratio) == (size * ratio.d + ratio.n - 1) \div ratio.n

TokensOf(messages, ratio) ==
  LET sum[i \in 0 .. Len(messages)] ==
        IF i = 0 THEN 0 ELSE sum[i - 1] + Tokens(messages[i].size, ratio)
  IN sum[Len(messages)]

\* estimateFresh: every message and the header, at the calibrated ratio.
EstimateFresh(messages, header, calibration) ==
  TokensOf(messages, Ratio(calibration)) + Tokens(header, Ratio(calibration))

\* count: the usage reported with the latest answer stands for everything up
\* to it; the header counts unless it is the one that answer was given for.
Count(messages, header, sameHeader) ==
  LET ratio == Ratio(messages)
      reported == {i \in DOMAIN messages : messages[i].role = "assistant"
                                             /\ messages[i].prompt > 0}
      last == Highest(reported)
      base == IF last = 0 THEN 0 ELSE messages[last].prompt + messages[last].completion
  IN base + TokensOf(SubSeq(messages, last + 1, Len(messages)), ratio)
       + (IF last = 0 \/ ~sameHeader THEN Tokens(header, ratio) ELSE 0)

\* observedOutputReserve: the longest answer so far, at most the model's limit.
OutputReserve(messages, maximum) ==
  LET longest == Highest({messages[i].completion : i \in DOMAIN messages})
  IN IF maximum > 0 THEN Least(longest, maximum) ELSE longest

\* observedGrowthReserve: the latest increment, a user's input or an answer
\* with its tool results.
GrowthReserve(messages) ==
  LET visible == {i \in DOMAIN messages : messages[i].role # "system"}
      end == Highest(visible)
      anchor == Highest({i \in 1 .. end : messages[i].role # "tool"})
      start == IF anchor = end \/ (anchor > 0 /\ messages[anchor].role = "assistant")
                 THEN anchor ELSE anchor + 1
  IN IF end = 0 THEN 0
     ELSE TokensOf(SubSeq(messages, start, end), Ratio(messages))

\* hardPromptCapacity: the window less the reserve, or the input limit if it is
\* smaller; an overflow observed earlier narrows the window.  0 is unknown.
HardPromptCapacity(limits, observed, reserve) ==
  LET window == IF observed > 0 /\ (limits.window = 0 \/ observed < limits.window)
                  THEN observed ELSE limits.window
      room == Greatest(0, window - reserve)
  IN IF window > 0 /\ (limits.input = 0 \/ room < limits.input) THEN room
     ELSE limits.input

\* plan: the high-water mark is one increment below the capacity, the low-water
\* mark one more.
BudgetPlan(messages, header, limits, observed, sameHeader) ==
  LET reserve == OutputReserve(messages, limits.output)
      capacity == HardPromptCapacity(limits, observed, reserve)
      growth == GrowthReserve(messages)
      high == Greatest(0, capacity - growth)
  IN IF capacity <= 0
       THEN [known |-> FALSE, capacity |-> 0, high |-> 0, low |-> 0,
             estimated |-> Count(messages, header, sameHeader)]
       ELSE [known |-> TRUE, capacity |-> capacity, high |-> high,
             low |-> Greatest(0, high - growth),
             estimated |-> Count(messages, header, sameHeader)]

-----------------------------------------------------------------------------
(* Where a conversation may be cut                                         *)

\* protocolValidSuffix: every tool result follows the call it answers.
ProtocolValidSuffix(messages) ==
  \A i \in DOMAIN messages :
    messages[i].role = "tool" =>
      \E j \in 1 .. i - 1 : messages[i].answers \in messages[j].calls

\* protocolValidPrefix: no call is left open, at the end or where another
\* message than a tool result or an answer follows.
OpenCalls(messages) ==
  UNION {messages[i].calls : i \in DOMAIN messages}
    \ {messages[i].answers : i \in {j \in DOMAIN messages : messages[j].role = "tool"}}

ProtocolValidPrefix(messages) ==
  /\ OpenCalls(messages) = {}
  /\ \A i \in DOMAIN messages :
       messages[i].role \in {"user", "system"} =>
         OpenCalls(SubSeq(messages, 1, i)) = {}

SystemEnd(messages) ==
  LET others == {i \in DOMAIN messages : messages[i].role # "system"}
  IN IF others = {} THEN Len(messages)
     ELSE (CHOOSE i \in others : \A j \in others : i <= j) - 1

\* cloneModelVisibleMessage: the copy has no usage.
Clone(messages) ==
  [i \in DOMAIN messages |-> [messages[i] EXCEPT !.prompt = 0, !.completion = 0]]

Suffix(messages, start) == SubSeq(messages, start, Len(messages))

\* selectEmergencySummaryHead: the longest prefix that can be cut off and that
\* fits, with the instruction, under the mark.
EmergencySummaryHead(original, header, high, instruction) ==
  LET systems == SystemEnd(original)
      boundaries ==
        {b \in systems + 1 .. Len(original) - 1 :
           /\ ProtocolValidPrefix(SubSeq(original, 1, b))
           /\ ProtocolValidSuffix(Suffix(original, b + 1))
           /\ EstimateFresh(Append(Clone(SubSeq(original, 1, b)), instruction),
                            header, original) <= high}
  IN IF high <= 0 \/ boundaries = {} THEN <<>>
     ELSE Clone(SubSeq(original, 1, Highest(boundaries)))

\* mutant: the tail may start with any message
BugCutAnywhere(original, brief, header, low) ==
  LET systems == SystemEnd(original)
      base == Append(Clone(SubSeq(original, 1, systems)), brief)
      starts == {s \in systems + 1 .. Len(original) :
                   EstimateFresh(base \o Clone(Suffix(original, s)), header, original) <= low}
  IN IF low <= 0 \/ starts = {} THEN base
     ELSE base \o Clone(Suffix(original, CHOOSE s \in starts : \A t \in starts : s <= t))

\* mutant: the brief replaces the instruction
BugDropSystem(original, brief, header, low) ==
  LET starts == {s \in 1 .. Len(original) :
                   /\ original[s].role \notin {"tool", "system"}
                   /\ ProtocolValidSuffix(Suffix(original, s))
                   /\ EstimateFresh(<<brief>> \o Clone(Suffix(original, s)), header, original)
                        <= low}
  IN IF low <= 0 \/ starts = {} THEN <<brief>>
     ELSE <<brief>> \o Clone(Suffix(original, CHOOSE s \in starts : \A t \in starts : s <= t))

\* finalizeWithVerbatimTail: the system messages, the brief, and the longest
\* tail that may start where it does and fits under the low-water mark.
FinalizeWithVerbatimTail(original, brief, header, low) ==
  LET systems == SystemEnd(original)
      base == Append(Clone(SubSeq(original, 1, systems)), brief)
      starts ==
        {s \in systems + 1 .. Len(original) :
           /\ original[s].role # "tool"
           /\ ProtocolValidSuffix(Suffix(original, s))
           /\ EstimateFresh(base \o Clone(Suffix(original, s)), header, original) <= low}
  IN IF low <= 0 \/ starts = {} THEN base
     ELSE base \o Clone(Suffix(original,
                             CHOOSE s \in starts : \A t \in starts : s <= t))

=============================================================================
