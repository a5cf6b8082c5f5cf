------------------------ MODULE ContextCompaction ------------------------
(***************************************************************************)
(* How one run of an agent keeps its requests within what the provider     *)
(* takes: cacheAlignedCompaction and overflowRecoveringModel of            *)
(* internal/tooling/context_compaction.go.  Before a request the working   *)
(* budget may ask for a summary; a request the provider rejects is         *)
(* archived, summarized and retried, as long as that makes it smaller.     *)
(* The provider is arbitrary: any request may be answered, rejected (with  *)
(* or without naming its ceiling) or fail.                                 *)
(***************************************************************************)
EXTENDS ContextBudget, SequencesExt

CONSTANTS ModelLimits,      \* the catalogue's ceilings: window, input, output
          HeaderSize,       \* encoded size of the tools
          InstructionSize,  \* and of agentCompactionInstruction
          MessageSizes,     \* sizes of inputs and tool results
          NamedCeilings,    \* ceilings an overflow may name (0: none named)
          RetryDelays,      \* Retry-After values of a provider
          MaxMessages       \* bound: messages of one run

\* Sizes are bytes: only a header may be empty.  (A ceiling of 0 is none.)
ASSUME CompactionAssumption ==
  /\ HeaderSize \in Nat /\ InstructionSize \in Nat \ {0}
  /\ MessageSizes \subseteq Nat \ {0} /\ NamedCeilings \subseteq Nat

VARIABLES conversation,   \* ChatModelAgentState.Messages
          outgoing,       \* the request in flight, or being recovered
          observedLimit,  \* contextBudget.observedUpperBound
          headerSeen,     \* contextBudget.lastToolDigest is this header
          compaction,     \* where the run is: see CompactionPc
          resumes,        \* what the recovery continues: "before" or "model"
          headBound,      \* previousHeadSize
          retryDelay,     \* providerDirectedRetry.lastDelay
          archivedIds,    \* messages in the exact transcripts written so far
          nextId

compactionVars == <<conversation, outgoing, observedLimit, headerSeen, compaction,
                    resumes, headBound, retryDelay, archivedIds, nextId>>

CompactionPc == {"converse", "summarize", "recover", "emergency", "model", "failed"}

System == Message(1, "system", 1, {}, 0, 0, 0)
InstructionMessage == Message(0, "user", InstructionSize, {}, 0, 0, 0)

CompactionInit ==
  /\ conversation = <<System>> /\ outgoing = <<>>
  /\ observedLimit = 0 /\ headerSeen = FALSE
  /\ compaction = "converse" /\ resumes = "before"
  /\ headBound = 0 /\ retryDelay = 0
  /\ archivedIds = {} /\ nextId = 2

IdsOf(messages) == {messages[i].id : i \in DOMAIN messages}

CompactionTypeOK ==
  /\ compaction \in CompactionPc /\ resumes \in {"before", "model"}
  /\ observedLimit \in Nat /\ headBound \in Nat
  /\ headerSeen \in BOOLEAN
  /\ retryDelay \in RetryDelays \union {0}
  /\ archivedIds \subseteq 1 .. nextId
  /\ \A m \in Range(conversation) \union Range(outgoing) :
       /\ m.role \in {"system", "user", "assistant", "tool"}
       /\ m.id \in 1 .. nextId - 1 /\ m.size > 0

Plan(messages) ==
  BudgetPlan(messages, HeaderSize, ModelLimits, observedLimit, headerSeen)

\* The room a summary request has, beside its instruction.
SummaryCeiling(plan, messages) ==
  Greatest(0, plan.capacity - EstimateFresh(<<InstructionMessage>>, 0, messages))

-----------------------------------------------------------------------------
(* The conversation                                                        *)

Settled == OpenCalls(conversation) = {}
Grown(message) ==
  /\ conversation' = Append(conversation, message)
  /\ nextId' = nextId + 1

UserSpeaks ==
  /\ compaction = "converse" /\ Settled /\ nextId <= MaxMessages
  /\ Last(conversation).role \in {"system", "assistant"}
  /\ \E size \in MessageSizes : Grown(Message(nextId, "user", size, {}, 0, 0, 0))
  /\ UNCHANGED <<outgoing, observedLimit, headerSeen, compaction, resumes,
                 headBound, retryDelay, archivedIds>>

ToolReplies ==
  /\ compaction = "converse" /\ nextId <= MaxMessages
  /\ \E call \in OpenCalls(conversation), size \in MessageSizes :
       Grown(Message(nextId, "tool", size, {}, call, 0, 0))
  /\ UNCHANGED <<outgoing, observedLimit, headerSeen, compaction, resumes,
                 headBound, retryDelay, archivedIds>>

\* The base model takes the request and answers, with or without tool calls
\* and usage.  What it answers joins the state, not the recovered request.
ModelTakes ==
  /\ compaction = "model" /\ nextId <= MaxMessages
  /\ \E calls \in {{}, {nextId}, {nextId, nextId + 1}}, completion \in 0 .. 2 :
       Grown(Message(nextId, "assistant", 1, calls, 0,
                     IF completion = 0 THEN 0
                     ELSE EstimateFresh(outgoing, HeaderSize, <<>>),
                     completion))
  /\ compaction' = "converse" /\ outgoing' = <<>>
  /\ UNCHANGED <<observedLimit, headerSeen, resumes, headBound, retryDelay,
                 archivedIds>>

-----------------------------------------------------------------------------
(* BeforeModelRewriteState                                                 *)

\* The budget is not known, or the request is under the trigger: it goes out.
RequestFits ==
  LET plan == Plan(conversation)
      trigger == Least(plan.high, SummaryCeiling(plan, conversation))
  IN
  /\ compaction = "converse" /\ Settled
  /\ Last(conversation).role \in {"user", "tool"}
  /\ ~plan.known \/ plan.estimated <= trigger
  /\ compaction' = "model" /\ outgoing' = conversation /\ headerSeen' = TRUE
  /\ UNCHANGED <<conversation, observedLimit, resumes, headBound, retryDelay,
                 archivedIds, nextId>>

\* Over the trigger, but the whole conversation still fits beside the
\* instruction: it is summarized as it is.
RequestSummarizes ==
  LET plan == Plan(conversation)
      ceiling == SummaryCeiling(plan, conversation)
  IN
  /\ compaction = "converse" /\ Settled
  /\ Last(conversation).role \in {"user", "tool"}
  /\ plan.known /\ plan.estimated > Least(plan.high, ceiling)
  /\ plan.estimated <= ceiling
  /\ compaction' = "summarize" /\ headerSeen' = TRUE /\ retryDelay' = 0
  /\ UNCHANGED <<conversation, outgoing, observedLimit, resumes, headBound,
                 archivedIds, nextId>>

\* mutant: the transcript of a rejected request is not archived
BugRecoverUnarchived(messages, from) ==
  /\ compaction' = "recover" /\ resumes' = from
  /\ outgoing' = messages
  /\ archivedIds' = archivedIds
  /\ headBound' = EstimateFresh(messages, HeaderSize, messages)
  /\ headerSeen' = TRUE

\* recoverOverflow archives what it is about to cut before anything else.
Recover(messages, from) ==
  /\ compaction' = "recover" /\ resumes' = from
  /\ outgoing' = messages
  /\ archivedIds' = archivedIds \union IdsOf(messages)
  /\ headBound' = EstimateFresh(messages, HeaderSize, messages)
  /\ headerSeen' = TRUE

\* Even the summary would not fit: recovered as if the provider had said so.
RequestTooLarge ==
  LET plan == Plan(conversation) IN
  /\ compaction = "converse" /\ Settled
  /\ Last(conversation).role \in {"user", "tool"}
  /\ plan.known /\ plan.estimated > SummaryCeiling(plan, conversation)
  /\ Recover(conversation, "before")
  /\ UNCHANGED <<conversation, observedLimit, retryDelay, nextId>>

BriefMessage(size) == Message(nextId, "user", size, {}, 0, 0, 0)

\* Finalize of the summarization: the transcript is archived, then replaced by
\* the brief and a verbatim tail.
Summarized ==
  /\ compaction = "summarize"
  /\ \E size \in MessageSizes :
       LET final == FinalizeWithVerbatimTail(conversation, BriefMessage(size),
                                             HeaderSize, Plan(conversation).low)
       IN conversation' = final /\ outgoing' = final
  /\ archivedIds' = archivedIds \union IdsOf(conversation)
  /\ compaction' = "model" /\ nextId' = nextId + 1
  /\ UNCHANGED <<observedLimit, headerSeen, resumes, headBound, retryDelay>>

\* mutant: the client backs off on its own account
BugBackOff ==
  /\ compaction \in {"summarize", "emergency"}
  /\ \E delay \in RetryDelays :
       /\ retryDelay = 0 \/ delay < retryDelay
       /\ retryDelay' = retryDelay + delay
  /\ UNCHANGED <<conversation, outgoing, observedLimit, headerSeen, compaction,
                 resumes, headBound, archivedIds, nextId>>

\* providerDirectedRetry: the summary is asked for again only after a delay the
\* provider named, shorter than the one before.
SummaryRetried ==
  /\ compaction \in {"summarize", "emergency"}
  /\ \E delay \in RetryDelays :
       /\ retryDelay = 0 \/ delay < retryDelay
       /\ retryDelay' = delay
  /\ UNCHANGED <<conversation, outgoing, observedLimit, headerSeen, compaction,
                 resumes, headBound, archivedIds, nextId>>

\* Any other failure of a summary, of the archive or of the record ends the run.
CompactionFails ==
  /\ compaction \in {"summarize", "recover", "emergency"}
  /\ compaction' = "failed" /\ outgoing' = <<>>
  /\ UNCHANGED <<conversation, observedLimit, headerSeen, resumes, headBound,
                 retryDelay, archivedIds, nextId>>

-----------------------------------------------------------------------------
(* recoverOverflow                                                         *)

\* observeOverflow: the named ceiling, or one less than what was rejected,
\* narrows what is known.
Narrowed(messages, named) ==
  LET bound == IF named > 0 THEN named ELSE Count(messages, HeaderSize, headerSeen) - 1
  IN IF bound > 0 /\ (observedLimit = 0 \/ bound < observedLimit)
       THEN bound ELSE observedLimit

ProviderOverflows ==
  /\ compaction = "model"
  /\ \E named \in NamedCeilings : observedLimit' = Narrowed(outgoing, named)
  /\ Recover(outgoing, "model")
  /\ UNCHANGED <<conversation, retryDelay, nextId>>

EmergencyHead ==
  LET plan == Plan(outgoing)
  IN EmergencySummaryHead(outgoing, HeaderSize,
                          Least(plan.high, SummaryCeiling(plan, outgoing)),
                          InstructionMessage)

\* One pass of the loop: the longest head that fits, if it is a smaller one
\* than the last, is sent to be summarized ...
EmergencyAsks ==
  LET size == EstimateFresh(EmergencyHead, HeaderSize, outgoing) IN
  /\ compaction = "recover"
  /\ EmergencyHead # <<>> /\ size < headBound
  /\ headBound' = size /\ retryDelay' = 0 /\ compaction' = "emergency"
  /\ UNCHANGED <<conversation, outgoing, observedLimit, headerSeen, resumes,
                 archivedIds, nextId>>

\* ... and may itself be rejected, which narrows the budget further.
EmergencyOverflows ==
  /\ compaction = "emergency"
  /\ \E named \in NamedCeilings :
       observedLimit' = Narrowed(Append(EmergencyHead, InstructionMessage), named)
  /\ compaction' = "recover"
  /\ UNCHANGED <<conversation, outgoing, headerSeen, resumes, headBound, retryDelay,
                 archivedIds, nextId>>

\* mutant: the rebuilt request is retried whatever its size
BugRetryAnyway(size) ==
  LET final == FinalizeWithVerbatimTail(outgoing, BriefMessage(size), HeaderSize,
                                        Plan(outgoing).low)
  IN /\ outgoing' = final /\ compaction' = "model"
     /\ conversation' = IF resumes = "before" THEN final ELSE conversation
     /\ UNCHANGED nextId

\* The request is rebuilt around a brief, the summary or a stock sentence.
\* Before a model call it becomes the state; after a rejection it is sent if it
\* is strictly smaller, and otherwise the rejection stands.
Rebuilt(size) ==
  LET final == FinalizeWithVerbatimTail(outgoing, BriefMessage(size), HeaderSize,
                                        Plan(outgoing).low)
      smaller == EstimateFresh(final, HeaderSize, outgoing)
                   < EstimateFresh(outgoing, HeaderSize, outgoing)
  IN
  IF resumes = "before" \/ smaller
    THEN /\ outgoing' = final /\ compaction' = "model" /\ nextId' = nextId + 1
         /\ conversation' = IF resumes = "before" THEN final ELSE conversation
    ELSE /\ outgoing' = <<>> /\ compaction' = "failed"
         /\ UNCHANGED <<conversation, nextId>>

RecoveryFinishes ==
  /\ \/ compaction = "emergency"
     \/ /\ compaction = "recover"
        /\ EmergencyHead = <<>>
             \/ EstimateFresh(EmergencyHead, HeaderSize, outgoing) >= headBound
  /\ \E size \in MessageSizes : Rebuilt(size)
  /\ UNCHANGED <<observedLimit, headerSeen, resumes, headBound, retryDelay,
                 archivedIds>>

CompactionNext ==
  \/ UserSpeaks \/ ToolReplies \/ ModelTakes
  \/ RequestFits \/ RequestSummarizes \/ RequestTooLarge
  \/ Summarized \/ SummaryRetried \/ CompactionFails
  \/ ProviderOverflows \/ EmergencyAsks \/ EmergencyOverflows \/ RecoveryFinishes

\* The loops run on and a call in flight comes back, in any of the ways it may.
InFlight ==
  \/ ModelTakes \/ SummaryRetried \/ CompactionFails \/ Summarized
  \/ ProviderOverflows \/ EmergencyAsks \/ EmergencyOverflows \/ RecoveryFinishes

CompactionFairness ==
  WF_compactionVars(compaction # "converse" /\ compaction # "failed" /\ InFlight)

CompactionSpec == CompactionInit /\ [][CompactionNext]_compactionVars /\ CompactionFairness

-----------------------------------------------------------------------------
\* A gateway rejects a tool result whose call it has not seen: no request,
\* summarized, recovered or recovered again, contains one (the cuts of
\* selectEmergencySummaryHead and finalizeWithVerbatimTail).
ResultsFollowCalls ==
  compaction = "model" => ProtocolValidSuffix(outgoing)

\* "Exact transcript": a message that is no longer in the request is in an
\* archived transcript, written before it was dropped.
DroppedIsArchived ==
  [][/\ IdsOf(conversation) \subseteq IdsOf(conversation') \union archivedIds'
     /\ compaction' = "model" =>
          IdsOf(conversation') \subseteq IdsOf(outgoing') \union archivedIds']_compactionVars

\* The agent's instruction heads every request, and whatever was cut the latest
\* message the model is to react to is either there verbatim or archived under
\* a brief that directly follows the instruction.
RequestKeepsInstruction ==
  compaction = "model" =>
    /\ outgoing[1].role = "system"
    /\ IdsOf(conversation) \subseteq IdsOf(outgoing)
         \/ (Len(outgoing) > 1 /\ outgoing[2].role = "user"
               /\ outgoing[2].id \notin archivedIds)

\* Recovery ends: a provider that keeps rejecting, with ever the same or no
\* ceiling named, is not asked for ever; the answer or the failure reaches the
\* run (headSize < previousHeadSize, strictlySmaller, providerDirectedRetry).
RecoveryEnds ==
  compaction \in {"model", "recover", "emergency", "summarize"}
    ~> (compaction \in {"converse", "failed"} \/ nextId > MaxMessages)

\* Every request is one a gateway accepts and a model can act on: its results
\* follow their calls and it keeps its instruction.
RequestsStayValid == ResultsFollowCalls /\ RequestKeepsInstruction

=============================================================================
