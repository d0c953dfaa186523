------------------------------ MODULE Compaction ------------------------------
(***************************************************************************)
(* Cutting a conversation for context compaction                           *)
(* (crates/agent-core/src/compaction/prepare.rs, and the cut after the     *)
(* usage anchor in agent/turn/nodes/compaction.rs).                        *)
(*                                                                         *)
(* A message is [role, calls, id, tokens]: an assistant message makes      *)
(* `calls` tool calls, a tool result answers call number `calls` of the    *)
(* assistant message before it, and `tokens` stands for the token estimate *)
(* of its text.  Texts are left out.                                       *)
(***************************************************************************)
EXTENDS Integers, Sequences

CONSTANT
    ReserveTokens       \* reserve_tokens of CompactionSettings

ASSUME ReserveNat == ReserveTokens \in Nat

Roles == {"user", "assistant", "tool", "summary"}

NoId == [prefix |-> "none", pending |-> FALSE, index |-> 0]

\* The id is that of the queue entry the message was made from.
Messages ==
    [role : Roles, calls : Nat, tokens : Nat,
     id : [prefix : {"steering", "follow_up", "interjection", "none"}, pending : BOOLEAN,
           index : Nat]]

Message(role, calls, tokens) ==
    [role |-> role, calls |-> calls, id |-> NoId, tokens |-> tokens]

\* estimate_tokens
EstimateTokens(messages) ==
    LET total[i \in 0..Len(messages)] ==
            IF i = 0 THEN 0 ELSE total[i - 1] + messages[i].tokens
    IN  total[Len(messages)]

IsTool(message) == message.role = "tool"
MakesCalls(message) == message.role = "assistant" /\ message.calls > 0

\* The first index of the run of tool results that ends the list, one past the
\* end when there is none: skipped_tool_results is the list from here on.
TrailingResults(messages) ==
    CHOOSE i \in 1..(Len(messages) + 1) :
        /\ \A j \in i..Len(messages) : IsTool(messages[j])
        /\ i > 1 => ~IsTool(messages[i - 1])

\* Walking back from the last message that is no trailing tool result, keep it
\* and every message that still fits into keep_recent_tokens.
FirstKept(messages, keep) ==
    LET last == TrailingResults(messages) - 1 IN
    IF last = 0 THEN 1
    ELSE CHOOSE i \in 1..last :
            /\ i = last \/ EstimateTokens(SubSeq(messages, i, last)) <= keep
            /\ i > 1 => ~(EstimateTokens(SubSeq(messages, i - 1, last)) <= keep)

\* Mutant: the trailing tool results are skipped and not restored.
KeepRecent_DropsResults(messages, keep) ==
    SubSeq(messages, FirstKept(messages, keep), TrailingResults(messages) - 1)

\* keep_recent with the skipped tool results put back behind it.
KeepRecent(messages, keep) ==
    LET results == TrailingResults(messages) IN
    SubSeq(messages, FirstKept(messages, keep), results - 1)
        \o SubSeq(messages, results, Len(messages))

\* The number of leading tool results moved over to to_summarize: all of them,
\* unless some kept assistant message makes a tool call.
OrphanResults(kept) ==
    IF \E i \in DOMAIN kept : MakesCalls(kept[i]) THEN 0
    ELSE CHOOSE n \in 0..Len(kept) :
            /\ \A i \in 1..n : IsTool(kept[i])
            /\ n < Len(kept) => ~IsTool(kept[n + 1])

\* prepare_compaction
PrepareCompaction(messages, keep) ==
    IF EstimateTokens(messages) <= ReserveTokens + keep
    THEN [to_summarize |-> << >>, keep |-> messages]
    ELSE LET kept    == KeepRecent(messages, keep)
             before  == SubSeq(messages, 1, FirstKept(messages, keep) - 1)
             orphans == OrphanResults(kept)
         IN  [to_summarize |-> before \o SubSeq(kept, 1, orphans),
              keep |-> SubSeq(kept, orphans + 1, Len(kept))]

\* split_after_usage_anchor: cut behind the anchor and its tool results.
SplitAfterUsageAnchor(messages, anchor) ==
    LET cut == CHOOSE i \in anchor..Len(messages) :
                 /\ \A j \in (anchor + 1)..i : IsTool(messages[j])
                 /\ i < Len(messages) => ~IsTool(messages[i + 1])
    IN  [to_summarize |-> SubSeq(messages, 1, cut),
         keep |-> SubSeq(messages, cut + 1, Len(messages))]

\* The cut of maybe_compact_runtime_context: the anchor, the last assistant
\* message that reported usage (0: none), is used when prepare_compaction
\* leaves nothing to summarize.
Cut(messages, keep, anchor) ==
    LET cut == PrepareCompaction(messages, keep) IN
    IF cut.to_summarize = << >> /\ anchor > 0
    THEN SplitAfterUsageAnchor(messages, anchor)
    ELSE cut

\* The messages after a compaction that summarizes cut.to_summarize.
Compacted(cut) == <<Message("summary", 0, 1)>> \o cut.keep

(***************************************************************************)
(* Every tool call is answered: the results of an assistant message follow *)
(* it at once, in the order of its calls.                                  *)
(***************************************************************************)
CallsAnswered(messages) ==
    \A i \in DOMAIN messages : MakesCalls(messages[i]) =>
        \A c \in 1..messages[i].calls :
            /\ i + c <= Len(messages)
            /\ IsTool(messages[i + c]) /\ messages[i + c].calls = c

(***************************************************************************)
(* Every tool result answers a call of an assistant message before it.     *)
(***************************************************************************)
ResultsHaveCalls(messages) ==
    \A i \in DOMAIN messages : IsTool(messages[i]) =>
        LET c == messages[i].calls IN
        /\ i > c
        /\ MakesCalls(messages[i - c]) /\ messages[i - c].calls >= c
=============================================================================
