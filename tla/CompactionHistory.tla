-------------------------- MODULE CompactionHistory --------------------------
(***************************************************************************)
(* A conversation that grows by user messages and tool turns and is        *)
(* compacted again and again (maybe_compact_runtime_context in             *)
(* crates/agent-core/src/agent/turn/nodes/compaction.rs).                  *)
(***************************************************************************)
EXTENDS Compaction

CONSTANTS
    Tokens,             \* the token estimates of a message
    KeepTokens,         \* keep_recent_tokens of CompactionSettings
    CallCounts,         \* tool calls per assistant message
    MaxMessages         \* bound on the length of the conversation

ASSUME HistoryAssumption ==
    Tokens \subseteq Nat /\ CallCounts \subseteq Nat /\ MaxMessages \in Nat

VARIABLES
    messages,           \* ctx.messages
    usage               \* index of the last assistant message with usage, or 0

historyVars == <<messages, usage>>

HistoryTypeOK ==
    /\ messages \in Seq(Messages)
    /\ Len(messages) <= MaxMessages
    /\ usage \in 0..Len(messages)

HistoryInit == messages = << >> /\ usage = 0

AppendUser ==
    \E t \in Tokens :
        /\ Len(messages) < MaxMessages
        /\ messages' = Append(messages, Message("user", 0, t))
        /\ UNCHANGED usage

\* One tool turn: the assistant message and the results of its calls.
AppendToolTurn ==
    \E calls \in CallCounts, t \in Tokens, r \in Tokens, reported \in BOOLEAN :
        /\ Len(messages) + calls < MaxMessages
        /\ messages' = Append(messages, Message("assistant", calls, t))
                          \o [c \in 1..calls |-> Message("tool", c, r)]
        /\ usage' = IF reported THEN Len(messages) + 1 ELSE usage

\* maybe_compact_runtime_context once should_compact holds; the usage of the
\* kept assistant messages is cleared.
Compact ==
    \E keep \in KeepTokens :
        LET cut == Cut(messages, keep, usage) IN
        /\ cut.to_summarize # << >>
        /\ messages' = Compacted(cut)
        /\ usage' = 0

HistoryNext == AppendUser \/ AppendToolTurn \/ Compact

HistorySpec == HistoryInit /\ [][HistoryNext]_historyVars
-----------------------------------------------------------------------------
(***************************************************************************)
(* Compaction never leaves a kept tool call without its results, whichever *)
(* path of the cut was taken and however often the history was cut before. *)
(***************************************************************************)
CompactionKeepsAnswers == CallsAnswered(messages)

(***************************************************************************)
(* "Every ToolResult kept must have its Assistant(tool_call) kept too"     *)
(* (prepare.rs, test compaction_split_does_not_break_middle_tool_pair).    *)
(***************************************************************************)
KeptResultsHaveCalls == ResultsHaveCalls(messages)
=============================================================================
