------------------------------ MODULE AgentTurn ------------------------------
(***************************************************************************)
(* One agent loop: the TurnRunner of crates/agent-core/src/agent/turn and  *)
(* the typed turn it drives (runtime.rs, context.rs, nodes.rs).            *)
(*                                                                         *)
(* The loop runs turns; a turn walks the AgentTurnStates.  The turn future *)
(* is polled from the actor task and owns the working copy while it runs:  *)
(* `polling` holds from the moment it is polled until it suspends or ends, *)
(* so that commands, which the same task handles, happen only in between.  *)
(* Prompt input that arrives while the future owns the working copy goes   *)
(* to the pending queues, and is flushed when the turn hands it back.      *)
(*                                                                         *)
(* Provider answers, hook outcomes and tool results are chosen             *)
(* nondeterministically.  The events one poll emits are represented by at  *)
(* most MaxBuffered of them.                                               *)
(***************************************************************************)
EXTENDS PromptQueue, Compaction

CONSTANTS
    Replies,            \* assistant messages: [stop : StopReason, calls : Nat]
    MaxToolCalls,       \* MAX_TOOL_CALLS_PER_TURN
    MaxTurns,           \* max_turns of the configuration
    HooksEnabled,       \* whether the configuration has hooks
    KeepBudgets,        \* keep_recent_tokens; empty: no compaction configured
    SteeringMode,       \* steering_mode and follow_up_mode
    FollowUpMode,
    MaxBuffered,        \* bound on the events that represent one poll
    MaxOverrides        \* bound on the provider request overrides set

StopReasons == {"Stop", "Length", "ToolUse", "Error", "Aborted"}
NoReply == [stop |-> "none", calls |-> 0]

TurnConfig ==
    /\ Replies \subseteq [stop : StopReasons, calls : Nat]
    /\ MaxToolCalls \in Nat
    /\ MaxTurns \in Nat \ {0}
    /\ HooksEnabled \in BOOLEAN
    /\ KeepBudgets \subseteq Nat
    /\ {SteeringMode, FollowUpMode} \subseteq {"All", "OneAtATime"}
    /\ MaxBuffered \in Nat \ {0}
    /\ MaxOverrides \in Nat

ASSUME TurnConfigValid == TurnConfig

VARIABLES
    turn,               \* none, ready, running, continues, done: the runner
    node,               \* AgentTurnState while the turn future exists
    polling,            \* the turn future is being polled
    attached,           \* the runner's cancel_token is the context's
    cancelled,          \* the context's cancel_token is cancelled
    turn_no,            \* ctx.turn
    messages,           \* ctx.messages
    assistant,          \* ctx.assistant_message
    ctx_queues,         \* the queues of the working copy
    pending,            \* pending_steering, pending_follow_up, pending_interjection
    pending_counter,    \* names the entries of the pending queues
    buffered,           \* events emitted and not taken by next_event
    ctx_override,       \* ctx.provider_request_override, 0 for None
    override_consumed,  \* provider_request_override_consumed
    delivered,          \* history: the inputs put into the conversation, by queue
    override_uses       \* history: how often each override shaped a request

loopVars == <<turn, node, polling, attached, cancelled, turn_no, messages,
              assistant, ctx_queues, pending, pending_counter, buffered,
              ctx_override, override_consumed, delivered, override_uses>>

TurnNodes == {"Start", "DrainQueuedInput", "CompactRuntimeContext",
              "PrepareProviderRequest", "ApplyProviderHook", "ProviderStream",
              "DecideAfterAssistant", "ExecuteTools", "PrepareNextTurn"}

Queues == [Kinds -> Seq(Entries)]

TurnTypeOK ==
    /\ turn \in {"none", "ready", "running", "continues", "done"}
    /\ node \in TurnNodes \cup {"Finish"}
    /\ {polling, attached, cancelled, override_consumed} \subseteq BOOLEAN
    /\ polling => turn = "running"
    /\ turn = "running" <=> node # "Finish"
    /\ turn_no \in 0..(MaxTurns + 1)
    /\ messages \in Seq(Messages)
    /\ assistant \in Replies \cup {NoReply}
    /\ ctx_queues \in Queues /\ pending \in Queues
    /\ pending_counter \in Nat
    /\ buffered \in 0..MaxBuffered
    /\ ctx_override \in 0..MaxOverrides
    /\ delivered \in [Kinds -> Seq(1..MaxInputs)]
    /\ override_uses \in [1..MaxOverrides -> Nat]

TurnInit ==
    /\ turn = "none" /\ node = "Finish" /\ turn_no = 0
    /\ polling = FALSE /\ attached = FALSE /\ cancelled = FALSE
    /\ messages = << >> /\ assistant = NoReply
    /\ ctx_queues = EmptyQueues /\ pending = EmptyQueues
    /\ pending_counter = 0 /\ buffered = 0
    /\ ctx_override = 0 /\ override_consumed = FALSE
    /\ delivered = EmptyQueues
    /\ override_uses = [o \in 1..MaxOverrides |-> 0]

\* The runner holds the working copy itself: self.context is Some.
ContextHeld == turn \in {"ready", "continues", "done"}
-----------------------------------------------------------------------------
Emit(n) ==
    buffered' = IF buffered + n <= MaxBuffered THEN buffered + n ELSE MaxBuffered

\* flush_pending: how many entries move before one does not fit.
FlushCount(queue, entries) ==
    Least({n \in 0..Len(entries) :
              n < Len(entries) =>
                  ~CheckQueueCapacity(queue \o SubSeq(entries, 1, n),
                                      entries[n + 1].input)})

\* flush_pending into the working copy whose queues are `queues`
FlushPending(queues) ==
    LET n(k) == FlushCount(queues[k], pending[k]) IN
    /\ ctx_queues' = [k \in Kinds |-> queues[k] \o SubSeq(pending[k], 1, n(k))]
    /\ pending' = [k \in Kinds |-> SubSeq(pending[k], n(k) + 1, Len(pending[k]))]

\* The future returns the working copy: flush_pending, finish_outcome.
Complete(outcome, queues) ==
    /\ turn' = outcome
    /\ node' = "Finish"
    /\ polling' = FALSE
    /\ FlushPending(queues)

\* run_typed_turn after a node: the loop ends if the token is cancelled.
Proceed(next, queues) ==
    IF cancelled
    THEN Complete("done", queues)
    ELSE /\ node' = next
         /\ ctx_queues' = queues
         /\ UNCHANGED <<turn, polling, pending>>

\* A queue's entries as conversation messages.
AsMessages(queue) ==
    [i \in DOMAIN queue |->
        [Message("user", 0, 1) EXCEPT !.id = queue[i].id]]

InputsOf(queue) == [i \in DOMAIN queue |-> queue[i].input]

At(n) == turn = "running" /\ polling /\ node = n
-----------------------------------------------------------------------------
\* TurnRunner::start_turn, called by next_event when nothing is buffered
StartTurn ==
    /\ turn = "ready" /\ buffered = 0
    /\ turn' = "running" /\ node' = "Start" /\ polling' = TRUE
    /\ attached' = TRUE
    /\ UNCHANGED <<cancelled, turn_no, messages, assistant, ctx_queues, pending,
                   pending_counter, buffered, ctx_override, override_consumed,
                   delivered, override_uses>>

\* next_event polls the future again once its events are drained
Poll ==
    /\ turn = "running" /\ ~polling /\ buffered = 0
    /\ polling' = TRUE
    /\ UNCHANGED <<turn, node, attached, cancelled, turn_no, messages, assistant,
                   ctx_queues, pending, pending_counter, buffered, ctx_override,
                   override_consumed, delivered, override_uses>>

\* Mutant: the provider stream is awaited without looking at the token.
Suspend_IgnoresToken ==
    /\ turn = "running" /\ polling
    /\ \/ node = "ProviderStream" /\ \E n \in 0..1 : Emit(n)
       \/ node = "ExecuteTools" /\ \E n \in 0..1 : Emit(n)
    /\ polling' = FALSE
    /\ UNCHANGED <<turn, node, attached, cancelled, turn_no, messages, assistant,
                   ctx_queues, pending, pending_counter, ctx_override,
                   override_consumed, delivered, override_uses>>

\* Nodes whose await is a select! against the token do not suspend once it is
\* cancelled; hooks at the turn's end, summaries and tools may.
Suspend ==
    /\ turn = "running" /\ polling
    /\ \/ /\ node \in {"PrepareProviderRequest", "ApplyProviderHook"}
          /\ HooksEnabled /\ ~cancelled /\ Emit(0)
       \/ node = "ProviderStream" /\ ~cancelled /\ \E n \in 0..1 : Emit(n)
       \/ node = "PrepareNextTurn" /\ HooksEnabled /\ Emit(0)
       \/ node = "CompactRuntimeContext" /\ KeepBudgets # {} /\ Emit(0)
       \/ node = "ExecuteTools" /\ \E n \in 0..1 : Emit(n)
    /\ polling' = FALSE
    /\ UNCHANGED <<turn, node, attached, cancelled, turn_no, messages, assistant,
                   ctx_queues, pending, pending_counter, ctx_override,
                   override_consumed, delivered, override_uses>>

\* Mutant: max_turns is not looked at.
Start_NoLimit ==
    /\ At("Start")
    /\ Emit(1)
    /\ turn_no' = turn_no + 1
    /\ Proceed("DrainQueuedInput", ctx_queues)
    /\ UNCHANGED <<attached, cancelled, messages, assistant, pending_counter,
                   ctx_override, override_consumed, delivered, override_uses>>

\* nodes::start_turn
Start ==
    /\ At("Start")
    /\ Emit(1)
    /\ IF cancelled
       THEN Complete("done", ctx_queues) /\ UNCHANGED turn_no
       ELSE /\ turn_no' = turn_no + 1
            /\ IF turn_no + 1 > MaxTurns
               THEN Complete("done", ctx_queues)
               ELSE Proceed("DrainQueuedInput", ctx_queues)
    /\ UNCHANGED <<attached, cancelled, messages, assistant, pending_counter,
                   ctx_override, override_consumed, delivered, override_uses>>

\* nodes::drain_queued_input: every interjection, then steering by its mode
DrainQueuedInput ==
    LET interjected == ctx_queues["interjection"]
        steered     == Drained(ctx_queues["steering"], SteeringMode)
    IN
    /\ At("DrainQueuedInput")
    /\ messages' = messages \o AsMessages(interjected) \o AsMessages(steered)
    /\ delivered' = [delivered EXCEPT !["interjection"] = @ \o InputsOf(interjected),
                                      !["steering"] = @ \o InputsOf(steered)]
    /\ Proceed("CompactRuntimeContext",
               [ctx_queues EXCEPT !["interjection"] = << >>,
                                  !["steering"] = Undrained(@, SteeringMode)])
    /\ Emit(0)
    /\ UNCHANGED <<attached, cancelled, turn_no, assistant, pending_counter,
                   ctx_override, override_consumed, override_uses>>

\* nodes::maybe_compact_runtime_context: a failed or cancelled summary still
\* replaces the summarized messages.
CompactRuntimeContext ==
    /\ At("CompactRuntimeContext")
    /\ \/ messages' = messages /\ Emit(0)
       \/ \E keep \in KeepBudgets, anchor \in 0..Len(messages) :
            LET cut == Cut(messages, keep, anchor) IN
            /\ anchor > 0 => messages[anchor].role = "assistant"
            /\ cut.to_summarize # << >>
            /\ messages' = Compacted(cut)
            /\ Emit(1)
    /\ Proceed("PrepareProviderRequest", ctx_queues)
    /\ UNCHANGED <<attached, cancelled, turn_no, assistant, pending_counter,
                   ctx_override, override_consumed, delivered, override_uses>>

\* A node of the provider request ends the loop: its hook or the provider
\* failed, or its select! saw the token.
RequestNodeEnds ==
    /\ turn = "running" /\ polling
    /\ \/ node \in {"PrepareProviderRequest", "ApplyProviderHook"} /\ HooksEnabled
       \/ node = "ProviderStream"
    /\ Emit(1)
    /\ Complete("done", ctx_queues)
    /\ UNCHANGED <<attached, cancelled, turn_no, messages, assistant,
                   pending_counter, ctx_override, override_consumed, delivered,
                   override_uses>>

\* Mutant: using the override does not mark it consumed.
PrepareProviderRequest_Unmarked ==
    /\ At("PrepareProviderRequest")
    /\ override_uses' = IF ctx_override = 0 THEN override_uses
                        ELSE [override_uses EXCEPT ![ctx_override] = @ + 1]
    /\ ctx_override' = 0
    /\ Emit(0)
    /\ Proceed("ApplyProviderHook", ctx_queues)
    /\ UNCHANGED <<attached, cancelled, turn_no, messages, assistant,
                   pending_counter, override_consumed, delivered>>

\* nodes::prepare_provider_request, with take_provider_request_override
PrepareProviderRequest ==
    /\ At("PrepareProviderRequest")
    /\ override_uses' = IF ctx_override = 0 THEN override_uses
                        ELSE [override_uses EXCEPT ![ctx_override] = @ + 1]
    /\ override_consumed' = (override_consumed \/ ctx_override # 0)
    /\ ctx_override' = 0
    /\ Emit(0)
    /\ Proceed("ApplyProviderHook", ctx_queues)
    /\ UNCHANGED <<attached, cancelled, turn_no, messages, assistant,
                   pending_counter, delivered>>

\* nodes::apply_before_provider_request_hook
ApplyProviderHook ==
    /\ At("ApplyProviderHook")
    /\ Emit(1)
    /\ Proceed("ProviderStream", ctx_queues)
    /\ UNCHANGED <<attached, cancelled, turn_no, messages, assistant,
                   pending_counter, ctx_override, override_consumed, delivered,
                   override_uses>>

\* nodes::stream_provider ends with Done
ProviderStream ==
    /\ At("ProviderStream")
    /\ assistant' \in Replies
    /\ Emit(1)
    /\ Proceed("DecideAfterAssistant", ctx_queues)
    /\ UNCHANGED <<attached, cancelled, turn_no, messages, pending_counter,
                   ctx_override, override_consumed, delivered, override_uses>>

\* nodes::decide_after_assistant refuses the arguments or the identity of a
\* tool call: the message does not enter the conversation.
RefuseToolCalls ==
    /\ At("DecideAfterAssistant")
    /\ assistant.stop = "ToolUse" /\ assistant.calls > 0
    /\ Emit(1)
    /\ Complete("done", ctx_queues)
    /\ UNCHANGED <<attached, cancelled, turn_no, messages, assistant,
                   pending_counter, ctx_override, override_consumed, delivered,
                   override_uses>>

\* nodes::decide_after_assistant
DecideAfterAssistant ==
    /\ At("DecideAfterAssistant")
    /\ messages' = Append(messages, Message("assistant", assistant.calls, 1))
    /\ IF assistant.stop \in {"Stop", "Length"}
       THEN Proceed("PrepareNextTurn", ctx_queues) /\ Emit(0)
       ELSE IF assistant.stop = "ToolUse" /\ assistant.calls > 0
       THEN Proceed("ExecuteTools", ctx_queues) /\ Emit(0)
       ELSE Complete("done", ctx_queues) /\ Emit(1)
    /\ UNCHANGED <<attached, cancelled, turn_no, assistant, pending_counter,
                   ctx_override, override_consumed, delivered, override_uses>>

\* Mutant: a cancelled batch ends the turn without its results.
ExecuteTools_CancelDrops ==
    /\ At("ExecuteTools")
    /\ Emit(1)
    /\ IF cancelled \/ assistant.calls > MaxToolCalls
       THEN Complete("done", ctx_queues) /\ UNCHANGED messages
       ELSE /\ messages' = messages \o
                  [c \in 1..assistant.calls |-> Message("tool", c, 1)]
            /\ Proceed("PrepareNextTurn", ctx_queues)
    /\ UNCHANGED <<attached, cancelled, turn_no, assistant, pending_counter,
                   ctx_override, override_consumed, delivered, override_uses>>

\* nodes::execute_tools: too many calls end the turn with ToolLimit, otherwise
\* every call, also a cancelled one, gets its result in the order of the calls.
ExecuteTools ==
    /\ At("ExecuteTools")
    /\ Emit(1)
    /\ IF assistant.calls > MaxToolCalls
       THEN Complete("done", ctx_queues) /\ UNCHANGED messages
       ELSE /\ messages' = messages \o
                  [c \in 1..assistant.calls |-> Message("tool", c, 1)]
            /\ Proceed("PrepareNextTurn", ctx_queues)
    /\ UNCHANGED <<attached, cancelled, turn_no, assistant, pending_counter,
                   ctx_override, override_consumed, delivered, override_uses>>

\* nodes::maybe_prepare_next_turn ends the loop: a hook failed or asked to
\* stop, or every tool result asked to terminate.
EndAfterTurn ==
    /\ At("PrepareNextTurn")
    /\ HooksEnabled \/ assistant.stop = "ToolUse"
    /\ Emit(1)
    /\ Complete("done", ctx_queues)
    /\ UNCHANGED <<attached, cancelled, turn_no, messages, assistant,
                   pending_counter, ctx_override, override_consumed, delivered,
                   override_uses>>

\* What the hooks at the turn's end make of the conversation: additional
\* context behind it, and a replacement of the whole.
AfterHooks ==
    {messages} \cup
    IF HooksEnabled
    THEN {Append(messages, Message("user", 0, 1)), <<Message("user", 0, 1)>>}
    ELSE {}

\* nodes::maybe_prepare_next_turn otherwise: after a tool turn the loop goes on;
\* after an answer it goes on if a queue holds input, follow-ups first.
PrepareNextTurn ==
    LET queued   == \E k \in Kinds : ctx_queues[k] # << >>
        followed == Drained(ctx_queues["follow_up"], FollowUpMode)
    IN
    /\ At("PrepareNextTurn")
    /\ \E after \in AfterHooks :
         IF assistant.stop = "ToolUse" \/ ~queued
         THEN messages' = after /\ UNCHANGED delivered
         ELSE /\ messages' = after \o AsMessages(followed)
              /\ delivered' = [delivered EXCEPT !["follow_up"] = @ \o InputsOf(followed)]
    /\ IF assistant.stop = "ToolUse"
       THEN Complete("continues", ctx_queues) /\ Emit(0)
       ELSE IF queued
       THEN /\ Complete("continues",
                        [ctx_queues EXCEPT !["follow_up"] = Undrained(@, FollowUpMode)])
            /\ Emit(0)
       ELSE Complete("done", ctx_queues) /\ Emit(1)
    /\ UNCHANGED <<attached, cancelled, turn_no, assistant, pending_counter,
                   ctx_override, override_consumed, override_uses>>

\* A node of the turn runs to its end.
NodeStep ==
    \/ Start \/ DrainQueuedInput \/ CompactRuntimeContext
    \/ RequestNodeEnds \/ PrepareProviderRequest \/ ApplyProviderHook
    \/ ProviderStream \/ RefuseToolCalls \/ DecideAfterAssistant
    \/ ExecuteTools \/ EndAfterTurn \/ PrepareNextTurn

\* What polling next_event can do to the turn.
Advance == StartTurn \/ Poll \/ Suspend \/ NodeStep
=============================================================================
