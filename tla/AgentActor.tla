------------------------------ MODULE AgentActor ------------------------------
(***************************************************************************)
(* The agent actor (crates/agent-core/src/agent/actor.rs): the task that   *)
(* owns AgentState, handles commands one at a time and drives the turn     *)
(* loop of AgentTurn, sending its events to the consumer of the prompt     *)
(* over a bounded channel.                                                 *)
(*                                                                         *)
(* pc is the place of run_actor:                                           *)
(*   top       the head of the loop; with pending_commit it drains events  *)
(*   select    waiting for a command or a turn event                       *)
(*   sending   the nested loop that sends one event and serves commands    *)
(*   yield     the sleep between two turns                                 *)
(*   yielded   serving the commands that arrived during the sleep          *)
(*   draining  graceful shutdown                                           *)
(* A command is sent by some handle and received by the actor in one step, *)
(* at any point where the actor receives.                                  *)
(***************************************************************************)
EXTENDS AgentTurn, FiniteSets

CONSTANTS
    Commands,           \* the commands the clients of this instance send
    SubmitKinds,        \* the queues they submit input to
    ChannelCap,         \* EVENT_STREAM_CAPACITY
    MaxPrompts,         \* bound on the prompts and runs admitted
    MaxAdded,           \* bound on state.messages for AddMessage
    MaxVersion          \* bound on the edits of one entry

CommandNames == {"Prompt", "Run", "Abort", "ClearQueues", "EditQueueEntry",
                 "RemoveQueueEntry", "AddMessage", "ReplaceMessages",
                 "SetProviderRequestOverride", "DrainSteeringQueue",
                 "DrainFollowUpQueue", "Shutdown", "DropHandles", "DropStream"}

ActorConfig ==
    /\ Commands \subseteq CommandNames
    /\ SubmitKinds \subseteq Kinds
    /\ ChannelCap \in Nat \ {0}
    /\ {MaxPrompts, MaxAdded, MaxVersion} \subseteq Nat

ASSUME ActorConfigValid == ActorConfig

VARIABLES
    pc,                 \* where run_actor is
    pending_commit,
    event_tx,           \* event_tx holds the sender of the current stream
    stream,             \* none, open, dropped: the consumer's end of it
    channel,            \* events sent and not received
    state_messages,     \* state.messages
    state_queues,       \* state.steering_queue, follow_up_queue, ...
    state_override,     \* state.provider_request_override, 0 for None
    handles,            \* some AgentHandle still exists
    prompts,            \* history: loops admitted
    accepted,           \* history: inputs accepted, numbered in that order
    withdrawn,          \* history: inputs cleared, removed or drained by a client
    overrides,          \* history: overrides set
    abort_asked         \* history: the loop in flight was aborted

historyVars == <<prompts, accepted, withdrawn, overrides, abort_asked>>
consumerVars == <<stream, channel>>
stateVars == <<state_messages, state_queues, state_override>>
actorVars == <<pc, pending_commit, event_tx, handles>>
vars == <<loopVars, actorVars, consumerVars, stateVars, historyVars>>

ActorTypeOK ==
    /\ TurnTypeOK
    /\ pc \in {"top", "select", "sending", "yield", "yielded", "draining", "stopped"}
    /\ {pending_commit, event_tx, handles, abort_asked} \subseteq BOOLEAN
    /\ stream \in {"none", "open", "dropped"}
    /\ channel \in 0..ChannelCap
    /\ state_messages \in Seq(Messages)
    /\ state_queues \in Queues
    /\ state_override \in 0..MaxOverrides
    /\ prompts \in 0..MaxPrompts
    /\ accepted \in 0..MaxInputs
    /\ withdrawn \subseteq 1..MaxInputs
    /\ overrides \in 0..MaxOverrides

ActorInit ==
    /\ TurnInit
    /\ pc = "top" /\ pending_commit = FALSE /\ event_tx = FALSE /\ handles = TRUE
    /\ stream = "none" /\ channel = 0
    /\ state_messages = << >> /\ state_queues = EmptyQueues /\ state_override = 0
    /\ prompts = 0 /\ accepted = 0 /\ withdrawn = {}
    /\ overrides = 0 /\ abort_asked = FALSE
-----------------------------------------------------------------------------
\* event_tx.is_some_and(|tx| tx.is_closed()) && turn.is_some()
ConsumerGone == event_tx /\ stream = "dropped" /\ turn # "none"

\* TurnRunner::abort cancels the runner's own token.
AbortRunner == cancelled' = (cancelled \/ attached)

\* Mutant: commit_turn forgets the pending entries.
CommitTurn_ForgetsPending ==
    /\ state_messages' = messages
    /\ state_queues' = [k \in Kinds |-> ctx_queues[k] \o state_queues[k]]
    /\ state_override' = IF override_consumed THEN 0 ELSE state_override
    /\ turn' = "none" /\ turn_no' = 0 /\ attached' = FALSE
    /\ messages' = << >> /\ assistant' = NoReply
    /\ ctx_queues' = EmptyQueues /\ pending' = EmptyQueues
    /\ pending_counter' = 0
    /\ ctx_override' = 0 /\ override_consumed' = FALSE
    /\ abort_asked' = FALSE
    /\ UNCHANGED <<node, polling, cancelled, buffered, delivered, override_uses>>

\* Mutant: the pending entries go in front of the working copy's.
CommitTurn_PendingFirst ==
    /\ state_messages' = messages
    /\ state_queues' =
          [k \in Kinds |-> pending[k] \o ctx_queues[k] \o state_queues[k]]
    /\ state_override' = IF override_consumed THEN 0 ELSE state_override
    /\ turn' = "none" /\ turn_no' = 0 /\ attached' = FALSE
    /\ messages' = << >> /\ assistant' = NoReply
    /\ ctx_queues' = EmptyQueues /\ pending' = EmptyQueues
    /\ pending_counter' = 0
    /\ ctx_override' = 0 /\ override_consumed' = FALSE
    /\ abort_asked' = FALSE
    /\ UNCHANGED <<node, polling, cancelled, buffered, delivered, override_uses>>

\* commit_turn with into_context and apply_to_state; the runner is gone.
CommitTurn ==
    /\ state_messages' = messages
    /\ state_queues' =
          [k \in Kinds |-> ctx_queues[k] \o pending[k] \o state_queues[k]]
    /\ state_override' = IF override_consumed THEN 0 ELSE state_override
    /\ turn' = "none" /\ turn_no' = 0 /\ attached' = FALSE
    /\ messages' = << >> /\ assistant' = NoReply
    /\ ctx_queues' = EmptyQueues /\ pending' = EmptyQueues
    /\ pending_counter' = 0
    /\ ctx_override' = 0 /\ override_consumed' = FALSE
    /\ abort_asked' = FALSE
    /\ UNCHANGED <<node, polling, cancelled, buffered, delivered, override_uses>>

\* Mutant: only the end of the loop counts, not the pause between two turns.
NoMoreEvents_Pause == turn = "done" /\ buffered = 0

\* next_event answers None: the loop ended or waits between two turns.
NoMoreEvents == turn \in {"continues", "done"} /\ buffered = 0

\* next_event answers an event.
EventReady == turn # "none" /\ ~polling /\ buffered > 0

\* The actor polls next_event.
Polls == pc = "select" \/ pc = "draining" \/ (pc = "top" /\ pending_commit)

TurnAdvances ==
    /\ Polls
    /\ turn # "none"
    /\ Advance
    /\ UNCHANGED <<actorVars, consumerVars, stateVars, historyVars>>
-----------------------------------------------------------------------------
\* The head of the loop: the consumer is gone, abort the turn.
TopConsumerGone ==
    /\ pc = "top" /\ ~pending_commit /\ ConsumerGone
    /\ AbortRunner
    /\ pending_commit' = TRUE /\ event_tx' = FALSE
    /\ UNCHANGED <<turn, node, polling, attached, turn_no, messages, assistant,
                   ctx_queues, pending, pending_counter, buffered, ctx_override,
                   override_consumed, delivered, override_uses, pc, handles,
                   consumerVars, stateVars, historyVars>>

TopSelect ==
    /\ pc = "top" /\ ~pending_commit /\ ~ConsumerGone
    /\ pc' = "select"
    /\ UNCHANGED <<loopVars, pending_commit, event_tx, handles, consumerVars,
                   stateVars, historyVars>>

\* Pending commit and shutdown: events are discarded ...
DiscardEvent ==
    /\ pc = "draining" \/ (pc = "top" /\ pending_commit)
    /\ EventReady
    /\ buffered' = buffered - 1
    /\ UNCHANGED <<turn, node, polling, attached, cancelled, turn_no, messages,
                   assistant, ctx_queues, pending, pending_counter, ctx_override,
                   override_consumed, delivered, override_uses, actorVars,
                   consumerVars, stateVars, historyVars>>

\* ... until there are none, then the working copy is committed.
PendingCommit ==
    /\ pc = "top" /\ pending_commit /\ NoMoreEvents
    /\ CommitTurn
    /\ pending_commit' = FALSE
    /\ UNCHANGED <<pc, event_tx, handles, consumerVars, prompts, accepted,
                   withdrawn, overrides>>

DrainedCommit ==
    /\ pc = "draining"
    /\ \/ NoMoreEvents /\ CommitTurn
       \/ turn = "none" /\ UNCHANGED <<loopVars, stateVars, abort_asked>>
    /\ pc' = "stopped"
    /\ UNCHANGED <<pending_commit, event_tx, handles, consumerVars, prompts,
                   accepted, withdrawn, overrides>>

\* The select! branch of the turn: an event to send, ...
TakeEvent ==
    /\ pc = "select" /\ EventReady
    /\ buffered' = buffered - 1
    /\ event_tx' = FALSE
    /\ pc' = "sending"
    /\ UNCHANGED <<turn, node, polling, attached, cancelled, turn_no, messages,
                   assistant, ctx_queues, pending, pending_counter, ctx_override,
                   override_consumed, delivered, override_uses, pending_commit,
                   handles, consumerVars, stateVars, historyVars>>

\* ... the end of a turn, ...
TurnContinues ==
    /\ pc = "select" /\ turn = "continues" /\ buffered = 0
    /\ pc' = "yield"
    /\ UNCHANGED <<loopVars, pending_commit, event_tx, handles, consumerVars,
                   stateVars, historyVars>>

\* ... or the end of the loop.
LoopDone ==
    /\ pc = "select" /\ turn = "done" /\ buffered = 0
    /\ CommitTurn
    /\ event_tx' = FALSE
    /\ stream' = IF stream = "open" THEN "none" ELSE stream
    /\ pc' = "top"
    /\ UNCHANGED <<pending_commit, handles, channel, prompts, accepted, withdrawn,
                   overrides>>
-----------------------------------------------------------------------------

\* The send finished, or failed because the consumer dropped the stream.
SendFinishes ==
    /\ pc = "sending"
    /\ pc' = "top"
    /\ \/ /\ stream = "open" /\ channel < ChannelCap
          /\ channel' = channel + 1
          /\ event_tx' = TRUE
          /\ UNCHANGED <<pending_commit, cancelled>>
       \/ /\ stream = "dropped"
          /\ AbortRunner
          /\ pending_commit' = TRUE
          /\ UNCHANGED <<channel, event_tx>>
    /\ UNCHANGED <<turn, node, polling, attached, turn_no, messages, assistant,
                   ctx_queues, pending, pending_counter, buffered, ctx_override,
                   override_consumed, delivered, override_uses, handles, stream,
                   stateVars, historyVars>>

\* The sleep between two turns ends.
YieldEnds ==
    /\ pc = "yield"
    /\ IF stream = "dropped"
       THEN /\ CommitTurn
            /\ event_tx' = FALSE
            /\ pc' = "top"
       ELSE /\ pc' = "yielded"
            /\ UNCHANGED <<loopVars, stateVars, abort_asked, event_tx>>
    /\ UNCHANGED <<pending_commit, handles, consumerVars, prompts, accepted,
                   withdrawn, overrides>>

\* The mailbox is empty: start_next_turn unless the consumer left meanwhile.
StartNextTurn ==
    /\ pc = "yielded"
    /\ pc' = "top"
    /\ IF stream = "dropped"
       THEN CommitTurn /\ event_tx' = FALSE
       ELSE /\ turn' = "ready"
            /\ UNCHANGED <<node, polling, attached, cancelled, turn_no, messages,
                           assistant, ctx_queues, pending, pending_counter,
                           buffered, ctx_override, override_consumed, delivered,
                           override_uses, stateVars, abort_asked, event_tx>>
    /\ UNCHANGED <<pending_commit, handles, consumerVars, prompts, accepted,
                   withdrawn, overrides>>
-----------------------------------------------------------------------------
\* A command can be received and handled.  In the main select! a command that
\* finds the consumer gone is not handled (see CommandDropped).
Receiving ==
    /\ handles /\ ~polling
    /\ \/ pc = "select" /\ ~ConsumerGone
       \/ pc \in {"sending", "yielded"}

Resume == pc' = IF pc = "select" THEN "top" ELSE pc

\* AgentTurnContext::from_state and start_turn, for the conversation given.
BeginLoop(conversation) ==
    /\ turn' = "ready"
    /\ cancelled' = FALSE
    /\ state_messages' = conversation /\ messages' = conversation
    /\ ctx_queues' = state_queues /\ state_queues' = EmptyQueues
    /\ ctx_override' = state_override /\ state_override' = 0
    /\ event_tx' = TRUE /\ stream' = "open" /\ channel' = 0
    /\ prompts' = prompts + 1
    /\ Resume
    /\ UNCHANGED <<node, polling, attached, turn_no, assistant, pending,
                   pending_counter, buffered, override_consumed, delivered,
                   override_uses, pending_commit, handles, accepted, withdrawn,
                   overrides, abort_asked>>

\* admit_prompt
Prompt ==
    /\ "Prompt" \in Commands /\ Receiving /\ prompts < MaxPrompts
    /\ turn = "none"
    /\ BeginLoop(Append(state_messages, Message("user", 0, 1)))

\* admit_run: refused without a conversation and behind an assistant message
Run ==
    /\ "Run" \in Commands /\ Receiving /\ prompts < MaxPrompts
    /\ turn = "none"
    /\ state_messages # << >>
    /\ state_messages[Len(state_messages)].role # "assistant"
    /\ BeginLoop(state_messages)

\* next_message_id: the first index not used in the conversation and queues
NextMessageId(conversation, queues, kind) ==
    LET used == {conversation[i].id : i \in DOMAIN conversation}
                \cup UNION {{queues[k][i].id : i \in DOMAIN queues[k]} : k \in Kinds}
        id(i) == [prefix |-> kind, pending |-> FALSE, index |-> i]
    IN  id(Least({i \in 0..Cardinality(used) : id(i) \notin used}))

Entry(id, input) == [id |-> id, version |-> 0, input |-> input]

\* Steer, FollowUp and Interject: into the state, the working copy or, while
\* the turn future owns that, the pending queue; refused when it is full.
Submit ==
    \E kind \in SubmitKinds :
        LET input == accepted + 1 IN
        /\ Receiving /\ accepted < MaxInputs
        /\ \/ /\ turn = "none"
              /\ CheckQueueCapacity(state_queues[kind], input)
              /\ state_queues' = [state_queues EXCEPT ![kind] = Append(@,
                    Entry(NextMessageId(state_messages, state_queues, kind), input))]
              /\ UNCHANGED <<ctx_queues, pending, pending_counter>>
           \/ /\ ContextHeld
              /\ CheckQueueCapacity(ctx_queues[kind], input)
              /\ ctx_queues' = [ctx_queues EXCEPT ![kind] = Append(@,
                    Entry(NextMessageId(messages, ctx_queues, kind), input))]
              /\ UNCHANGED <<state_queues, pending, pending_counter>>
           \/ /\ turn = "running"
              /\ CheckQueueCapacity(pending[kind], input)
              /\ pending' = [pending EXCEPT ![kind] = Append(@,
                    Entry([prefix |-> kind, pending |-> TRUE,
                           index |-> pending_counter], input))]
              /\ pending_counter' = pending_counter + 1
              /\ UNCHANGED <<state_queues, ctx_queues>>
        /\ accepted' = input
        /\ Resume
        /\ UNCHANGED <<turn, node, polling, attached, cancelled, turn_no, messages,
                       assistant, buffered, ctx_override, override_consumed,
                       delivered, override_uses, pending_commit, event_tx, handles,
                       consumerVars, state_messages, state_override, prompts,
                       withdrawn, overrides, abort_asked>>

\* Abort: the runner's token, or the state's when no loop is in flight
Abort ==
    /\ "Abort" \in Commands /\ Receiving
    /\ IF turn = "none" THEN cancelled' = TRUE ELSE AbortRunner
    /\ abort_asked' = (abort_asked \/ turn # "none")
    /\ Resume
    /\ UNCHANGED <<turn, node, polling, attached, turn_no, messages, assistant,
                   ctx_queues, pending, pending_counter, buffered, ctx_override,
                   override_consumed, delivered, override_uses, pending_commit,
                   event_tx, handles, consumerVars, stateVars, prompts, accepted,
                   withdrawn, overrides>>

\* The inputs of all the queues of one place.
InputsIn(queues) == UNION {Inputs(queues[k]) : k \in Kinds}

\* The runner's queues a command reaches: not the working copy a running turn
\* future owns.
Reached == IF ContextHeld THEN InputsIn(ctx_queues) ELSE {}

\* ClearQueues
ClearQueues ==
    /\ "ClearQueues" \in Commands /\ Receiving
    /\ state_queues' = EmptyQueues /\ pending' = EmptyQueues
    /\ ctx_queues' = IF ContextHeld THEN EmptyQueues ELSE ctx_queues
    /\ withdrawn' = withdrawn \cup InputsIn(state_queues) \cup InputsIn(pending)
                        \cup Reached
    /\ Resume
    /\ UNCHANGED <<turn, node, polling, attached, cancelled, turn_no, messages,
                   assistant, pending_counter, buffered, ctx_override,
                   override_consumed, delivered, override_uses, pending_commit,
                   event_tx, handles, consumerVars, state_messages, state_override,
                   prompts, accepted, overrides, abort_asked>>

\* DrainSteeringQueue and DrainFollowUpQueue hand the entries to the caller.
DrainQueue ==
    \E command \in Commands :
        LET kind == IF command = "DrainSteeringQueue" THEN "steering" ELSE "follow_up"
        IN
        /\ command \in {"DrainSteeringQueue", "DrainFollowUpQueue"} /\ Receiving
        /\ state_queues' = [state_queues EXCEPT ![kind] = << >>]
        /\ pending' = [pending EXCEPT ![kind] = << >>]
        /\ ctx_queues' = IF ContextHeld THEN [ctx_queues EXCEPT ![kind] = << >>]
                         ELSE ctx_queues
        /\ withdrawn' = withdrawn \cup Inputs(state_queues[kind])
                \cup Inputs(pending[kind])
                \cup IF ContextHeld THEN Inputs(ctx_queues[kind]) ELSE {}
        /\ Resume
        /\ UNCHANGED <<turn, node, polling, attached, cancelled, turn_no, messages,
                       assistant, pending_counter, buffered, ctx_override,
                       override_consumed, delivered, override_uses, pending_commit,
                       event_tx, handles, consumerVars, state_messages,
                       state_override, prompts, accepted, overrides,
                       abort_asked>>

\* The queues EditQueueEntry and RemoveQueueEntry look through, in their order.
AsList(queues) == [i \in 1..3 |-> queues[KindOrder[i]]]
Searched ==
    IF turn = "none" THEN AsList(state_queues)
    ELSE IF ContextHeld THEN AsList(ctx_queues) \o AsList(pending)
    ELSE AsList(pending)

\* The list goes back to where it was read from.
FromList(list, first) ==
    [k \in Kinds |-> list[first + (CHOOSE i \in 1..3 : KindOrder[i] = k)]]
Store(list) ==
    /\ state_queues' = IF turn = "none" THEN FromList(list, 0) ELSE state_queues
    /\ ctx_queues' = IF ContextHeld THEN FromList(list, 0) ELSE ctx_queues
    /\ pending' = IF turn = "none" THEN pending
                  ELSE FromList(list, IF ContextHeld THEN 3 ELSE 0)

\* The entries a client can name.
Named == UNION {{Searched[q][i] : i \in DOMAIN Searched[q]} : q \in DOMAIN Searched}

EditQueueEntry ==
    \E entry \in Named :
        /\ "EditQueueEntry" \in Commands /\ Receiving
        /\ entry.version < MaxVersion
        /\ Current(Searched, entry.id, entry.version)
        /\ Store(EditEntry(Searched, entry.id))
        /\ Resume
        /\ UNCHANGED <<turn, node, polling, attached, cancelled, turn_no, messages,
                       assistant, pending_counter, buffered, ctx_override,
                       override_consumed, delivered, override_uses, pending_commit,
                       event_tx, handles, consumerVars, state_messages,
                       state_override, historyVars>>

RemoveQueueEntry ==
    \E entry \in Named :
        LET q == HolderOf(Searched, entry.id) IN
        /\ "RemoveQueueEntry" \in Commands /\ Receiving
        /\ Current(Searched, entry.id, entry.version)
        /\ Store(RemoveEntry(Searched, entry.id))
        /\ withdrawn' = withdrawn \cup
              {Searched[q][PlaceIn(Searched[q], entry.id)].input}
        /\ Resume
        /\ UNCHANGED <<turn, node, polling, attached, cancelled, turn_no, messages,
                       assistant, pending_counter, buffered, ctx_override,
                       override_consumed, delivered, override_uses, pending_commit,
                       event_tx, handles, consumerVars, state_messages,
                       state_override, prompts, accepted, overrides,
                       abort_asked>>

\* AddMessage and ReplaceMessages change state.messages only: a loop in flight
\* works on its copy and overwrites them when it is committed.
ChangeMessages ==
    /\ Receiving
    /\ \/ /\ "AddMessage" \in Commands /\ Len(state_messages) < MaxAdded
          /\ state_messages' = Append(state_messages, Message("user", 0, 1))
       \/ /\ "ReplaceMessages" \in Commands
          /\ state_messages' = <<Message("user", 0, 1)>>
    /\ Resume
    /\ UNCHANGED <<loopVars, pending_commit, event_tx, handles, consumerVars,
                   state_queues, state_override, historyVars>>

\* SetProviderRequestOverride: the state's and, when the runner holds it, the
\* working copy's.
SetProviderRequestOverride ==
    /\ "SetProviderRequestOverride" \in Commands /\ Receiving
    /\ overrides < MaxOverrides
    /\ overrides' = overrides + 1
    /\ state_override' = overrides + 1
    /\ ctx_override' = IF ContextHeld THEN overrides + 1 ELSE ctx_override
    /\ Resume
    /\ UNCHANGED <<turn, node, polling, attached, cancelled, turn_no, messages,
                   assistant, ctx_queues, pending, pending_counter, buffered,
                   override_consumed, delivered, override_uses, pending_commit,
                   event_tx, handles, consumerVars, state_messages, state_queues,
                   prompts, accepted, withdrawn, abort_asked>>

\* run_actor leaves its loop: the turn in flight is aborted, then drained.
LeaveLoop ==
    /\ pc' = "draining"
    /\ AbortRunner
    /\ UNCHANGED <<turn, node, polling, attached, turn_no, messages, assistant,
                   ctx_queues, pending, pending_counter, buffered, ctx_override,
                   override_consumed, delivered, override_uses, pending_commit,
                   event_tx, handles, consumerVars, stateVars, prompts, accepted,
                   withdrawn, overrides, abort_asked>>

Shutdown ==
    /\ "Shutdown" \in Commands /\ Receiving
    /\ LeaveLoop

\* The last handle is gone and the mailbox is empty: recv answers None.
MailboxClosed ==
    /\ pc = "select" /\ ~handles /\ ~polling
    /\ LeaveLoop

\* The same during a send: the event is dropped and the loop goes on.
SendAbandoned ==
    /\ pc = "sending" /\ ~handles
    /\ pc' = "top"
    /\ IF stream = "dropped"
       THEN AbortRunner /\ pending_commit' = TRUE /\ UNCHANGED event_tx
       ELSE event_tx' = TRUE /\ UNCHANGED <<cancelled, pending_commit>>
    /\ UNCHANGED <<turn, node, polling, attached, turn_no, messages, assistant,
                   ctx_queues, pending, pending_counter, buffered, ctx_override,
                   override_consumed, delivered, override_uses, handles,
                   consumerVars, stateVars, historyVars>>

\* The main select! received a command and finds the consumer gone: the turn is
\* aborted and the command, whichever it is, is dropped unanswered.
CommandDropped ==
    /\ pc = "select" /\ handles /\ ~polling /\ ConsumerGone
    /\ AbortRunner
    /\ pending_commit' = TRUE /\ event_tx' = FALSE /\ pc' = "top"
    /\ UNCHANGED <<turn, node, polling, attached, turn_no, messages, assistant,
                   ctx_queues, pending, pending_counter, buffered, ctx_override,
                   override_consumed, delivered, override_uses, handles,
                   consumerVars, stateVars, prompts, accepted, withdrawn,
                   overrides, abort_asked>>
-----------------------------------------------------------------------------
\* The consumer of the event stream and the owners of the handles.
Receive ==
    /\ stream = "open" /\ channel > 0
    /\ channel' = channel - 1
    /\ UNCHANGED <<loopVars, actorVars, stream, stateVars, historyVars>>

DropStream ==
    /\ "DropStream" \in Commands
    /\ stream = "open"
    /\ stream' = "dropped" /\ channel' = 0
    /\ UNCHANGED <<loopVars, actorVars, stateVars, historyVars>>

DropHandles ==
    /\ "DropHandles" \in Commands /\ handles
    /\ handles' = FALSE
    /\ UNCHANGED <<loopVars, pc, pending_commit, event_tx, consumerVars, stateVars,
                   historyVars>>

Command ==
    \/ Prompt \/ Run \/ Submit \/ Abort \/ ClearQueues \/ DrainQueue
    \/ EditQueueEntry \/ RemoveQueueEntry \/ ChangeMessages
    \/ SetProviderRequestOverride \/ Shutdown

ActorStep ==
    \/ TopConsumerGone \/ TopSelect \/ DiscardEvent \/ PendingCommit
    \/ DrainedCommit \/ TakeEvent \/ TurnContinues \/ LoopDone
    \/ SendFinishes \/ YieldEnds \/ StartNextTurn
    \/ MailboxClosed \/ SendAbandoned

ActorNext ==
    \/ TurnAdvances \/ ActorStep \/ Command \/ CommandDropped
    \/ Receive \/ DropStream \/ DropHandles

ActorSpec == ActorInit /\ [][ActorNext]_vars

(***************************************************************************)
(* Fairness.  The actor task is scheduled; its select! picks among ready   *)
(* branches at random, so a stream of commands cannot starve the turn; the *)
(* consumer goes on reading (or drops the stream).  A cancelled batch of   *)
(* tools, a summary and the hooks at a turn's end, which no select!        *)
(* guards, end at some time.  Responsive says that providers, hooks and    *)
(* tools do so without being cancelled.                                    *)
(***************************************************************************)
Rest == UNCHANGED <<actorVars, consumerVars, stateVars, historyVars>>
PollTurn == Polls /\ (StartTurn \/ Poll) /\ Rest
SelectTurn == PollTurn \/ TakeEvent \/ TurnContinues \/ LoopDone
NodeEnds == Polls /\ NodeStep /\ Rest
NodeCancelled ==
    /\ cancelled
    /\ node \in {"CompactRuntimeContext", "ExecuteTools", "PrepareNextTurn"}
    /\ NodeEnds

ActorFairness ==
    WF_vars(ActorStep) /\ WF_vars(TurnAdvances) /\ SF_vars(SelectTurn)
        /\ WF_vars(Receive) /\ SF_vars(NodeCancelled)

FairActorSpec == ActorSpec /\ ActorFairness
Responsive == SF_vars(NodeEnds)
-----------------------------------------------------------------------------
(***************************************************************************)
(* Queued input is kept exactly once: every accepted input waits in one    *)
(* queue, has entered the conversation, or was withdrawn by a client, and  *)
(* never has two copies that could both be delivered.                      *)
(* Input travels state -> working copy -> conversation, through the        *)
(* pending queues while a turn runs, and back into the state whenever a    *)
(* loop ends, is aborted, loses its consumer or is shut down.              *)
(***************************************************************************)
Delivered == UNION {{delivered[k][i] : i \in DOMAIN delivered[k]} : k \in Kinds}

Trail(k) == delivered[k] \o InputsOf(ctx_queues[k]) \o InputsOf(pending[k])
                \o InputsOf(state_queues[k])

InputsKeptOnce ==
    /\ 1..accepted = Delivered \cup withdrawn \cup InputsIn(ctx_queues)
                       \cup InputsIn(pending) \cup InputsIn(state_queues)
    /\ \A k \in Kinds : \A i, j \in DOMAIN Trail(k) :
           i # j => Trail(k)[i] # Trail(k)[j]

(***************************************************************************)
(* Each queue is first in, first out, across turns and prompts, also for   *)
(* input that arrived while a turn was running ("they follow the residual  *)
(* working-copy entries in FIFO order", actor.rs:246).                     *)
(***************************************************************************)
FirstInFirstOut ==
    \A k \in Kinds : \A i, j \in DOMAIN Trail(k) :
        i < j => Trail(k)[i] < Trail(k)[j]

(***************************************************************************)
(* A provider is never sent a conversation in which a tool call lacks its  *)
(* result, and none is kept between two loops: queued input enters only    *)
(* where it splits no request from its results, and an abort during the    *)
(* tools still records them.                                               *)
(***************************************************************************)
ToolCallsAnswered ==
    /\ node = "ProviderStream" => CallsAnswered(messages)
    /\ turn = "none" => CallsAnswered(state_messages)

(***************************************************************************)
(* run_actor's expect("event sender is set") cannot fail: whenever the     *)
(* main select! may see an event of the turn, it holds the sender.         *)
(***************************************************************************)
SenderHeld == (pc = "select" /\ turn # "none") => event_tx

(***************************************************************************)
(* A provider request override is used by at most one request, although    *)
(* SetProviderRequestOverride may put it both into the state and into the  *)
(* working copy ("it is consumed by at most one turn", context.rs:65).     *)
(***************************************************************************)
OverrideUsedOnce == \A o \in 1..MaxOverrides : override_uses[o] <= 1

(***************************************************************************)
(* A cancelled loop ends, without any help from the provider, and its      *)
(* working copy is committed.                                              *)
(***************************************************************************)
CancelledLoopEnds == (cancelled /\ turn # "none") ~> (turn = "none")

(***************************************************************************)
(* When the consumer drops the stream the loop is committed, even if it    *)
(* never sends another event, provided that what it waits for answers.     *)
(***************************************************************************)
DroppedStreamCommits ==
    Responsive => ((stream = "dropped" /\ turn # "none") ~> (turn = "none"))

(***************************************************************************)
(* A loop nobody wants any more ends, whichever way that was made known.   *)
(***************************************************************************)
UnwantedLoopEnds == CancelledLoopEnds /\ DroppedStreamCommits

(***************************************************************************)
(* "Cancels an in-flight loop" (runtime.rs:262): an abort handled while a  *)
(* loop is in flight cancels its token.                                    *)
(***************************************************************************)
AbortCancels == (abort_asked /\ turn # "none") => cancelled
=============================================================================
