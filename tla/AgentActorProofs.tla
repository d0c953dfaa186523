--------------------------- MODULE AgentActorProofs ---------------------------
(***************************************************************************)
(* Proofs about the agent actor, for every configuration, reply set and    *)
(* set of commands.                                                        *)
(***************************************************************************)
EXTENDS AgentActor, CompactionProofs, FiniteSetTheorems

(***************************************************************************)
(* Where the sender of the event stream is.  It is absent only while no    *)
(* loop is in flight, while an event is being sent, and once the loop is   *)
(* marked for its commit or the actor drains; pending_commit is dealt with *)
(* at the head of the loop and nowhere else.                               *)
(***************************************************************************)
SenderInv ==
    /\ (turn # "none" /\ ~pending_commit /\ pc \in {"top", "select", "yield", "yielded"})
            => event_tx
    /\ pc \in {"select", "sending", "yield", "yielded"} => ~pending_commit
    /\ pc \in {"yield", "yielded"} => turn # "none"

(***************************************************************************)
(* A command changes neither a loop in flight to none nor takes its        *)
(* sender, and leaves pending_commit alone.                                *)
(***************************************************************************)
LEMMA CommandKeepsSender ==
    ASSUME Command, SenderInv
    PROVE  SenderInv'
<1>1. CASE Prompt
  BY <1>1 DEF Prompt, BeginLoop, Resume, Receiving, SenderInv
<1>2. CASE Run
  BY <1>2 DEF Run, BeginLoop, Resume, Receiving, SenderInv
<1>3. CASE Submit
  <2>1. /\ pc' = (IF pc = "select" THEN "top" ELSE pc)
        /\ UNCHANGED <<turn, pending_commit, event_tx>>
    BY <1>3 DEF Submit, Resume
  <2> QED BY <2>1 DEF SenderInv
<1>4. CASE Abort
  BY <1>4 DEF Abort, Resume, SenderInv
<1>5. CASE ClearQueues
  BY <1>5 DEF ClearQueues, Resume, SenderInv
<1>6. CASE DrainQueue
  BY <1>6 DEF DrainQueue, Resume, SenderInv
<1>7. CASE EditQueueEntry
  BY <1>7 DEF EditQueueEntry, Resume, SenderInv
<1>8. CASE RemoveQueueEntry
  BY <1>8 DEF RemoveQueueEntry, Resume, SenderInv
<1>9. CASE ChangeMessages
  BY <1>9 DEF ChangeMessages, Resume, SenderInv, loopVars
<1>10. CASE SetProviderRequestOverride
  BY <1>10 DEF SetProviderRequestOverride, Resume, SenderInv
<1>11. CASE Shutdown
  BY <1>11 DEF Shutdown, LeaveLoop, SenderInv
<1> QED
  BY <1>1, <1>2, <1>3, <1>4, <1>5, <1>6, <1>7, <1>8, <1>9, <1>10, <1>11 DEF Command

\* Every step of the actor keeps SenderInv.
LEMMA StepKeepsSender ==
    ASSUME ActorStep, SenderInv
    PROVE  SenderInv'
<1>1. CASE TopConsumerGone
  BY <1>1 DEF TopConsumerGone, SenderInv
<1>2. CASE TopSelect
  BY <1>2 DEF TopSelect, SenderInv, loopVars
<1>3. CASE DiscardEvent
  BY <1>3 DEF DiscardEvent, SenderInv, actorVars
<1>4. CASE PendingCommit
  BY <1>4 DEF PendingCommit, CommitTurn, SenderInv
<1>5. CASE DrainedCommit
  BY <1>5 DEF DrainedCommit, SenderInv
<1>6. CASE TakeEvent
  BY <1>6 DEF TakeEvent, SenderInv
<1>7. CASE TurnContinues
  BY <1>7 DEF TurnContinues, SenderInv, loopVars
<1>8. CASE LoopDone
  BY <1>8 DEF LoopDone, CommitTurn, SenderInv
<1>9. CASE SendFinishes
  BY <1>9 DEF SendFinishes, SenderInv
<1>10. CASE YieldEnds
  BY <1>10 DEF YieldEnds, CommitTurn, SenderInv, loopVars
<1>11. CASE StartNextTurn
  BY <1>11 DEF StartNextTurn, CommitTurn, SenderInv
<1>12. CASE MailboxClosed
  BY <1>12 DEF MailboxClosed, LeaveLoop, SenderInv
<1>13. CASE SendAbandoned
  BY <1>13 DEF SendAbandoned, SenderInv
<1> QED
  BY <1>1, <1>2, <1>3, <1>4, <1>5, <1>6, <1>7, <1>8, <1>9, <1>10, <1>11, <1>12,
     <1>13 DEF ActorStep

(***************************************************************************)
(* Polling next_event starts, runs and ends turns of the loop in flight;   *)
(* it never makes the runner disappear.  Of its steps only                 *)
(* PrepareProviderRequest touches the override.                            *)
(***************************************************************************)
LEMMA AdvanceKeepsRunner ==
    ASSUME turn # "none", Advance
    PROVE  /\ turn' # "none"
           /\ \/ PrepareProviderRequest
              \/ UNCHANGED <<ctx_override, override_consumed, override_uses>>
<1>1. CASE StartTurn
  BY <1>1 DEF StartTurn
<1>2. CASE Poll
  BY <1>2 DEF Poll
<1>3. CASE Suspend
  BY <1>3 DEF Suspend
<1>4. CASE NodeStep
  <2>1. turn' # "none"
    <3>1. CASE Start
      BY <3>1 DEF Start, Complete, Proceed
    <3>2. CASE DrainQueuedInput
      BY <3>2 DEF DrainQueuedInput, Complete, Proceed
    <3>3. CASE CompactRuntimeContext
      BY <3>3 DEF CompactRuntimeContext, Complete, Proceed
    <3>4. CASE RequestNodeEnds
      BY <3>4 DEF RequestNodeEnds, Complete
    <3>5. CASE PrepareProviderRequest
      BY <3>5 DEF PrepareProviderRequest, Complete, Proceed
    <3>6. CASE ApplyProviderHook
      BY <3>6 DEF ApplyProviderHook, Complete, Proceed
    <3>7. CASE ProviderStream
      BY <3>7 DEF ProviderStream, Complete, Proceed
    <3>8. CASE RefuseToolCalls
      BY <3>8 DEF RefuseToolCalls, Complete
    <3>9. CASE DecideAfterAssistant
      BY <3>9 DEF DecideAfterAssistant, Complete, Proceed
    <3>10. CASE ExecuteTools
      BY <3>10 DEF ExecuteTools, Complete, Proceed
    <3>11. CASE EndAfterTurn
      BY <3>11 DEF EndAfterTurn, Complete
    <3>12. CASE PrepareNextTurn
      BY <3>12 DEF PrepareNextTurn, Complete
    <3> QED
      BY <1>4, <3>1, <3>2, <3>3, <3>4, <3>5, <3>6, <3>7, <3>8, <3>9, <3>10, <3>11,
         <3>12 DEF NodeStep
  <2>2. \/ PrepareProviderRequest
        \/ UNCHANGED <<ctx_override, override_consumed, override_uses>>
    BY <1>4 DEF NodeStep, Start, DrainQueuedInput, CompactRuntimeContext,
        RequestNodeEnds, ApplyProviderHook, ProviderStream, RefuseToolCalls,
        DecideAfterAssistant, ExecuteTools, EndAfterTurn, PrepareNextTurn
  <2> QED BY <2>1, <2>2
<1> QED BY <1>1, <1>2, <1>3, <1>4 DEF Advance

(***************************************************************************)
(* run_actor always holds the sender when its select! may take an event,   *)
(* so expect("event sender is set") never panics.                          *)
(***************************************************************************)
THEOREM SenderIsHeld == ActorSpec => []SenderHeld
<1>1. ActorInit => SenderInv
  BY DEF ActorInit, TurnInit, SenderInv
<1>2. SenderInv /\ [ActorNext]_vars => SenderInv'
  <2> SUFFICES ASSUME SenderInv, [ActorNext]_vars PROVE SenderInv'
    OBVIOUS
  <2>1. CASE TurnAdvances
    BY <2>1, AdvanceKeepsRunner DEF TurnAdvances, SenderInv, actorVars
  <2>2. CASE ActorStep
    BY <2>2, StepKeepsSender
  <2>3. CASE Command
    BY <2>3, CommandKeepsSender
  <2>4. CASE CommandDropped
    BY <2>4 DEF CommandDropped, SenderInv
  <2>5. CASE Receive \/ DropStream \/ DropHandles
    BY <2>5 DEF Receive, DropStream, DropHandles, SenderInv, loopVars, actorVars
  <2>6. CASE UNCHANGED vars
    BY <2>6 DEF vars, loopVars, actorVars, SenderInv
  <2> QED BY <2>1, <2>2, <2>3, <2>4, <2>5, <2>6 DEF ActorNext
<1>3. SenderInv => SenderHeld
  BY DEF SenderInv, SenderHeld
<1> QED BY <1>1, <1>2, <1>3, PTL DEF ActorSpec
-----------------------------------------------------------------------------
(***************************************************************************)
(* Where a provider request override can be.  SetProviderRequestOverride   *)
(* may leave it in the state and in the working copy.  Once used it has    *)
(* left the working copy, and it may remain in the state only behind the   *)
(* mark that makes the commit erase it.                                    *)
(***************************************************************************)
OverrideInv ==
    /\ overrides \in 0..MaxOverrides
    /\ ctx_override \in 0..overrides
    /\ state_override \in 0..overrides
    /\ override_uses \in [1..MaxOverrides -> 0..1]
    /\ \A o \in 1..MaxOverrides : override_uses[o] = 1 =>
          /\ o <= overrides
          /\ ctx_override # o
          /\ state_override = o => override_consumed /\ turn # "none"

overrideVars == <<overrides, ctx_override, state_override, override_uses,
                  override_consumed>>

\* A step that touches no override and ends no loop keeps OverrideInv.
LEMMA OverrideUnchanged ==
    ASSUME OverrideInv, UNCHANGED overrideVars, turn # "none" => turn' # "none"
    PROVE  OverrideInv'
BY DEF OverrideInv, overrideVars

(***************************************************************************)
(* The commit erases a used override from the state.                       *)
(***************************************************************************)
LEMMA CommitKeepsOverride ==
    ASSUME OverrideInv, CommitTurn, UNCHANGED overrides
    PROVE  OverrideInv'
BY DEF OverrideInv, CommitTurn

(***************************************************************************)
(* Preparing a request uses the working copy's override for the first time *)
(* and marks it.                                                           *)
(***************************************************************************)
LEMMA PrepareKeepsOverride ==
    ASSUME OverrideInv, PrepareProviderRequest, UNCHANGED <<overrides, state_override>>
    PROVE  OverrideInv'
<1>1. turn # "none" /\ turn' # "none"
  BY DEF PrepareProviderRequest, At, Proceed, Complete
<1>2. CASE ctx_override = 0
  <2>1. UNCHANGED override_uses /\ ctx_override' = 0
        /\ (override_consumed => override_consumed')
    BY <1>2 DEF PrepareProviderRequest
  <2> QED BY <1>1, <2>1, TurnConfigValid DEF OverrideInv, TurnConfig
<1>3. CASE ctx_override # 0
  <2>1. /\ override_uses' = [override_uses EXCEPT ![ctx_override] = @ + 1]
        /\ override_consumed' = TRUE
        /\ ctx_override' = 0
    BY <1>3 DEF PrepareProviderRequest
  <2>2. ctx_override \in 1..MaxOverrides /\ override_uses[ctx_override] = 0
    BY <1>3, TurnConfigValid DEF OverrideInv, TurnConfig
  <2> QED BY <1>1, <2>1, <2>2, TurnConfigValid DEF OverrideInv, TurnConfig
<1> QED BY <1>2, <1>3

\* A command may set an override but never revives a used one.
LEMMA CommandKeepsOverride ==
    ASSUME OverrideInv, Command
    PROVE  OverrideInv'
<1>1. CASE Prompt \/ Run
  <2>1. /\ turn = "none" /\ turn' # "none"
        /\ ctx_override' = state_override /\ state_override' = 0
        /\ UNCHANGED <<overrides, override_uses>>
    BY <1>1 DEF Prompt, Run, BeginLoop
  <2> QED BY <2>1, TurnConfigValid DEF OverrideInv, TurnConfig
<1>2. CASE SetProviderRequestOverride
  <2>1. /\ overrides < MaxOverrides
        /\ overrides' = overrides + 1 /\ state_override' = overrides + 1
        /\ ctx_override' \in {overrides + 1, ctx_override}
        /\ UNCHANGED <<turn, override_uses, override_consumed>>
    BY <1>2 DEF SetProviderRequestOverride
  <2> QED BY <2>1, TurnConfigValid DEF OverrideInv, TurnConfig
<1>3. CASE Submit \/ Abort \/ ClearQueues \/ DrainQueue
  <2>1. UNCHANGED overrideVars /\ UNCHANGED turn
    BY <1>3 DEF Submit, Abort, ClearQueues, DrainQueue, overrideVars, stateVars
  <2> QED BY <2>1, OverrideUnchanged
<1>4. CASE EditQueueEntry \/ RemoveQueueEntry \/ ChangeMessages \/ Shutdown
  <2>1. UNCHANGED overrideVars /\ UNCHANGED turn
    BY <1>4 DEF EditQueueEntry, RemoveQueueEntry, ChangeMessages, Shutdown, LeaveLoop,
        overrideVars, stateVars, historyVars, loopVars
  <2> QED BY <2>1, OverrideUnchanged
<1> QED BY <1>1, <1>2, <1>3, <1>4 DEF Command

\* Every step keeps OverrideInv: a request moves an override from unused to
\* used once, and the commit clears the one that was consumed.
LEMMA StepKeepsOverride ==
    ASSUME OverrideInv, ActorStep
    PROVE  OverrideInv'
<1>1. CASE PendingCommit \/ LoopDone
  BY <1>1, CommitKeepsOverride DEF PendingCommit, LoopDone
<1>2. CASE DrainedCommit
  <2>1. CASE CommitTurn
    BY <1>2, <2>1, CommitKeepsOverride DEF DrainedCommit
  <2>2. CASE UNCHANGED <<loopVars, stateVars, abort_asked>>
    BY <1>2, <2>2, OverrideUnchanged
       DEF DrainedCommit, overrideVars, loopVars, stateVars
  <2> QED BY <1>2, <2>1, <2>2 DEF DrainedCommit
<1>3. CASE YieldEnds
  <2>1. CASE CommitTurn
    BY <1>3, <2>1, CommitKeepsOverride DEF YieldEnds
  <2>2. CASE UNCHANGED <<loopVars, stateVars, abort_asked, event_tx>>
    BY <1>3, <2>2, OverrideUnchanged DEF YieldEnds, overrideVars, loopVars, stateVars
  <2> QED BY <1>3, <2>1, <2>2 DEF YieldEnds
<1>4. CASE StartNextTurn
  <2>1. CASE CommitTurn
    BY <1>4, <2>1, CommitKeepsOverride DEF StartNextTurn
  <2>2. CASE turn' = "ready" /\ UNCHANGED overrideVars
    BY <2>2, OverrideUnchanged
  <2> QED BY <1>4, <2>1, <2>2 DEF StartNextTurn, overrideVars, stateVars
<1>5. CASE TopConsumerGone \/ TopSelect \/ DiscardEvent \/ TakeEvent \/ TurnContinues
  <2>1. UNCHANGED overrideVars /\ UNCHANGED turn
    BY <1>5 DEF TopConsumerGone, TopSelect, DiscardEvent, TakeEvent, TurnContinues,
        overrideVars, loopVars, stateVars, historyVars
  <2> QED BY <2>1, OverrideUnchanged
<1>6. CASE SendFinishes \/ MailboxClosed \/ SendAbandoned
  <2>1. UNCHANGED overrideVars /\ UNCHANGED turn
    BY <1>6 DEF SendFinishes, MailboxClosed, LeaveLoop, SendAbandoned,
        overrideVars, stateVars, historyVars
  <2> QED BY <2>1, OverrideUnchanged
<1> QED BY <1>1, <1>2, <1>3, <1>4, <1>5, <1>6 DEF ActorStep

(***************************************************************************)
(* A provider request override shapes at most one request, whenever it is  *)
(* set and however the loop it meets ends.                                 *)
(***************************************************************************)
THEOREM OverrideIsUsedOnce == ActorSpec => []OverrideUsedOnce
<1>1. ActorInit => OverrideInv
  BY TurnConfigValid DEF ActorInit, TurnInit, OverrideInv, TurnConfig
<1>2. OverrideInv /\ [ActorNext]_vars => OverrideInv'
  <2> SUFFICES ASSUME OverrideInv, [ActorNext]_vars PROVE OverrideInv'
    OBVIOUS
  <2>1. CASE TurnAdvances
    <3>1. /\ turn # "none" /\ turn' # "none"
          /\ UNCHANGED <<overrides, state_override>>
          /\ \/ PrepareProviderRequest
             \/ UNCHANGED <<ctx_override, override_consumed, override_uses>>
      BY <2>1, AdvanceKeepsRunner DEF TurnAdvances, stateVars, historyVars
    <3> QED BY <3>1, PrepareKeepsOverride, OverrideUnchanged DEF overrideVars
  <2>2. CASE ActorStep
    BY <2>2, StepKeepsOverride
  <2>3. CASE Command
    BY <2>3, CommandKeepsOverride
  <2>4. CASE CommandDropped \/ Receive \/ DropStream \/ DropHandles
    <3>1. UNCHANGED overrideVars /\ UNCHANGED turn
      BY <2>4 DEF CommandDropped, Receive, DropStream, DropHandles, overrideVars,
          loopVars, stateVars, historyVars
    <3> QED BY <3>1, OverrideUnchanged
  <2>5. CASE UNCHANGED vars
    BY <2>5, OverrideUnchanged DEF vars, loopVars, stateVars, historyVars, overrideVars
  <2> QED BY <2>1, <2>2, <2>3, <2>4, <2>5 DEF ActorNext
<1>3. OverrideInv => OverrideUsedOnce
  BY TurnConfigValid DEF OverrideInv, OverrideUsedOnce, TurnConfig
<1> QED BY <1>1, <1>2, <1>3, PTL DEF ActorSpec

-----------------------------------------------------------------------------
(* The queues under a flush, a drain and a node. *)

\* A set of numbers that is not empty has a least element, and Least finds it.
LEMMA LeastIs ==
  ASSUME NEW T, T \subseteq Nat, T # {}
  PROVE  Least(T) \in T /\ \A y \in T : Least(T) <= y
<1>1. \E x \in T : \A y \in T : x <= y
  BY LeastElement
<1> QED BY <1>1 DEF Least

\* What the module assumes of its constants, one by one.
LEMMA Limits ==
  /\ MaxToolCalls \in Nat /\ MaxTurns \in Nat \ {0} /\ HooksEnabled \in BOOLEAN
  /\ MaxBuffered \in Nat \ {0} /\ MaxOverrides \in Nat /\ MaxInputs \in Nat
  /\ \A r \in Replies \cup {NoReply} : r.calls \in Nat
  /\ ChannelCap \in Nat \ {0} /\ {MaxPrompts, MaxAdded, MaxVersion} \subseteq Nat
  /\ SubmitKinds \subseteq Kinds
BY TurnConfigValid, QueueConfigValid, ActorConfigValid
   DEF TurnConfig, QueueConfig, ActorConfig, NoReply

\* flush_pending moves the first of the pending entries to the end of the queue.
LEMMA FlushCountIs ==
  ASSUME NEW queue, NEW entries \in Seq(Entries)
  PROVE  /\ FlushCount(queue, entries) \in 0..Len(entries)
         /\ FlushCount(queue, entries) < Len(entries) =>
              ~CheckQueueCapacity(queue \o SubSeq(entries, 1, FlushCount(queue, entries)),
                                  entries[FlushCount(queue, entries) + 1].input)
<1> DEFINE fits(n) == CheckQueueCapacity(queue \o SubSeq(entries, 1, n), entries[n + 1].input)
           T == {n \in 0..Len(entries) : n < Len(entries) => ~fits(n)}
<1>1. Len(entries) \in Nat
  OBVIOUS
<1>2. FlushCount(queue, entries) = Least(T)
  BY DEF FlushCount
<1> HIDE DEF fits
<1>3. Len(entries) \in T /\ T \subseteq Nat
  BY <1>1
<1>4. Least(T) \in T
  BY <1>3, LeastIs
<1> QED BY <1>2, <1>4 DEF fits

\* A flush keeps the order, and leaves entries pending only in front of a queue that
\* has no room for one of them.
LEMMA FlushFacts ==
  ASSUME NEW queues \in Queues, pending \in Queues, FlushPending(queues)
  PROVE  /\ ctx_queues' \in Queues /\ pending' \in Queues
         /\ \A k \in Kinds : ctx_queues'[k] \o pending'[k] = queues[k] \o pending[k]
         /\ \A k \in Kinds : pending'[k] # << >> =>
              \E input \in 1..MaxInputs : ~CheckQueueCapacity(ctx_queues'[k], input)
<1> DEFINE n(k) == FlushCount(queues[k], pending[k])
           moved(k) == SubSeq(pending[k], 1, n(k))
           rest(k) == SubSeq(pending[k], n(k) + 1, Len(pending[k]))
<1>1. /\ ctx_queues' = [k \in Kinds |-> queues[k] \o moved(k)]
      /\ pending' = [k \in Kinds |-> rest(k)]
  BY DEF FlushPending
<1>2. \A k \in Kinds : queues[k] \in Seq(Entries) /\ pending[k] \in Seq(Entries)
  BY DEF Queues
<1>3. ASSUME NEW k \in Kinds
      PROVE  /\ moved(k) \in Seq(Entries) /\ rest(k) \in Seq(Entries)
             /\ moved(k) \o rest(k) = pending[k]
             /\ rest(k) # << >> =>
                  \E input \in 1..MaxInputs : ~CheckQueueCapacity(queues[k] \o moved(k), input)
  <2>1. n(k) \in 0..Len(pending[k]) /\ Len(pending[k]) \in Nat
    BY <1>2, FlushCountIs
  <2>2. n(k) < Len(pending[k]) =>
          ~CheckQueueCapacity(queues[k] \o moved(k), pending[k][n(k) + 1].input)
    BY <1>2, FlushCountIs
  <2>3. pending[k] \in Seq(Entries)
    BY <1>2
  <2>4. \A m \in 0..Len(pending[k]) :
          /\ SubSeq(pending[k], 1, m) \in Seq(Entries)
          /\ SubSeq(pending[k], m + 1, Len(pending[k])) \in Seq(Entries)
          /\ SubSeq(pending[k], 1, m) \o SubSeq(pending[k], m + 1, Len(pending[k])) = pending[k]
          /\ m = Len(pending[k]) => SubSeq(pending[k], m + 1, Len(pending[k])) = << >>
    <3> TAKE m \in 0..Len(pending[k])
    <3>1. \A i \in 1..Len(pending[k]) : pending[k][i] \in Entries
      BY <2>3, ElementOfSeq
    <3>2. SubSeq(pending[k], 1, m) \in Seq(Entries)
          /\ SubSeq(pending[k], m + 1, Len(pending[k])) \in Seq(Entries)
      BY <2>1, <3>1, SubSeqProperties
    <3>3. 1 \in 1..(Len(pending[k]) + 1) /\ m \in (1 - 1)..Len(pending[k])
          /\ Len(pending[k]) \in m..Len(pending[k])
      BY <2>1
    <3>4. SubSeq(pending[k], 1, m) \o SubSeq(pending[k], m + 1, Len(pending[k]))
            = SubSeq(pending[k], 1, Len(pending[k]))
      BY <2>3, <3>3, ConcatAdjacentSubSeq
    <3>5. m = Len(pending[k]) => SubSeq(pending[k], m + 1, Len(pending[k])) = << >>
      BY <2>1, SubSeqEmpty
    <3> QED BY <2>3, <3>2, <3>4, <3>5, SubSeqFull
  <2>5. n(k) < Len(pending[k]) => pending[k][n(k) + 1].input \in 1..MaxInputs
    <3>1. n(k) < Len(pending[k]) => n(k) + 1 \in 1..Len(pending[k])
      BY <2>1
    <3>2. \A i \in 1..Len(pending[k]) : pending[k][i].input \in 1..MaxInputs
      <4> TAKE i \in 1..Len(pending[k])
      <4>1. pending[k][i] \in Entries
        BY <2>3, ElementOfSeq
      <4> QED BY <4>1 DEF Entries
    <3> QED BY <3>1, <3>2
  <2>6. rest(k) # << >> => n(k) < Len(pending[k])
    BY <2>1, <2>4
  <2> QED BY <2>1, <2>2, <2>4, <2>5, <2>6
<1> HIDE DEF n, moved, rest
<1>4. \A k \in Kinds : queues[k] \o moved(k) \in Seq(Entries)
  BY <1>2, <1>3, ConcatProperties
<1>5. \A k \in Kinds : (queues[k] \o moved(k)) \o rest(k) = queues[k] \o pending[k]
  <2> TAKE k \in Kinds
  <2>1. queues[k] \in Seq(Entries) /\ moved(k) \in Seq(Entries) /\ rest(k) \in Seq(Entries)
    BY <1>2, <1>3
  <2>2. ASSUME NEW a \in Seq(Entries), NEW b \in Seq(Entries), NEW c \in Seq(Entries)
        PROVE  (a \o b) \o c = a \o (b \o c)
    BY ConcatAssociative
  <2>3. (queues[k] \o moved(k)) \o rest(k) = queues[k] \o (moved(k) \o rest(k))
    BY <2>1, <2>2, Zenon
  <2>4. moved(k) \o rest(k) = pending[k]
    BY <1>3
  <2> QED BY <2>3, <2>4, Zenon
<1> QED BY <1>1, <1>3, <1>4, <1>5 DEF Queues

\* What a node leaves: the turn goes on with the queues the node made, or is
\* complete and the pending entries stand behind them.
Leaves(queues) ==
  /\ ctx_queues' \in Queues /\ pending' \in Queues
  /\ \A k \in Kinds : ctx_queues'[k] \o pending'[k] = queues[k] \o pending[k]

\* What a complete turn leaves pending found no room.
Completed ==
  \A k \in Kinds : pending'[k] # << >> =>
     \E input \in 1..MaxInputs : ~CheckQueueCapacity(ctx_queues'[k], input)

\* A node that completes the turn.
LEMMA CompleteFacts ==
  ASSUME NEW queues \in Queues, pending \in Queues, NEW outcome, Complete(outcome, queues)
  PROVE  Leaves(queues) /\ Completed /\ turn' = outcome /\ node' = "Finish" /\ polling' = FALSE
<1>1. FlushPending(queues)
  BY DEF Complete
<1> QED BY <1>1, FlushFacts DEF Leaves, Completed, Complete

\* A node that goes on, unless the turn was cancelled meanwhile.
LEMMA ProceedFacts ==
  ASSUME NEW queues \in Queues, pending \in Queues, NEW next, Proceed(next, queues)
  PROVE  /\ Leaves(queues)
         /\ \/ /\ cancelled /\ Completed /\ turn' = "done" /\ node' = "Finish"
               /\ polling' = FALSE
            \/ ~cancelled /\ turn' = turn /\ node' = next /\ polling' = polling
<1>1. CASE cancelled
  BY <1>1, CompleteFacts DEF Proceed
<1>2. CASE ~cancelled
  BY <1>2 DEF Proceed, Leaves
<1> QED BY <1>1, <1>2

\* The events of a poll are counted up to the bound.
LEMMA EmitFacts ==
  ASSUME NEW n \in Nat, buffered \in 0..MaxBuffered, Emit(n)
  PROVE  buffered' \in 0..MaxBuffered
BY Limits DEF Emit

(***************************************************************************)
(* Moving inputs: from queues into the conversation they keep their order. *)
(***************************************************************************)
LEMMA InputsOfFacts ==
  ASSUME NEW q \in Seq(Entries)
  PROVE  /\ InputsOf(q) \in Seq(1..MaxInputs) /\ Len(InputsOf(q)) = Len(q)
         /\ \A i \in 1..Len(q) : InputsOf(q)[i] = q[i].input
<1>1. Len(q) \in Nat /\ DOMAIN q = 1..Len(q)
  BY LenProperties
<1>2. \A i \in 1..Len(q) : q[i].input \in 1..MaxInputs
  <2> TAKE i \in 1..Len(q)
  <2>1. q[i] \in Entries
    BY ElementOfSeq
  <2> QED BY <2>1 DEF Entries
<1>3. InputsOf(q) = [i \in 1..Len(q) |-> q[i].input]
  BY <1>1 DEF InputsOf
<1>4. InputsOf(q) \in [1..Len(q) -> 1..MaxInputs]
  BY <1>2, <1>3
<1> QED BY <1>1, <1>3, <1>4

\* The inputs of one queue behind another.
LEMMA InputsOfConcat ==
  ASSUME NEW q \in Seq(Entries), NEW r \in Seq(Entries)
  PROVE  InputsOf(q \o r) = InputsOf(q) \o InputsOf(r)
<1>1. /\ q \o r \in Seq(Entries) /\ Len(q \o r) = Len(q) + Len(r)
      /\ \A i \in 1..Len(q) + Len(r) :
            (q \o r)[i] = IF i <= Len(q) THEN q[i] ELSE r[i - Len(q)]
  BY ConcatProperties
<1>2. Len(q) \in Nat /\ Len(r) \in Nat
  OBVIOUS
<1>3. /\ InputsOf(q) \o InputsOf(r) \in Seq(1..MaxInputs)
      /\ Len(InputsOf(q) \o InputsOf(r)) = Len(q) + Len(r)
      /\ \A i \in 1..Len(q) + Len(r) :
            (InputsOf(q) \o InputsOf(r))[i] =
               IF i <= Len(q) THEN InputsOf(q)[i] ELSE InputsOf(r)[i - Len(q)]
  <2>1. /\ InputsOf(q) \in Seq(1..MaxInputs) /\ Len(InputsOf(q)) = Len(q)
        /\ InputsOf(r) \in Seq(1..MaxInputs) /\ Len(InputsOf(r)) = Len(r)
    BY InputsOfFacts
  <2> HIDE DEF InputsOf
  <2>2. /\ InputsOf(q) \o InputsOf(r) \in Seq(1..MaxInputs)
        /\ Len(InputsOf(q) \o InputsOf(r)) = Len(InputsOf(q)) + Len(InputsOf(r))
        /\ \A i \in 1..Len(InputsOf(q)) + Len(InputsOf(r)) :
              (InputsOf(q) \o InputsOf(r))[i] =
                 IF i <= Len(InputsOf(q)) THEN InputsOf(q)[i]
                 ELSE InputsOf(r)[i - Len(InputsOf(q))]
    BY <2>1, ConcatProperties, Zenon
  <2> QED BY <2>1, <2>2, Zenon
<1>4. \A i \in 1..Len(q) + Len(r) : InputsOf(q \o r)[i] = (InputsOf(q) \o InputsOf(r))[i]
  <2> TAKE i \in 1..Len(q) + Len(r)
  <2>1. InputsOf(q \o r)[i] = (q \o r)[i].input
    BY <1>1, InputsOfFacts
  <2>2. CASE i <= Len(q)
    <3>1. i \in 1..Len(q)
      BY <1>2, <2>2
    <3> QED BY <1>1, <1>3, <2>1, <2>2, <3>1, InputsOfFacts
  <2>3. CASE ~(i <= Len(q))
    <3>1. i - Len(q) \in 1..Len(r)
      BY <1>2, <2>3
    <3> QED BY <1>1, <1>3, <2>1, <2>3, <3>1, InputsOfFacts
  <2> QED BY <2>2, <2>3
<1>5. InputsOf(q \o r) \in Seq(1..MaxInputs) /\ Len(InputsOf(q \o r)) = Len(q) + Len(r)
  BY <1>1, InputsOfFacts
<1> QED BY <1>3, <1>4, <1>5, SeqEqual

\* Draining splits a queue.
LEMMA DrainFacts ==
  ASSUME NEW q \in Seq(Entries), NEW mode
  PROVE  /\ Drained(q, mode) \in Seq(Entries) /\ Undrained(q, mode) \in Seq(Entries)
         /\ InputsOf(Drained(q, mode)) \o InputsOf(Undrained(q, mode)) = InputsOf(q)
<1>1. << >> \in Seq(Entries) /\ q \o << >> = q
  BY EmptySeq, ConcatEmptySeq
<1>2. CASE mode = "All" \/ q = << >>
  <2>1. Drained(q, mode) = q /\ Undrained(q, mode) = << >>
    BY <1>2 DEF Drained, Undrained
  <2> QED BY <1>1, <2>1, InputsOfConcat
<1>3. CASE ~(mode = "All" \/ q = << >>)
  <2>1. Drained(q, mode) = <<Head(q)>> /\ Undrained(q, mode) = Tail(q)
    BY <1>3 DEF Drained, Undrained
  <2>2. <<Head(q)>> \in Seq(Entries) /\ Tail(q) \in Seq(Entries)
    BY <1>3, HeadTailProperties
  <2>3. <<Head(q)>> \o Tail(q) = q
    <3>1. 1 \in 1..Len(q) /\ Len(q) \in 1..Len(q) /\ Len(q) \in Nat
      BY <1>3, EmptySeq
    <3>2. SubSeq(q, 1, Len(q)) = <<q[1]>> \o SubSeq(q, 1 + 1, Len(q))
      BY <3>1, SubSeqRecursiveFirst
    <3>3. Head(q) = q[1] /\ Tail(q) = SubSeq(q, 2, Len(q)) /\ SubSeq(q, 1, Len(q)) = q
      BY <1>3, TailIsSubSeq, SubSeqFull
    <3> QED BY <3>2, <3>3
  <2> QED BY <2>1, <2>2, <2>3, InputsOfConcat
<1> QED BY <1>2, <1>3

\* Sequences of inputs.
InputSeqs == Seq(1..MaxInputs)

\* Joining them is associative.
LEMMA Regroup ==
  \A a, b, c \in InputSeqs : (a \o b) \o c = a \o (b \o c)
<1> DEFINE regroup(a, b, c) == (a \o b) \o c = a \o (b \o c)
<1>1. \A T : \A a, b, c \in Seq(T) : regroup(a, b, c)
  BY ConcatAssociative, Zenon
<1>2. \A a, b, c \in InputSeqs : regroup(a, b, c)
  <2> HIDE DEF regroup
  <2> QED BY <1>1, Zenon DEF InputSeqs
<1> QED BY <1>2, Zenon

\* The part of the types that the order of inputs rests on.
QueuesTyped ==
  /\ ctx_queues \in Queues /\ pending \in Queues
  /\ delivered \in [Kinds -> Seq(1..MaxInputs)]

\* The inputs of a queue that the working copy has seen, oldest first.
Front(k) == delivered[k] \o InputsOf(ctx_queues[k]) \o InputsOf(pending[k])

\* The two ways a node leaves the loop: ...
Ended ==
  /\ turn' \in {"continues", "done"} /\ node' = "Finish" /\ polling' = FALSE
  /\ Completed

\* ... or goes on.
GoesOn == ~cancelled /\ turn' = "running" /\ polling' = TRUE /\ node' \in TurnNodes

\* A node made `queues` of the working copy's: what it took out is delivered.
HandsOver(queues) ==
  /\ queues \in Queues
  /\ delivered' \in [Kinds -> Seq(1..MaxInputs)]
  /\ \A k \in Kinds : delivered'[k] \o InputsOf(queues[k])
                        = delivered[k] \o InputsOf(ctx_queues[k])

\* A node that goes on leaves the queues it made.
LEMMA NodesProceed ==
  ASSUME NEW queues \in Queues, pending \in Queues, turn = "running", polling = TRUE,
         NEW next \in TurnNodes, Proceed(next, queues)
  PROVE  Leaves(queues) /\ (Ended \/ GoesOn)
<1>1. /\ Leaves(queues)
      /\ \/ /\ cancelled /\ Completed /\ turn' = "done" /\ node' = "Finish"
            /\ polling' = FALSE
         \/ ~cancelled /\ turn' = turn /\ node' = next /\ polling' = polling
  BY ProceedFacts
<1> QED BY <1>1 DEF Ended, GoesOn

\* So does one that completes.
LEMMA NodesComplete ==
  ASSUME NEW queues \in Queues, pending \in Queues,
         NEW outcome \in {"continues", "done"}, Complete(outcome, queues)
  PROVE  Leaves(queues) /\ Ended
<1>1. Leaves(queues) /\ Completed /\ turn' = outcome /\ node' = "Finish" /\ polling' = FALSE
  BY CompleteFacts
<1> QED BY <1>1 DEF Ended

\* Draining moves inputs to the end of those delivered.
LEMMA MovesTo ==
  ASSUME NEW a \in Seq(1..MaxInputs), NEW q \in Seq(Entries), NEW mode
  PROVE  /\ a \o InputsOf(Drained(q, mode)) \in Seq(1..MaxInputs)
         /\ (a \o InputsOf(Drained(q, mode))) \o InputsOf(Undrained(q, mode))
               = a \o InputsOf(q)
<1> DEFINE d == InputsOf(Drained(q, mode))
           u == InputsOf(Undrained(q, mode))
<1>1. d \in Seq(1..MaxInputs) /\ u \in Seq(1..MaxInputs) /\ d \o u = InputsOf(q)
  BY DrainFacts, InputsOfFacts
<1> HIDE DEF d, u
<1>2. a \o d \in Seq(1..MaxInputs)
  BY <1>1, ConcatProperties
<1>3. a \in InputSeqs /\ d \in InputSeqs /\ u \in InputSeqs
  BY <1>1 DEF InputSeqs
<1>4. (a \o d) \o u = a \o (d \o u)
  BY <1>3, Regroup, Zenon
<1> QED BY <1>1, <1>2, <1>4 DEF d, u

\* DrainQueuedInput takes all interjections and the steering its mode allows.
LEMMA DrainHandsOver ==
  ASSUME QueuesTyped, DrainQueuedInput
  PROVE  \E queues : HandsOver(queues) /\ Proceed("CompactRuntimeContext", queues)
<1> DEFINE queues == [ctx_queues EXCEPT !["interjection"] = << >>,
                                        !["steering"] = Undrained(@, SteeringMode)]
           i0 == ctx_queues["interjection"]
           s0 == ctx_queues["steering"]
<1>0. {"interjection", "steering", "follow_up"} = Kinds
  BY DEF Kinds
<1>1. /\ i0 \in Seq(Entries) /\ s0 \in Seq(Entries) /\ ctx_queues["follow_up"] \in Seq(Entries)
      /\ \A k \in Kinds : delivered[k] \in Seq(1..MaxInputs)
  BY <1>0 DEF QueuesTyped, Queues
<1>2. delivered' = [delivered EXCEPT !["interjection"] = @ \o InputsOf(i0),
                           !["steering"] = @ \o InputsOf(Drained(s0, SteeringMode))]
      /\ Proceed("CompactRuntimeContext", queues)
  BY DEF DrainQueuedInput
<1>3. InputsOf(i0) \in Seq(1..MaxInputs) /\ InputsOf(<< >>) = << >>
      /\ << >> \in Seq(Entries)
  BY <1>1, InputsOfFacts, EmptySeq
<1>4. /\ delivered["interjection"] \o InputsOf(i0) \in Seq(1..MaxInputs)
      /\ (delivered["interjection"] \o InputsOf(i0)) \o << >>
            = delivered["interjection"] \o InputsOf(i0)
  BY <1>0, <1>1, <1>3, ConcatProperties, ConcatEmptySeq
<1>5. /\ delivered["steering"] \o InputsOf(Drained(s0, SteeringMode)) \in Seq(1..MaxInputs)
      /\ (delivered["steering"] \o InputsOf(Drained(s0, SteeringMode)))
            \o InputsOf(Undrained(s0, SteeringMode)) = delivered["steering"] \o InputsOf(s0)
      /\ Undrained(s0, SteeringMode) \in Seq(Entries)
  BY <1>0, <1>1, MovesTo, DrainFacts
<1>6. /\ delivered'["interjection"] = delivered["interjection"] \o InputsOf(i0)
      /\ delivered'["steering"] = delivered["steering"] \o InputsOf(Drained(s0, SteeringMode))
      /\ delivered'["follow_up"] = delivered["follow_up"]
      /\ DOMAIN delivered' = Kinds
  BY <1>0, <1>2 DEF QueuesTyped
<1>7. /\ queues["interjection"] = << >> /\ queues["steering"] = Undrained(s0, SteeringMode)
      /\ queues["follow_up"] = ctx_queues["follow_up"] /\ DOMAIN queues = Kinds
  BY <1>0 DEF QueuesTyped, Queues
<1>8. queues \in Queues
  <2>1. queues = [ctx_queues EXCEPT !["interjection"] = << >>,
                                    !["steering"] = Undrained(s0, SteeringMode)]
    BY <1>0 DEF QueuesTyped, Queues
  <2> QED BY <1>3, <1>5, <2>1 DEF QueuesTyped, Queues
<1>9. delivered' \in [Kinds -> Seq(1..MaxInputs)]
  BY <1>2, <1>4, <1>5 DEF QueuesTyped
<1> HIDE DEF queues, i0, s0
<1>10. \A k \in Kinds : delivered'[k] \o InputsOf(queues[k])
                          = delivered[k] \o InputsOf(ctx_queues[k])
  <2>1. delivered'["interjection"] \o InputsOf(queues["interjection"])
           = delivered["interjection"] \o InputsOf(ctx_queues["interjection"])
    BY <1>3, <1>4, <1>6, <1>7 DEF i0
  <2>2. delivered'["steering"] \o InputsOf(queues["steering"])
           = delivered["steering"] \o InputsOf(ctx_queues["steering"])
    BY <1>5, <1>6, <1>7 DEF s0
  <2>3. delivered'["follow_up"] \o InputsOf(queues["follow_up"])
           = delivered["follow_up"] \o InputsOf(ctx_queues["follow_up"])
    BY <1>6, <1>7
  <2> QED BY <1>0, <2>1, <2>2, <2>3
<1> QED BY <1>2, <1>8, <1>9, <1>10 DEF HandsOver

\* PrepareNextTurn takes the follow-ups its mode allows, or nothing.
LEMMA NextHandsOver ==
  ASSUME QueuesTyped, PrepareNextTurn
  PROVE  \E queues, outcome : /\ HandsOver(queues) /\ outcome \in {"continues", "done"}
                              /\ Complete(outcome, queues)
<1> DEFINE f0 == ctx_queues["follow_up"]
           queues == [ctx_queues EXCEPT !["follow_up"] = Undrained(@, FollowUpMode)]
<1>0. "follow_up" \in Kinds
  BY DEF Kinds
<1>1. f0 \in Seq(Entries) /\ \A k \in Kinds : delivered[k] \in Seq(1..MaxInputs)
  BY <1>0 DEF QueuesTyped, Queues
<1>2. CASE UNCHANGED delivered /\ \E outcome \in {"continues", "done"} : Complete(outcome, ctx_queues)
  <2>1. HandsOver(ctx_queues)
    BY <1>2 DEF HandsOver, QueuesTyped
  <2> QED BY <1>2, <2>1
<1>3. CASE /\ delivered' = [delivered EXCEPT !["follow_up"] = @ \o InputsOf(Drained(f0, FollowUpMode))]
           /\ Complete("continues", queues)
  <2>1. /\ delivered["follow_up"] \o InputsOf(Drained(f0, FollowUpMode)) \in Seq(1..MaxInputs)
        /\ (delivered["follow_up"] \o InputsOf(Drained(f0, FollowUpMode)))
              \o InputsOf(Undrained(f0, FollowUpMode)) = delivered["follow_up"] \o InputsOf(f0)
        /\ Undrained(f0, FollowUpMode) \in Seq(Entries)
    BY <1>0, <1>1, MovesTo, DrainFacts
  <2>2. delivered' \in [Kinds -> Seq(1..MaxInputs)]
    BY <1>3, <2>1 DEF QueuesTyped
  <2>3. queues = [ctx_queues EXCEPT !["follow_up"] = Undrained(f0, FollowUpMode)]
    BY <1>0 DEF QueuesTyped, Queues
  <2>4. queues \in Queues
    BY <2>1, <2>3 DEF QueuesTyped, Queues
  <2>5. /\ queues["follow_up"] = Undrained(f0, FollowUpMode)
        /\ \A k \in Kinds : k # "follow_up" => queues[k] = ctx_queues[k]
        /\ delivered'["follow_up"] = delivered["follow_up"] \o InputsOf(Drained(f0, FollowUpMode))
        /\ \A k \in Kinds : k # "follow_up" => delivered'[k] = delivered[k]
    BY <1>0, <1>3, <2>3 DEF QueuesTyped, Queues
  <2>6. Complete("continues", queues)
    BY <1>3
  <2> HIDE DEF queues
  <2>7. \A k \in Kinds : delivered'[k] \o InputsOf(queues[k])
                          = delivered[k] \o InputsOf(ctx_queues[k])
    <3> TAKE k \in Kinds
    <3>1. CASE k = "follow_up"
      BY <2>1, <2>5, <3>1
    <3>2. CASE k # "follow_up"
      BY <2>5, <3>2
    <3> QED BY <3>1, <3>2
  <2> QED BY <2>2, <2>4, <2>6, <2>7 DEF HandsOver
<1>4. /\ \/ UNCHANGED delivered /\ (assistant.stop = "ToolUse" \/ ~\E k \in Kinds : ctx_queues[k] # << >>)
         \/ /\ delivered' = [delivered EXCEPT !["follow_up"] = @ \o InputsOf(Drained(f0, FollowUpMode))]
            /\ ~(assistant.stop = "ToolUse") /\ \E k \in Kinds : ctx_queues[k] # << >>
      /\ IF assistant.stop = "ToolUse" THEN Complete("continues", ctx_queues)
         ELSE IF \E k \in Kinds : ctx_queues[k] # << >> THEN Complete("continues", queues)
         ELSE Complete("done", ctx_queues)
  BY DEF PrepareNextTurn
<1> HIDE DEF f0, queues
<1> QED BY <1>2, <1>3, <1>4

\* Every node ends the turn or goes on, and hands queues over.
LEMMA NodeOutcome ==
  ASSUME QueuesTyped, NodeStep
  PROVE  /\ turn = "running" /\ polling = TRUE
         /\ Ended \/ GoesOn
         /\ \E queues : HandsOver(queues) /\ Leaves(queues)
<1>0. ctx_queues \in Queues /\ pending \in Queues
  BY DEF QueuesTyped
<1>1. ASSUME UNCHANGED delivered PROVE HandsOver(ctx_queues)
  BY <1>1 DEF HandsOver, QueuesTyped
<1>2. CASE DrainQueuedInput
  <2>1. turn = "running" /\ polling = TRUE
    BY <1>2 DEF DrainQueuedInput, At
  <2>2. PICK queues : HandsOver(queues) /\ Proceed("CompactRuntimeContext", queues)
    BY <1>2, DrainHandsOver
  <2>3. queues \in Queues /\ "CompactRuntimeContext" \in TurnNodes
    BY <2>2 DEF HandsOver, TurnNodes
  <2> QED BY <1>0, <2>1, <2>2, <2>3, NodesProceed
<1>3. CASE PrepareNextTurn
  <2>1. turn = "running" /\ polling = TRUE
    BY <1>3 DEF PrepareNextTurn, At
  <2>2. PICK queues, outcome : /\ HandsOver(queues) /\ outcome \in {"continues", "done"}
                               /\ Complete(outcome, queues)
    BY <1>3, NextHandsOver
  <2>3. queues \in Queues
    BY <2>2 DEF HandsOver
  <2> QED BY <1>0, <2>1, <2>2, <2>3, NodesComplete
<1>4. ASSUME UNCHANGED delivered, turn = "running", polling = TRUE,
             \/ Complete("done", ctx_queues)
             \/ \E next \in TurnNodes : Proceed(next, ctx_queues)
      PROVE  (Ended \/ GoesOn) /\ \E queues : HandsOver(queues) /\ Leaves(queues)
  BY <1>0, <1>1, <1>4, NodesProceed, NodesComplete
<1>5. CASE Start \/ CompactRuntimeContext \/ PrepareProviderRequest \/ ApplyProviderHook
  <2>1. UNCHANGED delivered /\ turn = "running" /\ polling = TRUE
    BY <1>5 DEF Start, CompactRuntimeContext, PrepareProviderRequest, ApplyProviderHook, At
  <2>2. \/ Complete("done", ctx_queues)
        \/ \E next \in TurnNodes : Proceed(next, ctx_queues)
    BY <1>5 DEF Start, CompactRuntimeContext, PrepareProviderRequest, ApplyProviderHook,
        TurnNodes
  <2> QED BY <1>4, <2>1, <2>2
<1>6. CASE RequestNodeEnds \/ RefuseToolCalls \/ EndAfterTurn
  <2>1. UNCHANGED delivered /\ turn = "running" /\ polling = TRUE
        /\ Complete("done", ctx_queues)
    BY <1>6 DEF RequestNodeEnds, RefuseToolCalls, EndAfterTurn, At
  <2> QED BY <1>4, <2>1
<1>7. CASE ProviderStream \/ DecideAfterAssistant \/ ExecuteTools
  <2>1. UNCHANGED delivered /\ turn = "running" /\ polling = TRUE
    BY <1>7 DEF ProviderStream, DecideAfterAssistant, ExecuteTools, At
  <2>2. \/ Complete("done", ctx_queues)
        \/ \E next \in TurnNodes : Proceed(next, ctx_queues)
    BY <1>7 DEF ProviderStream, DecideAfterAssistant, ExecuteTools, TurnNodes
  <2> QED BY <1>4, <2>1, <2>2
<1> QED BY <1>2, <1>3, <1>5, <1>6, <1>7 DEF NodeStep

\* A node moves inputs from queues into the conversation and from the pending
\* queues into the working copy's, and neither changes their order.
LEMMA FrontStays ==
  ASSUME QueuesTyped, NEW queues, HandsOver(queues), Leaves(queues)
  PROVE  QueuesTyped' /\ \A k \in Kinds : Front(k)' = Front(k)
<1>1. QueuesTyped'
  BY DEF QueuesTyped, HandsOver, Leaves
<1>2. ASSUME NEW k \in Kinds PROVE Front(k)' = Front(k)
  <2> DEFINE Ins == 1..MaxInputs
  <2>1. ASSUME NEW d \in Seq(Ins), NEW q \in Seq(Entries), NEW r \in Seq(Entries)
        PROVE  (d \o InputsOf(q)) \o InputsOf(r) = d \o InputsOf(q \o r)
    <3>1. /\ InputsOf(q) \in Seq(Ins) /\ InputsOf(r) \in Seq(Ins)
          /\ InputsOf(q \o r) = InputsOf(q) \o InputsOf(r)
      BY InputsOfFacts, InputsOfConcat
    <3> HIDE DEF Ins
    <3>3. d \in InputSeqs /\ InputsOf(q) \in InputSeqs /\ InputsOf(r) \in InputSeqs
      BY <3>1 DEF InputSeqs, Ins
    <3>2. (d \o InputsOf(q)) \o InputsOf(r) = d \o (InputsOf(q) \o InputsOf(r))
      BY <3>3, Regroup, Zenon
    <3> QED BY <3>1, <3>2
  <2>2. /\ ctx_queues[k] \in Seq(Entries) /\ pending[k] \in Seq(Entries)
        /\ ctx_queues'[k] \in Seq(Entries) /\ pending'[k] \in Seq(Entries)
        /\ queues[k] \in Seq(Entries)
        /\ delivered[k] \in Seq(Ins) /\ delivered'[k] \in Seq(Ins)
    BY <1>1 DEF QueuesTyped, HandsOver, Queues
  <2>3. (delivered'[k] \o InputsOf(ctx_queues'[k])) \o InputsOf(pending'[k])
           = delivered'[k] \o InputsOf(ctx_queues'[k] \o pending'[k])
    BY <2>1, <2>2, Zenon
  <2>4. ctx_queues'[k] \o pending'[k] = queues[k] \o pending[k]
    BY DEF Leaves
  <2>5. delivered'[k] \o InputsOf(queues[k] \o pending[k])
           = (delivered'[k] \o InputsOf(queues[k])) \o InputsOf(pending[k])
    BY <2>1, <2>2, Zenon
  <2>6. delivered'[k] \o InputsOf(queues[k]) = delivered[k] \o InputsOf(ctx_queues[k])
    BY DEF HandsOver
  <2>7. /\ Front(k)' = (delivered'[k] \o InputsOf(ctx_queues'[k])) \o InputsOf(pending'[k])
        /\ Front(k) = (delivered[k] \o InputsOf(ctx_queues[k])) \o InputsOf(pending[k])
    BY DEF Front, InputsOf
  <2> QED BY <2>3, <2>4, <2>5, <2>6, <2>7
<1> QED BY <1>1, <1>2

-----------------------------------------------------------------------------
(* The types of the loop and of the actor. *)

(***************************************************************************)
(* Messages of a conversation.                                             *)
(***************************************************************************)
LEMMA AsMessagesIs ==
  ASSUME NEW q \in Seq(Entries)
  PROVE  /\ AsMessages(q) \in Seq(Messages)
         /\ \A i \in DOMAIN AsMessages(q) : ~MakesCalls(AsMessages(q)[i])
<1>1. Len(q) \in Nat /\ DOMAIN q = 1..Len(q)
  BY LenProperties
<1> DEFINE m(i) == [Message("user", 0, 1) EXCEPT !.id = q[i].id]
<1>2. \A i \in 1..Len(q) : m(i) \in Messages /\ m(i).role = "user"
  <2> TAKE i \in 1..Len(q)
  <2>1. q[i] \in Entries
    BY ElementOfSeq
  <2> QED BY <2>1 DEF Message, Messages, NoId, Entries, Ids, Kinds, Roles
<1>3. AsMessages(q) = [i \in 1..Len(q) |-> m(i)]
  BY <1>1 DEF AsMessages
<1> HIDE DEF m
<1>4. AsMessages(q) \in [1..Len(q) -> Messages]
  BY <1>2, <1>3
<1>5. \A i \in 1..Len(q) : AsMessages(q)[i].role = "user"
  BY <1>2, <1>3
<1> QED BY <1>1, <1>4, <1>5 DEF MakesCalls

\* The types, with the bound on turns and the place of a continued turn.
TypeInv ==
  /\ ActorTypeOK
  /\ turn_no > MaxTurns => turn = "done"
  /\ pc \in {"yield", "yielded"} => turn = "continues"

\* What a node makes of the rest of the working copy.
LoopScalars ==
  /\ {attached, cancelled, override_consumed} \subseteq BOOLEAN
  /\ turn_no \in 0..(MaxTurns + 1)
  /\ turn_no > MaxTurns => turn = "done"
  /\ messages \in Seq(Messages)
  /\ assistant \in Replies \cup {NoReply}
  /\ pending_counter \in Nat
  /\ buffered \in 0..MaxBuffered
  /\ ctx_override \in 0..MaxOverrides
  /\ override_uses \in [1..MaxOverrides -> Nat]

\* Counting events keeps the counter below its bound.
LEMMA EmitTyped ==
  ASSUME LoopScalars, \E n \in Nat : Emit(n)
  PROVE  buffered' \in 0..MaxBuffered
BY EmitFacts DEF LoopScalars

\* Every node makes a conversation of a conversation.
LEMMA NodeMessagesTyped ==
  ASSUME QueuesTyped, LoopScalars, NodeStep
  PROVE  messages' \in Seq(Messages)
<1>0. messages \in Seq(Messages)
  BY DEF LoopScalars
<1>1. CASE DrainQueuedInput
  <2> DEFINE a == AsMessages(ctx_queues["interjection"])
             b == AsMessages(Drained(ctx_queues["steering"], SteeringMode))
  <2>1. ctx_queues["interjection"] \in Seq(Entries) /\ ctx_queues["steering"] \in Seq(Entries)
    BY DEF QueuesTyped, Queues, Kinds
  <2>2. a \in Seq(Messages) /\ b \in Seq(Messages)
    BY <2>1, AsMessagesIs, DrainFacts
  <2>3. messages' = (messages \o a) \o b
    BY <1>1 DEF DrainQueuedInput
  <2> HIDE DEF a, b
  <2> QED BY <1>0, <2>2, <2>3, ConcatProperties
<1>2. CASE PrepareNextTurn
  <2> DEFINE a == AsMessages(Drained(ctx_queues["follow_up"], FollowUpMode))
  <2>1. ctx_queues["follow_up"] \in Seq(Entries)
    BY DEF QueuesTyped, Queues, Kinds
  <2>2. a \in Seq(Messages)
    BY <2>1, AsMessagesIs, DrainFacts
  <2>3. \E after \in AfterHooks : messages' = after \/ messages' = after \o a
    BY <1>2 DEF PrepareNextTurn
  <2> HIDE DEF a
  <2>4. Message("user", 0, 1) \in Messages
    BY MessageIs DEF Roles
  <2>5. \A after \in AfterHooks : after \in Seq(Messages)
    <3>1. Append(messages, Message("user", 0, 1)) \in Seq(Messages)
          /\ <<Message("user", 0, 1)>> \in Seq(Messages)
      BY <1>0, <2>4, AppendProperties
    <3> QED BY <1>0, <3>1 DEF AfterHooks
  <2> QED BY <2>2, <2>3, <2>5, ConcatProperties
<1>3. CASE CompactRuntimeContext
  <2>1. \/ messages' = messages
        \/ \E keep \in KeepBudgets, anchor \in 0..Len(messages) :
              messages' = Compacted(Cut(messages, keep, anchor))
    BY <1>3 DEF CompactRuntimeContext
  <2> QED BY <1>0, <2>1, CompactedIs
<1>4. assistant.calls \in Nat
  BY Limits DEF LoopScalars
<1>5. CASE DecideAfterAssistant
  <2>1. messages' = Append(messages, Message("assistant", assistant.calls, 1))
    BY <1>5 DEF DecideAfterAssistant
  <2>2. Message("assistant", assistant.calls, 1) \in Messages
    BY <1>4, MessageIs DEF Roles
  <2> QED BY <1>0, <2>1, <2>2, AppendProperties
<1>6. CASE ExecuteTools
  <2>1. messages' = messages \/ messages' = messages \o Results(assistant.calls, 1)
    BY <1>6 DEF ExecuteTools, Results
  <2>2. Results(assistant.calls, 1) \in Seq(Messages)
    BY <1>4, ResultsAre
  <2> HIDE DEF Results
  <2> QED BY <1>0, <2>1, <2>2, ConcatProperties
<1>7. CASE Start \/ RequestNodeEnds \/ PrepareProviderRequest \/ ApplyProviderHook
             \/ ProviderStream \/ RefuseToolCalls \/ EndAfterTurn
  <2>1. messages' = messages
    BY <1>7 DEF Start, RequestNodeEnds, PrepareProviderRequest, ApplyProviderHook,
        ProviderStream, RefuseToolCalls, EndAfterTurn
  <2> QED BY <1>0, <2>1
<1> QED BY <1>1, <1>2, <1>3, <1>5, <1>6, <1>7 DEF NodeStep

\* Every node keeps the types of the rest.
LEMMA NodeScalars ==
  ASSUME QueuesTyped, LoopScalars, NodeStep
  PROVE  LoopScalars'
<1>0. turn = "running" /\ turn_no \in 0..MaxTurns /\ MaxTurns \in Nat
  <2>1. turn = "running"
    BY NodeOutcome
  <2> QED BY <2>1, Limits DEF LoopScalars
<1>1. messages' \in Seq(Messages)
  BY NodeMessagesTyped
<1>2. turn_no' \in 0..(MaxTurns + 1) /\ (turn_no' > MaxTurns => turn' = "done")
  <2>1. CASE Start
    <3>1. \/ turn_no' = turn_no
          \/ turn_no' = turn_no + 1 /\ ~(turn_no + 1 > MaxTurns)
          \/ turn_no' = turn_no + 1 /\ turn' = "done"
      BY <2>1 DEF Start, Complete
    <3> QED BY <1>0, <3>1
  <2>2. CASE DrainQueuedInput \/ CompactRuntimeContext \/ RequestNodeEnds
             \/ PrepareProviderRequest \/ ApplyProviderHook \/ ProviderStream
    <3>1. turn_no' = turn_no
      BY <2>2 DEF DrainQueuedInput, CompactRuntimeContext, RequestNodeEnds,
          PrepareProviderRequest, ApplyProviderHook, ProviderStream
    <3> QED BY <1>0, <3>1
  <2>3. CASE RefuseToolCalls \/ DecideAfterAssistant \/ ExecuteTools \/ EndAfterTurn
             \/ PrepareNextTurn
    <3>1. turn_no' = turn_no
      BY <2>3 DEF RefuseToolCalls, DecideAfterAssistant, ExecuteTools, EndAfterTurn,
          PrepareNextTurn
    <3> QED BY <1>0, <3>1
  <2> QED BY <2>1, <2>2, <2>3 DEF NodeStep
<1>3. /\ assistant' \in Replies \cup {NoReply}
      /\ UNCHANGED <<attached, cancelled, pending_counter>>
  <2>1. CASE ProviderStream
    BY <2>1 DEF ProviderStream
  <2>2. CASE ~ProviderStream
    <3>1. UNCHANGED <<assistant, attached, cancelled, pending_counter>>
      BY <2>2 DEF NodeStep, Start, DrainQueuedInput, CompactRuntimeContext,
        RequestNodeEnds, PrepareProviderRequest, ApplyProviderHook, RefuseToolCalls,
        DecideAfterAssistant, ExecuteTools, EndAfterTurn, PrepareNextTurn
    <3> QED BY <3>1 DEF LoopScalars
  <2> QED BY <2>1, <2>2
<1>4. buffered' \in 0..MaxBuffered
  <2>1. \E n \in Nat : Emit(n)
    <3>1. Emit(0) \/ Emit(1)
      BY DEF NodeStep, Start, DrainQueuedInput, CompactRuntimeContext,
        RequestNodeEnds, PrepareProviderRequest, ApplyProviderHook, ProviderStream,
        RefuseToolCalls, DecideAfterAssistant, ExecuteTools, EndAfterTurn, PrepareNextTurn
    <3> QED BY <3>1
  <2> QED BY <2>1, EmitTyped
<1>5. /\ override_consumed' \in BOOLEAN /\ ctx_override' \in 0..MaxOverrides
      /\ override_uses' \in [1..MaxOverrides -> Nat]
  <2>1. CASE PrepareProviderRequest
    <3>1. /\ override_uses' = IF ctx_override = 0 THEN override_uses
                        ELSE [override_uses EXCEPT ![ctx_override] = @ + 1]
          /\ override_consumed' = (override_consumed \/ ctx_override # 0)
          /\ ctx_override' = 0
      BY <2>1 DEF PrepareProviderRequest
    <3>2. ctx_override # 0 => ctx_override \in 1..MaxOverrides
      BY Limits DEF LoopScalars
    <3>3. override_uses' \in [1..MaxOverrides -> Nat]
      <4>1. CASE ctx_override = 0
        BY <3>1, <4>1 DEF LoopScalars
      <4>2. CASE ctx_override # 0
        <5>1. override_uses[ctx_override] + 1 \in Nat
          BY <3>2, <4>2 DEF LoopScalars
        <5>2. override_uses' = [override_uses EXCEPT ![ctx_override] = override_uses[ctx_override] + 1]
          BY <3>1, <4>2
        <5> QED BY <5>1, <5>2 DEF LoopScalars
      <4> QED BY <4>1, <4>2
    <3> QED BY <3>1, <3>3, Limits
  <2>2. CASE ~PrepareProviderRequest
    <3>1. UNCHANGED <<ctx_override, override_consumed, override_uses>>
      BY <2>2 DEF NodeStep, Start, DrainQueuedInput, CompactRuntimeContext,
        RequestNodeEnds, ApplyProviderHook, ProviderStream, RefuseToolCalls,
        DecideAfterAssistant, ExecuteTools, EndAfterTurn, PrepareNextTurn
    <3> QED BY <3>1 DEF LoopScalars
  <2> QED BY <2>1, <2>2
<1> QED BY <1>1, <1>2, <1>3, <1>4, <1>5 DEF LoopScalars

\* The types of the loop are those of its queues and of the rest.
LEMMA TypeSplit ==
  TurnTypeOK <=>
    /\ QueuesTyped
    /\ {attached, cancelled, override_consumed} \subseteq BOOLEAN
    /\ turn_no \in 0..(MaxTurns + 1)
    /\ messages \in Seq(Messages)
    /\ assistant \in Replies \cup {NoReply}
    /\ pending_counter \in Nat
    /\ buffered \in 0..MaxBuffered
    /\ ctx_override \in 0..MaxOverrides
    /\ override_uses \in [1..MaxOverrides -> Nat]
    /\ turn \in {"none", "ready", "running", "continues", "done"}
    /\ node \in TurnNodes \cup {"Finish"}
    /\ polling \in BOOLEAN
    /\ polling => turn = "running"
    /\ turn = "running" <=> node # "Finish"
BY DEF TurnTypeOK, QueuesTyped

\* Polling next_event keeps the types of the loop.
LEMMA AdvanceTypes ==
  ASSUME TurnTypeOK, turn_no > MaxTurns => turn = "done", Advance
  PROVE  TurnTypeOK' /\ (turn_no' > MaxTurns => turn' = "done")
<1>0. QueuesTyped /\ LoopScalars
  BY TypeSplit DEF LoopScalars
<1>1. CASE NodeStep
  <2>1. (Ended \/ GoesOn) /\ QueuesTyped'
    BY <1>0, <1>1, NodeOutcome, FrontStays
  <2>2. LoopScalars'
    BY <1>0, <1>1, NodeScalars
  <2>3. /\ turn' \in {"none", "ready", "running", "continues", "done"}
        /\ node' \in TurnNodes \cup {"Finish"} /\ polling' \in BOOLEAN
        /\ polling' => turn' = "running"
        /\ turn' = "running" <=> node' # "Finish"
    BY <2>1 DEF Ended, GoesOn, TurnNodes
  <2> QED BY <2>1, <2>2, <2>3 DEF TurnTypeOK, QueuesTyped, LoopScalars
<1>2. CASE Suspend
  <2>1. \E n \in Nat : Emit(n)
    <3>1. \/ Emit(0)
          \/ \E n \in 0..1 : Emit(n)
      BY <1>2 DEF Suspend
    <3> QED BY <3>1
  <2>2. buffered' \in 0..MaxBuffered
    BY <1>0, <2>1, EmitTyped
  <2>3. /\ polling' = FALSE
        /\ UNCHANGED <<turn, node, attached, cancelled, turn_no, messages, assistant,
                   ctx_queues, pending, pending_counter, ctx_override,
                   override_consumed, delivered, override_uses>>
    BY <1>2 DEF Suspend
  <2> QED BY <2>2, <2>3 DEF TurnTypeOK
<1>3. CASE StartTurn
  <2>1. /\ turn = "ready" /\ turn' = "running" /\ node' = "Start" /\ polling' = TRUE
        /\ attached' = TRUE
        /\ UNCHANGED <<cancelled, turn_no, messages, assistant, ctx_queues, pending,
                   pending_counter, buffered, ctx_override, override_consumed,
                   delivered, override_uses>>
    BY <1>3 DEF StartTurn
  <2> QED BY <2>1 DEF TurnTypeOK, TurnNodes
<1>4. CASE Poll
  <2>1. /\ turn = "running" /\ polling' = TRUE
        /\ UNCHANGED <<turn, node, attached, cancelled, turn_no, messages, assistant,
                   ctx_queues, pending, pending_counter, buffered, ctx_override,
                   override_consumed, delivered, override_uses>>
    BY <1>4 DEF Poll
  <2> QED BY <2>1 DEF TurnTypeOK
<1> QED BY <1>1, <1>2, <1>3, <1>4 DEF Advance

\* Queues without entries.
LEMMA EmptyQueuesTyped ==
  /\ EmptyQueues \in Queues /\ EmptyQueues \in [Kinds -> Seq(1..MaxInputs)]
  /\ \A k \in Kinds : EmptyQueues[k] = << >>
BY DEF EmptyQueues, Queues

\* The types hold at the start.
LEMMA InitTypes == ActorInit => TypeInv
<1> SUFFICES ASSUME ActorInit PROVE TypeInv
  OBVIOUS
<1>1. << >> \in Seq(Messages)
  BY EmptySeq
<1>2. override_uses \in [1..MaxOverrides -> Nat]
  BY DEF ActorInit, TurnInit
<1>3. /\ messages \in Seq(Messages) /\ assistant \in Replies \cup {NoReply}
      /\ ctx_queues \in Queues /\ pending \in Queues
      /\ delivered \in [Kinds -> Seq(1..MaxInputs)]
      /\ state_messages \in Seq(Messages) /\ state_queues \in Queues
  BY <1>1, EmptyQueuesTyped DEF ActorInit, TurnInit
<1>4. /\ turn_no \in 0..(MaxTurns + 1) /\ ~(turn_no > MaxTurns)
      /\ pending_counter \in Nat /\ buffered \in 0..MaxBuffered
      /\ ctx_override \in 0..MaxOverrides /\ state_override \in 0..MaxOverrides
      /\ channel \in 0..ChannelCap /\ prompts \in 0..MaxPrompts
      /\ accepted \in 0..MaxInputs /\ withdrawn \subseteq 1..MaxInputs
      /\ overrides \in 0..MaxOverrides
  BY Limits DEF ActorInit, TurnInit
<1>5. /\ turn = "none" /\ node = "Finish" /\ polling = FALSE /\ pc = "top"
      /\ attached = FALSE /\ cancelled = FALSE /\ override_consumed = FALSE
      /\ pending_commit = FALSE /\ event_tx = FALSE /\ handles = TRUE
      /\ stream = "none" /\ abort_asked = FALSE
  BY DEF ActorInit, TurnInit
<1> QED BY <1>2, <1>3, <1>4, <1>5 DEF TypeInv, ActorTypeOK, TurnTypeOK

\* The three conversations of queues put together.
LEMMA JoinedTyped ==
  ASSUME NEW a \in Queues, NEW b \in Queues, NEW c \in Queues
  PROVE  [k \in Kinds |-> a[k] \o b[k] \o c[k]] \in Queues
<1>1. ASSUME NEW k \in Kinds PROVE a[k] \o b[k] \o c[k] \in Seq(Entries)
  <2>1. a[k] \in Seq(Entries) /\ b[k] \in Seq(Entries) /\ c[k] \in Seq(Entries)
    BY DEF Queues
  <2>2. a[k] \o b[k] \in Seq(Entries)
    BY <2>1, ConcatProperties
  <2> QED BY <2>1, <2>2, ConcatProperties
<1> QED BY <1>1 DEF Queues

\* Committing a turn puts conversation and queues back into the state.
LEMMA CommitTypes ==
  ASSUME TypeInv, turn \in {"continues", "done"}, CommitTurn
  PROVE  /\ TurnTypeOK' /\ turn_no' = 0 /\ turn' = "none"
         /\ state_messages' \in Seq(Messages) /\ state_queues' \in Queues
         /\ state_override' \in 0..MaxOverrides /\ abort_asked' = FALSE
<1>1. /\ state_messages' = messages
      /\ state_queues' = [k \in Kinds |-> ctx_queues[k] \o pending[k] \o state_queues[k]]
      /\ state_override' \in {0, state_override}
      /\ turn' = "none" /\ turn_no' = 0 /\ attached' = FALSE
      /\ messages' = << >> /\ assistant' = NoReply
      /\ ctx_queues' = EmptyQueues /\ pending' = EmptyQueues
      /\ pending_counter' = 0
      /\ ctx_override' = 0 /\ override_consumed' = FALSE
      /\ abort_asked' = FALSE
      /\ UNCHANGED <<node, polling, cancelled, buffered, delivered, override_uses>>
  BY DEF CommitTurn
<1>2. TurnTypeOK /\ state_queues \in Queues /\ state_override \in 0..MaxOverrides
  BY DEF TypeInv, ActorTypeOK
<1>3. state_queues' \in Queues
  <2>1. ctx_queues \in Queues /\ pending \in Queues
    BY <1>2 DEF TurnTypeOK
  <2> QED BY <1>1, <1>2, <2>1, JoinedTyped
<1>4. << >> \in Seq(Messages)
  BY EmptySeq
<1>5. TurnTypeOK'
  <2>1. /\ messages' \in Seq(Messages) /\ assistant' \in Replies \cup {NoReply}
        /\ ctx_queues' \in Queues /\ pending' \in Queues
        /\ delivered' \in [Kinds -> Seq(1..MaxInputs)]
        /\ override_uses' \in [1..MaxOverrides -> Nat]
    BY <1>1, <1>2, <1>4, EmptyQueuesTyped DEF TurnTypeOK
  <2>2. /\ turn_no' \in 0..(MaxTurns + 1) /\ pending_counter' \in Nat
        /\ buffered' \in 0..MaxBuffered /\ ctx_override' \in 0..MaxOverrides
    BY <1>1, <1>2, Limits DEF TurnTypeOK
  <2>3. /\ turn' \in {"none", "ready", "running", "continues", "done"}
        /\ node' \in TurnNodes \cup {"Finish"}
        /\ {polling', attached', cancelled', override_consumed'} \subseteq BOOLEAN
        /\ polling' => turn' = "running"
        /\ turn' = "running" <=> node' # "Finish"
    BY <1>1, <1>2 DEF TurnTypeOK
  <2> QED BY <2>1, <2>2, <2>3 DEF TurnTypeOK
<1> QED BY <1>1, <1>2, <1>3, <1>5, Limits DEF TurnTypeOK

\* What an actor step may leave alone.
ActorRest ==
  /\ pc \in {"top", "select", "sending", "yield", "yielded", "draining", "stopped"}
  /\ {pending_commit, event_tx, handles, abort_asked} \subseteq BOOLEAN
  /\ stream \in {"none", "open", "dropped"}
  /\ channel \in 0..ChannelCap
  /\ prompts \in 0..MaxPrompts
  /\ accepted \in 0..MaxInputs
  /\ withdrawn \subseteq 1..MaxInputs
  /\ overrides \in 0..MaxOverrides
  /\ pc \in {"yield", "yielded"} => turn = "continues"

\* The types of the state the actor keeps between loops.
StateRest ==
  /\ state_messages \in Seq(Messages)
  /\ state_queues \in Queues
  /\ state_override \in 0..MaxOverrides

\* The invariant in parts that most steps leave alone.
LEMMA InvSplit ==
  TypeInv <=> /\ TurnTypeOK /\ ActorRest /\ StateRest
              /\ turn_no > MaxTurns => turn = "done"
BY DEF TypeInv, ActorTypeOK, ActorRest, StateRest

\* A step that leaves the loop alone but for its token and its events.
LEMMA LoopLeftAlone ==
  ASSUME TypeInv, cancelled' \in BOOLEAN, buffered' \in 0..MaxBuffered,
         UNCHANGED <<turn, node, polling, attached, turn_no, messages, assistant,
                   ctx_queues, pending, pending_counter, ctx_override,
                   override_consumed, delivered, override_uses, stateVars>>,
         ActorRest'
  PROVE  TypeInv'
<1>1. TurnTypeOK'
  BY DEF TypeInv, ActorTypeOK, TurnTypeOK
<1>2. StateRest' /\ (turn_no' > MaxTurns => turn' = "done")
  BY InvSplit DEF StateRest, stateVars
<1> QED BY <1>1, <1>2, InvSplit DEF TypeInv, ActorTypeOK, ActorRest, StateRest

\* An abort sets the token or leaves it.
LEMMA AbortTyped ==
  ASSUME TypeInv, AbortRunner
  PROVE  cancelled' \in BOOLEAN
BY DEF AbortRunner, TypeInv, ActorTypeOK, TurnTypeOK

\* The steps of the actor between two commands keep the types.
LEMMA StepTypes ==
  ASSUME TypeInv, ActorStep
  PROVE  TypeInv'
<1>0. /\ ActorRest /\ StateRest /\ TurnTypeOK
      /\ cancelled \in BOOLEAN /\ buffered \in 0..MaxBuffered /\ MaxBuffered \in Nat
      /\ turn_no > MaxTurns => turn = "done"
  BY InvSplit, Limits DEF TurnTypeOK
<1>1. CASE TopConsumerGone
  <2>1. cancelled' \in BOOLEAN
    BY <1>1, AbortTyped DEF TopConsumerGone
  <2>2. ActorRest'
    BY <1>0, <1>1 DEF TopConsumerGone, ActorRest, historyVars, consumerVars
  <2> QED BY <1>0, <1>1, <2>1, <2>2, LoopLeftAlone DEF TopConsumerGone
<1>2. CASE TopSelect
  <2>1. ActorRest'
    BY <1>0, <1>2 DEF TopSelect, ActorRest, historyVars, consumerVars, loopVars
  <2> QED BY <1>0, <1>2, <2>1, LoopLeftAlone DEF TopSelect, loopVars
<1>3. CASE DiscardEvent
  <2>1. ActorRest'
    BY <1>0, <1>3 DEF DiscardEvent, ActorRest, historyVars, consumerVars, actorVars
  <2>2. buffered' \in 0..MaxBuffered
    BY <1>0, <1>3 DEF DiscardEvent, EventReady
  <2> QED BY <1>0, <1>3, <2>1, <2>2, LoopLeftAlone DEF DiscardEvent
<1>4. CASE TakeEvent
  <2>1. ActorRest'
    BY <1>0, <1>4 DEF TakeEvent, ActorRest, historyVars, consumerVars
  <2>2. buffered' \in 0..MaxBuffered
    BY <1>0, <1>4 DEF TakeEvent, EventReady
  <2> QED BY <1>0, <1>4, <2>1, <2>2, LoopLeftAlone DEF TakeEvent
<1>5. CASE TurnContinues
  <2>1. ActorRest'
    BY <1>0, <1>5 DEF TurnContinues, ActorRest, historyVars, consumerVars, loopVars
  <2> QED BY <1>0, <1>5, <2>1, LoopLeftAlone DEF TurnContinues, loopVars
<1>6. CASE SendFinishes
  <2>1. cancelled' \in BOOLEAN
    BY <1>0, <1>6, AbortTyped DEF SendFinishes
  <2>2. ActorRest'
    <3>1. channel' \in 0..ChannelCap
      BY <1>0, <1>6, Limits DEF SendFinishes, ActorRest
    <3>2. pc' = "top" /\ pending_commit' \in BOOLEAN /\ event_tx' \in BOOLEAN
      BY <1>0, <1>6 DEF SendFinishes, ActorRest
    <3> QED BY <1>0, <1>6, <3>1, <3>2 DEF SendFinishes, ActorRest, historyVars
  <2> QED BY <1>0, <1>6, <2>1, <2>2, LoopLeftAlone DEF SendFinishes
<1>7. CASE MailboxClosed
  <2>1. cancelled' \in BOOLEAN
    BY <1>7, AbortTyped DEF MailboxClosed, LeaveLoop
  <2>2. ActorRest'
    BY <1>0, <1>7 DEF MailboxClosed, LeaveLoop, ActorRest, consumerVars
  <2> QED BY <1>0, <1>7, <2>1, <2>2, LoopLeftAlone DEF MailboxClosed, LeaveLoop
<1>8. CASE SendAbandoned
  <2>1. cancelled' \in BOOLEAN
    BY <1>0, <1>8, AbortTyped DEF SendAbandoned
  <2>2. ActorRest'
    <3>2. pc' = "top" /\ pending_commit' \in BOOLEAN /\ event_tx' \in BOOLEAN
      BY <1>0, <1>8 DEF SendAbandoned, ActorRest
    <3> QED BY <1>0, <1>8, <3>2 DEF SendAbandoned, ActorRest, consumerVars, historyVars
  <2> QED BY <1>0, <1>8, <2>1, <2>2, LoopLeftAlone DEF SendAbandoned
<1>9. ASSUME CommitTurn, turn \in {"continues", "done"},
             UNCHANGED <<handles, prompts, accepted, withdrawn, overrides>>,
             pc' \in {"top", "stopped"}, pending_commit' \in BOOLEAN,
             event_tx' \in BOOLEAN, stream' \in {"none", "open", "dropped"},
             channel' = channel
      PROVE  TypeInv'
  <2>1. /\ TurnTypeOK' /\ turn_no' = 0 /\ turn' = "none"
        /\ state_messages' \in Seq(Messages) /\ state_queues' \in Queues
        /\ state_override' \in 0..MaxOverrides /\ abort_asked' = FALSE
    BY <1>9, CommitTypes
  <2>2. ActorRest'
    BY <1>0, <1>9, <2>1 DEF ActorRest
  <2>3. ~(turn_no' > MaxTurns)
    BY <2>1, Limits
  <2> QED BY <2>1, <2>2, <2>3 DEF TypeInv, ActorTypeOK, ActorRest
<1>10. CASE PendingCommit
  BY <1>0, <1>9, <1>10 DEF PendingCommit, NoMoreEvents, ActorRest, consumerVars
<1>11. CASE LoopDone
  <2>1. stream' \in {"none", "open", "dropped"}
    BY <1>0, <1>11 DEF LoopDone, ActorRest
  <2> QED BY <1>0, <1>9, <1>11, <2>1 DEF LoopDone, ActorRest
<1>12. CASE DrainedCommit
  <2>1. CASE NoMoreEvents /\ CommitTurn
    BY <1>0, <1>9, <1>12, <2>1 DEF DrainedCommit, NoMoreEvents, ActorRest, consumerVars
  <2>2. CASE turn = "none" /\ UNCHANGED <<loopVars, stateVars, abort_asked>>
    <3>1. ActorRest'
      BY <1>0, <1>12, <2>2 DEF DrainedCommit, ActorRest, consumerVars, loopVars
    <3> QED BY <1>0, <2>2, <3>1, LoopLeftAlone DEF loopVars
  <2> QED BY <1>12, <2>1, <2>2 DEF DrainedCommit
<1>13. CASE YieldEnds
  <2>0. turn = "continues" /\ pc = "yield"
    BY <1>0, <1>13 DEF YieldEnds, ActorRest
  <2>1. CASE stream = "dropped"
    BY <1>0, <1>9, <1>13, <2>0, <2>1 DEF YieldEnds, ActorRest, consumerVars
  <2>2. CASE stream # "dropped"
    <3>1. ActorRest'
      BY <1>0, <1>13, <2>2 DEF YieldEnds, ActorRest, consumerVars, loopVars
    <3>2. UNCHANGED <<loopVars, stateVars>>
      BY <1>13, <2>2 DEF YieldEnds
    <3> QED BY <1>0, <3>1, <3>2, LoopLeftAlone DEF loopVars
  <2> QED BY <2>1, <2>2
<1>14. CASE StartNextTurn
  <2>0. turn = "continues" /\ pc = "yielded"
    BY <1>0, <1>14 DEF StartNextTurn, ActorRest
  <2>1. CASE stream = "dropped"
    BY <1>0, <1>9, <1>14, <2>0, <2>1 DEF StartNextTurn, ActorRest, consumerVars
  <2>2. CASE stream # "dropped"
    <3>1. /\ turn' = "ready" /\ pc' = "top"
          /\ UNCHANGED <<node, polling, attached, cancelled, turn_no, messages,
                           assistant, ctx_queues, pending, pending_counter,
                           buffered, ctx_override, override_consumed, delivered,
                           override_uses, stateVars, abort_asked, event_tx>>
          /\ UNCHANGED <<pending_commit, handles, consumerVars, prompts, accepted,
                   withdrawn, overrides>>
      BY <1>14, <2>2 DEF StartNextTurn
    <3>2. TurnTypeOK'
      BY <1>0, <2>0, <3>1 DEF TurnTypeOK
    <3>3. ActorRest' /\ StateRest'
      BY <1>0, <3>1 DEF ActorRest, StateRest, stateVars, consumerVars
    <3>4. turn_no' > MaxTurns => turn' = "done"
      BY <1>0, <2>0, <3>1
    <3> QED BY <3>2, <3>3, <3>4 DEF TypeInv, ActorTypeOK, ActorRest, StateRest
  <2> QED BY <2>1, <2>2
<1> QED BY <1>1, <1>2, <1>3, <1>4, <1>5, <1>6, <1>7, <1>8, <1>10, <1>11, <1>12, <1>13,
    <1>14 DEF ActorStep

(***************************************************************************)
(* Lists of queues, as edit_entry and remove_entry see them.               *)
(***************************************************************************)
Lists == Seq(Seq(Entries))

\* The parts of such a list.
LEMMA ListIs ==
  ASSUME NEW list \in Lists
  PROVE  /\ Len(list) \in Nat /\ DOMAIN list = 1..Len(list)
         /\ \A q \in 1..Len(list) : /\ list[q] \in Seq(Entries) /\ Len(list[q]) \in Nat
                                    /\ DOMAIN list[q] = 1..Len(list[q])
                                    /\ \A i \in 1..Len(list[q]) : list[q][i] \in Entries
<1>1. Len(list) \in Nat /\ DOMAIN list = 1..Len(list)
  BY LenProperties DEF Lists
<1>2. ASSUME NEW q \in 1..Len(list)
      PROVE  /\ list[q] \in Seq(Entries) /\ Len(list[q]) \in Nat
             /\ DOMAIN list[q] = 1..Len(list[q])
             /\ \A i \in 1..Len(list[q]) : list[q][i] \in Entries
  <2>1. list[q] \in Seq(Entries)
    BY ElementOfSeq DEF Lists
  <2> QED BY <2>1, ElementOfSeq, LenProperties
<1> QED BY <1>1, <1>2

\* The queue and the place where an id was found.
LEMMA HolderIs ==
  ASSUME NEW list \in Lists, NEW id, HolderOf(list, id) # 0
  PROVE  LET q == HolderOf(list, id)
             i == PlaceIn(list[q], id)
         IN  q \in 1..Len(list) /\ i \in 1..Len(list[q]) /\ list[q][i].id = id
<1> DEFINE holders == {q \in DOMAIN list : \E i \in DOMAIN list[q] : list[q][i].id = id}
           places(q) == {i \in DOMAIN list[q] : list[q][i].id = id}
<1>1. HolderOf(list, id) = IF holders = {} THEN 0 ELSE Least(holders)
  BY DEF HolderOf
<1>2. holders # {} /\ holders \subseteq Nat
  BY <1>1, ListIs
<1>3. Least(holders) \in holders
  BY <1>2, LeastIs
<1>4. PICK q \in Nat : q = HolderOf(list, id) /\ q \in holders
  BY <1>1, <1>2, <1>3
<1>5. q \in 1..Len(list) /\ places(q) # {} /\ places(q) \subseteq Nat
  BY <1>4, ListIs
<1>6. PlaceIn(list[q], id) = Least(places(q))
  BY DEF PlaceIn
<1>7. Least(places(q)) \in places(q)
  BY <1>5, LeastIs
<1> HIDE DEF holders
<1>8. PlaceIn(list[q], id) \in 1..Len(list[q]) /\ list[q][PlaceIn(list[q], id)].id = id
  BY <1>5, <1>6, <1>7, ListIs
<1> QED BY <1>4, <1>5, <1>8

\* Without takes one place out.
LEMMA WithoutIs ==
  ASSUME NEW q \in Seq(Entries), NEW i \in 1..Len(q)
  PROVE  /\ Without(q, i) \in Seq(Entries) /\ Len(Without(q, i)) = Len(q) - 1
         /\ \A j \in 1..(Len(q) - 1) : Without(q, i)[j] = IF j < i THEN q[j] ELSE q[j + 1]
<1> DEFINE n == Len(q)
           a == SubSeq(q, 1, i - 1)
           b == SubSeq(q, i + 1, n)
<1>0. n \in Nat /\ n = Len(q) /\ \A j \in 1..n : q[j] \in Entries
  BY ElementOfSeq
<1> HIDE DEF n
<1>1. i \in Nat /\ i >= 1 /\ i <= n
  BY <1>0
<1>2. /\ a \in Seq(Entries) /\ Len(a) = i - 1
      /\ \A j \in 1..(i - 1) : a[j] = q[j]
  <2>1. \A j \in 1..(i - 1) : q[j] \in Entries
    BY <1>0, <1>1
  <2>2. /\ SubSeq(q, 1, i - 1) \in Seq(Entries)
        /\ Len(SubSeq(q, 1, i - 1)) = IF 1 <= i - 1 THEN (i - 1) - 1 + 1 ELSE 0
        /\ \A j \in 1..((i - 1) - 1 + 1) : SubSeq(q, 1, i - 1)[j] = q[1 + j - 1]
    BY <1>1, <2>1, SubSeqProperties
  <2>3. \A j \in 1..(i - 1) : j \in 1..((i - 1) - 1 + 1) /\ 1 + j - 1 = j
    BY <1>1
  <2>4. Len(a) = i - 1
    BY <1>1, <2>2
  <2> QED BY <2>2, <2>3, <2>4
<1>3. /\ b \in Seq(Entries) /\ Len(b) = n - i
      /\ \A j \in 1..(n - i) : b[j] = q[i + j]
  <2>1. \A j \in (i + 1)..n : q[j] \in Entries
    BY <1>0, <1>1
  <2>2. /\ SubSeq(q, i + 1, n) \in Seq(Entries)
        /\ Len(SubSeq(q, i + 1, n)) = IF i + 1 <= n THEN n - (i + 1) + 1 ELSE 0
        /\ \A j \in 1..(n - (i + 1) + 1) : SubSeq(q, i + 1, n)[j] = q[(i + 1) + j - 1]
    BY <1>0, <1>1, <2>1, SubSeqProperties
  <2>3. \A j \in 1..(n - i) : j \in 1..(n - (i + 1) + 1) /\ (i + 1) + j - 1 = i + j
    BY <1>0, <1>1
  <2>4. Len(b) = n - i
    BY <1>0, <1>1, <2>2
  <2> QED BY <2>2, <2>3, <2>4
<1>4. Without(q, i) = a \o b
  BY <1>0 DEF Without
<1> HIDE DEF a, b
<1>5. /\ a \o b \in Seq(Entries) /\ Len(a \o b) = (i - 1) + (n - i)
      /\ \A j \in 1..((i - 1) + (n - i)) :
            (a \o b)[j] = IF j <= i - 1 THEN a[j] ELSE b[j - (i - 1)]
  <2>1. /\ a \o b \in Seq(Entries) /\ Len(a \o b) = Len(a) + Len(b)
        /\ \A j \in 1..(Len(a) + Len(b)) :
              (a \o b)[j] = IF j <= Len(a) THEN a[j] ELSE b[j - Len(a)]
    BY <1>2, <1>3, ConcatProperties
  <2>2. Len(a) = i - 1 /\ Len(b) = n - i
    BY <1>2, <1>3
  <2> QED BY <2>1, <2>2, Zenon
<1>6. (i - 1) + (n - i) = n - 1
  BY <1>0, <1>1
<1>7. ASSUME NEW j \in 1..(n - 1)
      PROVE  (a \o b)[j] = IF j < i THEN q[j] ELSE q[j + 1]
  <2>1. CASE j < i
    <3>1. j <= i - 1 /\ j \in 1..(i - 1)
      BY <1>0, <1>1, <2>1
    <3> QED BY <1>2, <1>5, <1>6, <2>1, <3>1
  <2>2. CASE ~(j < i)
    <3>1. ~(j <= i - 1) /\ j - (i - 1) \in 1..(n - i) /\ i + (j - (i - 1)) = j + 1
      BY <1>0, <1>1, <2>2
    <3>2. (a \o b)[j] = b[j - (i - 1)]
      BY <1>5, <1>6, <3>1
    <3> QED BY <1>3, <2>2, <3>1, <3>2
  <2> QED BY <2>1, <2>2
<1> QED BY <1>0, <1>4, <1>5, <1>6, <1>7

\* Editing an entry keeps its input.
LEMMA EditIs ==
  ASSUME NEW list \in Lists, NEW id, HolderOf(list, id) # 0
  PROVE  /\ EditEntry(list, id) \in Lists /\ Len(EditEntry(list, id)) = Len(list)
         /\ \A r \in 1..Len(list) :
               /\ EditEntry(list, id)[r] \in Seq(Entries)
               /\ InputsOf(EditEntry(list, id)[r]) = InputsOf(list[r])
<1> DEFINE q == HolderOf(list, id)
           i == PlaceIn(list[q], id)
           entry == [list[q][i] EXCEPT !.version = @ + 1]
           new == [list[q] EXCEPT ![i] = entry]
<1>1. q \in 1..Len(list) /\ i \in 1..Len(list[q])
  BY HolderIs
<1>2. EditEntry(list, id) = [list EXCEPT ![q] = new]
  <2>1. EditEntry(list, id) = [list EXCEPT ![q][i].version = @ + 1]
    BY DEF EditEntry
  <2> HIDE DEF q, i
  <2> QED BY <2>1
<1> HIDE DEF q, i
<1>3. list[q] \in Seq(Entries) /\ list[q][i] \in Entries /\ DOMAIN list[q] = 1..Len(list[q])
      /\ Len(list[q]) \in Nat
  BY <1>1, ListIs
<1>4. entry \in Entries /\ entry.input = list[q][i].input
  <2>1. \A e \in Entries : /\ [e EXCEPT !.version = @ + 1] \in Entries
                           /\ [e EXCEPT !.version = @ + 1].input = e.input
    BY DEF Entries
  <2> QED BY <1>3, <2>1
<1> HIDE DEF entry
<1>5. new \in Seq(Entries) /\ DOMAIN new = 1..Len(list[q])
      /\ \A j \in 1..Len(list[q]) : new[j].input = list[q][j].input
  BY <1>1, <1>3, <1>4
<1>6. InputsOf(new) = InputsOf(list[q])
  BY <1>3, <1>5 DEF InputsOf
<1> HIDE DEF new
<1>7. /\ [list EXCEPT ![q] = new] \in Lists
      /\ Len([list EXCEPT ![q] = new]) = Len(list)
      /\ \A r \in 1..Len(list) : [list EXCEPT ![q] = new][r] = IF r = q THEN new ELSE list[r]
  <2>1. list \in Seq(Seq(Entries)) /\ DOMAIN list = 1..Len(list)
    BY ListIs DEF Lists
  <2> QED BY <1>1, <1>5, <2>1 DEF Lists
<1>8. \A r \in 1..Len(list) : list[r] \in Seq(Entries)
  BY ListIs
<1> QED BY <1>2, <1>5, <1>6, <1>7, <1>8

\* Removing an entry takes it out of its queue and leaves the others.
LEMMA RemoveIs ==
  ASSUME NEW list \in Lists, NEW id, HolderOf(list, id) # 0
  PROVE  LET q == HolderOf(list, id)
             i == PlaceIn(list[q], id)
         IN  /\ RemoveEntry(list, id) \in Lists /\ Len(RemoveEntry(list, id)) = Len(list)
             /\ RemoveEntry(list, id)[q] = Without(list[q], i)
             /\ \A r \in 1..Len(list) : r # q => RemoveEntry(list, id)[r] = list[r]
<1> DEFINE q == HolderOf(list, id)
           i == PlaceIn(list[q], id)
<1>1. q \in 1..Len(list) /\ i \in 1..Len(list[q])
  BY HolderIs
<1>2. RemoveEntry(list, id) = [list EXCEPT ![q] = Without(list[q], i)]
  <2>1. RemoveEntry(list, id) = [list EXCEPT ![q] = Without(@, PlaceIn(@, id))]
    BY DEF RemoveEntry
  <2>2. list \in Seq(Seq(Entries)) /\ DOMAIN list = 1..Len(list)
    BY ListIs DEF Lists
  <2>3. q \in DOMAIN list
    BY <1>1, <2>2
  <2>4. i = PlaceIn(list[q], id)
    OBVIOUS
  <2> HIDE DEF q, i
  <2> QED BY <2>1, <2>3, <2>4
<1>3. list[q] \in Seq(Entries)
  BY <1>1, ListIs
<1>4. Without(list[q], i) \in Seq(Entries)
  BY <1>1, <1>3, WithoutIs
<1> HIDE DEF q, i
<1>5. list \in Seq(Seq(Entries)) /\ DOMAIN list = 1..Len(list)
  BY ListIs DEF Lists
<1>6. /\ [list EXCEPT ![q] = Without(list[q], i)] \in Lists
      /\ Len([list EXCEPT ![q] = Without(list[q], i)]) = Len(list)
      /\ [list EXCEPT ![q] = Without(list[q], i)][q] = Without(list[q], i)
      /\ \A r \in 1..Len(list) : r # q => [list EXCEPT ![q] = Without(list[q], i)][r] = list[r]
  BY <1>1, <1>4, <1>5 DEF Lists
<1> QED BY <1>2, <1>6 DEF q, i

(***************************************************************************)
(* The list a command searches, and where it goes back to.                 *)
(***************************************************************************)
Place(k) == CHOOSE i \in 1..3 : KindOrder[i] = k

\* The order in which queues are searched names each of them once.
LEMMA PlaceIs ==
  /\ \A k \in Kinds : Place(k) \in 1..3 /\ KindOrder[Place(k)] = k
  /\ \A i \in 1..3 : KindOrder[i] \in Kinds /\ Place(KindOrder[i]) = i
<1>1. KindOrder[1] = "steering" /\ KindOrder[2] = "follow_up" /\ KindOrder[3] = "interjection"
  BY DEF KindOrder
<1>2. \A i \in 1..3 : i = 1 \/ i = 2 \/ i = 3
  OBVIOUS
<1>3. \A k \in Kinds : \E i \in 1..3 : KindOrder[i] = k
  <2>1. 1 \in 1..3 /\ 2 \in 1..3 /\ 3 \in 1..3
    OBVIOUS
  <2> QED BY <1>1, <2>1 DEF Kinds
<1>4. \A k \in Kinds : Place(k) \in 1..3 /\ KindOrder[Place(k)] = k
  BY <1>3 DEF Place
<1>5. \A i, j \in 1..3 : KindOrder[i] = KindOrder[j] => i = j
  BY <1>1, <1>2
<1>6. \A i \in 1..3 : KindOrder[i] \in Kinds
  BY <1>1, <1>2 DEF Kinds
<1> QED BY <1>4, <1>5, <1>6

\* A function on 1..n is a sequence.
LEMMA FunctionIsSeq ==
  ASSUME NEW S, NEW n \in Nat, NEW f \in [1..n -> S]
  PROVE  f \in Seq(S) /\ Len(f) = n
OBVIOUS

\* The queues as a list.
LEMMA AsListIs ==
  ASSUME NEW queues \in Queues
  PROVE  /\ AsList(queues) \in Lists /\ Len(AsList(queues)) = 3
         /\ \A k \in Kinds : AsList(queues)[Place(k)] = queues[k]
<1>1. \A i \in 1..3 : queues[KindOrder[i]] \in Seq(Entries)
  BY PlaceIs DEF Queues
<1>2. AsList(queues) \in [1..3 -> Seq(Entries)]
  BY <1>1 DEF AsList
<1>3. AsList(queues) \in Seq(Seq(Entries)) /\ Len(AsList(queues)) = 3
  <2> HIDE DEF AsList
  <2> QED BY <1>2, FunctionIsSeq
<1> QED BY <1>3, PlaceIs DEF AsList, Lists

\* What a command searches: the state's queues, or the working copy's and the pending ones.
LEMMA SearchedIs ==
  ASSUME ctx_queues \in Queues, pending \in Queues, state_queues \in Queues,
         turn = "none" => ~ContextHeld
  PROVE  /\ Searched \in Lists
         /\ Len(Searched) = IF ContextHeld THEN 6 ELSE 3
         /\ turn = "none" => \A k \in Kinds : Searched[Place(k)] = state_queues[k]
         /\ turn # "none" /\ ~ContextHeld => \A k \in Kinds : Searched[Place(k)] = pending[k]
         /\ ContextHeld => \A k \in Kinds : /\ Searched[Place(k)] = ctx_queues[k]
                                            /\ Searched[3 + Place(k)] = pending[k]
<1>1. CASE turn = "none"
  BY <1>1, AsListIs DEF Searched
<1>2. CASE turn # "none" /\ ~ContextHeld
  BY <1>2, AsListIs DEF Searched
<1>3. CASE turn # "none" /\ ContextHeld
  <2> DEFINE a == AsList(ctx_queues)
             b == AsList(pending)
  <2>1. Searched = a \o b
    BY <1>3 DEF Searched
  <2>2. a \in Lists /\ Len(a) = 3 /\ b \in Lists /\ Len(b) = 3
        /\ \A k \in Kinds : a[Place(k)] = ctx_queues[k] /\ b[Place(k)] = pending[k]
    BY AsListIs
  <2> HIDE DEF a, b
  <2>3. /\ a \o b \in Lists /\ Len(a \o b) = Len(a) + Len(b)
        /\ \A i \in 1..Len(a) + Len(b) :
              (a \o b)[i] = IF i <= Len(a) THEN a[i] ELSE b[i - Len(a)]
    <3> DEFINE S == Seq(Entries)
    <3>1. Lists = Seq(S) /\ a \in Seq(S) /\ b \in Seq(S)
      BY <2>2 DEF Lists
    <3> HIDE DEF S
    <3>2. a \o b \in Seq(S) /\ Len(a \o b) = Len(a) + Len(b)
      BY <3>1, ConcatProperties
    <3>3. \A i \in 1..Len(a) + Len(b) :
             (a \o b)[i] = IF i <= Len(a) THEN a[i] ELSE b[i - Len(a)]
      BY <3>1, ConcatProperties
    <3> QED BY <3>1, <3>2, <3>3
  <2>4. ASSUME NEW k \in Kinds
        PROVE  (a \o b)[Place(k)] = ctx_queues[k] /\ (a \o b)[3 + Place(k)] = pending[k]
    <3>1. Place(k) \in 1..3
      BY PlaceIs
    <3>2. PICK p \in 1..3 : p = Place(k)
      BY <3>1
    <3>3. p \in 1..Len(a) + Len(b) /\ p <= Len(a) /\ 3 + p \in 1..Len(a) + Len(b)
          /\ ~(3 + p <= Len(a)) /\ (3 + p) - Len(a) = p
      BY <2>2
    <3> QED BY <2>2, <2>3, <3>2, <3>3
  <2>5. Len(a \o b) = 6
    BY <2>2, <2>3
  <2> QED BY <1>3, <2>1, <2>3, <2>4, <2>5
<1> QED BY <1>1, <1>2, <1>3

\* The list as queues again.
LEMMA FromListIs ==
  ASSUME NEW list \in Lists, NEW first \in {0, 3}, first + 3 <= Len(list)
  PROVE  /\ FromList(list, first) \in Queues
         /\ \A k \in Kinds : FromList(list, first)[k] = list[first + Place(k)]
<1>1. ASSUME NEW k \in Kinds PROVE list[first + Place(k)] \in Seq(Entries)
  <2>1. PICK p \in 1..3 : p = Place(k)
    BY PlaceIs
  <2>2. first + p \in 1..Len(list)
    BY ListIs
  <2> QED BY <2>1, <2>2, ListIs
<1>2. FromList(list, first) = [k \in Kinds |-> list[first + Place(k)]]
  BY DEF FromList, Place
<1> QED BY <1>1, <1>2 DEF Queues

\* The ids of a sequence of records are finitely many.
LEMMA IdsFinite ==
  ASSUME NEW S, NEW s \in Seq(S)
  PROVE  IsFiniteSet({s[i].id : i \in DOMAIN s})
<1> DEFINE T == {s[i].id : i \in DOMAIN s}
           f == [i \in DOMAIN s |-> s[i].id]
<1>1. Len(s) \in Nat /\ DOMAIN s = 1..Len(s)
  BY LenProperties
<1>2. IsFiniteSet(DOMAIN s)
  BY <1>1, FS_Interval
<1>3. f \in Surjection(DOMAIN s, T)
  BY DEF Surjection
<1> HIDE DEF f, T
<1>4. IsFiniteSet(T)
  BY <1>2, <1>3, FS_Surjection
<1> QED BY <1>4 DEF T

\* One of the first numbers is not taken.
LEMMA FreeNumber ==
  ASSUME NEW used, IsFiniteSet(used), NEW kind
  PROVE  /\ {i \in 0..Cardinality(used) :
                  [prefix |-> kind, pending |-> FALSE, index |-> i] \notin used} # {}
         /\ Cardinality(used) \in Nat
<1> DEFINE id(i) == [prefix |-> kind, pending |-> FALSE, index |-> i]
           n == Cardinality(used)
           f == [i \in 0..n |-> id(i)]
<1>1. n \in Nat
  BY FS_CardinalityType
<1>2. ASSUME \A i \in 0..n : id(i) \in used PROVE FALSE
  <2>1. f \in [0..n -> used]
    BY <1>2
  <2>2. \A i, j \in 0..n : f[i] = f[j] => i = j
    <3> TAKE i, j \in 0..n
    <3>1. f[i].index = i /\ f[j].index = j
      OBVIOUS
    <3> QED BY <3>1
  <2> HIDE DEF f
  <2>3. IsFiniteSet(0..n) /\ Cardinality(0..n) = n + 1
    <3> HIDE DEF n
    <3>1. IsFiniteSet(0..n) /\ Cardinality(0..n) = IF 0 > n THEN 0 ELSE n - 0 + 1
      BY <1>1, FS_Interval
    <3>2. ~(0 > n) /\ n - 0 + 1 = n + 1
      BY <1>1
    <3> QED BY <3>1, <3>2
  <2>4. Cardinality(used) < Cardinality(0..n)
    BY <1>1, <2>3
  <2>5. \E x, y \in 0..n : x # y /\ f[x] = f[y]
    <3> HIDE DEF n
    <3> QED BY <2>1, <2>3, <2>4, FS_PigeonHole
  <2> QED BY <2>2, <2>5
<1> HIDE DEF id
<1>3. {i \in 0..n : id(i) \notin used} # {}
  BY <1>2
<1> QED BY <1>1, <1>3 DEF id

\* The id given to a new entry is an id.
LEMMA NextIdIs ==
  ASSUME NEW conversation \in Seq(Messages), NEW queues \in Queues, NEW kind \in Kinds
  PROVE  NextMessageId(conversation, queues, kind) \in Ids
<1> DEFINE a == {conversation[i].id : i \in DOMAIN conversation}
           b(k) == {queues[k][i].id : i \in DOMAIN queues[k]}
           used == a \cup UNION {b(k) : k \in Kinds}
           id(i) == [prefix |-> kind, pending |-> FALSE, index |-> i]
           T == {i \in 0..Cardinality(used) : id(i) \notin used}
<1>1. IsFiniteSet(a)
  BY IdsFinite
<1>2. \A k \in Kinds : IsFiniteSet(b(k))
  <2> TAKE k \in Kinds
  <2>1. queues[k] \in Seq(Entries)
    BY DEF Queues
  <2> QED BY <2>1, IdsFinite
<1> HIDE DEF a, b
<1>3. UNION {b(k) : k \in Kinds} = b("steering") \cup (b("follow_up") \cup b("interjection"))
  BY DEF Kinds
<1>4. IsFiniteSet(b("steering") \cup (b("follow_up") \cup b("interjection")))
  <2>1. IsFiniteSet(b("steering")) /\ IsFiniteSet(b("follow_up")) /\ IsFiniteSet(b("interjection"))
    BY <1>2 DEF Kinds
  <2>2. IsFiniteSet(b("follow_up") \cup b("interjection"))
    BY <2>1, FS_Union
  <2> QED BY <2>1, <2>2, FS_Union
<1>5. IsFiniteSet(used)
  BY <1>1, <1>3, <1>4, FS_Union
<1>6. NextMessageId(conversation, queues, kind) = id(Least(T))
  BY DEF NextMessageId, a, b
<1> HIDE DEF used
<1>7. T # {} /\ T \subseteq Nat
  <2>1. Cardinality(used) \in Nat
    BY <1>5, FreeNumber
  <2>2. {i \in 0..Cardinality(used) :
            [prefix |-> kind, pending |-> FALSE, index |-> i] \notin used} # {}
    BY <1>5, FreeNumber
  <2>3. T # {}
    BY <2>2
  <2>4. \A n \in Nat : \A i \in 0..n : i \in Nat
    OBVIOUS
  <2>5. T \subseteq 0..Cardinality(used)
    OBVIOUS
  <2> HIDE DEF T
  <2> QED BY <2>1, <2>3, <2>4, <2>5
<1>8. Least(T) \in Nat
  <2> HIDE DEF T
  <2> QED BY <1>7, LeastIs
<1> HIDE DEF T
<1> QED BY <1>6, <1>8 DEF Ids

\* An entry put behind one queue.
LEMMA AppendedIs ==
  ASSUME NEW queues \in Queues, NEW kind \in Kinds, NEW e \in Entries
  PROVE  LET new == [queues EXCEPT ![kind] = Append(@, e)]
         IN  /\ new \in Queues /\ new[kind] = Append(queues[kind], e)
             /\ \A k \in Kinds : k # kind => new[k] = queues[k]
<1>1. queues[kind] \in Seq(Entries)
  BY DEF Queues
<1>2. Append(queues[kind], e) \in Seq(Entries)
  BY <1>1, AppendProperties
<1>3. [queues EXCEPT ![kind] = Append(@, e)] = [queues EXCEPT ![kind] = Append(queues[kind], e)]
  BY DEF Queues
<1> QED BY <1>2, <1>3 DEF Queues

\* What Submit does, told apart by who holds the queue.
SubmitsTo(old, new, kind, e) ==
  /\ new = [old EXCEPT ![kind] = Append(@, e)]
  /\ CheckQueueCapacity(old[kind], e.input)

\* Submit accepts one input and puts it behind the queue of its kind.
LEMMA SubmitIs ==
  ASSUME TypeInv, Submit
  PROVE  /\ accepted < MaxInputs /\ accepted' = accepted + 1 /\ Resume
         /\ UNCHANGED <<turn, node, polling, attached, cancelled, turn_no, messages,
                       assistant, buffered, ctx_override, override_consumed,
                       delivered, override_uses, pending_commit, event_tx, handles,
                       consumerVars, state_messages, state_override, prompts,
                       withdrawn, overrides, abort_asked>>
         /\ pending_counter' \in Nat
         /\ \E kind \in SubmitKinds, e \in Entries :
              /\ kind \in Kinds /\ e.input = accepted + 1
              /\ \/ turn = "none" /\ SubmitsTo(state_queues, state_queues', kind, e)
                    /\ UNCHANGED <<ctx_queues, pending>>
                 \/ ContextHeld /\ SubmitsTo(ctx_queues, ctx_queues', kind, e)
                    /\ UNCHANGED <<state_queues, pending>>
                 \/ turn = "running" /\ SubmitsTo(pending, pending', kind, e)
                    /\ UNCHANGED <<state_queues, ctx_queues>>
<1>1. /\ accepted < MaxInputs /\ accepted' = accepted + 1 /\ Resume
      /\ UNCHANGED <<turn, node, polling, attached, cancelled, turn_no, messages,
                     assistant, buffered, ctx_override, override_consumed,
                     delivered, override_uses, pending_commit, event_tx, handles,
                     consumerVars, state_messages, state_override, prompts,
                     withdrawn, overrides, abort_asked>>
  BY DEF Submit
<1>2. PICK kind \in SubmitKinds :
        \/ /\ turn = "none"
           /\ CheckQueueCapacity(state_queues[kind], accepted + 1)
           /\ state_queues' = [state_queues EXCEPT ![kind] = Append(@,
                 Entry(NextMessageId(state_messages, state_queues, kind), accepted + 1))]
           /\ UNCHANGED <<ctx_queues, pending, pending_counter>>
        \/ /\ ContextHeld
           /\ CheckQueueCapacity(ctx_queues[kind], accepted + 1)
           /\ ctx_queues' = [ctx_queues EXCEPT ![kind] = Append(@,
                 Entry(NextMessageId(messages, ctx_queues, kind), accepted + 1))]
           /\ UNCHANGED <<state_queues, pending, pending_counter>>
        \/ /\ turn = "running"
           /\ CheckQueueCapacity(pending[kind], accepted + 1)
           /\ pending' = [pending EXCEPT ![kind] = Append(@,
                 Entry([prefix |-> kind, pending |-> TRUE,
                        index |-> pending_counter], accepted + 1))]
           /\ pending_counter' = pending_counter + 1
           /\ UNCHANGED <<state_queues, ctx_queues>>
  BY DEF Submit
<1>3. kind \in Kinds
  BY Limits
<1>4. /\ state_messages \in Seq(Messages) /\ messages \in Seq(Messages)
      /\ state_queues \in Queues /\ ctx_queues \in Queues /\ pending \in Queues
      /\ pending_counter \in Nat /\ accepted \in 0..MaxInputs
  BY DEF TypeInv, ActorTypeOK, TurnTypeOK
<1>5. accepted + 1 \in 1..MaxInputs
  BY <1>1, <1>4, Limits
<1>6. pending_counter' \in Nat
  BY <1>2, <1>4
<1>7. ASSUME NEW id \in Ids
      PROVE  Entry(id, accepted + 1) \in Entries /\ Entry(id, accepted + 1).input = accepted + 1
  BY <1>5 DEF Entry, Entries
<1>8. /\ NextMessageId(state_messages, state_queues, kind) \in Ids
      /\ NextMessageId(messages, ctx_queues, kind) \in Ids
      /\ [prefix |-> kind, pending |-> TRUE, index |-> pending_counter] \in Ids
  <2>1. [prefix |-> kind, pending |-> TRUE, index |-> pending_counter] \in Ids
    BY <1>3, <1>4 DEF Ids
  <2> QED BY <1>3, <1>4, <2>1, NextIdIs
<1>9. \E e \in Entries :
              /\ e.input = accepted + 1
              /\ \/ turn = "none" /\ SubmitsTo(state_queues, state_queues', kind, e)
                    /\ UNCHANGED <<ctx_queues, pending>>
                 \/ ContextHeld /\ SubmitsTo(ctx_queues, ctx_queues', kind, e)
                    /\ UNCHANGED <<state_queues, pending>>
                 \/ turn = "running" /\ SubmitsTo(pending, pending', kind, e)
                    /\ UNCHANGED <<state_queues, ctx_queues>>
  <2>1. CASE turn = "none"
    <3> DEFINE e == Entry(NextMessageId(state_messages, state_queues, kind), accepted + 1)
    <3>1. e \in Entries /\ e.input = accepted + 1
      BY <1>7, <1>8
    <3>2. /\ CheckQueueCapacity(state_queues[kind], accepted + 1)
          /\ state_queues' = [state_queues EXCEPT ![kind] = Append(@, e)]
          /\ UNCHANGED <<ctx_queues, pending>>
      BY <1>2, <2>1 DEF ContextHeld
    <3> HIDE DEF e
    <3> QED BY <2>1, <3>1, <3>2 DEF SubmitsTo
  <2>2. CASE ContextHeld
    <3> DEFINE e == Entry(NextMessageId(messages, ctx_queues, kind), accepted + 1)
    <3>1. e \in Entries /\ e.input = accepted + 1
      BY <1>7, <1>8
    <3>2. /\ CheckQueueCapacity(ctx_queues[kind], accepted + 1)
          /\ ctx_queues' = [ctx_queues EXCEPT ![kind] = Append(@, e)]
          /\ UNCHANGED <<state_queues, pending>>
      BY <1>2, <2>2 DEF ContextHeld
    <3> HIDE DEF e
    <3> QED BY <2>2, <3>1, <3>2 DEF SubmitsTo
  <2>3. CASE turn = "running"
    <3> DEFINE e == Entry([prefix |-> kind, pending |-> TRUE, index |-> pending_counter],
                          accepted + 1)
    <3>1. e \in Entries /\ e.input = accepted + 1
      BY <1>7, <1>8
    <3>2. /\ CheckQueueCapacity(pending[kind], accepted + 1)
          /\ pending' = [pending EXCEPT ![kind] = Append(@, e)]
          /\ UNCHANGED <<ctx_queues, state_queues>>
      BY <1>2, <2>3 DEF ContextHeld
    <3> HIDE DEF e
    <3> QED BY <2>3, <3>1, <3>2 DEF SubmitsTo
  <2> QED BY <1>2, <2>1, <2>2, <2>3
<1> QED BY <1>1, <1>3, <1>6, <1>9

\* Inputs are the numbers of a queue's entries.
LEMMA InputsBounded ==
  /\ \A q \in Seq(Entries) : Inputs(q) \subseteq 1..MaxInputs
  /\ \A queues \in Queues : InputsIn(queues) \subseteq 1..MaxInputs
<1>1. ASSUME NEW q \in Seq(Entries) PROVE Inputs(q) \subseteq 1..MaxInputs
  <2>1. \A i \in DOMAIN q : q[i].input \in 1..MaxInputs
    <3> TAKE i \in DOMAIN q
    <3>1. i \in 1..Len(q)
      BY LenProperties
    <3>2. q[i] \in Entries
      BY <3>1, ElementOfSeq
    <3> QED BY <3>2 DEF Entries
  <2> QED BY <2>1 DEF Inputs
<1>2. ASSUME NEW queues \in Queues PROVE InputsIn(queues) \subseteq 1..MaxInputs
  <2>1. \A k \in Kinds : queues[k] \in Seq(Entries)
    BY DEF Queues
  <2>2. \A k \in Kinds : Inputs(queues[k]) \subseteq 1..MaxInputs
    BY <1>1, <2>1
  <2> QED BY <2>2 DEF InputsIn
<1> QED BY <1>1, <1>2

\* The list of a command goes back to where it was read from.
LEMMA StoreIs ==
  ASSUME TypeInv, NEW list \in Lists, Len(list) = Len(Searched), Store(list)
  PROVE  /\ state_queues' \in Queues /\ ctx_queues' \in Queues /\ pending' \in Queues
         /\ turn = "none" =>
              /\ UNCHANGED <<ctx_queues, pending>>
              /\ \A k \in Kinds : state_queues'[k] = list[Place(k)]
         /\ turn # "none" /\ ~ContextHeld =>
              /\ UNCHANGED <<ctx_queues, state_queues>>
              /\ \A k \in Kinds : pending'[k] = list[Place(k)]
         /\ ContextHeld =>
              /\ UNCHANGED state_queues
              /\ \A k \in Kinds : /\ ctx_queues'[k] = list[Place(k)]
                                  /\ pending'[k] = list[3 + Place(k)]
<1>0. /\ state_queues \in Queues /\ ctx_queues \in Queues /\ pending \in Queues
      /\ turn = "none" => ~ContextHeld
  BY DEF TypeInv, ActorTypeOK, TurnTypeOK, ContextHeld
<1>1. Len(list) = IF ContextHeld THEN 6 ELSE 3
  BY <1>0, SearchedIs
<1>2. /\ FromList(list, 0) \in Queues /\ \A k \in Kinds : FromList(list, 0)[k] = list[Place(k)]
  <2>1. 0 \in {0, 3} /\ 0 + 3 <= Len(list)
    BY <1>1
  <2>2. \A k \in Kinds : 0 + Place(k) = Place(k)
    <3> TAKE k \in Kinds
    <3>1. Place(k) \in 1..3
      BY PlaceIs
    <3> HIDE DEF Place
    <3> QED BY <3>1
  <2> QED BY <2>1, <2>2, FromListIs
<1>3. ContextHeld => /\ FromList(list, 3) \in Queues
                     /\ \A k \in Kinds : FromList(list, 3)[k] = list[3 + Place(k)]
  <2>1. ContextHeld => 3 \in {0, 3} /\ 3 + 3 <= Len(list)
    BY <1>1
  <2> QED BY <2>1, FromListIs
<1>4. /\ state_queues' = IF turn = "none" THEN FromList(list, 0) ELSE state_queues
      /\ ctx_queues' = IF ContextHeld THEN FromList(list, 0) ELSE ctx_queues
      /\ pending' = IF turn = "none" THEN pending
                    ELSE FromList(list, IF ContextHeld THEN 3 ELSE 0)
  BY DEF Store
<1>5. CASE turn = "none"
  BY <1>0, <1>2, <1>4, <1>5
<1>6. CASE turn # "none" /\ ~ContextHeld
  BY <1>0, <1>2, <1>4, <1>6
<1>7. CASE ContextHeld
  BY <1>0, <1>2, <1>3, <1>4, <1>7
<1> QED BY <1>5, <1>6, <1>7

\* Editing an entry changes no input.
LEMMA EditFacts ==
  ASSUME TypeInv, EditQueueEntry
  PROVE  /\ state_queues' \in Queues /\ ctx_queues' \in Queues /\ pending' \in Queues
         /\ \A k \in Kinds : /\ InputsOf(ctx_queues'[k]) = InputsOf(ctx_queues[k])
                             /\ InputsOf(pending'[k]) = InputsOf(pending[k])
                             /\ InputsOf(state_queues'[k]) = InputsOf(state_queues[k])
<1>0. /\ state_queues \in Queues /\ ctx_queues \in Queues /\ pending \in Queues
      /\ turn = "none" => ~ContextHeld
  BY DEF TypeInv, ActorTypeOK, TurnTypeOK, ContextHeld
<1>1. PICK entry \in Named : /\ Current(Searched, entry.id, entry.version)
                             /\ Store(EditEntry(Searched, entry.id))
  BY DEF EditQueueEntry
<1>2. HolderOf(Searched, entry.id) # 0
  BY <1>1 DEF Current
<1> DEFINE list == EditEntry(Searched, entry.id)
<1>3. Searched \in Lists
  BY <1>0, SearchedIs
<1>4. /\ list \in Lists /\ Len(list) = Len(Searched)
      /\ \A r \in 1..Len(Searched) : InputsOf(list[r]) = InputsOf(Searched[r])
  BY <1>2, <1>3, EditIs
<1>5. Store(list)
  BY <1>1
<1> HIDE DEF list
<1>6. \A k \in Kinds : /\ Place(k) \in 1..Len(Searched)
                       /\ ContextHeld => 3 + Place(k) \in 1..Len(Searched)
  <2> TAKE k \in Kinds
  <2>1. PICK p \in 1..3 : p = Place(k)
    BY PlaceIs
  <2> QED BY <1>0, <2>1, SearchedIs
<1>7. /\ turn = "none" => \A k \in Kinds : Searched[Place(k)] = state_queues[k]
      /\ turn # "none" /\ ~ContextHeld => \A k \in Kinds : Searched[Place(k)] = pending[k]
      /\ ContextHeld => \A k \in Kinds : /\ Searched[Place(k)] = ctx_queues[k]
                                         /\ Searched[3 + Place(k)] = pending[k]
  BY <1>0, SearchedIs
<1>8. /\ state_queues' \in Queues /\ ctx_queues' \in Queues /\ pending' \in Queues
      /\ turn = "none" =>
           /\ UNCHANGED <<ctx_queues, pending>>
           /\ \A k \in Kinds : state_queues'[k] = list[Place(k)]
      /\ turn # "none" /\ ~ContextHeld =>
           /\ UNCHANGED <<ctx_queues, state_queues>>
           /\ \A k \in Kinds : pending'[k] = list[Place(k)]
      /\ ContextHeld =>
           /\ UNCHANGED state_queues
           /\ \A k \in Kinds : /\ ctx_queues'[k] = list[Place(k)]
                               /\ pending'[k] = list[3 + Place(k)]
  BY <1>4, <1>5, StoreIs
<1>9. ASSUME NEW k \in Kinds
      PROVE  /\ InputsOf(ctx_queues'[k]) = InputsOf(ctx_queues[k])
             /\ InputsOf(pending'[k]) = InputsOf(pending[k])
             /\ InputsOf(state_queues'[k]) = InputsOf(state_queues[k])
  <2>1. CASE turn = "none"
    BY <1>4, <1>6, <1>7, <1>8, <2>1
  <2>2. CASE turn # "none" /\ ~ContextHeld
    BY <1>4, <1>6, <1>7, <1>8, <2>2
  <2>3. CASE ContextHeld
    BY <1>0, <1>4, <1>6, <1>7, <1>8, <2>3
  <2> QED BY <2>1, <2>2, <2>3
<1> QED BY <1>8, <1>9

\* One entry of one queue is gone and nothing else changed.
Removed(old, new, kind, i) ==
  /\ kind \in Kinds /\ i \in 1..Len(old[kind])
  /\ new \in Queues
  /\ new[kind] = Without(old[kind], i)
  /\ \A k \in Kinds : k # kind => new[k] = old[k]

\* RemoveQueueEntry takes one entry out of one queue.
LEMMA RemoveFacts ==
  ASSUME TypeInv, RemoveQueueEntry
  PROVE  /\ state_queues' \in Queues /\ ctx_queues' \in Queues /\ pending' \in Queues
         /\ \E kind, i :
              \/ /\ Removed(state_queues, state_queues', kind, i)
                 /\ UNCHANGED <<ctx_queues, pending>>
                 /\ withdrawn' = withdrawn \cup {state_queues[kind][i].input}
              \/ /\ Removed(ctx_queues, ctx_queues', kind, i)
                 /\ \A k \in Kinds : pending'[k] = pending[k]
                 /\ UNCHANGED state_queues
                 /\ withdrawn' = withdrawn \cup {ctx_queues[kind][i].input}
              \/ /\ Removed(pending, pending', kind, i)
                 /\ \A k \in Kinds : ctx_queues'[k] = ctx_queues[k]
                 /\ UNCHANGED state_queues
                 /\ withdrawn' = withdrawn \cup {pending[kind][i].input}
<1>0. /\ state_queues \in Queues /\ ctx_queues \in Queues /\ pending \in Queues
      /\ turn = "none" => ~ContextHeld
  BY DEF TypeInv, ActorTypeOK, TurnTypeOK, ContextHeld
<1>1. PICK id : /\ HolderOf(Searched, id) # 0
                /\ Store(RemoveEntry(Searched, id))
                /\ LET q == HolderOf(Searched, id)
                   IN  withdrawn' = withdrawn \cup {Searched[q][PlaceIn(Searched[q], id)].input}
  BY DEF RemoveQueueEntry, Current
<1>2. HolderOf(Searched, id) # 0
  BY <1>1
<1>3. Searched \in Lists
  BY <1>0, SearchedIs
<1> DEFINE q == HolderOf(Searched, id)
           i == PlaceIn(Searched[q], id)
           list == RemoveEntry(Searched, id)
<1>4. q \in 1..Len(Searched) /\ i \in 1..Len(Searched[q])
  BY <1>2, <1>3, HolderIs
<1>5. /\ list \in Lists /\ Len(list) = Len(Searched)
      /\ list[q] = Without(Searched[q], i)
      /\ \A r \in 1..Len(Searched) : r # q => list[r] = Searched[r]
  BY <1>2, <1>3, RemoveIs
<1>6. Store(list) /\ withdrawn' = withdrawn \cup {Searched[q][i].input}
  BY <1>1
<1> HIDE DEF q, i, list
<1>7. /\ state_queues' \in Queues /\ ctx_queues' \in Queues /\ pending' \in Queues
      /\ turn = "none" =>
           /\ UNCHANGED <<ctx_queues, pending>>
           /\ \A k \in Kinds : state_queues'[k] = list[Place(k)]
      /\ turn # "none" /\ ~ContextHeld =>
           /\ UNCHANGED <<ctx_queues, state_queues>>
           /\ \A k \in Kinds : pending'[k] = list[Place(k)]
      /\ ContextHeld =>
           /\ UNCHANGED state_queues
           /\ \A k \in Kinds : /\ ctx_queues'[k] = list[Place(k)]
                               /\ pending'[k] = list[3 + Place(k)]
  BY <1>5, <1>6, StoreIs
<1>8. /\ Len(Searched) = IF ContextHeld THEN 6 ELSE 3
      /\ turn = "none" => \A k \in Kinds : Searched[Place(k)] = state_queues[k]
      /\ turn # "none" /\ ~ContextHeld => \A k \in Kinds : Searched[Place(k)] = pending[k]
      /\ ContextHeld => \A k \in Kinds : /\ Searched[Place(k)] = ctx_queues[k]
                                         /\ Searched[3 + Place(k)] = pending[k]
  BY <1>0, SearchedIs
<1>9. /\ \A k \in Kinds : Place(k) \in 1..3
      /\ \A k, l \in Kinds : k # l => Place(k) # Place(l)
      /\ \A p \in 1..3 : \E k \in Kinds : Place(k) = p
  BY PlaceIs
<1> HIDE DEF Place
<1>10. CASE turn = "none"
  <2>1. q \in 1..3 /\ Len(Searched) = 3
    BY <1>0, <1>4, <1>8, <1>10
  <2>2. PICK kind \in Kinds : Place(kind) = q
    BY <1>9, <2>1
  <2>3. Searched[q] = state_queues[kind]
    BY <1>8, <1>10, <2>2
  <2>4. Removed(state_queues, state_queues', kind, i)
    BY <1>4, <1>5, <1>7, <1>8, <1>9, <1>10, <2>1, <2>2, <2>3 DEF Removed
  <2> QED BY <1>6, <1>7, <1>10, <2>3, <2>4
<1>11. CASE turn # "none" /\ ~ContextHeld
  <2>1. q \in 1..3 /\ Len(Searched) = 3
    BY <1>4, <1>8, <1>11
  <2>2. PICK kind \in Kinds : Place(kind) = q
    BY <1>9, <2>1
  <2>3. Searched[q] = pending[kind]
    BY <1>8, <1>11, <2>2
  <2>4. Removed(pending, pending', kind, i)
    BY <1>4, <1>5, <1>7, <1>8, <1>9, <1>11, <2>1, <2>2, <2>3 DEF Removed
  <2>5. \A k \in Kinds : ctx_queues'[k] = ctx_queues[k]
    BY <1>7, <1>11
  <2> QED BY <1>6, <1>7, <1>11, <2>3, <2>4, <2>5
<1>12. CASE ContextHeld /\ q \in 1..3
  <2>1. Len(Searched) = 6
    BY <1>8, <1>12
  <2>2. PICK kind \in Kinds : Place(kind) = q
    BY <1>9, <1>12
  <2>3. Searched[q] = ctx_queues[kind]
    BY <1>8, <1>12, <2>2
  <2>0. \A k \in Kinds : /\ Place(k) \in 1..6 /\ 3 + Place(k) \in 1..6 /\ 3 + Place(k) # q
                         /\ k # kind => Place(k) # q
    BY <1>9, <1>12, <2>2
  <2>4. Removed(ctx_queues, ctx_queues', kind, i)
    BY <1>4, <1>5, <1>7, <1>8, <1>12, <2>0, <2>1, <2>2, <2>3 DEF Removed
  <2>5. \A k \in Kinds : pending'[k] = pending[k]
    BY <1>5, <1>7, <1>8, <1>12, <2>0, <2>1
  <2> QED BY <1>0, <1>6, <1>7, <1>12, <2>3, <2>4, <2>5
<1>13. CASE ContextHeld /\ q \notin 1..3
  <2>1. Len(Searched) = 6
    BY <1>8, <1>13
  <2>a. q - 3 \in 1..3
    BY <1>4, <1>13, <2>1
  <2>2. PICK kind \in Kinds : Place(kind) = q - 3
    BY <1>9, <2>a
  <2>b. 3 + Place(kind) = q
    BY <1>4, <2>1, <2>2
  <2>3. Searched[q] = pending[kind]
    BY <1>8, <1>13, <2>b
  <2>0. \A k \in Kinds : /\ Place(k) \in 1..6 /\ 3 + Place(k) \in 1..6 /\ Place(k) # q
                         /\ k # kind => 3 + Place(k) # q
    BY <1>4, <1>9, <1>13, <2>1, <2>2, <2>b
  <2>4. Removed(pending, pending', kind, i)
    BY <1>4, <1>5, <1>7, <1>8, <1>13, <2>0, <2>1, <2>b, <2>3 DEF Removed
  <2>5. \A k \in Kinds : ctx_queues'[k] = ctx_queues[k]
    BY <1>5, <1>7, <1>8, <1>13, <2>0, <2>1
  <2> QED BY <1>0, <1>6, <1>7, <1>13, <2>3, <2>4, <2>5
<1> QED BY <1>10, <1>11, <1>12, <1>13

\* A command that changes only the queues, the accounts and the place.
LEMMA QueuesOnly ==
  ASSUME TypeInv, state_queues' \in Queues, ctx_queues' \in Queues, pending' \in Queues,
         pending_counter' \in Nat, Resume,
         accepted' \in 0..MaxInputs, withdrawn' \subseteq 1..MaxInputs,
         UNCHANGED <<turn, node, polling, attached, cancelled, turn_no, messages,
                     assistant, buffered, ctx_override, override_consumed,
                     delivered, override_uses, pending_commit, event_tx, handles,
                     consumerVars, state_messages, state_override, prompts,
                     overrides, abort_asked>>
  PROVE  TypeInv'
<1>1. TurnTypeOK'
  BY DEF TypeInv, ActorTypeOK, TurnTypeOK
<1>2. ActorRest' /\ StateRest'
  BY DEF TypeInv, ActorTypeOK, ActorRest, StateRest, Resume, consumerVars
<1>3. turn_no' > MaxTurns => turn' = "done"
  BY DEF TypeInv
<1> QED BY <1>1, <1>2, <1>3 DEF TypeInv, ActorTypeOK, ActorRest, StateRest

\* The beginning of a loop moves conversation and queues into the working copy.
LEMMA BeginTypes ==
  ASSUME TypeInv, turn = "none", prompts < MaxPrompts,
         NEW conversation \in Seq(Messages), BeginLoop(conversation)
  PROVE  TypeInv'
<1>0. TurnTypeOK /\ ActorRest /\ StateRest /\ (turn_no > MaxTurns => turn = "done")
  BY InvSplit
<1>1. /\ turn' = "ready"
      /\ cancelled' = FALSE
      /\ state_messages' = conversation /\ messages' = conversation
      /\ ctx_queues' = state_queues /\ state_queues' = EmptyQueues
      /\ ctx_override' = state_override /\ state_override' = 0
      /\ event_tx' = TRUE /\ stream' = "open" /\ channel' = 0
      /\ prompts' = prompts + 1
      /\ Resume
      /\ UNCHANGED <<node, polling, attached, turn_no, assistant, pending,
                     pending_counter, buffered, override_consumed, delivered,
                     override_uses, pending_commit, handles, accepted, withdrawn,
                     overrides, abort_asked>>
  BY DEF BeginLoop
<1>2. TurnTypeOK'
  BY <1>0, <1>1 DEF TurnTypeOK, StateRest
<1>3. ActorRest'
  <2>1. prompts' \in 0..MaxPrompts
    BY <1>0, <1>1, Limits DEF ActorRest
  <2>2. channel' \in 0..ChannelCap
    BY <1>1, Limits
  <2>3. pc' \in {"top", "sending", "draining", "stopped"}
    BY <1>0, <1>1 DEF ActorRest, Resume
  <2> QED BY <1>0, <1>1, <2>1, <2>2, <2>3 DEF ActorRest
<1>4. StateRest'
  BY <1>1, EmptyQueuesTyped, Limits DEF StateRest
<1>5. turn_no' > MaxTurns => turn' = "done"
  BY <1>0, <1>1
<1> QED BY <1>2, <1>3, <1>4, <1>5 DEF TypeInv, ActorTypeOK, ActorRest, StateRest

\* Every command keeps the types.
LEMMA CommandTypes ==
  ASSUME TypeInv, Command
  PROVE  TypeInv'
<1>0. /\ ActorRest /\ StateRest /\ TurnTypeOK
      /\ cancelled \in BOOLEAN /\ buffered \in 0..MaxBuffered /\ MaxBuffered \in Nat
      /\ turn_no > MaxTurns => turn = "done"
  BY InvSplit, Limits DEF TurnTypeOK
<1>q. /\ ctx_queues \in Queues /\ pending \in Queues /\ state_queues \in Queues
      /\ pending_counter \in Nat /\ accepted \in 0..MaxInputs /\ withdrawn \subseteq 1..MaxInputs
  BY <1>0 DEF TurnTypeOK, StateRest, ActorRest
<1>u. Message("user", 0, 1) \in Messages /\ state_messages \in Seq(Messages)
  BY <1>0, MessageIs DEF Roles, StateRest
<1>1. CASE Prompt
  <2>1. Append(state_messages, Message("user", 0, 1)) \in Seq(Messages)
    BY <1>u, AppendProperties
  <2> QED BY <1>1, <2>1, BeginTypes DEF Prompt
<1>2. CASE Run
  BY <1>2, <1>u, BeginTypes DEF Run
<1>3. CASE Submit
  <2>1. /\ accepted < MaxInputs /\ accepted' = accepted + 1 /\ Resume
        /\ UNCHANGED <<turn, node, polling, attached, cancelled, turn_no, messages,
                       assistant, buffered, ctx_override, override_consumed,
                       delivered, override_uses, pending_commit, event_tx, handles,
                       consumerVars, state_messages, state_override, prompts,
                       withdrawn, overrides, abort_asked>>
        /\ pending_counter' \in Nat
    BY <1>3, SubmitIs
  <2>2. state_queues' \in Queues /\ ctx_queues' \in Queues /\ pending' \in Queues
    <3>1. PICK kind \in Kinds, e \in Entries :
              \/ SubmitsTo(state_queues, state_queues', kind, e)
                    /\ UNCHANGED <<ctx_queues, pending>>
              \/ SubmitsTo(ctx_queues, ctx_queues', kind, e)
                    /\ UNCHANGED <<state_queues, pending>>
              \/ SubmitsTo(pending, pending', kind, e)
                    /\ UNCHANGED <<state_queues, ctx_queues>>
      BY <1>3, SubmitIs
    <3> QED BY <1>q, <3>1, AppendedIs DEF SubmitsTo
  <2>3. accepted' \in 0..MaxInputs /\ withdrawn' \subseteq 1..MaxInputs
    BY <1>q, <2>1, Limits
  <2> QED BY <2>1, <2>2, <2>3, QueuesOnly
<1>4. CASE Abort
  <2>1. cancelled' \in BOOLEAN
    BY <1>4, AbortTyped DEF Abort
  <2>2. ActorRest'
    <3>1. /\ Resume /\ abort_asked' = (abort_asked \/ turn # "none")
          /\ UNCHANGED <<turn, pending_commit, event_tx, handles, consumerVars, prompts, accepted,
                         withdrawn, overrides>>
      BY <1>4 DEF Abort
    <3> QED BY <1>0, <3>1 DEF ActorRest, Resume, consumerVars
  <2>3. /\ buffered' = buffered
        /\ UNCHANGED <<turn, node, polling, attached, turn_no, messages, assistant,
                   ctx_queues, pending, pending_counter, ctx_override,
                   override_consumed, delivered, override_uses, stateVars>>
    BY <1>4 DEF Abort
  <2> QED BY <1>0, <2>1, <2>2, <2>3, LoopLeftAlone
<1>5. CASE ClearQueues
  <2>1. /\ state_queues' = EmptyQueues /\ pending' = EmptyQueues
        /\ ctx_queues' \in {EmptyQueues, ctx_queues}
        /\ withdrawn' = withdrawn \cup InputsIn(state_queues) \cup InputsIn(pending)
                        \cup Reached
        /\ Resume
        /\ UNCHANGED <<turn, node, polling, attached, cancelled, turn_no, messages,
                   assistant, pending_counter, buffered, ctx_override,
                   override_consumed, delivered, override_uses, pending_commit,
                   event_tx, handles, consumerVars, state_messages, state_override,
                   prompts, accepted, overrides, abort_asked>>
    BY <1>5 DEF ClearQueues
  <2>2. Reached \subseteq InputsIn(ctx_queues)
    BY DEF Reached
  <2>3. withdrawn' \subseteq 1..MaxInputs
    BY <1>q, <2>1, <2>2, InputsBounded
  <2>4. state_queues' \in Queues /\ ctx_queues' \in Queues /\ pending' \in Queues
    BY <1>q, <2>1, EmptyQueuesTyped
  <2> QED BY <1>q, <2>1, <2>3, <2>4, QueuesOnly
<1>6. CASE DrainQueue
  <2>1. PICK kind \in {"steering", "follow_up"} :
        /\ state_queues' = [state_queues EXCEPT ![kind] = << >>]
        /\ pending' = [pending EXCEPT ![kind] = << >>]
        /\ ctx_queues' \in {[ctx_queues EXCEPT ![kind] = << >>], ctx_queues}
        /\ withdrawn' \subseteq withdrawn \cup Inputs(state_queues[kind])
                \cup Inputs(pending[kind]) \cup Inputs(ctx_queues[kind])
        /\ Resume
        /\ UNCHANGED <<turn, node, polling, attached, cancelled, turn_no, messages,
                       assistant, pending_counter, buffered, ctx_override,
                       override_consumed, delivered, override_uses, pending_commit,
                       event_tx, handles, consumerVars, state_messages,
                       state_override, prompts, accepted, overrides,
                       abort_asked>>
    BY <1>6 DEF DrainQueue
  <2>2. kind \in Kinds
    BY DEF Kinds
  <2>3. /\ state_queues[kind] \in Seq(Entries) /\ pending[kind] \in Seq(Entries)
        /\ ctx_queues[kind] \in Seq(Entries)
    BY <1>q, <2>2 DEF Queues
  <2>4. withdrawn' \subseteq 1..MaxInputs
    BY <1>q, <2>1, <2>3, InputsBounded
  <2>5. << >> \in Seq(Entries)
    BY EmptySeq
  <2>6. state_queues' \in Queues /\ ctx_queues' \in Queues /\ pending' \in Queues
    BY <1>q, <2>1, <2>5 DEF Queues
  <2> QED BY <1>q, <2>1, <2>4, <2>6, QueuesOnly
<1>7. CASE EditQueueEntry
  <2>1. /\ Resume
        /\ UNCHANGED <<turn, node, polling, attached, cancelled, turn_no, messages,
                       assistant, pending_counter, buffered, ctx_override,
                       override_consumed, delivered, override_uses, pending_commit,
                       event_tx, handles, consumerVars, state_messages,
                       state_override, prompts, accepted, withdrawn, overrides, abort_asked>>
    BY <1>7 DEF EditQueueEntry, historyVars
  <2>2. state_queues' \in Queues /\ ctx_queues' \in Queues /\ pending' \in Queues
    BY <1>7, EditFacts
  <2> QED BY <1>q, <2>1, <2>2, QueuesOnly
<1>8. CASE RemoveQueueEntry
  <2>1. /\ Resume
        /\ UNCHANGED <<turn, node, polling, attached, cancelled, turn_no, messages,
                       assistant, pending_counter, buffered, ctx_override,
                       override_consumed, delivered, override_uses, pending_commit,
                       event_tx, handles, consumerVars, state_messages,
                       state_override, prompts, accepted, overrides, abort_asked>>
    BY <1>8 DEF RemoveQueueEntry
  <2>2. state_queues' \in Queues /\ ctx_queues' \in Queues /\ pending' \in Queues
    BY <1>8, RemoveFacts
  <2>3. withdrawn' \subseteq 1..MaxInputs
    <3>1. PICK x : withdrawn' = withdrawn \cup {x} /\ x \in
            InputsIn(ctx_queues) \cup InputsIn(pending) \cup InputsIn(state_queues)
      <4>1. ASSUME NEW queues \in Queues, NEW new, NEW kind, NEW i, Removed(queues, new, kind, i)
            PROVE  queues[kind][i].input \in InputsIn(queues)
        <5>1. kind \in Kinds /\ i \in 1..Len(queues[kind])
          BY <4>1 DEF Removed
        <5>2. queues[kind] \in Seq(Entries)
          BY <5>1 DEF Queues
        <5>3. i \in DOMAIN queues[kind]
          BY <5>1, <5>2, LenProperties
        <5> QED BY <5>1, <5>3 DEF InputsIn, Inputs
      <4> QED BY <1>8, <1>q, <4>1, RemoveFacts
    <3> QED BY <1>q, <3>1, InputsBounded
  <2> QED BY <1>q, <2>1, <2>2, <2>3, QueuesOnly
<1>9. CASE ChangeMessages
  <2>1. /\ \/ state_messages' = Append(state_messages, Message("user", 0, 1))
           \/ state_messages' = <<Message("user", 0, 1)>>
        /\ Resume
        /\ UNCHANGED <<loopVars, pending_commit, event_tx, handles, consumerVars,
                       state_queues, state_override, historyVars>>
    BY <1>9 DEF ChangeMessages
  <2>2. state_messages' \in Seq(Messages)
    <3>1. ASSUME NEW m \in Messages, NEW s \in Seq(Messages)
          PROVE  Append(s, m) \in Seq(Messages) /\ <<m>> \in Seq(Messages)
      BY AppendProperties
    <3> QED BY <1>u, <2>1, <3>1
  <2>3. TurnTypeOK' /\ (turn_no' > MaxTurns => turn' = "done")
    BY <1>0, <2>1 DEF TurnTypeOK, loopVars
  <2>4. ActorRest' /\ StateRest'
    BY <1>0, <2>1, <2>2 DEF ActorRest, StateRest, Resume, loopVars, consumerVars, historyVars
  <2> QED BY <2>3, <2>4 DEF TypeInv, ActorTypeOK, ActorRest, StateRest
<1>10. CASE SetProviderRequestOverride
  <2>1. /\ overrides < MaxOverrides
        /\ overrides' = overrides + 1
        /\ state_override' = overrides + 1
        /\ ctx_override' \in {overrides + 1, ctx_override}
        /\ Resume
        /\ UNCHANGED <<turn, node, polling, attached, cancelled, turn_no, messages,
                   assistant, ctx_queues, pending, pending_counter, buffered,
                   override_consumed, delivered, override_uses, pending_commit,
                   event_tx, handles, consumerVars, state_messages, state_queues,
                   prompts, accepted, withdrawn, abort_asked>>
    BY <1>10 DEF SetProviderRequestOverride
  <2>2. overrides + 1 \in 0..MaxOverrides
    BY <1>0, <2>1, Limits DEF ActorRest
  <2>3. TurnTypeOK' /\ (turn_no' > MaxTurns => turn' = "done")
    BY <1>0, <2>1, <2>2 DEF TurnTypeOK
  <2>4. ActorRest' /\ StateRest'
    BY <1>0, <2>1, <2>2 DEF ActorRest, StateRest, Resume, consumerVars
  <2> QED BY <2>3, <2>4 DEF TypeInv, ActorTypeOK, ActorRest, StateRest
<1>11. CASE Shutdown
  <2>1. cancelled' \in BOOLEAN
    BY <1>11, AbortTyped DEF Shutdown, LeaveLoop
  <2>2. ActorRest'
    BY <1>0, <1>11 DEF Shutdown, LeaveLoop, ActorRest, consumerVars
  <2> QED BY <1>0, <1>11, <2>1, <2>2, LoopLeftAlone DEF Shutdown, LeaveLoop
<1> QED BY <1>1, <1>2, <1>3, <1>4, <1>5, <1>6, <1>7, <1>8, <1>9, <1>10, <1>11 DEF Command

\* Every step keeps them.
LEMMA TypeStep == TypeInv /\ [ActorNext]_vars => TypeInv'
<1> SUFFICES ASSUME TypeInv, [ActorNext]_vars PROVE TypeInv'
  OBVIOUS
<1>0. /\ ActorRest /\ StateRest /\ TurnTypeOK
      /\ cancelled \in BOOLEAN /\ buffered \in 0..MaxBuffered
      /\ turn_no > MaxTurns => turn = "done"
  BY InvSplit DEF TurnTypeOK
<1>1. CASE TurnAdvances
  <2>1. TurnTypeOK' /\ (turn_no' > MaxTurns => turn' = "done")
    BY <1>0, <1>1, AdvanceTypes DEF TurnAdvances
  <2>2. UNCHANGED <<actorVars, consumerVars, stateVars, historyVars>> /\ Polls
    BY <1>1 DEF TurnAdvances
  <2>3. ActorRest' /\ StateRest'
    BY <1>0, <2>2 DEF ActorRest, StateRest, Polls, actorVars, consumerVars, stateVars, historyVars
  <2> QED BY <2>1, <2>3 DEF TypeInv, ActorTypeOK, ActorRest, StateRest
<1>2. CASE ActorStep
  BY <1>2, StepTypes
<1>3. CASE Command
  BY <1>3, CommandTypes
<1>4. CASE CommandDropped
  <2>1. cancelled' \in BOOLEAN
    BY <1>4, AbortTyped DEF CommandDropped
  <2>2. ActorRest'
    BY <1>0, <1>4 DEF CommandDropped, ActorRest, consumerVars
  <2> QED BY <1>0, <1>4, <2>1, <2>2, LoopLeftAlone DEF CommandDropped
<1>5. CASE Receive
  <2>1. ActorRest'
    <3>1. channel' \in 0..ChannelCap
      BY <1>0, <1>5, Limits DEF Receive, ActorRest
    <3> QED BY <1>0, <1>5, <3>1 DEF Receive, ActorRest, actorVars, historyVars, loopVars
  <2> QED BY <1>0, <1>5, <2>1, LoopLeftAlone DEF Receive, loopVars
<1>6. CASE DropStream
  <2>1. ActorRest'
    BY <1>0, <1>6, Limits DEF DropStream, ActorRest, actorVars, historyVars, loopVars
  <2> QED BY <1>0, <1>6, <2>1, LoopLeftAlone DEF DropStream, loopVars
<1>7. CASE DropHandles
  <2>1. ActorRest'
    BY <1>0, <1>7 DEF DropHandles, ActorRest, consumerVars, historyVars, loopVars
  <2> QED BY <1>0, <1>7, <2>1, LoopLeftAlone DEF DropHandles, loopVars
<1>8. CASE UNCHANGED vars
  <2>1. TurnTypeOK' /\ ActorRest' /\ StateRest' /\ (turn_no' > MaxTurns => turn' = "done")
    BY <1>0, <1>8 DEF vars, loopVars, actorVars, consumerVars, stateVars, historyVars,
       TurnTypeOK, ActorRest, StateRest
  <2> QED BY <2>1 DEF TypeInv, ActorTypeOK, ActorRest, StateRest
<1> QED BY <1>1, <1>2, <1>3, <1>4, <1>5, <1>6, <1>7, <1>8 DEF ActorNext

(***************************************************************************)
(* Every variable of the actor and its loop keeps its type through every   *)
(* command, node, commit and abort.                                        *)
(***************************************************************************)
THEOREM ActorTypes == ActorSpec => []ActorTypeOK
<1>1. TypeInv => ActorTypeOK
  BY DEF TypeInv
<1> QED BY <1>1, InitTypes, TypeStep, PTL DEF ActorSpec

-----------------------------------------------------------------------------
(* Tool calls and their results. *)

(***************************************************************************)
(* Replies with tool calls stop for tool use and make no more calls than   *)
(* the limit.  Other replies are stored with their calls and get no        *)
(* results (decide_after_assistant and execute_tools in turn/nodes.rs).    *)
(***************************************************************************)
RepliesKeepLimits ==
  \A r \in Replies : r.calls > 0 => r.stop = "ToolUse" /\ ~(r.calls > MaxToolCalls)

\* The last message makes the calls of the reply and nothing answers them yet.
AwaitsResults ==
  \E before \in Seq(Messages) :
     /\ CallsAnswered(before)
     /\ messages = Append(before, Message("assistant", assistant.calls, 1))

\* Between two nodes every call is answered, but while the tools run.  That the turn
\* was not cancelled when the reply is decided on is what keeps a message with calls
\* from standing at the end of a turn that went no further.
AnswerInv ==
  /\ TypeInv
  /\ polling => Polls
  /\ node = "DecideAfterAssistant" => polling /\ ~cancelled
  /\ CallsAnswered(state_messages)
  /\ IF node = "ExecuteTools" THEN AwaitsResults ELSE CallsAnswered(messages)

\* A user's message makes no calls.
LEMMA UserMessage ==
  Message("user", 0, 1) \in Messages /\ ~MakesCalls(Message("user", 0, 1))
BY MessageIs DEF Roles, MakesCalls

\* What the nodes do to the conversation.
LEMMA NodeAnswers ==
  ASSUME RepliesKeepLimits, AnswerInv, NodeStep
  PROVE  /\ node' = "DecideAfterAssistant" => polling' /\ ~cancelled'
         /\ IF node' = "ExecuteTools" THEN AwaitsResults' ELSE CallsAnswered(messages')
<1>0. /\ QueuesTyped /\ messages \in Seq(Messages) /\ turn = "running" /\ polling = TRUE
      /\ assistant \in Replies \cup {NoReply} /\ assistant.calls \in Nat
  <2>1. QueuesTyped /\ messages \in Seq(Messages) /\ assistant \in Replies \cup {NoReply}
    BY DEF AnswerInv, TypeInv, ActorTypeOK, TurnTypeOK, QueuesTyped
  <2> QED BY <2>1, NodeOutcome, Limits
<1>c. cancelled' = cancelled
  BY DEF NodeStep, Start, DrainQueuedInput, CompactRuntimeContext, RequestNodeEnds,
     PrepareProviderRequest, ApplyProviderHook, ProviderStream, RefuseToolCalls,
     DecideAfterAssistant, ExecuteTools, EndAfterTurn, PrepareNextTurn
<1>1. node' = "DecideAfterAssistant" => polling' /\ ~cancelled'
  <2>1. Ended \/ GoesOn
    BY <1>0, NodeOutcome
  <2> QED BY <1>c, <2>1 DEF Ended, GoesOn
<1>2. CASE DrainQueuedInput
  <2> DEFINE a == AsMessages(ctx_queues["interjection"])
             b == AsMessages(Drained(ctx_queues["steering"], SteeringMode))
  <2>1. ctx_queues["interjection"] \in Seq(Entries) /\ ctx_queues["steering"] \in Seq(Entries)
    BY <1>0 DEF QueuesTyped, Queues, Kinds
  <2>2. Drained(ctx_queues["steering"], SteeringMode) \in Seq(Entries)
    BY <2>1, DrainFacts
  <2>3. a \in Seq(Messages) /\ b \in Seq(Messages) /\ CallsAnswered(a) /\ CallsAnswered(b)
    BY <2>1, <2>2, AsMessagesIs, QuietAnswered
  <2>4. messages' = (messages \o a) \o b /\ node = "DrainQueuedInput"
        /\ node' \in {"CompactRuntimeContext", "Finish"}
    BY <1>2 DEF DrainQueuedInput, At, Proceed, Complete
  <2> HIDE DEF a, b
  <2>5. CallsAnswered(messages)
    BY <2>4 DEF AnswerInv
  <2>6. messages \o a \in Seq(Messages) /\ CallsAnswered(messages \o a)
    BY <1>0, <2>3, <2>5, ConcatAnswered
  <2>7. CallsAnswered(messages')
    BY <2>3, <2>4, <2>6, ConcatAnswered
  <2> QED BY <1>1, <2>4, <2>7
<1>3. CASE PrepareNextTurn
  <2> DEFINE a == AsMessages(Drained(ctx_queues["follow_up"], FollowUpMode))
  <2>1. ctx_queues["follow_up"] \in Seq(Entries)
    BY <1>0 DEF QueuesTyped, Queues, Kinds
  <2>2. Drained(ctx_queues["follow_up"], FollowUpMode) \in Seq(Entries)
    BY <2>1, DrainFacts
  <2>3. a \in Seq(Messages) /\ CallsAnswered(a)
    BY <2>2, AsMessagesIs, QuietAnswered
  <2>4. /\ node = "PrepareNextTurn" /\ node' = "Finish"
        /\ \E after \in AfterHooks : messages' = after \/ messages' = after \o a
    BY <1>3 DEF PrepareNextTurn, At, Complete
  <2> HIDE DEF a
  <2>5. CallsAnswered(messages)
    BY <2>4 DEF AnswerInv
  <2>6. \A after \in AfterHooks : after \in Seq(Messages) /\ CallsAnswered(after)
    <3>1. /\ Append(messages, Message("user", 0, 1)) \in Seq(Messages)
          /\ CallsAnswered(Append(messages, Message("user", 0, 1)))
          /\ <<Message("user", 0, 1)>> \in Seq(Messages)
          /\ CallsAnswered(<<Message("user", 0, 1)>>)
      BY <1>0, <2>5, UserMessage, AppendQuiet
    <3> QED BY <1>0, <2>5, <3>1 DEF AfterHooks
  <2>7. CallsAnswered(messages')
    BY <2>3, <2>4, <2>6, ConcatAnswered
  <2> QED BY <1>1, <2>4, <2>7
<1>4. CASE CompactRuntimeContext
  <2>1. /\ node = "CompactRuntimeContext" /\ node' \in {"PrepareProviderRequest", "Finish"}
        /\ \/ messages' = messages
           \/ \E keep \in KeepBudgets, anchor \in 0..Len(messages) :
                 messages' = Compacted(Cut(messages, keep, anchor))
    BY <1>4 DEF CompactRuntimeContext, At, Proceed, Complete
  <2>2. CallsAnswered(messages)
    BY <2>1 DEF AnswerInv
  <2>3. CallsAnswered(messages')
    BY <1>0, <2>1, <2>2, CompactedIs
  <2> QED BY <1>1, <2>1, <2>3
<1>5. CASE DecideAfterAssistant
  <2> DEFINE m == Message("assistant", assistant.calls, 1)
  <2>0. /\ node = "DecideAfterAssistant" /\ messages' = Append(messages, m)
        /\ assistant' = assistant
        /\ IF assistant.stop \in {"Stop", "Length"}
           THEN Proceed("PrepareNextTurn", ctx_queues)
           ELSE IF assistant.stop = "ToolUse" /\ assistant.calls > 0
           THEN Proceed("ExecuteTools", ctx_queues)
           ELSE Complete("done", ctx_queues)
    BY <1>5 DEF DecideAfterAssistant, At
  <2>1. CallsAnswered(messages) /\ ~cancelled
    BY <2>0 DEF AnswerInv
  <2>2. m \in Messages /\ m.role = "assistant" /\ m.calls = assistant.calls
    BY <1>0, MessageIs DEF Roles
  <2> HIDE DEF m
  <2>3. CASE assistant.stop = "ToolUse" /\ assistant.calls > 0
    <3>1. node' = "ExecuteTools"
      BY <2>0, <2>1, <2>3 DEF Proceed
    <3>2. AwaitsResults'
      BY <1>0, <2>0, <2>1 DEF AwaitsResults, m
    <3> QED BY <1>1, <3>1, <3>2
  <2>4. CASE ~(assistant.stop = "ToolUse" /\ assistant.calls > 0)
    <3>1. ~MakesCalls(m)
      BY <1>0, <2>2, <2>4 DEF MakesCalls, RepliesKeepLimits, NoReply
    <3>2. CallsAnswered(messages')
      BY <1>0, <2>0, <2>1, <2>2, <3>1, AppendQuiet
    <3>3. node' # "ExecuteTools"
      BY <2>0, <2>4 DEF Proceed, Complete
    <3> QED BY <1>1, <3>2, <3>3
  <2> QED BY <2>3, <2>4
<1>6. CASE ExecuteTools
  <2>0. /\ node = "ExecuteTools" /\ node' # "ExecuteTools"
        /\ ~(assistant.calls > MaxToolCalls) =>
              messages' = messages \o Results(assistant.calls, 1)
    BY <1>6 DEF ExecuteTools, At, Proceed, Complete, Results
  <2>1. ~(assistant.calls > MaxToolCalls)
    BY <1>0, Limits DEF RepliesKeepLimits, NoReply
  <2>2. PICK before \in Seq(Messages) :
          /\ CallsAnswered(before)
          /\ messages = Append(before, Message("assistant", assistant.calls, 1))
    BY <2>0 DEF AnswerInv, AwaitsResults
  <2>3. CallsAnswered(messages')
    BY <1>0, <2>0, <2>1, <2>2, ResultsAnswer
  <2> QED BY <1>1, <2>0, <2>3
<1>7. CASE Start \/ RequestNodeEnds \/ PrepareProviderRequest \/ ApplyProviderHook
             \/ ProviderStream \/ RefuseToolCalls \/ EndAfterTurn
  <2>1. messages' = messages /\ node # "ExecuteTools" /\ node' # "ExecuteTools"
    BY <1>7 DEF Start, RequestNodeEnds, PrepareProviderRequest, ApplyProviderHook,
        ProviderStream, RefuseToolCalls, EndAfterTurn, At, Proceed, Complete
  <2> QED BY <1>1, <2>1 DEF AnswerInv
<1> QED BY <1>2, <1>3, <1>4, <1>5, <1>6, <1>7 DEF NodeStep

\* A step that leaves the conversations and the node alone.
LEMMA AnswersStay ==
  ASSUME AnswerInv, TypeInv',
         UNCHANGED <<node, polling, messages, assistant, state_messages>>,
         polling => Polls' /\ cancelled' = cancelled
  PROVE  AnswerInv'
<1>1. AwaitsResults' <=> AwaitsResults
  BY DEF AwaitsResults
<1> QED BY <1>1 DEF AnswerInv

\* Committing copies an answered conversation.
LEMMA CommitAnswers ==
  ASSUME AnswerInv, TypeInv', CommitTurn, turn \in {"continues", "done"}
  PROVE  AnswerInv'
<1>1. /\ state_messages' = messages /\ messages' = << >> /\ turn' = "none"
      /\ UNCHANGED <<node, polling>>
  BY DEF CommitTurn
<1>2. node = "Finish" /\ polling = FALSE
  BY DEF AnswerInv, TypeInv, ActorTypeOK, TurnTypeOK
<1>3. CallsAnswered(<< >>)
  BY DEF CallsAnswered
<1> QED BY <1>1, <1>2, <1>3 DEF AnswerInv

\* Every step keeps calls answered.
LEMMA AnswerStep == RepliesKeepLimits /\ AnswerInv /\ [ActorNext]_vars => AnswerInv'
<1> SUFFICES ASSUME RepliesKeepLimits, AnswerInv, [ActorNext]_vars PROVE AnswerInv'
  OBVIOUS
<1>0. TypeInv /\ TypeInv' /\ (polling => turn = "running") /\ (polling => Polls)
      /\ (turn = "running" <=> node # "Finish") /\ state_messages \in Seq(Messages)
      /\ CallsAnswered(state_messages)
  BY TypeStep DEF AnswerInv, TypeInv, ActorTypeOK, TurnTypeOK
<1>1. CASE TurnAdvances
  <2>0. Polls /\ Polls' /\ state_messages' = state_messages
    BY <1>1 DEF TurnAdvances, Polls, actorVars, stateVars
  <2>1. CASE NodeStep
    <3>1. /\ node' = "DecideAfterAssistant" => polling' /\ ~cancelled'
          /\ IF node' = "ExecuteTools" THEN AwaitsResults' ELSE CallsAnswered(messages')
      BY <2>1, NodeAnswers
    <3> QED BY <1>0, <2>0, <3>1 DEF AnswerInv
  <2>2. CASE StartTurn
    <3>1. /\ node' = "Start" /\ messages' = messages /\ turn = "ready"
      BY <2>2 DEF StartTurn
    <3> QED BY <1>0, <2>0, <3>1 DEF AnswerInv
  <2>3. CASE Poll
    <3>1. UNCHANGED <<node, messages, assistant, cancelled>> /\ ~polling /\ polling' = TRUE
      BY <2>3 DEF Poll
    <3>2. AwaitsResults' <=> AwaitsResults
      BY <3>1 DEF AwaitsResults
    <3> QED BY <1>0, <2>0, <3>1, <3>2 DEF AnswerInv
  <2>4. CASE Suspend
    <3>1. UNCHANGED <<node, messages, assistant, cancelled>> /\ polling' = FALSE
          /\ node # "DecideAfterAssistant"
      BY <2>4 DEF Suspend
    <3>2. AwaitsResults' <=> AwaitsResults
      BY <3>1 DEF AwaitsResults
    <3> QED BY <1>0, <2>0, <3>1, <3>2 DEF AnswerInv
  <2> QED BY <1>1, <2>1, <2>2, <2>3, <2>4 DEF TurnAdvances, Advance
<1>2. CASE TopConsumerGone \/ SendFinishes \/ MailboxClosed \/ SendAbandoned
  <2>1. UNCHANGED <<node, polling, messages, assistant, state_messages>>
    BY <1>2 DEF TopConsumerGone, SendFinishes, MailboxClosed, SendAbandoned, LeaveLoop,
       stateVars
  <2>2. ~polling
    BY <1>0, <1>2 DEF TopConsumerGone, SendFinishes, MailboxClosed, SendAbandoned, Polls
  <2> QED BY <1>0, <2>1, <2>2, AnswersStay
<1>3. CASE TopSelect \/ DiscardEvent \/ TakeEvent \/ TurnContinues
  <2>1. UNCHANGED <<node, polling, messages, assistant, state_messages>>
    BY <1>3 DEF TopSelect, DiscardEvent, TakeEvent, TurnContinues, loopVars, stateVars
  <2>2. ~polling
    BY <1>0, <1>3 DEF TopSelect, DiscardEvent, TakeEvent, TurnContinues, EventReady, Polls
  <2> QED BY <1>0, <2>1, <2>2, AnswersStay
<1>4. CASE CommitTurn /\ turn \in {"continues", "done"}
  BY <1>0, <1>4, CommitAnswers
<1>5. CASE PendingCommit \/ LoopDone
  BY <1>4, <1>5 DEF PendingCommit, LoopDone, NoMoreEvents
<1>6. CASE DrainedCommit
  <2>1. CASE turn = "none" /\ UNCHANGED <<loopVars, stateVars, abort_asked>>
    <3>1. UNCHANGED <<node, polling, messages, assistant, state_messages>>
      BY <2>1 DEF loopVars, stateVars
    <3> QED BY <1>0, <2>1, <3>1, AnswersStay
  <2> QED BY <1>4, <1>6, <2>1 DEF DrainedCommit, NoMoreEvents
<1>7. CASE YieldEnds
  <2>0. turn = "continues"
    BY <1>0, <1>7 DEF YieldEnds, TypeInv
  <2>1. CASE UNCHANGED <<loopVars, stateVars, abort_asked, event_tx>>
    <3>1. UNCHANGED <<node, polling, messages, assistant, state_messages>>
      BY <2>1 DEF loopVars, stateVars
    <3> QED BY <1>0, <2>0, <3>1, AnswersStay
  <2> QED BY <1>4, <1>7, <2>0, <2>1 DEF YieldEnds
<1>8. CASE StartNextTurn
  <2>0. turn = "continues"
    BY <1>0, <1>8 DEF StartNextTurn, TypeInv
  <2>1. CASE stream # "dropped"
    <3>1. UNCHANGED <<node, polling, messages, assistant, state_messages>>
      BY <1>8, <2>1 DEF StartNextTurn, stateVars
    <3> QED BY <1>0, <2>0, <3>1, AnswersStay
  <2> QED BY <1>4, <1>8, <2>0, <2>1 DEF StartNextTurn
<1>9. CASE Prompt \/ Run
  <2>1. PICK conversation : /\ BeginLoop(conversation) /\ turn = "none"
                            /\ conversation \in {state_messages,
                                   Append(state_messages, Message("user", 0, 1))}
    BY <1>9 DEF Prompt, Run
  <2>2. CallsAnswered(conversation)
    BY <1>0, <2>1, UserMessage, AppendQuiet
  <2>3. /\ state_messages' = conversation /\ messages' = conversation
        /\ UNCHANGED <<node, polling>>
    BY <2>1 DEF BeginLoop
  <2> QED BY <1>0, <2>1, <2>2, <2>3 DEF AnswerInv
<1>10. CASE Submit \/ Abort \/ ClearQueues \/ DrainQueue \/ EditQueueEntry
            \/ RemoveQueueEntry \/ SetProviderRequestOverride \/ Shutdown
  <2>1. UNCHANGED <<node, polling, messages, assistant, state_messages>>
    BY <1>10 DEF Submit, Abort, ClearQueues, DrainQueue, EditQueueEntry, RemoveQueueEntry,
       SetProviderRequestOverride, Shutdown, LeaveLoop, stateVars
  <2>2. ~polling
    BY <1>10 DEF Submit, Abort, ClearQueues, DrainQueue, EditQueueEntry, RemoveQueueEntry,
       SetProviderRequestOverride, Shutdown, Receiving
  <2> QED BY <1>0, <2>1, <2>2, AnswersStay
<1>11. CASE ChangeMessages
  <2>1. /\ UNCHANGED <<node, polling, messages, assistant>> /\ ~polling
        /\ state_messages' \in {Append(state_messages, Message("user", 0, 1)),
                                <<Message("user", 0, 1)>>}
    BY <1>11 DEF ChangeMessages, Receiving, loopVars
  <2>2. CallsAnswered(state_messages')
    BY <1>0, <2>1, UserMessage, AppendQuiet
  <2>3. AwaitsResults' <=> AwaitsResults
    BY <2>1 DEF AwaitsResults
  <2> QED BY <1>0, <2>1, <2>2, <2>3 DEF AnswerInv
<1>12. CASE CommandDropped
  <2>1. UNCHANGED <<node, polling, messages, assistant, state_messages>> /\ ~polling
    BY <1>12 DEF CommandDropped, stateVars
  <2> QED BY <1>0, <2>1, AnswersStay
<1>13. CASE Receive \/ DropStream \/ DropHandles \/ UNCHANGED vars
  <2>1. UNCHANGED <<node, polling, messages, assistant, state_messages, cancelled, pc,
                    pending_commit>>
    BY <1>13 DEF Receive, DropStream, DropHandles, vars, loopVars, actorVars, stateVars
  <2>2. Polls' <=> Polls
    BY <2>1 DEF Polls
  <2> QED BY <1>0, <2>1, <2>2, AnswersStay
<1> QED BY <1>1, <1>2, <1>3, <1>5, <1>6, <1>7, <1>8, <1>9, <1>10, <1>11, <1>12, <1>13
    DEF ActorNext, ActorStep, Command

(***************************************************************************)
(* No node, commit, compaction or abort leaves a tool call of a reply that *)
(* keeps the limits without its results in the conversation of the next    *)
(* request.                                                                *)
(***************************************************************************)
THEOREM CallsAreAnswered ==
  ASSUME RepliesKeepLimits
  PROVE  ActorSpec => []ToolCallsAnswered
<1>1. ActorInit => AnswerInv
  <2> SUFFICES ASSUME ActorInit PROVE AnswerInv
    OBVIOUS
  <2>1. messages = << >> /\ state_messages = << >> /\ node = "Finish" /\ polling = FALSE
    BY DEF ActorInit, TurnInit
  <2>2. CallsAnswered(<< >>)
    BY DEF CallsAnswered
  <2> QED BY <2>1, <2>2, InitTypes DEF AnswerInv
<1>2. AnswerInv /\ [ActorNext]_vars => AnswerInv'
  BY AnswerStep
<1>3. AnswerInv => ToolCallsAnswered
  BY DEF AnswerInv, ToolCallsAnswered
<1> QED BY <1>1, <1>2, <1>3, PTL DEF ActorSpec

-----------------------------------------------------------------------------
(* Queued input: where each accepted input is. *)

(***************************************************************************)
(* A sequence of numbers of which every two are related the way they stand.*)
(***************************************************************************)
Sorted(s, R) == \A i, j \in 1..Len(s) : i < j => <<s[i], s[j]>> \in R

\* The inputs of a sequence.
RangeOf(s) == {s[i] : i \in DOMAIN s}

\* The parts of a sequence of inputs.
LEMMA InputSeqIs ==
  ASSUME NEW a \in InputSeqs
  PROVE  /\ Len(a) \in Nat /\ DOMAIN a = 1..Len(a)
         /\ \A i \in 1..Len(a) : a[i] \in 1..MaxInputs
         /\ RangeOf(a) = {a[i] : i \in 1..Len(a)}
<1>1. Len(a) \in Nat /\ DOMAIN a = 1..Len(a) /\ \A i \in 1..Len(a) : a[i] \in 1..MaxInputs
  BY LenProperties, ElementOfSeq DEF InputSeqs
<1> QED BY <1>1 DEF RangeOf

\* One sequence behind another, ...
LEMMA InputConcat ==
  ASSUME NEW a \in InputSeqs, NEW b \in InputSeqs
  PROVE  /\ a \o b \in InputSeqs /\ Len(a \o b) = Len(a) + Len(b)
         /\ \A i \in 1..Len(a) : (a \o b)[i] = a[i] /\ i \in 1..Len(a \o b)
         /\ \A i \in 1..Len(b) : (a \o b)[Len(a) + i] = b[i] /\ Len(a) + i \in 1..Len(a \o b)
<1>1. /\ a \o b \in Seq(1..MaxInputs) /\ Len(a \o b) = Len(a) + Len(b)
      /\ \A i \in 1..Len(a) + Len(b) :
            (a \o b)[i] = IF i <= Len(a) THEN a[i] ELSE b[i - Len(a)]
  BY ConcatProperties DEF InputSeqs
<1>2. Len(a) \in Nat /\ Len(b) \in Nat
  BY InputSeqIs
<1>3. ASSUME NEW i \in 1..Len(a) PROVE (a \o b)[i] = a[i] /\ i \in 1..Len(a \o b)
  <2>1. i \in 1..Len(a) + Len(b) /\ i <= Len(a)
    BY <1>2
  <2> QED BY <1>1, <2>1
<1>4. ASSUME NEW i \in 1..Len(b)
      PROVE  (a \o b)[Len(a) + i] = b[i] /\ Len(a) + i \in 1..Len(a \o b)
  <2>1. Len(a) + i \in 1..Len(a) + Len(b) /\ ~(Len(a) + i <= Len(a)) /\ (Len(a) + i) - Len(a) = i
    BY <1>2
  <2> QED BY <1>1, <2>1
<1> QED BY <1>1, <1>3, <1>4 DEF InputSeqs

\* ... what it holds ...
LEMMA RangeConcat ==
  ASSUME NEW a \in InputSeqs, NEW b \in InputSeqs
  PROVE  RangeOf(a \o b) = RangeOf(a) \cup RangeOf(b)
<1>1. /\ a \o b \in InputSeqs /\ Len(a \o b) = Len(a) + Len(b)
      /\ \A i \in 1..Len(a) : (a \o b)[i] = a[i] /\ i \in 1..Len(a \o b)
      /\ \A i \in 1..Len(b) : (a \o b)[Len(a) + i] = b[i] /\ Len(a) + i \in 1..Len(a \o b)
  BY InputConcat
<1>2. Len(a) \in Nat /\ Len(b) \in Nat
  BY InputSeqIs
<1>3. /\ RangeOf(a) = {a[i] : i \in 1..Len(a)} /\ RangeOf(b) = {b[i] : i \in 1..Len(b)}
      /\ RangeOf(a \o b) = {(a \o b)[i] : i \in 1..Len(a \o b)}
  BY <1>1, InputSeqIs
<1>4. ASSUME NEW i \in 1..Len(a \o b)
      PROVE  (a \o b)[i] \in RangeOf(a) \cup RangeOf(b)
  <2>1. CASE i <= Len(a)
    <3>1. i \in 1..Len(a)
      BY <1>1, <1>2, <2>1
    <3> QED BY <1>1, <1>3, <3>1
  <2>2. CASE ~(i <= Len(a))
    <3>1. i - Len(a) \in 1..Len(b) /\ Len(a) + (i - Len(a)) = i
      BY <1>1, <1>2, <2>2
    <3> QED BY <1>1, <1>3, <3>1
  <2> QED BY <2>1, <2>2
<1>5. RangeOf(a) \cup RangeOf(b) \subseteq RangeOf(a \o b)
  BY <1>1, <1>3
<1> QED BY <1>3, <1>4, <1>5

\* ... and when it is sorted.
LEMMA SortedConcat ==
  ASSUME NEW a \in InputSeqs, NEW b \in InputSeqs, NEW R
  PROVE  Sorted(a \o b, R) <=>
            /\ Sorted(a, R) /\ Sorted(b, R)
            /\ \A x \in RangeOf(a), y \in RangeOf(b) : <<x, y>> \in R
<1>1. /\ a \o b \in InputSeqs /\ Len(a \o b) = Len(a) + Len(b)
      /\ \A i \in 1..Len(a) : (a \o b)[i] = a[i] /\ i \in 1..Len(a \o b)
      /\ \A i \in 1..Len(b) : (a \o b)[Len(a) + i] = b[i] /\ Len(a) + i \in 1..Len(a \o b)
  BY InputConcat
<1>2. Len(a) \in Nat /\ Len(b) \in Nat
  BY InputSeqIs
<1>3. /\ RangeOf(a) = {a[i] : i \in 1..Len(a)} /\ RangeOf(b) = {b[i] : i \in 1..Len(b)}
  BY InputSeqIs
<1>4. ASSUME Sorted(a \o b, R)
      PROVE  /\ Sorted(a, R) /\ Sorted(b, R)
             /\ \A x \in RangeOf(a), y \in RangeOf(b) : <<x, y>> \in R
  <2>1. Sorted(a, R)
    BY <1>1, <1>2, <1>4 DEF Sorted
  <2>2. ASSUME NEW i \in 1..Len(b), NEW j \in 1..Len(b), i < j PROVE <<b[i], b[j]>> \in R
    <3>1. Len(a) + i < Len(a) + j
      BY <1>2, <2>2
    <3> QED BY <1>1, <1>4, <3>1 DEF Sorted
  <2>3. ASSUME NEW i \in 1..Len(a), NEW j \in 1..Len(b) PROVE <<a[i], b[j]>> \in R
    <3>1. i < Len(a) + j
      BY <1>2
    <3> QED BY <1>1, <1>4, <3>1 DEF Sorted
  <2> QED BY <1>3, <2>1, <2>2, <2>3 DEF Sorted
<1>5. ASSUME Sorted(a, R), Sorted(b, R),
             \A x \in RangeOf(a), y \in RangeOf(b) : <<x, y>> \in R,
             NEW i \in 1..Len(a \o b), NEW j \in 1..Len(a \o b), i < j
      PROVE  <<(a \o b)[i], (a \o b)[j]>> \in R
  <2>1. CASE j <= Len(a)
    <3>1. i \in 1..Len(a) /\ j \in 1..Len(a)
      BY <1>1, <1>2, <1>5, <2>1
    <3> QED BY <1>1, <1>5, <3>1 DEF Sorted
  <2>2. CASE i <= Len(a) /\ ~(j <= Len(a))
    <3>1. i \in 1..Len(a) /\ j - Len(a) \in 1..Len(b) /\ Len(a) + (j - Len(a)) = j
      BY <1>1, <1>2, <2>2
    <3>2. (a \o b)[i] \in RangeOf(a) /\ (a \o b)[j] \in RangeOf(b)
      BY <1>1, <1>3, <3>1
    <3> QED BY <1>5, <3>2
  <2>3. CASE ~(i <= Len(a))
    <3>1. PICK x \in 1..Len(b), y \in 1..Len(b) : i = Len(a) + x /\ j = Len(a) + y /\ x < y
      <4>1. \A m, n \in Nat : \A c, d \in 1..(m + n) : c < d /\ ~(c <= m) =>
                c - m \in 1..n /\ d - m \in 1..n /\ c = m + (c - m) /\ d = m + (d - m)
                /\ c - m < d - m
        OBVIOUS
      <4>2. i \in 1..(Len(a) + Len(b)) /\ j \in 1..(Len(a) + Len(b)) /\ i < j
        BY <1>1, <1>5
      <4>3. /\ i - Len(a) \in 1..Len(b) /\ j - Len(a) \in 1..Len(b)
            /\ i = Len(a) + (i - Len(a)) /\ j = Len(a) + (j - Len(a))
            /\ i - Len(a) < j - Len(a)
        BY <1>2, <2>3, <4>1, <4>2, Zenon
      <4> QED BY <4>3, Zenon
    <3>2. (a \o b)[i] = b[x] /\ (a \o b)[j] = b[y]
      BY <1>1, <3>1
    <3> QED BY <1>5, <3>1, <3>2 DEF Sorted
  <2> QED BY <1>1, <1>2, <1>5, <2>1, <2>2, <2>3
<1> QED BY <1>4, <1>5 DEF Sorted

\* A part of a sequence in the same order.
Thinner(new, old) ==
  /\ RangeOf(new) \subseteq RangeOf(old)
  /\ \A R : Sorted(old, R) => Sorted(new, R)

\* The sequence without inputs.
LEMMA EmptyInputs ==
  /\ << >> \in InputSeqs /\ RangeOf(<< >>) = {} /\ \A R : Sorted(<< >>, R)
  /\ \A a \in InputSeqs : a \o << >> = a /\ << >> \o a = a
  /\ InputsOf(<< >>) = << >>
<1>1. << >> \in InputSeqs
  BY EmptySeq DEF InputSeqs
<1>2. RangeOf(<< >>) = {} /\ \A R : Sorted(<< >>, R)
  BY DEF RangeOf, Sorted
<1>3. ASSUME NEW a \in InputSeqs PROVE a \o << >> = a /\ << >> \o a = a
  BY ConcatEmptySeq DEF InputSeqs
<1>4. InputsOf(<< >>) = << >>
  BY DEF InputsOf
<1> QED BY <1>1, <1>2, <1>3, <1>4

\* Thinner parts make a thinner whole.
LEMMA ThinnerConcat ==
  ASSUME NEW a \in InputSeqs, NEW b \in InputSeqs, NEW c \in InputSeqs, NEW d \in InputSeqs,
         Thinner(c, a), Thinner(d, b)
  PROVE  Thinner(c \o d, a \o b)
<1>1. RangeOf(c \o d) = RangeOf(c) \cup RangeOf(d) /\ RangeOf(a \o b) = RangeOf(a) \cup RangeOf(b)
  BY RangeConcat
<1>2. ASSUME NEW R, Sorted(a \o b, R) PROVE Sorted(c \o d, R)
  <2>1. /\ Sorted(a, R) /\ Sorted(b, R)
        /\ \A x \in RangeOf(a), y \in RangeOf(b) : <<x, y>> \in R
    BY <1>2, SortedConcat
  <2>2. Sorted(c, R) /\ Sorted(d, R) /\ RangeOf(c) \subseteq RangeOf(a)
        /\ RangeOf(d) \subseteq RangeOf(b)
    BY <2>1 DEF Thinner
  <2>3. \A x \in RangeOf(c), y \in RangeOf(d) : <<x, y>> \in R
    BY <2>1, <2>2
  <2> QED BY <2>2, <2>3, SortedConcat
<1> QED BY <1>1, <1>2 DEF Thinner

\* A queue without one of its entries.
LEMMA ThinnerWithout ==
  ASSUME NEW q \in Seq(Entries), NEW i \in 1..Len(q)
  PROVE  /\ Thinner(InputsOf(Without(q, i)), InputsOf(q))
         /\ RangeOf(InputsOf(q)) \subseteq RangeOf(InputsOf(Without(q, i))) \cup {q[i].input}
         /\ q[i].input \in RangeOf(InputsOf(q))
<1> DEFINE w == Without(q, i)
           a == InputsOf(q)
           b == InputsOf(w)
<1>0. Len(q) \in Nat
  BY LenProperties
<1>a. /\ w \in Seq(Entries) /\ Len(w) = Len(q) - 1
      /\ \A j \in 1..(Len(q) - 1) : w[j] = IF j < i THEN q[j] ELSE q[j + 1]
  BY WithoutIs
<1>1. /\ w \in Seq(Entries) /\ Len(w) = Len(q) - 1 /\ Len(q) \in Nat
      /\ \A j \in 1..(Len(q) - 1) : w[j] = IF j < i THEN q[j] ELSE q[j + 1]
  BY <1>0, <1>a
<1> HIDE DEF w
<1>2. /\ a \in InputSeqs /\ Len(a) = Len(q) /\ \A j \in 1..Len(q) : a[j] = q[j].input
      /\ b \in InputSeqs /\ Len(b) = Len(q) - 1
      /\ \A j \in 1..(Len(q) - 1) : b[j] = w[j].input
  <2>1. a \in Seq(1..MaxInputs) /\ Len(a) = Len(q) /\ \A j \in 1..Len(q) : a[j] = q[j].input
    BY InputsOfFacts
  <2>2. b \in Seq(1..MaxInputs) /\ Len(b) = Len(w) /\ \A j \in 1..Len(w) : b[j] = w[j].input
    BY <1>1, InputsOfFacts
  <2> QED BY <1>1, <2>1, <2>2 DEF InputSeqs
<1>3. RangeOf(a) = {a[j] : j \in 1..Len(q)} /\ RangeOf(b) = {b[j] : j \in 1..(Len(q) - 1)}
  BY <1>2, InputSeqIs
<1> HIDE DEF a, b
<1>4. \A j \in 1..(Len(q) - 1) : b[j] = IF j < i THEN a[j] ELSE a[j + 1]
  <2> TAKE j \in 1..(Len(q) - 1)
  <2>1. j \in 1..Len(q) /\ j + 1 \in 1..Len(q)
    BY <1>1
  <2> QED BY <1>1, <1>2, <2>1
<1>5. RangeOf(b) \subseteq RangeOf(a)
  <2>1. \A j \in 1..(Len(q) - 1) : j \in 1..Len(q) /\ j + 1 \in 1..Len(q)
    BY <1>1
  <2> QED BY <1>3, <1>4, <2>1
<1>6. ASSUME NEW R, Sorted(a, R) PROVE Sorted(b, R)
  <2>1. ASSUME NEW j \in 1..(Len(q) - 1), NEW k \in 1..(Len(q) - 1), j < k
        PROVE  <<b[j], b[k]>> \in R
    <3>1. PICK m \in 1..Len(q) : b[j] = a[m] /\ m = IF j < i THEN j ELSE j + 1
      <4>1. j \in 1..Len(q) /\ j + 1 \in 1..Len(q)
        BY <1>1
      <4> QED BY <1>4, <4>1
    <3>2. PICK n \in 1..Len(q) : b[k] = a[n] /\ n = IF k < i THEN k ELSE k + 1
      <4>1. k \in 1..Len(q) /\ k + 1 \in 1..Len(q)
        BY <1>1
      <4> QED BY <1>4, <4>1
    <3>3. m < n
      BY <1>1, <2>1, <3>1, <3>2
    <3> QED BY <1>2, <1>6, <3>1, <3>2, <3>3 DEF Sorted
  <2> QED BY <1>2, <2>1 DEF Sorted
<1>7. RangeOf(a) \subseteq RangeOf(b) \cup {a[i]}
  <2> SUFFICES ASSUME NEW j \in 1..Len(q), j # i PROVE a[j] \in RangeOf(b)
    BY <1>3
  <2>1. CASE j < i
    <3>1. j \in 1..(Len(q) - 1)
      BY <1>1, <2>1
    <3>2. b[j] = a[j]
      BY <1>4, <2>1, <3>1
    <3> QED BY <1>3, <3>1, <3>2
  <2>2. CASE ~(j < i)
    <3>1. j - 1 \in 1..(Len(q) - 1) /\ ~(j - 1 < i) /\ (j - 1) + 1 = j
      BY <1>1, <2>2
    <3>2. b[j - 1] = a[j]
      BY <1>4, <3>1
    <3> QED BY <1>3, <3>1, <3>2
  <2> QED BY <2>1, <2>2
<1>8. a[i] = q[i].input /\ a[i] \in RangeOf(a)
  BY <1>2, <1>3
<1> QED BY <1>5, <1>6, <1>7, <1>8 DEF Thinner, a, b, w

\* Of the parts of a trail, and of the trail itself.
LEMMA TrailIs ==
  ASSUME TypeInv, NEW k \in Kinds
  PROVE  /\ delivered[k] \in InputSeqs /\ InputsOf(ctx_queues[k]) \in InputSeqs
         /\ InputsOf(pending[k]) \in InputSeqs /\ InputsOf(state_queues[k]) \in InputSeqs
         /\ Front(k) \in InputSeqs /\ Trail(k) \in InputSeqs
         /\ Trail(k) = Front(k) \o InputsOf(state_queues[k])
         /\ RangeOf(Trail(k)) = RangeOf(delivered[k]) \cup RangeOf(InputsOf(ctx_queues[k]))
                \cup RangeOf(InputsOf(pending[k])) \cup RangeOf(InputsOf(state_queues[k]))
<1>1. /\ ctx_queues[k] \in Seq(Entries) /\ pending[k] \in Seq(Entries)
      /\ state_queues[k] \in Seq(Entries) /\ delivered[k] \in Seq(1..MaxInputs)
  BY DEF TypeInv, ActorTypeOK, TurnTypeOK, Queues
<1> DEFINE c == InputsOf(ctx_queues[k])
           p == InputsOf(pending[k])
           s == InputsOf(state_queues[k])
           d == delivered[k]
<1>2. d \in InputSeqs /\ c \in InputSeqs /\ p \in InputSeqs /\ s \in InputSeqs
  BY <1>1, InputsOfFacts DEF InputSeqs
<1>3. Front(k) = (d \o c) \o p /\ Trail(k) = ((d \o c) \o p) \o s
  BY DEF Front, Trail
<1> HIDE DEF c, p, s, d
<1>4. d \o c \in InputSeqs /\ RangeOf(d \o c) = RangeOf(d) \cup RangeOf(c)
  BY <1>2, InputConcat, RangeConcat
<1>5. /\ (d \o c) \o p \in InputSeqs
      /\ RangeOf((d \o c) \o p) = RangeOf(d \o c) \cup RangeOf(p)
  BY <1>2, <1>4, InputConcat, RangeConcat
<1>6. /\ ((d \o c) \o p) \o s \in InputSeqs
      /\ RangeOf(((d \o c) \o p) \o s) = RangeOf((d \o c) \o p) \cup RangeOf(s)
  BY <1>2, <1>5, InputConcat, RangeConcat
<1>7. RangeOf(Trail(k)) = RangeOf(d) \cup RangeOf(c) \cup RangeOf(p) \cup RangeOf(s)
  BY <1>3, <1>4, <1>5, <1>6
<1> QED BY <1>2, <1>3, <1>5, <1>6, <1>7 DEF c, p, s, d

\* The inputs of a queue are those of the sequence they make.
LEMMA InputsAreRange ==
  ASSUME NEW q \in Seq(Entries)
  PROVE  Inputs(q) = RangeOf(InputsOf(q))
BY DEF Inputs, RangeOf, InputsOf

\* Between two loops the runner's queues are empty, and during a loop the state's.
EmptyInv ==
  /\ turn = "none" => \A k \in Kinds : ctx_queues[k] = << >> /\ pending[k] = << >>
  /\ turn # "none" => \A k \in Kinds : state_queues[k] = << >>

\* Every input accepted is accounted for.
Everything == UNION {RangeOf(Trail(k)) : k \in Kinds}

(***************************************************************************)
(* What a step does to the inputs.  It accepts the next one and puts it    *)
(* into one trail, at a place with nothing behind it unless a flush left   *)
(* pending entries, or it keeps every trail but for what it withdraws.     *)
(***************************************************************************)
GrowsAt(k, u, v) ==
  /\ u \in InputSeqs /\ v \in InputSeqs
  /\ Trail(k) = u \o v /\ Trail(k)' = (u \o <<accepted + 1>>) \o v
  /\ v # << >> => /\ ContextHeld /\ pending[k] # << >>
                 /\ CheckQueueCapacity(ctx_queues[k], accepted + 1)

\* One trail takes the next input in.
Grows ==
  /\ accepted' = accepted + 1 /\ accepted + 1 \in 1..MaxInputs
  /\ withdrawn' = withdrawn
  /\ \E kind \in Kinds : /\ \E u, v : GrowsAt(kind, u, v)
                         /\ \A k \in Kinds : k # kind => Trail(k)' = Trail(k)

\* No trail takes anything in, and what one loses is withdrawn.
Thins ==
  /\ accepted' = accepted
  /\ withdrawn \subseteq withdrawn'
  /\ withdrawn' \subseteq withdrawn \cup Everything
  /\ \A k \in Kinds : /\ Thinner(Trail(k)', Trail(k))
                      /\ RangeOf(Trail(k)) \subseteq RangeOf(Trail(k)') \cup withdrawn'

\* Trails that stay as they are.
LEMMA SameTrails ==
  ASSUME UNCHANGED <<accepted, withdrawn>>, \A k \in Kinds : Trail(k)' = Trail(k)
  PROVE  Thins
BY DEF Thins, Thinner

\* No queue moved.
LEMMA QueuesKeepTrails ==
  ASSUME UNCHANGED <<ctx_queues, pending, state_queues, delivered, accepted, withdrawn>>
  PROVE  Thins
<1>1. \A k \in Kinds : Trail(k)' = Trail(k)
  BY DEF Trail, InputsOf
<1> QED BY <1>1, SameTrails

\* The parts of trails in place of each other.
LEMMA TrailFrom ==
  ASSUME TypeInv, TypeInv', NEW k \in Kinds
  PROVE  /\ Trail(k) = ((delivered[k] \o InputsOf(ctx_queues[k])) \o InputsOf(pending[k]))
                           \o InputsOf(state_queues[k])
         /\ Trail(k)' = ((delivered'[k] \o InputsOf(ctx_queues'[k])) \o InputsOf(pending'[k]))
                           \o InputsOf(state_queues'[k])
         /\ delivered[k] \in InputSeqs /\ InputsOf(ctx_queues[k]) \in InputSeqs
         /\ InputsOf(pending[k]) \in InputSeqs /\ InputsOf(state_queues[k]) \in InputSeqs
         /\ delivered'[k] \in InputSeqs /\ InputsOf(ctx_queues'[k]) \in InputSeqs
         /\ InputsOf(pending'[k]) \in InputSeqs /\ InputsOf(state_queues'[k]) \in InputSeqs
<1>1. /\ ctx_queues[k] \in Seq(Entries) /\ pending[k] \in Seq(Entries)
      /\ state_queues[k] \in Seq(Entries) /\ delivered[k] \in Seq(1..MaxInputs)
      /\ ctx_queues'[k] \in Seq(Entries) /\ pending'[k] \in Seq(Entries)
      /\ state_queues'[k] \in Seq(Entries) /\ delivered'[k] \in Seq(1..MaxInputs)
  BY DEF TypeInv, ActorTypeOK, TurnTypeOK, Queues
<1>2. ASSUME NEW q \in Seq(Entries) PROVE InputsOf(q) \in InputSeqs
  BY InputsOfFacts DEF InputSeqs
<1>3. /\ delivered[k] \in InputSeqs /\ InputsOf(ctx_queues[k]) \in InputSeqs
      /\ InputsOf(pending[k]) \in InputSeqs /\ InputsOf(state_queues[k]) \in InputSeqs
      /\ delivered'[k] \in InputSeqs /\ InputsOf(ctx_queues'[k]) \in InputSeqs
      /\ InputsOf(pending'[k]) \in InputSeqs /\ InputsOf(state_queues'[k]) \in InputSeqs
  BY <1>1, <1>2 DEF InputSeqs
<1>4. Trail(k) = ((delivered[k] \o InputsOf(ctx_queues[k])) \o InputsOf(pending[k]))
                           \o InputsOf(state_queues[k])
  BY DEF Trail
<1>5. Trail(k)' = ((delivered'[k] \o InputsOf(ctx_queues'[k])) \o InputsOf(pending'[k]))
                           \o InputsOf(state_queues'[k])
  BY DEF Trail, InputsOf
<1> QED BY <1>3, <1>4, <1>5

\* Trails whose parts are those of the other trail, with the same joins.
LEMMA Joins ==
  /\ \A a, b, c \in InputSeqs : ((a \o b) \o c) \o << >> = ((a \o << >>) \o << >>) \o (b \o c)
  /\ \A a, b \in InputSeqs : ((a \o << >>) \o << >>) \o b = ((a \o b) \o << >>) \o << >>
  /\ \A a, b \in InputSeqs : a \o b \in InputSeqs
<1>1. \A a, b \in InputSeqs : a \o b \in InputSeqs
  BY InputConcat
<1>2. \A a \in InputSeqs : a \o << >> = a /\ << >> \o a = a
  BY EmptyInputs
<1>3. ASSUME NEW a \in InputSeqs, NEW b \in InputSeqs, NEW c \in InputSeqs
      PROVE  ((a \o b) \o c) \o << >> = ((a \o << >>) \o << >>) \o (b \o c)
  <2>1. (a \o b) \o c \in InputSeqs
    BY <1>1
  <2>2. ((a \o b) \o c) \o << >> = (a \o b) \o c
    BY <1>2, <2>1
  <2>3. (a \o b) \o c = a \o (b \o c)
    BY Regroup
  <2>4. (a \o << >>) \o << >> = a
    BY <1>2
  <2> QED BY <2>2, <2>3, <2>4
<1>4. ASSUME NEW a \in InputSeqs, NEW b \in InputSeqs
      PROVE  ((a \o << >>) \o << >>) \o b = ((a \o b) \o << >>) \o << >>
  <2>1. a \o b \in InputSeqs
    BY <1>1
  <2>2. (a \o << >>) \o << >> = a /\ ((a \o b) \o << >>) \o << >> = a \o b
    BY <1>2, <2>1
  <2> QED BY <2>2
<1> QED BY <1>1, <1>3, <1>4

\* The steps by what they do to the queues: most leave them alone, ...
Rests ==
  /\ turn = "none" <=> turn' = "none"
  /\ ContextHeld' => ContextHeld
  /\ UNCHANGED <<ctx_queues, pending, state_queues, delivered, accepted, withdrawn>>
\* ... a node moves entries into the conversation, ...
Walks == NodeStep /\ UNCHANGED <<state_queues, accepted, withdrawn>>
\* ... the end of the loop brings them back into the state ...
Commits == CommitTurn /\ UNCHANGED <<accepted, withdrawn>>
\* ... and its beginning takes them out.
Begins ==
  /\ turn = "none" /\ turn' = "ready"
  /\ ctx_queues' = state_queues /\ state_queues' = EmptyQueues
  /\ UNCHANGED <<pending, delivered, accepted, withdrawn>>

\* What the actor does by itself.
LEMMA ActorStepKinds ==
  ASSUME TypeInv, ActorStep
  PROVE  Rests \/ Commits
<1>1. CASE \/ TopConsumerGone \/ TopSelect \/ DiscardEvent \/ TakeEvent \/ TurnContinues
           \/ SendFinishes \/ MailboxClosed \/ SendAbandoned
  BY <1>1 DEF TopConsumerGone, TopSelect, DiscardEvent, TakeEvent, TurnContinues,
     SendFinishes, MailboxClosed, SendAbandoned, LeaveLoop, Rests, ContextHeld, loopVars,
     stateVars, historyVars
<1>2. CASE PendingCommit \/ LoopDone
  BY <1>2 DEF PendingCommit, LoopDone, Commits
<1>3. CASE DrainedCommit
  BY <1>3 DEF DrainedCommit, Commits, Rests, ContextHeld, loopVars, stateVars
<1>4. CASE YieldEnds
  BY <1>4 DEF YieldEnds, Commits, Rests, ContextHeld, loopVars, stateVars
<1>5. CASE StartNextTurn
  <2>1. turn = "continues"
    BY <1>5 DEF StartNextTurn, TypeInv
  <2> QED BY <1>5, <2>1 DEF StartNextTurn, Commits, Rests, ContextHeld, stateVars
<1> QED BY <1>1, <1>2, <1>3, <1>4, <1>5 DEF ActorStep

\* The beginning of a loop.
LEMMA BeginLoopBegins ==
  ASSUME turn = "none", NEW conversation, BeginLoop(conversation)
  PROVE  Begins
BY DEF BeginLoop, Begins

\* Every step is one of these or a command on the queues.
LEMMA StepKinds ==
  ASSUME TypeInv, [ActorNext]_vars
  PROVE  \/ Rests \/ Walks \/ Commits \/ Begins \/ Submit \/ ClearQueues \/ DrainQueue
         \/ EditQueueEntry \/ RemoveQueueEntry
<1>1. CASE TurnAdvances
  <2>1. CASE StartTurn \/ Poll \/ Suspend
    BY <1>1, <2>1 DEF TurnAdvances, StartTurn, Poll, Suspend, Rests, ContextHeld, stateVars,
       historyVars
  <2>2. CASE NodeStep
    BY <1>1, <2>2 DEF TurnAdvances, Walks, stateVars, historyVars
  <2> QED BY <1>1, <2>1, <2>2 DEF TurnAdvances, Advance
<1>2. CASE ActorStep
  BY <1>2, ActorStepKinds
<1>3. CASE Prompt
  BY <1>3, BeginLoopBegins DEF Prompt
<1>4. CASE Run
  BY <1>4, BeginLoopBegins DEF Run
<1>5. CASE Abort \/ ChangeMessages \/ SetProviderRequestOverride \/ Shutdown
  BY <1>5 DEF Abort, ChangeMessages, SetProviderRequestOverride, Shutdown, LeaveLoop, Rests,
     ContextHeld, loopVars, stateVars, historyVars
<1>6. CASE CommandDropped \/ Receive \/ DropStream \/ DropHandles \/ UNCHANGED vars
  BY <1>6 DEF CommandDropped, Receive, DropStream, DropHandles, vars, Rests, ContextHeld,
     loopVars, stateVars, historyVars
<1> QED BY <1>1, <1>2, <1>3, <1>4, <1>5, <1>6 DEF ActorNext, Command

\* Submit puts the next input at the end of the queue that counts: in front of it lies
\* everything of its kind, but for entries a flush has left pending.
LEMMA SubmitGrows ==
  ASSUME TypeInv, TypeInv', EmptyInv, Submit
  PROVE  Grows
<1>1. /\ accepted < MaxInputs /\ accepted' = accepted + 1
      /\ UNCHANGED <<turn, delivered, withdrawn>>
  BY SubmitIs
<1>2. accepted + 1 \in 1..MaxInputs
  <2>1. accepted \in Nat /\ MaxInputs \in Nat
    BY Limits DEF TypeInv, ActorTypeOK
  <2> QED BY <1>1, <2>1
<1>3. PICK kind \in SubmitKinds, e \in Entries :
        /\ kind \in Kinds /\ e.input = accepted + 1
        /\ \/ turn = "none" /\ SubmitsTo(state_queues, state_queues', kind, e)
              /\ UNCHANGED <<ctx_queues, pending>>
           \/ ContextHeld /\ SubmitsTo(ctx_queues, ctx_queues', kind, e)
              /\ UNCHANGED <<state_queues, pending>>
           \/ turn = "running" /\ SubmitsTo(pending, pending', kind, e)
              /\ UNCHANGED <<state_queues, ctx_queues>>
  BY SubmitIs
<1>4. ASSUME NEW old \in Queues, NEW new, SubmitsTo(old, new, kind, e)
      PROVE  /\ InputsOf(new[kind]) = InputsOf(old[kind]) \o <<accepted + 1>>
             /\ \A k \in Kinds : k # kind => new[k] = old[k]
             /\ CheckQueueCapacity(old[kind], accepted + 1)
  <2>1. old[kind] \in Seq(Entries)
    BY <1>3 DEF Queues
  <2>2. new[kind] = Append(old[kind], e) /\ \A k \in Kinds : k # kind => new[k] = old[k]
    BY <1>3, <1>4 DEF SubmitsTo, Queues
  <2>3. ASSUME NEW q \in Seq(Entries), NEW x \in Entries
        PROVE  InputsOf(Append(q, x)) = InputsOf(q) \o <<x.input>>
    <3>1. Append(q, x) = q \o <<x>> /\ <<x>> \in Seq(Entries)
      BY AppendIsConcat
    <3>2. InputsOf(<<x>>) = <<x.input>>
      BY DEF InputsOf
    <3> QED BY <3>1, <3>2, InputsOfConcat
  <2> QED BY <1>3, <1>4, <2>1, <2>2, <2>3 DEF SubmitsTo
<1>5. state_queues \in Queues /\ ctx_queues \in Queues /\ pending \in Queues
  BY DEF TypeInv, ActorTypeOK, TurnTypeOK
<1>6. <<accepted + 1>> \in InputSeqs
  BY <1>2 DEF InputSeqs
<1>m. ASSUME NEW a \in InputSeqs, NEW b \in InputSeqs, NEW x \in InputSeqs
      PROVE  a \o (b \o x) = (a \o b) \o x /\ (a \o b) \o x \in InputSeqs
  <2>1. (a \o b) \o x = a \o (b \o x)
    BY Regroup, Zenon
  <2>2. a \o b \in InputSeqs
    BY Joins, Zenon
  <2>3. (a \o b) \o x \in InputSeqs
    BY <2>2, Joins, Zenon
  <2> QED BY <2>1, <2>3
<1> DEFINE d == delivered[kind]
           c == InputsOf(ctx_queues[kind])
           p == InputsOf(pending[kind])
           s == InputsOf(state_queues[kind])
<1>7. /\ Trail(kind) = ((d \o c) \o p) \o s
      /\ Trail(kind)' = ((d \o InputsOf(ctx_queues'[kind])) \o InputsOf(pending'[kind]))
                            \o InputsOf(state_queues'[kind])
      /\ d \in InputSeqs /\ c \in InputSeqs /\ p \in InputSeqs /\ s \in InputSeqs
  BY <1>1, <1>3, TrailFrom, Zenon
<1>8. turn # "none" => s = << >>
  BY <1>3, EmptyInputs DEF EmptyInv
<1>p. p # << >> => pending[kind] # << >>
  BY EmptyInputs
<1>9. ASSUME NEW k \in Kinds, k # kind PROVE Trail(k)' = Trail(k)
  <2>1. /\ ctx_queues'[k] = ctx_queues[k] /\ pending'[k] = pending[k]
        /\ state_queues'[k] = state_queues[k] /\ delivered'[k] = delivered[k]
    BY <1>1, <1>3, <1>4, <1>5, <1>9
  <2> QED BY <2>1, TrailFrom, Zenon
<1>10. \E u, v : GrowsAt(kind, u, v)
  <2>1. CASE turn = "none" /\ SubmitsTo(state_queues, state_queues', kind, e)
             /\ UNCHANGED <<ctx_queues, pending>>
    <3>1. InputsOf(state_queues'[kind]) = s \o <<accepted + 1>>
      BY <1>4, <1>5, <2>1
    <3>2. Trail(kind)' = ((d \o c) \o p) \o (s \o <<accepted + 1>>)
      BY <1>7, <2>1, <3>1
    <3> HIDE DEF d, c, p, s
    <3>3. (d \o c) \o p \in InputSeqs /\ << >> \in InputSeqs
      BY <1>7, Joins, EmptyInputs, Zenon
    <3>4. ((d \o c) \o p) \o s \in InputSeqs
      BY <1>7, <3>3, Joins, Zenon
    <3>5. /\ ((d \o c) \o p) \o (s \o <<accepted + 1>>)
                = (((d \o c) \o p) \o s) \o <<accepted + 1>>
          /\ (((d \o c) \o p) \o s) \o <<accepted + 1>> \in InputSeqs
      BY <1>6, <1>7, <1>m, <3>3, Zenon
    <3>6. /\ Trail(kind) = (((d \o c) \o p) \o s) \o << >>
          /\ Trail(kind)' = ((((d \o c) \o p) \o s) \o <<accepted + 1>>) \o << >>
      BY <1>7, <3>2, <3>4, <3>5, EmptyInputs
    <3> QED BY <3>3, <3>4, <3>6 DEF GrowsAt
  <2>2. CASE ContextHeld /\ SubmitsTo(ctx_queues, ctx_queues', kind, e)
             /\ UNCHANGED <<state_queues, pending>>
    <3>1. /\ InputsOf(ctx_queues'[kind]) = c \o <<accepted + 1>>
          /\ CheckQueueCapacity(ctx_queues[kind], accepted + 1)
      BY <1>4, <1>5, <2>2
    <3>2. Trail(kind)' = ((d \o (c \o <<accepted + 1>>)) \o p) \o s
      BY <1>7, <2>2, <3>1
    <3>3. s = << >>
      BY <1>8, <2>2 DEF ContextHeld
    <3> HIDE DEF d, c, p, s
    <3>4. d \o c \in InputSeqs
      BY <1>7, Joins, Zenon
    <3>5. /\ d \o (c \o <<accepted + 1>>) = (d \o c) \o <<accepted + 1>>
          /\ (d \o c) \o <<accepted + 1>> \in InputSeqs
      BY <1>6, <1>7, <1>m, Zenon
    <3>6. (d \o c) \o p \in InputSeqs /\ ((d \o c) \o <<accepted + 1>>) \o p \in InputSeqs
      BY <1>7, <3>4, <3>5, Joins, Zenon
    <3>7. /\ Trail(kind) = (d \o c) \o p
          /\ Trail(kind)' = ((d \o c) \o <<accepted + 1>>) \o p
      BY <1>7, <3>2, <3>3, <3>5, <3>6, EmptyInputs
    <3> QED BY <1>7, <1>p, <2>2, <3>1, <3>4, <3>7 DEF GrowsAt
  <2>3. CASE turn = "running" /\ SubmitsTo(pending, pending', kind, e)
             /\ UNCHANGED <<state_queues, ctx_queues>>
    <3>1. InputsOf(pending'[kind]) = p \o <<accepted + 1>>
      BY <1>4, <1>5, <2>3
    <3>2. Trail(kind)' = ((d \o c) \o (p \o <<accepted + 1>>)) \o s
      BY <1>7, <2>3, <3>1
    <3>3. s = << >>
      BY <1>8, <2>3
    <3> HIDE DEF d, c, p, s
    <3>4. d \o c \in InputSeqs /\ << >> \in InputSeqs
      BY <1>7, Joins, EmptyInputs, Zenon
    <3>5. (d \o c) \o p \in InputSeqs
      BY <1>7, <3>4, Joins, Zenon
    <3>6. /\ (d \o c) \o (p \o <<accepted + 1>>) = ((d \o c) \o p) \o <<accepted + 1>>
          /\ ((d \o c) \o p) \o <<accepted + 1>> \in InputSeqs
      BY <1>6, <1>7, <1>m, <3>4, Zenon
    <3>7. /\ Trail(kind) = ((d \o c) \o p) \o << >>
          /\ Trail(kind)' = (((d \o c) \o p) \o <<accepted + 1>>) \o << >>
      BY <1>7, <3>2, <3>3, <3>6
    <3> QED BY <3>4, <3>5, <3>7 DEF GrowsAt
  <2> QED BY <1>3, <2>1, <2>2, <2>3
<1> HIDE DEF d, c, p, s
<1> QED BY <1>1, <1>2, <1>3, <1>9, <1>10 DEF Grows

\* What four parts hold.
LEMMA RangeFour ==
  ASSUME NEW a \in InputSeqs, NEW b \in InputSeqs, NEW c \in InputSeqs, NEW d \in InputSeqs
  PROVE  RangeOf(((a \o b) \o c) \o d) = RangeOf(a) \cup RangeOf(b) \cup RangeOf(c) \cup RangeOf(d)
<1>1. a \o b \in InputSeqs /\ RangeOf(a \o b) = RangeOf(a) \cup RangeOf(b)
  BY InputConcat, RangeConcat
<1>2. (a \o b) \o c \in InputSeqs /\ RangeOf((a \o b) \o c) = RangeOf(a \o b) \cup RangeOf(c)
  BY <1>1, InputConcat, RangeConcat
<1>3. RangeOf(((a \o b) \o c) \o d) = RangeOf((a \o b) \o c) \cup RangeOf(d)
  BY <1>2, RangeConcat
<1> QED BY <1>1, <1>2, <1>3

\* A sequence and the empty one are parts of it.
LEMMA EmptyThinner == \A a : Thinner(a, a) /\ Thinner(<< >>, a)
BY EmptyInputs DEF Thinner

\* Four parts of which three got thinner.
LEMMA ThinFour ==
  ASSUME NEW a \in InputSeqs, NEW b \in InputSeqs, NEW c \in InputSeqs, NEW d \in InputSeqs,
         NEW x \in InputSeqs, NEW y \in InputSeqs, NEW z \in InputSeqs,
         Thinner(x, b), Thinner(y, c), Thinner(z, d)
  PROVE  Thinner(((a \o x) \o y) \o z, ((a \o b) \o c) \o d)
<1>0. a \o b \in InputSeqs /\ a \o x \in InputSeqs
  BY InputConcat
<1>1. Thinner(a \o x, a \o b)
  BY EmptyThinner, ThinnerConcat
<1>2. (a \o b) \o c \in InputSeqs /\ (a \o x) \o y \in InputSeqs
  BY <1>0, InputConcat
<1>3. Thinner((a \o x) \o y, (a \o b) \o c)
  BY <1>0, <1>1, ThinnerConcat
<1> QED BY <1>2, <1>3, ThinnerConcat

\* The parts of a trail got thinner, and what they lost is withdrawn.
LEMMA ThinTrails ==
  ASSUME TypeInv, TypeInv', UNCHANGED <<delivered, accepted>>,
         withdrawn \subseteq withdrawn', withdrawn' \subseteq withdrawn \cup Everything,
         \A k \in Kinds : /\ Thinner(InputsOf(ctx_queues'[k]), InputsOf(ctx_queues[k]))
                          /\ Thinner(InputsOf(pending'[k]), InputsOf(pending[k]))
                          /\ Thinner(InputsOf(state_queues'[k]), InputsOf(state_queues[k])),
         \A k \in Kinds :
            /\ RangeOf(InputsOf(ctx_queues[k])) \subseteq RangeOf(InputsOf(ctx_queues'[k])) \cup withdrawn'
            /\ RangeOf(InputsOf(pending[k])) \subseteq RangeOf(InputsOf(pending'[k])) \cup withdrawn'
            /\ RangeOf(InputsOf(state_queues[k])) \subseteq RangeOf(InputsOf(state_queues'[k])) \cup withdrawn'
  PROVE  Thins
<1>1. ASSUME NEW k \in Kinds
      PROVE  /\ Thinner(Trail(k)', Trail(k))
             /\ RangeOf(Trail(k)) \subseteq RangeOf(Trail(k)') \cup withdrawn'
  <2> DEFINE d == delivered[k]
             c == InputsOf(ctx_queues[k])
             p == InputsOf(pending[k])
             s == InputsOf(state_queues[k])
             c2 == InputsOf(ctx_queues'[k])
             p2 == InputsOf(pending'[k])
             s2 == InputsOf(state_queues'[k])
  <2>1. /\ Trail(k) = ((d \o c) \o p) \o s /\ Trail(k)' = ((d \o c2) \o p2) \o s2
        /\ d \in InputSeqs /\ c \in InputSeqs /\ p \in InputSeqs /\ s \in InputSeqs
        /\ c2 \in InputSeqs /\ p2 \in InputSeqs /\ s2 \in InputSeqs
    BY TrailFrom, Zenon
  <2>2. /\ Thinner(c2, c) /\ Thinner(p2, p) /\ Thinner(s2, s)
        /\ RangeOf(c) \subseteq RangeOf(c2) \cup withdrawn'
        /\ RangeOf(p) \subseteq RangeOf(p2) \cup withdrawn'
        /\ RangeOf(s) \subseteq RangeOf(s2) \cup withdrawn'
    OBVIOUS
  <2> HIDE DEF d, c, p, s, c2, p2, s2
  <2>3. /\ RangeOf(Trail(k)) = RangeOf(d) \cup RangeOf(c) \cup RangeOf(p) \cup RangeOf(s)
        /\ RangeOf(Trail(k)') = RangeOf(d) \cup RangeOf(c2) \cup RangeOf(p2) \cup RangeOf(s2)
    BY <2>1, RangeFour
  <2>4. Thinner(((d \o c2) \o p2) \o s2, ((d \o c) \o p) \o s)
    BY <2>1, <2>2, ThinFour, Zenon
  <2>5. Thinner(Trail(k)', Trail(k))
    BY <2>1, <2>4, Zenon
  <2> QED BY <2>2, <2>3, <2>5
<1> QED BY <1>1 DEF Thins

\* A node moves inputs along their trail.
LEMMA WalksThins ==
  ASSUME TypeInv, TypeInv', Walks
  PROVE  Thins
<1>1. QueuesTyped /\ NodeStep
  BY DEF TypeInv, ActorTypeOK, TurnTypeOK, QueuesTyped, Walks
<1>2. \A k \in Kinds : Front(k)' = Front(k)
  BY <1>1, NodeOutcome, FrontStays
<1>3. \A k \in Kinds : Trail(k)' = Trail(k)
  <2> TAKE k \in Kinds
  <2>1. Trail(k) = Front(k) \o InputsOf(state_queues[k])
    BY DEF Trail, Front
  <2>2. Trail(k)' = Front(k)' \o InputsOf(state_queues'[k])
    BY DEF Trail, Front, InputsOf
  <2>3. state_queues' = state_queues
    BY DEF Walks
  <2> QED BY <1>2, <2>1, <2>2, <2>3
<1> QED BY <1>3, SameTrails DEF Walks

\* So does the commit, ...
LEMMA CommitsThins ==
  ASSUME TypeInv, TypeInv', Commits
  PROVE  Thins
<1>1. /\ state_queues' = [k \in Kinds |-> ctx_queues[k] \o pending[k] \o state_queues[k]]
      /\ ctx_queues' = EmptyQueues /\ pending' = EmptyQueues
      /\ UNCHANGED <<delivered, accepted, withdrawn>>
  BY DEF Commits, CommitTurn
<1>2. ASSUME NEW k \in Kinds PROVE Trail(k)' = Trail(k)
  <2> DEFINE d == delivered[k]
             c == InputsOf(ctx_queues[k])
             p == InputsOf(pending[k])
             s == InputsOf(state_queues[k])
  <2>1. /\ ctx_queues[k] \in Seq(Entries) /\ pending[k] \in Seq(Entries)
        /\ state_queues[k] \in Seq(Entries)
    BY DEF TypeInv, ActorTypeOK, TurnTypeOK, Queues
  <2>2. ctx_queues[k] \o pending[k] \in Seq(Entries)
    BY <2>1, ConcatProperties
  <2>3. InputsOf((ctx_queues[k] \o pending[k]) \o state_queues[k]) = (c \o p) \o s
    BY <2>1, <2>2, InputsOfConcat
  <2>4. state_queues'[k] = (ctx_queues[k] \o pending[k]) \o state_queues[k]
        /\ ctx_queues'[k] = << >> /\ pending'[k] = << >>
    BY <1>1, EmptyQueuesTyped
  <2>5. /\ Trail(k) = ((d \o c) \o p) \o s
        /\ Trail(k)' = ((delivered'[k] \o InputsOf(ctx_queues'[k])) \o InputsOf(pending'[k]))
                            \o InputsOf(state_queues'[k])
        /\ d \in InputSeqs /\ c \in InputSeqs /\ p \in InputSeqs /\ s \in InputSeqs
    BY TrailFrom, Zenon
  <2>6. Trail(k)' = ((d \o << >>) \o << >>) \o ((c \o p) \o s)
    BY <1>1, <2>3, <2>4, <2>5, EmptyInputs
  <2> HIDE DEF d, c, p, s
  <2>8. d \in InputSeqs /\ c \in InputSeqs /\ p \in InputSeqs /\ s \in InputSeqs
    BY <2>5
  <2>7. Trail(k) = ((d \o c) \o p) \o s
    BY <2>5
  <2>9. (d \o << >>) \o << >> = d
    BY <2>8, EmptyInputs
  <2>10. c \o p \in InputSeqs
    BY <2>8, Joins, Zenon
  <2>11. (d \o c) \o p = d \o (c \o p)
    BY <2>8, Regroup, Zenon
  <2>12. (d \o (c \o p)) \o s = d \o ((c \o p) \o s)
    <3> DEFINE regroup(u, v, w) == (u \o v) \o w = u \o (v \o w)
    <3>1. \A u, v, w \in InputSeqs : regroup(u, v, w)
      BY Regroup, Zenon
    <3> HIDE DEF regroup
    <3>2. regroup(d, c \o p, s)
      BY <2>8, <2>10, <3>1, Zenon
    <3> QED BY <3>2 DEF regroup
  <2> QED BY <2>6, <2>7, <2>9, <2>11, <2>12
<1> QED BY <1>1, <1>2, SameTrails

\* ... and the beginning of a loop.
LEMMA BeginsThins ==
  ASSUME TypeInv, TypeInv', EmptyInv, Begins
  PROVE  Thins
<1>1. ASSUME NEW k \in Kinds PROVE Trail(k)' = Trail(k)
  <2> DEFINE d == delivered[k]
             s == InputsOf(state_queues[k])
  <2>1. /\ ctx_queues[k] = << >> /\ pending[k] = << >> /\ ctx_queues'[k] = state_queues[k]
        /\ pending'[k] = << >> /\ state_queues'[k] = << >> /\ delivered'[k] = d
    BY EmptyQueuesTyped DEF EmptyInv, Begins
  <2>2. /\ Trail(k) = ((d \o InputsOf(ctx_queues[k])) \o InputsOf(pending[k])) \o s
        /\ Trail(k)' = ((delivered'[k] \o InputsOf(ctx_queues'[k])) \o InputsOf(pending'[k]))
                            \o InputsOf(state_queues'[k])
        /\ d \in InputSeqs /\ s \in InputSeqs
    BY TrailFrom, Zenon
  <2>3. /\ Trail(k) = ((d \o << >>) \o << >>) \o s
        /\ Trail(k)' = ((d \o s) \o << >>) \o << >>
    BY <2>1, <2>2, EmptyInputs
  <2> HIDE DEF d, s
  <2> QED BY <2>2, <2>3, Joins, Zenon
<1> QED BY <1>1, SameTrails DEF Begins

\* Editing an entry moves no input.
LEMMA EditThins ==
  ASSUME TypeInv, TypeInv', EditQueueEntry
  PROVE  Thins
<1>1. UNCHANGED <<delivered, accepted, withdrawn>>
  BY DEF EditQueueEntry, historyVars
<1>2. ASSUME NEW k \in Kinds PROVE Trail(k)' = Trail(k)
  <2>1. /\ InputsOf(ctx_queues'[k]) = InputsOf(ctx_queues[k])
        /\ InputsOf(pending'[k]) = InputsOf(pending[k])
        /\ InputsOf(state_queues'[k]) = InputsOf(state_queues[k])
    BY EditFacts
  <2> QED BY <1>1, <2>1, TrailFrom, Zenon
<1> QED BY <1>1, <1>2, SameTrails

\* What the parts of the trails hold.
LEMMA EverythingIs ==
  ASSUME TypeInv, NEW k \in Kinds
  PROVE  /\ Inputs(ctx_queues[k]) = RangeOf(InputsOf(ctx_queues[k]))
         /\ Inputs(pending[k]) = RangeOf(InputsOf(pending[k]))
         /\ Inputs(state_queues[k]) = RangeOf(InputsOf(state_queues[k]))
         /\ Inputs(ctx_queues[k]) \cup Inputs(pending[k]) \cup Inputs(state_queues[k]) \subseteq Everything
<1>1. /\ ctx_queues[k] \in Seq(Entries) /\ pending[k] \in Seq(Entries)
      /\ state_queues[k] \in Seq(Entries)
  BY DEF TypeInv, ActorTypeOK, TurnTypeOK, Queues
<1>2. /\ Inputs(ctx_queues[k]) = RangeOf(InputsOf(ctx_queues[k]))
      /\ Inputs(pending[k]) = RangeOf(InputsOf(pending[k]))
      /\ Inputs(state_queues[k]) = RangeOf(InputsOf(state_queues[k]))
  BY <1>1, InputsAreRange
<1>3. RangeOf(Trail(k)) \subseteq Everything
  BY DEF Everything
<1> QED BY <1>2, <1>3, TrailIs

\* Queues are emptied by name.
LEMMA EmptiedThins ==
  ASSUME TypeInv, TypeInv', UNCHANGED <<delivered, accepted>>,
         withdrawn \subseteq withdrawn', withdrawn' \subseteq withdrawn \cup Everything,
         \A k \in Kinds : \/ ctx_queues'[k] = ctx_queues[k]
                          \/ ctx_queues'[k] = << >> /\ Inputs(ctx_queues[k]) \subseteq withdrawn',
         \A k \in Kinds : \/ pending'[k] = pending[k]
                          \/ pending'[k] = << >> /\ Inputs(pending[k]) \subseteq withdrawn',
         \A k \in Kinds : \/ state_queues'[k] = state_queues[k]
                          \/ state_queues'[k] = << >> /\ Inputs(state_queues[k]) \subseteq withdrawn'
  PROVE  Thins
<1>1. ASSUME NEW q, NEW r, NEW W, q = r \/ (q = << >> /\ RangeOf(InputsOf(r)) \subseteq W)
      PROVE  /\ Thinner(InputsOf(q), InputsOf(r))
             /\ RangeOf(InputsOf(r)) \subseteq RangeOf(InputsOf(q)) \cup W
  BY <1>1, EmptyThinner, EmptyInputs
<1>2. \A k \in Kinds :
        /\ Thinner(InputsOf(ctx_queues'[k]), InputsOf(ctx_queues[k]))
        /\ RangeOf(InputsOf(ctx_queues[k])) \subseteq RangeOf(InputsOf(ctx_queues'[k])) \cup withdrawn'
  BY <1>1, EverythingIs
<1>3. \A k \in Kinds :
        /\ Thinner(InputsOf(pending'[k]), InputsOf(pending[k]))
        /\ RangeOf(InputsOf(pending[k])) \subseteq RangeOf(InputsOf(pending'[k])) \cup withdrawn'
  BY <1>1, EverythingIs
<1>4. \A k \in Kinds :
        /\ Thinner(InputsOf(state_queues'[k]), InputsOf(state_queues[k]))
        /\ RangeOf(InputsOf(state_queues[k])) \subseteq RangeOf(InputsOf(state_queues'[k])) \cup withdrawn'
  BY <1>1, EverythingIs
<1> QED BY <1>2, <1>3, <1>4, ThinTrails, Zenon

\* Clearing queues withdraws what they held, ...
LEMMA ClearThins ==
  ASSUME TypeInv, TypeInv', ClearQueues
  PROVE  Thins
<1>1. /\ state_queues' = EmptyQueues /\ pending' = EmptyQueues
      /\ ctx_queues' = IF ContextHeld THEN EmptyQueues ELSE ctx_queues
      /\ withdrawn' = withdrawn \cup InputsIn(state_queues) \cup InputsIn(pending) \cup Reached
      /\ UNCHANGED <<delivered, accepted>>
  BY DEF ClearQueues
<1>2. \A k \in Kinds : /\ Inputs(state_queues[k]) \subseteq withdrawn'
                       /\ Inputs(pending[k]) \subseteq withdrawn'
                       /\ ContextHeld => Inputs(ctx_queues[k]) \subseteq withdrawn'
  BY <1>1 DEF InputsIn, Reached
<1>3. InputsIn(state_queues) \cup InputsIn(pending) \cup Reached \subseteq Everything
  BY EverythingIs DEF InputsIn, Reached
<1>4. \A k \in Kinds : /\ state_queues'[k] = << >> /\ pending'[k] = << >>
                       /\ ctx_queues'[k] = IF ContextHeld THEN << >> ELSE ctx_queues[k]
  BY <1>1, EmptyQueuesTyped
<1> QED BY <1>1, <1>2, <1>3, <1>4, EmptiedThins

\* ... and so does draining them.
LEMMA DrainThins ==
  ASSUME TypeInv, TypeInv', DrainQueue
  PROVE  Thins
<1>1. PICK kind \in Kinds :
        /\ state_queues' = [state_queues EXCEPT ![kind] = << >>]
        /\ pending' = [pending EXCEPT ![kind] = << >>]
        /\ ctx_queues' = IF ContextHeld THEN [ctx_queues EXCEPT ![kind] = << >>] ELSE ctx_queues
        /\ withdrawn' = withdrawn \cup Inputs(state_queues[kind]) \cup Inputs(pending[kind])
                \cup IF ContextHeld THEN Inputs(ctx_queues[kind]) ELSE {}
        /\ UNCHANGED <<delivered, accepted>>
  BY DEF DrainQueue, Kinds
<1>2. ctx_queues \in Queues /\ pending \in Queues /\ state_queues \in Queues
  BY DEF TypeInv, ActorTypeOK, TurnTypeOK
<1>3. /\ withdrawn \subseteq withdrawn' /\ withdrawn' \subseteq withdrawn \cup Everything
      /\ Inputs(state_queues[kind]) \subseteq withdrawn' /\ Inputs(pending[kind]) \subseteq withdrawn'
      /\ ContextHeld => Inputs(ctx_queues[kind]) \subseteq withdrawn'
  BY <1>1, EverythingIs
<1>4. \A k \in Kinds :
        /\ state_queues'[k] = IF k = kind THEN << >> ELSE state_queues[k]
        /\ pending'[k] = IF k = kind THEN << >> ELSE pending[k]
        /\ ctx_queues'[k] = IF k = kind /\ ContextHeld THEN << >> ELSE ctx_queues[k]
  BY <1>1, <1>2 DEF Queues
<1> QED BY <1>1, <1>3, <1>4, EmptiedThins

\* One entry less in one queue.
LEMMA RemovedThins ==
  ASSUME NEW old \in Queues, NEW new, NEW kind, NEW i, Removed(old, new, kind, i)
  PROVE  /\ kind \in Kinds
         /\ old[kind][i].input \in RangeOf(InputsOf(old[kind]))
         /\ \A k \in Kinds :
              /\ Thinner(InputsOf(new[k]), InputsOf(old[k]))
              /\ RangeOf(InputsOf(old[k]))
                    \subseteq RangeOf(InputsOf(new[k])) \cup {old[kind][i].input}
<1>1. /\ kind \in Kinds /\ i \in 1..Len(old[kind])
      /\ new[kind] = Without(old[kind], i)
      /\ \A k \in Kinds : k # kind => new[k] = old[k]
  BY DEF Removed
<1>2. old[kind] \in Seq(Entries)
  BY <1>1 DEF Queues
<1>3. /\ Thinner(InputsOf(new[kind]), InputsOf(old[kind]))
      /\ RangeOf(InputsOf(old[kind]))
            \subseteq RangeOf(InputsOf(new[kind])) \cup {old[kind][i].input}
      /\ old[kind][i].input \in RangeOf(InputsOf(old[kind]))
  BY <1>1, <1>2, ThinnerWithout
<1>4. ASSUME NEW k \in Kinds, k # kind
      PROVE  /\ Thinner(InputsOf(new[k]), InputsOf(old[k]))
             /\ RangeOf(InputsOf(old[k])) = RangeOf(InputsOf(new[k]))
  BY <1>1, <1>4, EmptyThinner
<1> QED BY <1>1, <1>3, <1>4

\* Removing an entry withdraws its input.
LEMMA RemoveThins ==
  ASSUME TypeInv, TypeInv', RemoveQueueEntry
  PROVE  Thins
<1>0. ctx_queues \in Queues /\ pending \in Queues /\ state_queues \in Queues
  BY DEF TypeInv, ActorTypeOK, TurnTypeOK
<1>1. UNCHANGED <<delivered, accepted>>
  BY DEF RemoveQueueEntry
<1>2. PICK kind, i :
        \/ /\ Removed(state_queues, state_queues', kind, i)
           /\ UNCHANGED <<ctx_queues, pending>>
           /\ withdrawn' = withdrawn \cup {state_queues[kind][i].input}
        \/ /\ Removed(ctx_queues, ctx_queues', kind, i)
           /\ \A k \in Kinds : pending'[k] = pending[k]
           /\ UNCHANGED state_queues
           /\ withdrawn' = withdrawn \cup {ctx_queues[kind][i].input}
        \/ /\ Removed(pending, pending', kind, i)
           /\ \A k \in Kinds : ctx_queues'[k] = ctx_queues[k]
           /\ UNCHANGED state_queues
           /\ withdrawn' = withdrawn \cup {pending[kind][i].input}
  BY RemoveFacts
<1>3. ASSUME NEW old \in Queues, NEW new,
             \/ \A k \in Kinds : new[k] = old[k]
             \/ /\ Removed(old, new, kind, i)
                /\ withdrawn' = withdrawn \cup {old[kind][i].input}
      PROVE  \A k \in Kinds :
               /\ Thinner(InputsOf(new[k]), InputsOf(old[k]))
               /\ RangeOf(InputsOf(old[k])) \subseteq RangeOf(InputsOf(new[k])) \cup withdrawn'
  <2>1. CASE \A k \in Kinds : new[k] = old[k]
    BY <2>1, EmptyThinner
  <2>2. CASE Removed(old, new, kind, i) /\ withdrawn' = withdrawn \cup {old[kind][i].input}
    <3>1. \A k \in Kinds :
             /\ Thinner(InputsOf(new[k]), InputsOf(old[k]))
             /\ RangeOf(InputsOf(old[k]))
                   \subseteq RangeOf(InputsOf(new[k])) \cup {old[kind][i].input}
      BY <2>2, RemovedThins
    <3> QED BY <2>2, <3>1
  <2> QED BY <1>3, <2>1, <2>2
<1>4. \A k \in Kinds :
        /\ Thinner(InputsOf(ctx_queues'[k]), InputsOf(ctx_queues[k]))
        /\ RangeOf(InputsOf(ctx_queues[k])) \subseteq RangeOf(InputsOf(ctx_queues'[k])) \cup withdrawn'
  BY <1>0, <1>2, <1>3
<1>5. \A k \in Kinds :
        /\ Thinner(InputsOf(pending'[k]), InputsOf(pending[k]))
        /\ RangeOf(InputsOf(pending[k])) \subseteq RangeOf(InputsOf(pending'[k])) \cup withdrawn'
  BY <1>0, <1>2, <1>3
<1>6. \A k \in Kinds :
        /\ Thinner(InputsOf(state_queues'[k]), InputsOf(state_queues[k]))
        /\ RangeOf(InputsOf(state_queues[k])) \subseteq RangeOf(InputsOf(state_queues'[k])) \cup withdrawn'
  BY <1>0, <1>2, <1>3
<1>7. withdrawn \subseteq withdrawn' /\ withdrawn' \subseteq withdrawn \cup Everything
  <2>1. ASSUME NEW old \in {ctx_queues, pending, state_queues}, NEW new,
               Removed(old, new, kind, i)
        PROVE  old[kind][i].input \in Everything
    <3>1. kind \in Kinds /\ old[kind][i].input \in RangeOf(InputsOf(old[kind]))
      BY <1>0, <2>1, RemovedThins
    <3> QED BY <3>1, EverythingIs
  <2> QED BY <1>2, <2>1
<1> QED BY <1>1, <1>4, <1>5, <1>6, <1>7, ThinTrails, Zenon

\* Every step thins the trails or grows one of them.
LEMMA StepMoves ==
  ASSUME TypeInv, TypeInv', EmptyInv, [ActorNext]_vars
  PROVE  Thins \/ Grows
<1>1. CASE Rests
  BY <1>1, QueuesKeepTrails DEF Rests
<1> QED BY <1>1, StepKinds, WalksThins, CommitsThins, BeginsThins, SubmitGrows, ClearThins,
        DrainThins, EditThins, RemoveThins

\* A queue without inputs is empty.
LEMMA NoInputsEmpty ==
  ASSUME NEW q \in Seq(Entries), InputsOf(q) = << >>
  PROVE  q = << >>
<1>1. Len(q) = 0
  BY InputsOfFacts
<1> QED BY <1>1, EmptySeq

\* Between two loops one of the two sets of queues is empty.
LEMMA EmptyStep ==
  ASSUME TypeInv, TypeInv', EmptyInv, [ActorNext]_vars
  PROVE  EmptyInv'
<1>0. /\ ctx_queues \in Queues /\ pending \in Queues /\ state_queues \in Queues
      /\ ctx_queues' \in Queues /\ pending' \in Queues /\ state_queues' \in Queues
  BY DEF TypeInv, ActorTypeOK, TurnTypeOK
<1>1. CASE Rests
  BY <1>1 DEF Rests, EmptyInv
<1>2. CASE Walks
  <2>1. QueuesTyped /\ NodeStep
    BY <1>2 DEF TypeInv, ActorTypeOK, TurnTypeOK, QueuesTyped, Walks
  <2>2. turn = "running" /\ turn' # "none"
    BY <2>1, NodeOutcome DEF Ended, GoesOn
  <2> QED BY <1>2, <2>2 DEF EmptyInv, Walks
<1>3. CASE Commits
  BY <1>3, EmptyQueuesTyped DEF Commits, CommitTurn, EmptyInv
<1>4. CASE Begins
  BY <1>4, EmptyQueuesTyped DEF Begins, EmptyInv
<1>5. CASE Submit
  <2>1. /\ UNCHANGED turn
        /\ \/ turn = "none" /\ UNCHANGED <<ctx_queues, pending>>
           \/ turn # "none" /\ UNCHANGED state_queues
    BY <1>5, SubmitIs DEF ContextHeld
  <2> QED BY <2>1 DEF EmptyInv
<1>6. CASE ClearQueues
  BY <1>6, EmptyQueuesTyped DEF ClearQueues, EmptyInv, ContextHeld
<1>7. CASE DrainQueue
  <2>1. PICK kind \in Kinds :
          /\ state_queues' = [state_queues EXCEPT ![kind] = << >>]
          /\ pending' = [pending EXCEPT ![kind] = << >>]
          /\ ctx_queues' = IF ContextHeld THEN [ctx_queues EXCEPT ![kind] = << >>] ELSE ctx_queues
          /\ UNCHANGED turn
    BY <1>7 DEF DrainQueue, Kinds
  <2>2. \A k \in Kinds :
          /\ state_queues'[k] \in {<< >>, state_queues[k]}
          /\ pending'[k] \in {<< >>, pending[k]}
          /\ ctx_queues'[k] \in {<< >>, ctx_queues[k]}
    BY <1>0, <2>1 DEF Queues
  <2> QED BY <2>1, <2>2 DEF EmptyInv
<1>8. CASE EditQueueEntry
  <2>1. ASSUME NEW old \in Queues, NEW new \in Queues, NEW k \in Kinds, old[k] = << >>,
               InputsOf(new[k]) = InputsOf(old[k])
        PROVE  new[k] = << >>
    <3>1. new[k] \in Seq(Entries)
      BY DEF Queues
    <3> QED BY <2>1, <3>1, NoInputsEmpty, EmptyInputs
  <2>2. \A k \in Kinds : /\ InputsOf(ctx_queues'[k]) = InputsOf(ctx_queues[k])
                         /\ InputsOf(pending'[k]) = InputsOf(pending[k])
                         /\ InputsOf(state_queues'[k]) = InputsOf(state_queues[k])
    BY <1>8, EditFacts
  <2>3. turn' = turn
    BY <1>8 DEF EditQueueEntry
  <2> QED BY <1>0, <2>1, <2>2, <2>3 DEF EmptyInv
<1>9. CASE RemoveQueueEntry
  <2>1. PICK kind, i :
        \/ /\ Removed(state_queues, state_queues', kind, i)
           /\ UNCHANGED <<ctx_queues, pending>>
        \/ /\ Removed(ctx_queues, ctx_queues', kind, i)
           /\ UNCHANGED state_queues
        \/ /\ Removed(pending, pending', kind, i)
           /\ UNCHANGED state_queues
    BY <1>9, RemoveFacts
  <2>2. ASSUME NEW old, NEW new, Removed(old, new, kind, i), \A k \in Kinds : old[k] = << >>
        PROVE  FALSE
    <3>1. kind \in Kinds /\ i \in 1..Len(old[kind])
      BY <2>2 DEF Removed
    <3>2. old[kind] = << >>
      BY <2>2, <3>1
    <3> QED BY <3>1, <3>2
  <2>3. turn' = turn
    BY <1>9 DEF RemoveQueueEntry
  <2> QED BY <2>1, <2>2, <2>3 DEF EmptyInv
<1> QED BY <1>1, <1>2, <1>3, <1>4, <1>5, <1>6, <1>7, <1>8, <1>9, StepKinds

\* The inputs accepted so far are those withdrawn and those on a trail.
Accounted == 1..accepted = withdrawn \cup Everything

\* No input twice, ...
Different == {p \in (1..MaxInputs) \X (1..MaxInputs) : p[1] # p[2]}

\* ... and in the order of acceptance.
Ascending == {p \in (1..MaxInputs) \X (1..MaxInputs) : p[1] < p[2]}

\* An input put into a sequence.
LEMMA InsertIs ==
  ASSUME NEW u \in InputSeqs, NEW v \in InputSeqs, NEW x \in 1..MaxInputs
  PROVE  /\ RangeOf((u \o <<x>>) \o v) = RangeOf(u \o v) \cup {x}
         /\ \A R : /\ Sorted(u \o v, R)
                   /\ \A y \in RangeOf(u) : <<y, x>> \in R
                   /\ \A y \in RangeOf(v) : <<x, y>> \in R
                   => Sorted((u \o <<x>>) \o v, R)
<1>1. /\ <<x>> \in InputSeqs /\ RangeOf(<<x>>) = {x} /\ \A R : Sorted(<<x>>, R)
  BY DEF InputSeqs, RangeOf, Sorted
<1> DEFINE w == <<x>>
<1> HIDE DEF w
<1>2. /\ w \in InputSeqs /\ RangeOf(w) = {x} /\ \A R : Sorted(w, R)
  BY <1>1 DEF w
<1>3. /\ RangeOf(u \o w) = RangeOf(u) \cup {x} /\ u \o w \in InputSeqs
      /\ RangeOf(u \o v) = RangeOf(u) \cup RangeOf(v)
  BY <1>2, RangeConcat, InputConcat
<1>4. RangeOf((u \o w) \o v) = RangeOf(u \o w) \cup RangeOf(v)
  BY <1>3, RangeConcat
<1>5. ASSUME NEW R, Sorted(u \o v, R), \A y \in RangeOf(u) : <<y, x>> \in R,
             \A y \in RangeOf(v) : <<x, y>> \in R
      PROVE  Sorted((u \o w) \o v, R)
  <2>1. /\ Sorted(u, R) /\ Sorted(v, R)
        /\ \A y \in RangeOf(u), z \in RangeOf(v) : <<y, z>> \in R
    BY <1>5, SortedConcat
  <2>2. \A y \in RangeOf(u), z \in RangeOf(w) : <<y, z>> \in R
    BY <1>2, <1>5
  <2>3. Sorted(u \o w, R)
    BY <1>2, <2>1, <2>2, SortedConcat
  <2>4. \A y \in RangeOf(u \o w), z \in RangeOf(v) : <<y, z>> \in R
    BY <1>3, <1>5, <2>1
  <2> QED BY <1>3, <2>1, <2>3, <2>4, SortedConcat
<1> QED BY <1>3, <1>4, <1>5 DEF w

\* When the sequence stays sorted.
LEMMA InsertSorted ==
  ASSUME NEW u \in InputSeqs, NEW v \in InputSeqs, NEW x \in 1..MaxInputs, NEW R,
         NEW s, NEW t, s = u \o v, t = (u \o <<x>>) \o v, Sorted(s, R),
         \A y \in RangeOf(u) : <<y, x>> \in R, \A y \in RangeOf(v) : <<x, y>> \in R
  PROVE  Sorted(t, R)
<1>1. Sorted(u \o v, R)
  OBVIOUS
<1>2. Sorted((u \o <<x>>) \o v, R)
  BY <1>1, InsertIs
<1> QED BY <1>2

\* Steps that only thin trails keep the accounts and any order.
LEMMA ThinsKeeps ==
  ASSUME Accounted, Thins
  PROVE  /\ Accounted'
         /\ \A R : \A k \in Kinds : Sorted(Trail(k), R) => Sorted(Trail(k)', R)
<1>1. /\ accepted' = accepted /\ withdrawn \subseteq withdrawn'
      /\ withdrawn' \subseteq withdrawn \cup Everything
      /\ \A k \in Kinds : /\ Thinner(Trail(k)', Trail(k))
                          /\ RangeOf(Trail(k)) \subseteq RangeOf(Trail(k)') \cup withdrawn'
  BY DEF Thins
<1>2. \A k \in Kinds : RangeOf(Trail(k)') \subseteq RangeOf(Trail(k))
  BY <1>1 DEF Thinner
<1>3. Everything = UNION {RangeOf(Trail(k)) : k \in Kinds}
  BY DEF Everything
<1>4. Everything' = UNION {RangeOf(Trail(k)') : k \in Kinds}
  BY DEF Everything, RangeOf
<1>5. withdrawn' \cup Everything' = withdrawn \cup Everything
  BY <1>1, <1>2, <1>3, <1>4
<1>6. Accounted'
  BY <1>1, <1>5 DEF Accounted
<1>7. \A R : \A k \in Kinds : Sorted(Trail(k), R) => Sorted(Trail(k)', R)
  BY <1>1 DEF Thinner
<1> QED BY <1>6, <1>7

\* The next input is new and the largest; it keeps the order unless pending entries
\* lie behind the queue it went into.
LEMMA GrowsKeeps ==
  ASSUME TypeInv, Accounted, Grows
  PROVE  /\ Accounted'
         /\ (\A k \in Kinds : Sorted(Trail(k), Different))
               => \A k \in Kinds : Sorted(Trail(k)', Different)
         /\ (/\ \A k \in Kinds : Sorted(Trail(k), Ascending)
             /\ \A k \in Kinds : \A input \in 1..MaxInputs :
                   ContextHeld /\ pending[k] # << >> => ~CheckQueueCapacity(ctx_queues[k], input))
               => \A k \in Kinds : Sorted(Trail(k)', Ascending)
<1> DEFINE x == accepted + 1
<1>1. PICK kind \in Kinds :
        /\ accepted' = x /\ x \in 1..MaxInputs /\ withdrawn' = withdrawn
        /\ \E u, v : GrowsAt(kind, u, v)
        /\ \A k \in Kinds : k # kind => Trail(k)' = Trail(k)
  BY DEF Grows
<1>2. PICK u, v : GrowsAt(kind, u, v)
  BY <1>1
<1>3. /\ u \in InputSeqs /\ v \in InputSeqs
      /\ Trail(kind) = u \o v /\ Trail(kind)' = (u \o <<x>>) \o v
      /\ v # << >> => /\ ContextHeld /\ pending[kind] # << >>
                      /\ CheckQueueCapacity(ctx_queues[kind], x)
  BY <1>2 DEF GrowsAt
<1>4. accepted \in Nat /\ MaxInputs \in Nat
  BY Limits DEF TypeInv, ActorTypeOK
<1>x. x = accepted + 1
  OBVIOUS
<1> HIDE DEF x
<1>5. /\ RangeOf(Trail(kind)') = RangeOf(Trail(kind)) \cup {x}
      /\ RangeOf(Trail(kind)) = RangeOf(u) \cup RangeOf(v)
  <2>1. /\ u \in InputSeqs /\ v \in InputSeqs /\ x \in 1..MaxInputs
        /\ Trail(kind) = u \o v /\ Trail(kind)' = (u \o <<x>>) \o v
    BY <1>1, <1>3
  <2>2. RangeOf((u \o <<x>>) \o v) = RangeOf(u \o v) \cup {x}
    BY <2>1, InsertIs
  <2>3. RangeOf(u \o v) = RangeOf(u) \cup RangeOf(v)
    BY <2>1, RangeConcat
  <2> QED BY <2>1, <2>2, <2>3
<1>6. /\ Everything = UNION {RangeOf(Trail(k)) : k \in Kinds}
      /\ Everything' = UNION {RangeOf(Trail(k)') : k \in Kinds}
  BY DEF Everything, RangeOf
<1>7. Everything' = Everything \cup {x}
  <2>1. \A k \in Kinds : k # kind => RangeOf(Trail(k)') = RangeOf(Trail(k))
    BY <1>1
  <2> QED BY <1>5, <1>6, <2>1
<1>8. 1..x = 1..accepted \cup {x}
  BY <1>4, <1>x
<1>9. Accounted'
  <2>1. 1..accepted' = withdrawn' \cup Everything'
    BY <1>1, <1>7, <1>8 DEF Accounted
  <2> QED BY <2>1 DEF Accounted
<1>10. \A y \in RangeOf(u) \cup RangeOf(v) : y \in 1..MaxInputs /\ y < x
  <2>1. RangeOf(u) \cup RangeOf(v) \subseteq 1..accepted
    BY <1>3, <1>5, <1>6 DEF Accounted
  <2>2. \A y \in 1..accepted : y \in 1..MaxInputs /\ y < x
    BY <1>1, <1>4, <1>x
  <2> QED BY <2>1, <2>2
<1>11. ASSUME \A k \in Kinds : Sorted(Trail(k), Different)
       PROVE  \A k \in Kinds : Sorted(Trail(k)', Different)
  <2>1. \A y \in RangeOf(u) \cup RangeOf(v) : <<y, x>> \in Different /\ <<x, y>> \in Different
    BY <1>1, <1>4, <1>10 DEF Different
  <2>2. Sorted(Trail(kind)', Different)
    BY <1>1, <1>3, <1>11, <2>1, InsertSorted
  <2> QED BY <1>1, <1>11, <2>2
<1>12. ASSUME \A k \in Kinds : Sorted(Trail(k), Ascending),
              \A k \in Kinds : \A input \in 1..MaxInputs :
                 ContextHeld /\ pending[k] # << >> => ~CheckQueueCapacity(ctx_queues[k], input)
       PROVE  \A k \in Kinds : Sorted(Trail(k)', Ascending)
  <2>1. \A y \in RangeOf(u) : <<y, x>> \in Ascending
    BY <1>1, <1>4, <1>10 DEF Ascending
  <2>2. RangeOf(v) = {}
    BY <1>1, <1>3, <1>12, EmptyInputs
  <2>4. \A y \in RangeOf(v) : <<x, y>> \in Ascending
    BY <2>2
  <2>3. Sorted(Trail(kind)', Ascending)
    BY <1>1, <1>3, <1>12, <2>1, <2>4, InsertSorted
  <2> QED BY <1>1, <1>12, <2>3
<1> QED BY <1>9, <1>11, <1>12

\* At the start nothing is accepted and every trail is empty.
LEMMA InitInputs ==
  ActorInit => /\ TypeInv /\ EmptyInv /\ Accounted
               /\ \A R : \A k \in Kinds : Sorted(Trail(k), R)
<1> SUFFICES ASSUME ActorInit
             PROVE  /\ TypeInv /\ EmptyInv /\ Accounted
                    /\ \A R : \A k \in Kinds : Sorted(Trail(k), R)
  OBVIOUS
<1>1. TypeInv
  BY InitTypes
<1>2. /\ \A k \in Kinds : /\ ctx_queues[k] = << >> /\ pending[k] = << >>
                          /\ state_queues[k] = << >> /\ delivered[k] = << >>
      /\ accepted = 0 /\ withdrawn = {} /\ turn = "none"
  BY EmptyQueuesTyped DEF ActorInit, TurnInit
<1>3. \A k \in Kinds : Trail(k) = << >>
  BY <1>2, EmptyInputs DEF Trail
<1>4. Accounted
  <2>1. Everything = {}
    BY <1>3, EmptyInputs DEF Everything
  <2> QED BY <1>2, <2>1 DEF Accounted
<1> QED BY <1>1, <1>2, <1>3, <1>4, EmptyInputs DEF EmptyInv

(***************************************************************************)
(* Queued input is kept exactly once.                                      *)
(***************************************************************************)
InputInv ==
  /\ TypeInv /\ EmptyInv /\ Accounted
  /\ \A k \in Kinds : Sorted(Trail(k), Different)

\* Every step keeps the accounts.
LEMMA InputStep == InputInv /\ [ActorNext]_vars => InputInv'
<1> SUFFICES ASSUME InputInv, [ActorNext]_vars PROVE InputInv'
  OBVIOUS
<1>1. TypeInv'
  BY TypeStep DEF InputInv
<1>2. EmptyInv'
  BY <1>1, EmptyStep DEF InputInv
<1>3. Thins \/ Grows
  BY <1>1, StepMoves DEF InputInv
<1>4. Accounted' /\ \A k \in Kinds : Sorted(Trail(k)', Different)
  BY <1>3, ThinsKeeps, GrowsKeeps DEF InputInv
<1>5. (\A k \in Kinds : Sorted(Trail(k), Different))'
  BY <1>4 DEF Sorted
<1> QED BY <1>1, <1>2, <1>4, <1>5 DEF InputInv

\* The inputs on trails, by where they are.
LEMMA AllInputs ==
  ASSUME TypeInv
  PROVE  Everything = Delivered \cup InputsIn(ctx_queues) \cup InputsIn(pending)
                         \cup InputsIn(state_queues)
<1>1. \A k \in Kinds :
        RangeOf(Trail(k)) = RangeOf(delivered[k]) \cup Inputs(ctx_queues[k])
                \cup Inputs(pending[k]) \cup Inputs(state_queues[k])
  BY TrailIs, EverythingIs
<1>2. Delivered = UNION {RangeOf(delivered[k]) : k \in Kinds}
  BY DEF Delivered, RangeOf
<1> QED BY <1>1, <1>2 DEF Everything, InputsIn

(***************************************************************************)
(* Every input the actor accepted is delivered, waits in exactly one       *)
(* queue, or was withdrawn by a command, and none is delivered twice:      *)
(* whatever the loop does, wherever it is aborted and whenever it is       *)
(* flushed.                                                                *)
(***************************************************************************)
THEOREM InputsAreKept == ActorSpec => []InputsKeptOnce
<1>1. ActorInit => InputInv
  BY InitInputs DEF InputInv
<1>2. InputInv => InputsKeptOnce
  <2> SUFFICES ASSUME InputInv PROVE InputsKeptOnce
    OBVIOUS
  <2>1. 1..accepted = Delivered \cup withdrawn \cup InputsIn(ctx_queues)
                       \cup InputsIn(pending) \cup InputsIn(state_queues)
    BY AllInputs DEF InputInv, Accounted
  <2>2. ASSUME NEW k \in Kinds, NEW i \in DOMAIN Trail(k), NEW j \in DOMAIN Trail(k), i # j
        PROVE  Trail(k)[i] # Trail(k)[j]
    <3>1. Trail(k) \in InputSeqs
      BY TrailIs DEF InputInv
    <3>2. DOMAIN Trail(k) = 1..Len(Trail(k)) /\ Len(Trail(k)) \in Nat
      BY <3>1, InputSeqIs
    <3>3. \A m, n \in 1..Len(Trail(k)) : m < n => <<Trail(k)[m], Trail(k)[n]>> \in Different
      BY DEF InputInv, Sorted
    <3>4. \A m, n \in 1..Len(Trail(k)) : m < n => Trail(k)[m] # Trail(k)[n]
      BY <3>3 DEF Different
    <3>5. i < j \/ j < i
      BY <2>2, <3>2
    <3> QED BY <3>2, <3>4, <3>5
  <2> QED BY <2>1, <2>2 DEF InputsKeptOnce
<1> QED BY <1>1, <1>2, InputStep, PTL DEF ActorSpec

-----------------------------------------------------------------------------
(* The order of queued input. *)

\* All inputs need the same room, and no entry is edited or removed.
Uniform ==
  /\ Commands \cap {"EditQueueEntry", "RemoveQueueEntry"} = {}
  /\ \A i, j \in 1..MaxInputs : Size[i] = Size[j]

\* Pending entries a flush left behind had no room in the queue.
FullInv ==
  ContextHeld => \A k \in Kinds : pending[k] # << >> =>
                    \E input \in 1..MaxInputs : ~CheckQueueCapacity(ctx_queues[k], input)

\* A queue without room for one input has none for any.
LEMMA FullForAll ==
  ASSUME Uniform, NEW q, NEW input \in 1..MaxInputs, ~CheckQueueCapacity(q, input)
  PROVE  \A other \in 1..MaxInputs : ~CheckQueueCapacity(q, other)
<1> TAKE other \in 1..MaxInputs
<1>1. Size[input] = Size[other]
  BY DEF Uniform
<1> QED BY <1>1 DEF CheckQueueCapacity

\* So nothing overtakes what is pending.
LEMMA FullStep ==
  ASSUME Uniform, TypeInv, TypeInv', EmptyInv, FullInv, [ActorNext]_vars
  PROVE  FullInv'
<1>0. /\ ctx_queues \in Queues /\ pending \in Queues /\ state_queues \in Queues
  BY DEF TypeInv, ActorTypeOK, TurnTypeOK
<1>1. CASE Rests
  <2>1. (ContextHeld' => ContextHeld) /\ pending' = pending /\ ctx_queues' = ctx_queues
    BY <1>1 DEF Rests
  <2> QED BY <2>1 DEF FullInv
<1>2. CASE Walks
  <2>1. QueuesTyped /\ NodeStep
    BY <1>2 DEF TypeInv, ActorTypeOK, TurnTypeOK, QueuesTyped, Walks
  <2>2. Ended \/ GoesOn
    BY <2>1, NodeOutcome
  <2>3. CASE Ended
    BY <2>3 DEF Ended, Completed, FullInv
  <2>4. CASE GoesOn
    BY <2>4 DEF GoesOn, FullInv, ContextHeld
  <2> QED BY <2>2, <2>3, <2>4
<1>3. CASE Commits
  <2>1. ~ContextHeld'
    BY <1>3 DEF Commits, CommitTurn, ContextHeld
  <2> QED BY <2>1 DEF FullInv
<1>4. CASE Begins
  BY <1>4 DEF Begins, EmptyInv, FullInv
<1>5. CASE Submit
  <2>1. turn' = turn
    BY <1>5, SubmitIs
  <2>2. CASE ~ContextHeld
    BY <2>1, <2>2 DEF FullInv, ContextHeld
  <2>3. CASE ContextHeld
    <3>1. PICK kind \in SubmitKinds, e \in Entries :
            /\ kind \in Kinds /\ e.input = accepted + 1
            /\ SubmitsTo(ctx_queues, ctx_queues', kind, e)
            /\ pending' = pending
      BY <1>5, <2>3, SubmitIs DEF ContextHeld
    <3>2. e.input \in 1..MaxInputs
      BY DEF Entries
    <3>3. /\ CheckQueueCapacity(ctx_queues[kind], e.input)
          /\ \A k \in Kinds : k # kind => ctx_queues'[k] = ctx_queues[k]
      BY <1>0, <3>1 DEF SubmitsTo, Queues
    <3>4. pending[kind] = << >>
      BY <2>3, <3>1, <3>2, <3>3, FullForAll DEF FullInv
    <3> QED BY <2>3, <3>1, <3>3, <3>4 DEF FullInv
  <2> QED BY <2>2, <2>3
<1>6. CASE ClearQueues
  <2>1. \A k \in Kinds : pending'[k] = << >>
    BY <1>6, EmptyQueuesTyped DEF ClearQueues
  <2> QED BY <2>1 DEF FullInv
<1>7. CASE DrainQueue
  <2>1. PICK kind \in Kinds :
          /\ pending' = [pending EXCEPT ![kind] = << >>]
          /\ ctx_queues' = IF ContextHeld THEN [ctx_queues EXCEPT ![kind] = << >>] ELSE ctx_queues
          /\ turn' = turn
    BY <1>7 DEF DrainQueue, Kinds
  <2>2. /\ pending'[kind] = << >>
        /\ \A k \in Kinds : k # kind => pending'[k] = pending[k] /\ ctx_queues'[k] = ctx_queues[k]
    BY <1>0, <2>1 DEF Queues
  <2>3. ContextHeld' <=> ContextHeld
    BY <2>1 DEF ContextHeld
  <2> QED BY <2>2, <2>3 DEF FullInv
<1>8. ~EditQueueEntry /\ ~RemoveQueueEntry
  BY DEF Uniform, EditQueueEntry, RemoveQueueEntry
<1> QED BY <1>1, <1>2, <1>3, <1>4, <1>5, <1>6, <1>7, <1>8, StepKinds

\* The order of acceptance on every trail, and why it stays.
OrderInv ==
  /\ TypeInv /\ EmptyInv /\ Accounted /\ FullInv
  /\ \A k \in Kinds : Sorted(Trail(k), Ascending)

\* Every step keeps it.
LEMMA OrderStep ==
  ASSUME Uniform
  PROVE  OrderInv /\ [ActorNext]_vars => OrderInv'
<1> SUFFICES ASSUME OrderInv, [ActorNext]_vars PROVE OrderInv'
  OBVIOUS
<1>1. TypeInv'
  BY TypeStep DEF OrderInv
<1>2. EmptyInv' /\ FullInv'
  BY <1>1, EmptyStep, FullStep DEF OrderInv
<1>3. Thins \/ Grows
  BY <1>1, StepMoves DEF OrderInv
<1>4. \A k \in Kinds : \A input \in 1..MaxInputs :
         ContextHeld /\ pending[k] # << >> => ~CheckQueueCapacity(ctx_queues[k], input)
  BY FullForAll DEF OrderInv, FullInv
<1>5. Accounted' /\ \A k \in Kinds : Sorted(Trail(k)', Ascending)
  BY <1>3, <1>4, ThinsKeeps, GrowsKeeps DEF OrderInv
<1>6. (\A k \in Kinds : Sorted(Trail(k), Ascending))'
  BY <1>5 DEF Sorted
<1> QED BY <1>1, <1>2, <1>5, <1>6 DEF OrderInv

(***************************************************************************)
(* Inputs of one kind are delivered in the order of their acceptance, as   *)
(* long as they need the same room and no command edits or removes         *)
(* entries. Otherwise a later input may find room where an earlier one,    *)
(* which a flush left pending, does not.                                   *)
(***************************************************************************)
THEOREM QueuesKeepOrder ==
  ASSUME Uniform
  PROVE  ActorSpec => []FirstInFirstOut
<1>1. ActorInit => OrderInv
  BY InitInputs DEF OrderInv, FullInv, ActorInit, TurnInit, ContextHeld
<1>2. OrderInv => FirstInFirstOut
  <2> SUFFICES ASSUME OrderInv, NEW k \in Kinds, NEW i \in DOMAIN Trail(k),
                      NEW j \in DOMAIN Trail(k), i < j
               PROVE  Trail(k)[i] < Trail(k)[j]
    BY DEF FirstInFirstOut
  <2>1. Trail(k) \in InputSeqs
    BY TrailIs DEF OrderInv
  <2>2. DOMAIN Trail(k) = 1..Len(Trail(k))
    BY <2>1, InputSeqIs
  <2>3. <<Trail(k)[i], Trail(k)[j]>> \in Ascending
    BY <2>2 DEF OrderInv, Sorted
  <2> QED BY <2>3 DEF Ascending
<1>3. OrderInv /\ [ActorNext]_vars => OrderInv'
  BY OrderStep
<1> QED BY <1>1, <1>2, <1>3, PTL DEF ActorSpec
=============================================================================
