------------------------------ MODULE EventStream ------------------------------
(***************************************************************************)
(* Product events: services/event/publish.rs numbers and retains an event  *)
(* under the runtime state lock and broadcasts it after the unlock;        *)
(* runtime/client/connection (reconnect, CodingAgentReconnectReceiver)     *)
(* cuts the stream into a replay and a live part; runtime/client/          *)
(* projection/state.rs folds it; application/snapshot/client_registry.rs   *)
(* decides whose connection counts.  A front end is one that drives the    *)
(* protocol as crates/cli/src/interactive/loop/client.rs does; all front   *)
(* ends use the same client id, so each connect takes over.                *)
(*                                                                         *)
(* Of an event only its sequence number is kept.                           *)
(***************************************************************************)
EXTENDS Naturals, Sequences, FiniteSets, SequencesExt

CONSTANTS
  Publisher,         \* threads that publish product events
  Closer,            \* the one of them that shuts the runtime down
  FrontEnd,          \* front ends that connect under the client id
  RetainedCapacity,  \* EVENT_RETAINED_CAPACITY
  ChannelCapacity,   \* EVENT_CHANNEL_CAPACITY
  MaxEvents,         \* bound: events published
  MaxConnects        \* bound: connects and takeovers

StreamConfig ==
  /\ Closer \in Publisher
  /\ {RetainedCapacity, ChannelCapacity} \subseteq Nat \ {0}
  /\ {MaxEvents, MaxConnects} \subseteq Nat

ASSUME StreamAssumption == StreamConfig

VARIABLES
  next_event_sequence,      \* of the next event
  retained_product_events,  \* the ring of retained sequences
  publishing,               \* sequence a publisher has retained and not yet sent
  channel,                  \* everything broadcast, in the order of the sends
  runtime_lifecycle,        \* RuntimeLifecycle
  boundary,                 \* shutdown_drain_boundary, 0 for none
  client,                   \* the client record: generation, connection, eligible
  unsent,                   \* lifecycle changes whose signal is not yet sent
  front                     \* the front ends

server == <<next_event_sequence, retained_product_events, publishing, channel>>
streamVars == <<server, runtime_lifecycle, boundary, client, unsent, front>>

Newest == next_event_sequence - 1
Receiving(f) == front[f].status \in {"live", "resync"}
Away == [status |-> "away", generation |-> 0, cursor |-> 0, at |-> 0, unseen |-> FALSE]

StreamInit ==
  /\ next_event_sequence = 1 /\ retained_product_events = <<>>
  /\ publishing = [p \in Publisher |-> 0]
  /\ channel = <<>>
  /\ runtime_lifecycle = "Running" /\ boundary = 0
  /\ client = [generation |-> 0, connection |-> "Detached", eligible |-> 0]
  /\ unsent = 0
  /\ front = [f \in FrontEnd |-> Away]

(***************************************************************************)
(* Publishing.                                                             *)
(***************************************************************************)
\* Mutant: the ring grows past its capacity.
Retain_Keeps(ring, s) == Append(ring, s)

Retain(ring, s) ==
  Append(IF Len(ring) = RetainedCapacity THEN Tail(ring) ELSE ring, s)

\* The critical section of EventService::publish.
Number(p) ==
  /\ publishing[p] = 0
  /\ publishing' = [publishing EXCEPT ![p] = next_event_sequence]
  /\ next_event_sequence' = next_event_sequence + 1
  /\ retained_product_events' = Retain(retained_product_events, next_event_sequence)
  /\ UNCHANGED <<channel, runtime_lifecycle, client, unsent, front>>

Publish(p) ==
  /\ Newest < MaxEvents /\ Number(p)
  /\ UNCHANGED boundary

\* product_sender.send, after the unlock.
Send(p) ==
  /\ publishing[p] # 0
  /\ channel' = Append(channel, publishing[p])
  /\ publishing' = [publishing EXCEPT ![p] = 0]
  /\ UNCHANGED <<next_event_sequence, retained_product_events, runtime_lifecycle, boundary,
                 client, unsent, front>>

(***************************************************************************)
(* Lifecycle of the runtime.  A change is signalled to the receivers once  *)
(* the state lock is dropped.                                              *)
(***************************************************************************)
ShutdownRequested ==
  /\ runtime_lifecycle = "Running"
  /\ runtime_lifecycle' = "ShuttingDown"
  /\ client' = IF client.connection = "Attached"
                 THEN [client EXCEPT !.connection = "ShuttingDown", !.eligible = client.generation]
                 ELSE client
  /\ unsent' = unsent + 1
  /\ UNCHANGED <<server, boundary, front>>

\* emit_runtime_shutdown: its sequence becomes the drain boundary.
PublishShutdown ==
  /\ runtime_lifecycle = "ShuttingDown" /\ boundary = 0 /\ Number(Closer)
  /\ boundary' = next_event_sequence

ShutdownFinished ==
  /\ runtime_lifecycle = "ShuttingDown" /\ boundary # 0 /\ publishing[Closer] = 0
  /\ runtime_lifecycle' = "ShutDown"
  /\ client' = IF client.connection = "ShuttingDown"
                 THEN [client EXCEPT !.connection = "Detached"] ELSE client
  /\ unsent' = unsent + 1
  /\ UNCHANGED <<server, boundary, front>>

Signal ==
  /\ unsent > 0
  /\ unsent' = unsent - 1
  /\ front' = [f \in FrontEnd |-> [front[f] EXCEPT !.unseen = Receiving(f)]]
  /\ UNCHANGED <<server, runtime_lifecycle, boundary, client>>

(***************************************************************************)
(* Who may still talk to the runtime.                                      *)
(***************************************************************************)
Current(f) == client.generation = front[f].generation

\* record(): requests of a connection.
RecordOK(f) == runtime_lifecycle = "Running" /\ Current(f) /\ client.connection = "Attached"

\* validate_receiver: a receiver without an event in hand.
ReceiverOK(f) ==
  /\ runtime_lifecycle # "ShutDown" /\ Current(f)
  /\ client.connection \in {"Attached", "ShuttingDown"}

\* validate_receiver's refusal is RuntimeShutDown rather than Detached.
Draining(f) ==
  /\ runtime_lifecycle = "ShutDown"
  /\ ~Current(f) \/ client.eligible = front[f].generation

\* validate_receiver_event: with an event, or a snapshot's cursor, in hand.
ReceiverEventOK(f, s) ==
  \/ ReceiverOK(f)
  \/ /\ runtime_lifecycle = "ShutDown" /\ s <= boundary
     /\ Current(f) /\ client.eligible = front[f].generation

(***************************************************************************)
(* A front end: connect, snapshot, resume, receive.                        *)
(***************************************************************************)
Leave(f) == front' = [front EXCEPT ![f] = [Away EXCEPT !.status = "ended"]]

\* Mutant: a takeover tells nobody.
Connect_Quiet(f) ==
  /\ front[f].status \in {"away", "ended"}
  /\ runtime_lifecycle = "Running" /\ client.generation < MaxConnects
  /\ client' = [client EXCEPT !.generation = @ + 1, !.connection = "Attached"]
  /\ front' = [front EXCEPT ![f] = [Away EXCEPT !.status = "connected",
                                                !.generation = client.generation + 1]]
  /\ UNCHANGED <<server, runtime_lifecycle, boundary, unsent>>

\* connect_or_takeover.
Connect(f) ==
  /\ front[f].status \in {"away", "ended"}
  /\ runtime_lifecycle = "Running" /\ client.generation < MaxConnects
  /\ client' = [client EXCEPT !.generation = @ + 1, !.connection = "Attached"]
  /\ front' = [front EXCEPT ![f] = [Away EXCEPT !.status = "connected",
                                                !.generation = client.generation + 1]]
  /\ unsent' = IF client.generation = 0 THEN unsent ELSE unsent + 1
  /\ UNCHANGED <<server, runtime_lifecycle, boundary>>

\* client_state of the new connection: everything folded up to now.
Hydrated(f) == [front[f] EXCEPT !.status = "resuming", !.cursor = Newest]
TakeSnapshot(f) ==
  /\ front[f].status = "connected"
  /\ IF RecordOK(f) THEN front' = [front EXCEPT ![f] = Hydrated(f)] ELSE Leave(f)
  /\ UNCHANGED <<server, runtime_lifecycle, boundary, client, unsent>>

\* recovery_boundary_from_state; cursor 0 accepts any replay.
Gap(cursor) ==
  /\ retained_product_events # <<>>
  /\ cursor < Head(retained_product_events) /\ cursor # 0

\* CodingAgentClientProjection::apply.
Applied(view, s) ==
  IF view.status # "live" \/ s <= view.cursor THEN view
  ELSE IF s = view.cursor + 1
    THEN [view EXCEPT !.cursor = s]
    ELSE [view EXCEPT !.status = "resync"]

\* Mutant: the receiver is subscribed without the replay.
Resume_NoReplay(f) ==
  /\ front[f].status = "resuming"
  /\ IF ~RecordOK(f) THEN Leave(f)
     ELSE IF Gap(front[f].cursor) THEN front' = [front EXCEPT ![f] = Hydrated(f)]
     ELSE front' = [front EXCEPT ![f] = [@ EXCEPT !.status = "live", !.at = Len(channel),
                                                  !.unseen = FALSE]]
  /\ UNCHANGED <<server, runtime_lifecycle, boundary, client, unsent>>

\* The replay: the retained events after the cursor, folded oldest first.
Replayed(view) ==
  LET ring == retained_product_events
      after[i \in 0 .. Len(ring)] ==
        IF i = 0 THEN view
        ELSE IF ring[i] > view.cursor THEN Applied(after[i - 1], ring[i]) ELSE after[i - 1]
  IN  after[Len(ring)]

\* acknowledge and reconnect_from_cursor: a gap brings a fresh snapshot and
\* another round; otherwise the replay is folded and the receiver kept.
Resume(f) ==
  /\ front[f].status = "resuming"
  /\ IF ~RecordOK(f) THEN Leave(f)
     ELSE IF Gap(front[f].cursor) THEN front' = [front EXCEPT ![f] = Hydrated(f)]
     ELSE front' = [front EXCEPT ![f] =
            Replayed([@ EXCEPT !.status = "live", !.at = Len(channel), !.unseen = FALSE])]
  /\ UNCHANGED <<server, runtime_lifecycle, boundary, client, unsent>>

Behind(f) == Len(channel) - front[f].at
MayReceive(f) == ReceiverOK(f) \/ Draining(f)

\* The next event of the channel is delivered, folded and acknowledged; an
\* acknowledgement the registry refuses ends the front end.
Deliver(f) ==
  /\ Receiving(f) /\ MayReceive(f) /\ Behind(f) \in 1 .. ChannelCapacity
  /\ LET s == channel[front[f].at + 1]
         view == Applied(front[f], s)
     IN  IF /\ ReceiverEventOK(f, s) \/ s = boundary
            /\ RecordOK(f)
           THEN front' = [front EXCEPT ![f] = [view EXCEPT !.at = @ + 1]]
           ELSE Leave(f)
  /\ UNCHANGED <<server, runtime_lifecycle, boundary, client, unsent>>

\* A receiver that lags more than the channel holds gets a fresh snapshot,
\* from which the front end resumes.
Lag(f) ==
  /\ Receiving(f) /\ MayReceive(f) /\ Behind(f) > ChannelCapacity
  /\ IF ReceiverEventOK(f, Newest) THEN front' = [front EXCEPT ![f] = Hydrated(f)] ELSE Leave(f)
  /\ UNCHANGED <<server, runtime_lifecycle, boundary, client, unsent>>

\* recv() refuses at its start.
Refused(f) ==
  /\ Receiving(f) /\ Behind(f) > 0 /\ ~MayReceive(f)
  /\ Leave(f)
  /\ UNCHANGED <<server, runtime_lifecycle, boundary, client, unsent>>

\* Nothing to receive: the lifecycle signal wakes the receiver.
Wakes(f) ==
  /\ Receiving(f) /\ Behind(f) = 0 /\ front[f].unseen
  /\ IF ReceiverOK(f) THEN front' = [front EXCEPT ![f].unseen = FALSE] ELSE Leave(f)
  /\ UNCHANGED <<server, runtime_lifecycle, boundary, client, unsent>>

\* detach() of the current connection.
Detach(f) ==
  /\ front[f].status \in {"connected", "resuming", "live", "resync"} /\ RecordOK(f)
  /\ client' = [client EXCEPT !.connection = "Detached"]
  /\ unsent' = unsent + 1
  /\ Leave(f)
  /\ UNCHANGED <<server, runtime_lifecycle, boundary>>

FrontEndStep(f) ==
  TakeSnapshot(f) \/ Resume(f) \/ Deliver(f) \/ Lag(f) \/ Refused(f) \/ Wakes(f)

StreamNext ==
  \/ \E p \in Publisher : Publish(p) \/ Send(p)
  \/ ShutdownRequested \/ PublishShutdown \/ ShutdownFinished \/ Signal
  \/ \E f \in FrontEnd : Connect(f) \/ Detach(f) \/ FrontEndStep(f)

\* What a publisher has begun, the shutdown of the one that closes included.
PublisherStep(p) ==
  \/ Send(p)
  \/ p = Closer /\ (PublishShutdown \/ ShutdownFinished)

\* Publishers, the signalling thread and a front end's receive loop go on;
\* connecting, detaching and publishing owe nothing.
StreamFairness ==
  /\ \A p \in Publisher : WF_streamVars(PublisherStep(p))
  /\ WF_streamVars(Signal)
  /\ \A f \in FrontEnd : WF_streamVars(FrontEndStep(f))

StreamSpec == StreamInit /\ [][StreamNext]_streamVars /\ StreamFairness

(***************************************************************************)
(* Properties.                                                             *)
(***************************************************************************)
\* Every variable has its type (SnapshotState, the receivers).
StreamTypeOK ==
  /\ Newest \in 0 .. MaxEvents + 1
  /\ Len(retained_product_events) <= RetainedCapacity
  /\ \A p \in Publisher : publishing[p] \in 0 .. Newest
  /\ ToSet(channel) \subseteq 1 .. Newest
  /\ runtime_lifecycle \in {"Running", "ShuttingDown", "ShutDown"}
  /\ client.connection \in {"Attached", "ShuttingDown", "Detached"}
  /\ \A f \in FrontEnd : front[f].status \in
       {"away", "connected", "resuming", "live", "resync", "ended"}

\* The comment on ProductEventRecoveryBoundary: what was published after the
\* cut is observable through the receiver.  Whatever a live front end has
\* not folded is ahead of its receiver or about to be sent.
NothingSkipped ==
  \A f \in FrontEnd : front[f].status = "live" /\ Behind(f) <= ChannelCapacity =>
    (front[f].cursor + 1) .. Newest \subseteq
      ToSet(SubSeq(channel, front[f].at + 1, Len(channel))) \cup {publishing[p] : p \in Publisher}

\* A receiver whose connection was taken over or detached, or whose runtime
\* has shut down, ends: by the next event it is refused or, when no event
\* comes any more, woken by the signal that follows the state change.
ReceiverEnds ==
  \A f \in FrontEnd :
    (Receiving(f) /\ ~ReceiverOK(f)) ~> front[f].status \in {"away", "ended"}

=============================================================================
