----------------------------- MODULE PromptQueue -----------------------------
(***************************************************************************)
(* The prompt queues of an agent (crates/agent-core/src/agent/queue.rs):   *)
(* bounded FIFO queues of entries [id, version, input].                    *)
(*                                                                         *)
(* An entry's text is abstracted to the number of the accepted input that  *)
(* brought it, its length to Size[input].                                  *)
(***************************************************************************)
EXTENDS Integers, Sequences

CONSTANTS
    QueueItems,         \* MAX_AGENT_QUEUE_ITEMS
    QueueBytes,         \* MAX_AGENT_QUEUE_BYTES
    MaxInputs,          \* bound on the inputs accepted
    Size                \* the retained bytes of each input

QueueConfig ==
    /\ QueueItems \in Nat \ {0}
    /\ QueueBytes \in Nat
    /\ MaxInputs \in Nat
    /\ Size \in [1..MaxInputs -> Nat]

ASSUME QueueConfigValid == QueueConfig

\* AgentInputQueue
Kinds == {"steering", "follow_up", "interjection"}

\* The order in which edit_entry and remove_entry look through the queues.
KindOrder == <<"steering", "follow_up", "interjection">>

Ids == [prefix : Kinds \cup {"none"}, pending : BOOLEAN, index : Nat]
Entries == [id : Ids, version : Nat, input : 1..MaxInputs]

EmptyQueues == [k \in Kinds |-> << >>]

\* The inputs that wait in a queue.
Inputs(queue) == {queue[i].input : i \in DOMAIN queue}

RetainedBytes(queue) ==
    LET total[i \in 0..Len(queue)] ==
            IF i = 0 THEN 0 ELSE total[i - 1] + Size[queue[i].input]
    IN  total[Len(queue)]

\* check_queue_capacity answers Ok
CheckQueueCapacity(queue, input) ==
    /\ Len(queue) < QueueItems
    /\ RetainedBytes(queue) + Size[input] <= QueueBytes

\* drain_queue: what it returns and what it leaves
Drained(queue, mode) ==
    IF mode = "All" \/ queue = << >> THEN queue ELSE <<Head(queue)>>
Undrained(queue, mode) ==
    IF mode = "All" \/ queue = << >> THEN << >> ELSE Tail(queue)

\* The least element of a set of numbers.
Least(S) == CHOOSE i \in S : \A j \in S : i <= j

\* The first queue of the list that holds the id, 0 if none does, and the first
\* place it has there.
HolderOf(queues, id) ==
    LET holders == {q \in DOMAIN queues :
                      \E i \in DOMAIN queues[q] : queues[q][i].id = id}
    IN  IF holders = {} THEN 0 ELSE Least(holders)
PlaceIn(queue, id) == Least({i \in DOMAIN queue : queue[i].id = id})

\* The holder has the entry at the version the caller expects.
Current(queues, id, version) ==
    LET q == HolderOf(queues, id) IN
    q # 0 /\ queues[q][PlaceIn(queues[q], id)].version = version

\* edit_entry once the version matches: a new text, the next version.
EditEntry(queues, id) ==
    LET q == HolderOf(queues, id)
        i == PlaceIn(queues[q], id)
    IN  [queues EXCEPT ![q][i].version = @ + 1]

Without(queue, i) ==
    SubSeq(queue, 1, i - 1) \o SubSeq(queue, i + 1, Len(queue))

\* remove_entry once the version matches
RemoveEntry(queues, id) ==
    LET q == HolderOf(queues, id)
    IN  [queues EXCEPT ![q] = Without(@, PlaceIn(@, id))]
=============================================================================
