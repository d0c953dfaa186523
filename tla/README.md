# TLA+ verification of Evo

Evo is a coding agent written in Rust: a workspace of 17 crates in which an
agent loop talks to model providers, runs tools in a workspace and records what
happens in durable sessions that several front ends observe.  This directory
holds TLA+ models of the parts of that code in which concurrency, failure and
ordering matter, the TLC instances that check them, and TLAPS proofs of the
properties that matter most.  `PROJECT.json` maps every definition to the lines
it models and lists runs, mutants, hazards, findings and theorems.

Contents: [inventory](#1-inventory) · [modules](#2-modules-and-code) ·
[runs](#3-runs-bounds-and-what-they-show) · [fairness](#4-fairness) ·
[proofs](#5-proofs) · [findings](#6-where-code-and-its-documentation-disagree) ·
[limits](#7-abstractions-and-what-is-not-modelled) · [plan](#8-plan)

## 1. Inventory

The layers are those of `docs/architecture.md`: foundation crates, runtime
crates, the product facade `coding-agent`, and the adapters.

| Component (crate) | State it keeps | Operations | Interacts with | What is hard |
|---|---|---|---|---|
| Provider transport (`ai/src/transport`) | one circuit breaker per (provider, api); per call: attempt, auth_refreshed | send loop, retry, refresh, before_request, record_* | agent turn (stream), provider server, clock | calls share a breaker; late outcomes; cancellation between admission and record |
| Agent actor (`agent-core/src/agent/actor.rs`) | AgentState (messages, three queues, override), event sender, pending_commit | commands of AgentHandle, turn events | handles (mailbox), consumer (bounded channel), turn future | commands during a running turn; dropped consumers; shutdown |
| Turn loop (`agent-core/src/agent/turn`) | working copy of the context, pending queues, cancel token, node | the nodes of a turn, poll, flush, commit | provider, hooks, tools, compaction | ownership of the context moves between runner and future; abort at any node |
| Prompt queues (`queue.rs`) | entries with id, version, bytes | submit, edit, remove, drain | actor and turn | two limits, versions, drain modes |
| Compaction (`agent-core/src/compaction`) | the conversation | cut, summarize, replace | turn loop | call/result pairs across the cut |
| Event journal (`event-journal`) | records and outbox files, lease, next_sequence | append_checkpoint, repair, visit | session store | crash and power failure between any two writes |
| Session log (`coding-agent/src/session`) | log, manifest, one writer thread, operation in flight | begin, checkpoint, commit/fail/abort, terminal, naming, startup recovery, resolve, retry | coordinator, journal, product events | operations in doubt, partial commits, recovery of recovery |
| Operations (`coding-agent/src/application/operation`) | table of active roots and children, capability generation, active_operation, lifecycle | admit, start, release, cancel, revoke, shut down | session owner, tasks, clients | generation and table behind different locks; projection after the unlock; drops in any order |
| Authorization (`coding-agent/src/services/authorization.rs`) | pending map, grants, capability generation | ask, decide, time out, cancel, revoke, publish the pending list | tool calls, clients, session log | the entry is out of the map, and the guard given up, while a fact is written |
| Product events (`coding-agent/src/services/event`, `runtime/client`) | retained window, broadcast channel, client registry | publish, connect, take over, reconnect, acknowledge, shut down | publishers, front ends | numbering and sending are two steps; replay against live; slow receivers |
| Worktrees (`workspace-runtime/src/worktree`) | records, merge transactions, writer lock | create, promote, merge, roll back, discard, recover, collect | delegation, the user's edits, other processes | crash between any two file operations |
| Background tasks (`workspace-runtime/src/process`) | registry, driver, output spool, cancel tokens | spawn, output, wait, cancel, shut down | tools, session owner, child processes | registration after the start; wake-ups; a bounded spool read by cursor |
| File mutation (`workspace-runtime/src/fs`, file tools of `coding-agent`) | queue per path, bound targets, contents | edit, write, hashline edit, apply patch | change tracker, other processes | registry of queues; writes that outlive their call; lock order |
| MCP servers (`extension-host/src/mcp`) | lifecycle, session in the handle, tool list | connect, discover, serve, ping, reconnect, call, shut down | server process or HTTP endpoint, tool registry | sessions replaced under calls; silence; shutdown at any await |
| Language servers (`code-intelligence/src/lsp`) | lifecycle, open documents, diagnostics | start, replay, open/change/close, ping, restart, stop | server process, tools | restart during edits; late diagnostics |
| Tool runtime and batches (`tool-runtime`, `turn/tool_execution.rs`) | registry; running calls, deadlines | execute, cancel, tear down | turn loop | parallel calls, cancellation with a grace period |
| Change tracker and review (`change-tracker`, `coding-agent/src/runtime/file_review.rs`) | baseline, current text and hunks of every file; receipts and events that wait for each other | record a receipt, observe, reconcile, accept, reject | file tools, file watcher, other programs, front ends | three sources of one change in any order; edits that move under a review |
| Rewind (`workspace-runtime/src/rewind.rs`, `coding-agent/src/services/review.rs`, session service) | checkpoints, branches of the journal, active branch of the manifest | create a checkpoint, rewind, undo a failed commit, look up at opening | session, change tracker, other programs | files, tracker, journal and manifest change one after the other |
| Hooks (`extension-host/src/dispatcher`) | registered hooks | dispatch | turn loop | order, timeouts, merged decisions |
| Release updater | staged download | check, stage, switch | CLI, desktop | crash during the switch |
| Front ends (`cli`, `tui`, `desktop`) | views | render, forward input | `coding_agent::api` | mostly presentation |

What makes the modelled components correct:

- *transport*: a call sends a bounded number of requests and ends; an open
  breaker stays open for its period and admits a bounded number of probes;
- *actor and turn*: no accepted input is lost, duplicated or overtaken; every
  stored tool call is answered; a cancelled or abandoned loop ends and is
  committed; an override shapes one request; the actor never panics for lack of
  its sender;
- *compaction*: a cut keeps calls and results together;
- *journal and session*: what was acknowledged survives, the numbering is
  contiguous, an event never precedes its publication obligation, nothing is
  written behind an operation in doubt, and recovery marks what a crash left;
- *operations*: a cancellation reaches everything below it, however the children
  come and go; a released operation gives its slot back; after a revocation
  returns nothing of an older generation runs on uncancelled;
- *authorization*: one acknowledged verdict per request, let through only by a
  durable and current approval; clients end up with the true list; nobody waits for ever;
- *product events*: a client that is live misses nothing; a receiver that no
  longer counts is woken;
- *worktrees*: a merge is all or nothing, nothing on disk loses its record, and
  a restart settles what was left;
- *background tasks*: every byte of output is read once or reported as lost; a
  cancelled task wakes its waiters;
- *file mutation*: one call at a time has a file, what it read is what it
  replaces, and calls that want several files end;
- *change tracker*: a reject undoes nothing that was not shown, and a hunk that
  stays on its lines stays credited to whoever made it;
- *rewind*: workspace, tracker and branch change together or not at all (but for a
  tracker that cannot be stopped), a branch replays the turns it should, and the
  session can be opened again;
- *MCP*: no process is left behind, Ready means the latest session and its tools,
  a dead server is noticed;
- *language servers*: the server has the open documents, through every restart,
  and diagnostics called fresh describe the text.

## 2. Modules and code

| Module | Models | EXTENDS |
|---|---|---|
| `CircuitBreaker` | one breaker, alone under an arbitrary client; also the abstract specification for `ProviderSend` | |
| `ProviderSend` | concurrent `send_json_stream_with_resilience` calls that share it | `CircuitBreaker` |
| `Compaction` | `prepare_compaction` and the usage-anchor split, as operators | |
| `CompactionHistory` | a conversation that grows and is compacted | `Compaction` |
| `PromptQueue` | the queues of `queue.rs`, as operators | |
| `AgentTurn` | `TurnRunner` and the nodes of `run_typed_turn` | `Compaction`, `PromptQueue` |
| `AgentActor` | `run_actor` and its commands, composed with the turn | `AgentTurn` |
| `DurableLog` | abstract: a log of which an acknowledged prefix is never lost | |
| `EventJournal` | two files, lease, append, sync, repair, crash, power failure | |
| `SessionLog` | one durable session on top of the journal | `EventJournal` |
| `OperationControl` | the table of operations, revocation, projection, two-phase shutdown | |
| `Authorization` | waiting tool calls, `decide()`, timeouts, revocation, published pending map | |
| `EventStream` | publication, retained window, receivers, takeover, reconnect | |
| `WorktreeMerge` | worktree records and the merge protocol under crashes | |
| `BackgroundTasks` | task registry, driver, spool, waiters | |
| `McpServer` | the task of an MCP server, its sessions and tool calls | |
| `FileMutations` | the fence of a path and the tools that write under it | |
| `HunkTracker` | the change tracker and accept/reject of a review, beside writing tools and other programs | |
| `LspServer` | the language server actor, its documents and diagnostics | |
| `Rewind` | checkpoints, rewinds, branches and the opening of a rewound session | |
| `MCAgentActor`, `MCOperationControl` | constants of the TLC instances | |
| `MCAgentScenarios` | two agents with different constants, of which a behaviour runs one | `MCAgentActor` |
| `MCServices` | the small services side by side | `ProviderSend`, `CompactionHistory`, `MCOperationControl`, `Authorization`, `EventStream`, `LspServer`, `HunkTracker`, `Rewind` |
| `MCWorkspace` | the workspace beneath the agent, and what must end in the services | `WorktreeMerge`, `BackgroundTasks`, `McpServer`, `FileMutations`, `ProviderSend`, `Authorization`, `EventStream` |
| `CompactionProofs` | what every cut keeps; lemmas about conversations | `Compaction` |
| `ExchangeProofs` | what goes out and comes back: the breaker and the calls that share it, a conversation cut again and again, the stream of events | `ProviderSend`, `CompactionHistory`, `EventStream`, `CompactionProofs` |
| `ServiceProofs` | the language server and its client; the services side by side | `MCServices`, `ExchangeProofs`, `OperationProofs`, `UndoProofs` |
| `AgentActorProofs` | types, inputs, tool calls, overrides and the sender of the agent | `AgentActor`, `CompactionProofs` |
| `SessionLogProofs` | durability and the story of the records | `SessionLog` |
| `OperationProofs` | operations and authorizations | `OperationControl`, `Authorization` |
| `WorkspaceProofs` | file tools, MCP servers, background tasks and worktrees; all of them side by side | `MCWorkspace`, `ExchangeProofs`, `OperationProofs`, `CompactionProofs` |
| `UndoProofs` | credit of hunks, rejects and rewinds | `HunkTracker`, `Rewind` |

In all of them a step is what the code does between two awaits, or inside one
critical section: what it does after an unlock is a step of its own.

**Transport.** `pc[c]` is the await at which caller *c* waits (`gate` is the
call of `before_request`, `sending` the request, `response` the head with its
hook, `backoff` the sleep).  Each method of the breaker is one critical section
and therefore one action.  Time is the age of the Open state.

**Agent.** `pc` in `AgentActor` is the place of `run_actor`: the head of its
loop, the `select!`, the nested loop that sends one event while it serves
commands, the pause between two turns, the drain at shutdown.  `node` in
`AgentTurn` is the state of the turn's future.  A queue exists up to three
times: in `AgentState` (`state_queues`), in the context that the future owns
(`ctx_queues`) and in the runner (`pending`); the actions move entries between
them exactly where `flush_pending`, `drain_queue` and `commit_turn` do.
Commands act on what the code lets them reach in each phase (`Reached`,
`Searched`).  A conversation is a sequence of abstract messages with the calls
and results they carry.

**Session.** A frame is a record `[kind, op, n, seq]`.  `file[f].lines` are the
complete lines of a file and `tail` an unterminated one, `synced[f]` counts the
lines on stable storage, `job` is the command in the hands of the single writer
thread: the files it has yet to do (`todo`), the frames not written yet, and
the files it has synced (`wrote`).  Every frame written, every sync and every
reply is a step, so that a crash or an error comes between any two.  `phase` is
the opening of the service (repair both tails, scan both logs, startup
recovery, open, closing).  A session may be released while the writer has a
command in hand, which is then executed without anyone taking its answer.
The operation's `stage` says what it has durably done.

**Operations.** `session_write`, `runtime_write`, `non_session_roots` and
`children` are the table of `OperationStateInner`; `phase[o]` says how far the
thread that admits or drops *o* has come, `lock` is the admission whose
critical section runs, `publication` and `clears` are the projections computed
under the mutex and not yet written.  The table and the generation are behind
different locks, so reading the generation and entering the table are two steps.

**Authorization.** `work[t]` is what thread *t* has taken out of the pending map
and how far it is with it (`taken`, `stale`, `persist`, `recheck`, `deliver`,
...); `transition` is the guard of the capability generation, which is given up
at `persist` and taken again at `recheck`.  `audit` are the facts whose append
was acknowledged and `logged` those in the log: an append that fails at its sync
(`storage.rs:255`) may have left its frame there, the entry is restored and may be
decided the other way.  `doubted` are the calls of which an append failed.
`sync[t]` the list a thread has read and not yet published.

**Product events.** `publishing[p]` is an event numbered under the state lock
and not yet sent; `channel` is what was sent; a front end has a cursor (what it
has folded) and a place in the channel.  Only sequence numbers are kept.

**Worktrees.** Directories are partial functions from paths to contents.
`job` is the work of the one process that has the writer lock; its steps are the
file operations of `merge.rs` and `registry.rs`, and a crash or a failure may
come between any two.  A failure may come behind the effect too: the rename that
commits a journal succeeds and the sync after it fails (`PrepareFails`,
`MarkAppliedFails`), a directory stays when the cleaning of a failed creation
fails (`strays`).  `expected` is a ghost, the parent as whole merges and the
user's edits make it; so are `landed` (the worktrees whose changes are in it),
`undone` (an Applied journal that is being rolled back) and `torn` (a Prepared
one that lost some of its backup).

**Background tasks.** `spawning` follows a call of `spawn` (token read, process
started, task registered, driver registered), `driver` the loop that watches
the child, `waits` the two steps of `wait()`: reading the state and listening.
Output is counted in bytes, of which some start a character.

**MCP.** `place[s]` is the await of the server's task; sessions are numbered, so
that `session` (of the running `connect_and_serve`), `slot` (in the handle) and
what a call holds can differ.  Which servers are reached over HTTP (`http`) is
chosen at the start.

**File mutation.** A queue of the registry is named after the call that created
it, `guard` and `locked` separate the two halves of dropping a guard, `blocking`
is the closure that writes.  Paths name inodes; a target is the inode that was
opened when the call was authorized, and a content is the set of mutations it
shows.

**Change tracker.** A file is one text, a value for each of its places, which
lie so far apart (`Between`) that each is a hunk; a value has a number of lines
(`LinesOf`), so that a change moves every hunk below it.  `NewRange` are the lines
of a hunk in the text it was parsed from, and `BestIdentityMatch` compares them as
`diff.rs` does, across two texts.  `text` is the disk and `tracked` the
tracker's `FileState` (baseline, current text, the snapshot it shows, its
hunks).  `causal` is the pending receipts and events in the order they expire, so
that `WindowCloses` is always about the first of them.  A tool reads and writes
under `holder`, the fence of `FileMutations` reduced to its owner, and reports
after it gave the fence up; other programs take no fence.  A request of a front
end keeps the text it was made for (`after`) and whether the snapshot it names
has been replaced since (`stale`, in the code a sequence number).

**Rewind.** A file's text is one of a few, `tracker` what the change tracker takes
it to be.  `rewind` is the operation in hand: capture file by file, preflight,
replacement file by file with its way back, append of `SessionRewound`, manifest,
snapshot of the writer.  A branch is named after the event that made it, and
`Visible` is the replay of one: its own events and those of its parent up to the
cutoff.  Other programs may write between any two steps and a crash may come
between any two; `touched` (a ghost) remembers what others wrote since the
operation began, `told` the turns of each branch.  `StopFails` and
`StopAgainFails` are a tracker that is given up and reports an error when it is
stopped, before the files are replaced and after.

**Language servers.** `pipe` is what the actor has written and the server has
not read, `view` what the server takes for its open documents, `inbox` the
notifications the actor has not handled.  A text is a number and its version a
name the client gives it.

## 3. Runs, bounds and what they show

| Run | Checks | Shows |
|---|---|---|
| `agent_scenarios` | `InputsKeptOnce`, `ToolCallsAnswered`, `OverrideUsedOnce` | an agent without hooks: two inputs of every kind at any moment of two loops, every queue command, abort, shutdown, dropped handle or stream; and an agent with hooks, compaction, batches of two calls, aborts and an override over two loops |
| `agent_cancel` | `ActorTypeOK`, `FirstInFirstOut`, `UnwantedLoopEnds` (`CancelledLoopEnds` and `DroppedStreamCommits`) | order of three follow-ups; liveness with a channel of one place and a provider that never answers |
| `session_journal` | `JournalSound` (`RecordsContiguous` and `ObligationFirst`), `NothingAfterDoubt`, `CrashedOpsMarked`, `AckedKept` | two operations, naming, recovery; a crash, power failure, failed append or failed manifest at any step |
| `services` | `ServicesTypeOK`, `SlotsCoverProbes`, `OpenHoldsFullDuration`, `CompactionKeepsAnswers`, `SubtreeIsHeld` (`CancelReachesSubtree` and `NoLeakedSlot`), `RevokedIsCancelled`, `OneVerdict`, `ApprovedUnderCurrentGeneration`, `ShownSettles`, `NothingSkipped`, `DocumentsAgree` (`ServerSeesDocuments` and `FreshDescribesText`), `RejectReplacesTheShown`, `CreditStays`, `BranchReplays`, `StartupLoads`, `RewindIsWhole` | safety of the eight services |
| `workspace` | `WorkspaceTypeOK`, `NothingHalfDone` (`AtomicMerge`, `MergedHasLanded` and `NothingStranded`), `OutputAccounted`, `NothingLeftRunning`, `ReadyServesLatest`, `FenceExclusive`, `BaseIsCurrent`, `RestartResolves`, `CancelWakesListener`, `SilentServerNoticed`, `MutationsEnd`, `EveryCallEnds`, `EveryWaitEnds`, `ReceiverEnds` | worktrees, background tasks, MCP servers and file tools; and that provider calls, waits for consent and receivers end |
| `probe_leak` | violates `HalfOpenResolves` | a cancelled probe keeps its slot for ever |
| `agent_abort_lost` | violates `AbortCancels` | an abort before the first poll is forgotten |
| `compaction_dangling` | violates `KeptResultsHaveCalls` | a result whose call was summarized is kept |
| `outbox_regress` | violates `OutboxReadable` | a crash between outbox and records makes the outbox unreadable |
| `resolved_in_doubt` | violates `ResolvedIsSettled` | one operation loses its end and is resolved |
| `merge_torn` | violates `RestoresParentBytes` | a crash while a rolled-back transaction is removed loses files of the parent |
| `rewind_reopen` | violates `RefusedForOutsideOnly` | a session that was rewound, edited a file and was closed is refused at its next opening |

`agent_scenarios` has two agents that differ in their constants (`Requests` is an
instance of `AgentActor` with its own) and runs one of them in a behaviour.

`services` and `workspace` check components that do not act on each other.
`MCServices` and `MCWorkspace` put them side by side with a variable `part` that
never changes: a behaviour is one of exactly one component, the others keep
their initial state, so the state space is the sum of theirs and one run does
the work of several.

Why the bounds are enough to see what matters:

- *agent*: two loops (`MaxPrompts`) are needed for state that outlives a loop,
  two turns (`MaxTurns`) for the pause between turns, one place in the channel
  (`ChannelCap`) to make every second event block, queues of one entry
  (`QueueItems`) so that a full queue meets a flush.  Input sizes are 1 and the
  byte limit is out of reach: with it a small input may overtake a large one,
  see section 6.  `MaxAdded` and `MaxVersion` bound added messages and edits.
- *session*: an event carries what decides whether replay sees it, its kind and
  operation: only transactions name the branch (`OnBranch`).  Two operations are
  needed for "behind an operation in doubt".
  `MaxStory` bounds operations and troubles together (three of either), so that
  two operations meet one trouble and one operation meets two, which is a
  crash during the recovery of a crash.  `MaxMessages = 0` because plain
  messages add lines that no property tells apart; `outbox_regress` has one,
  which makes the lost batch longer than the recovery batch.
- *transport*: a window of two outcomes at 50 % opens after one failure in a
  full window; two callers and two probe slots let late outcomes of one spell
  arrive in the next; `MaxRetries = 1` gives first attempt, retry and refresh.
- *compaction*: six messages hold two tool turns with two results each around
  a user message; the token sizes 1 and 3 put the cut at every place.
- *operations*: a session writer, a background root and an exclusive one with two
  children, four starts (`MaxOperations`) among these five, so that a
  projection is under way while the next operation starts; two generations.
- *authorization*: one call, its timeout and one decider already race for the
  entry; one failing append, one installed generation and one `cancel_all` meet
  them at every step.  The proofs cover any number.
- *events*: a window and a channel of one place make every second event a gap or
  a lag; two publishers may send in the other order; three events and two
  connects reach replay, gap, lag and takeover.
- *language server*: one document, three texts, a process that dies as often as
  two restarts allow.  `FirstVersion = 1` and `Reused = FALSE` are what clients
  must do for `DocumentsAgree`, see section 6.
- *rewind*: two files, so that a restoration can stop half way, with one text
  besides "absent"; two turns, three of checkpoints and troubles together
  (`MaxStory`), of which two are troubles: a rewind on a branch made by a
  rewind, and a failure during the undoing of a failure.
- *change tracker*: two places are needed for one hunk to take over the identity
  of another, two tool edits and one request for an edit behind a review; one
  write of another program or one loss of events meets them at every step.  There
  are three values: two of one line, and one of nine, longer than the seven lines
  between two places, so that a hunk can be moved a little, or past the next.
- *worktrees*: two files, one of which exists, so that a change set has an
  addition, a change or a deletion; one crash, one failure and one edit.  The
  `workspace` run has one process that restarts, `merge_torn` two.  Both have one
  worktree; what several do to each other is in the theorem `MergesAreWhole`.
- *tasks*: a character of two bytes, a budget of two and three bytes of output
  put the cut before, in and after a character; a budget is at least as long
  as a character.
- *MCP*: two sessions are a reconnect; one death, one notification.
- *files*: an edit of one file and two patches that name two files in either
  order, one adds and deletes, so that fences are shared and paths change what
  they name; one call may be abandoned, be refused or fail (`Doubtful`).

`services` uses the symmetry of callers, of children and of the tools that edit
(`SYMMETRY` only where no liveness is checked).  `CHECK_DEADLOCK FALSE` is set for the actor
(it stops after shutdown or when the bound on prompts is used up) and for the
two composed instances, whose parts stop when their bounds are used up; the
session is checked for deadlock.

Each property of a passing run has a mutant: an operator next to the one it
replaces, changed as a plausible bug would change it, under which TLC finds the
property violated.

## 4. Fairness

- `ProviderSend!Fairness`: weak fairness of each caller's next step once its
  call is admitted (the tokio task is scheduled, requests end by answer, error
  or deadline) and of the clock.  `Traffic` adds callers that keep coming,
  which `probe_leak` needs: without it the breaker could stay half-open simply
  because nobody calls.
- `AgentActor!ActorFairness`: weak fairness of the actor's own steps, of the
  turn's internal progress and of the consumer (`Receive`); strong fairness of
  taking a turn event (`SelectTurn`), because `tokio::select!` picks at random
  among ready branches and a stream of commands disables and re-enables that
  branch; strong fairness of the three nodes that no `select!` guards against
  cancellation (`NodeCancelled`: a cancelled tool batch, a summary, the hooks at
  a turn's end).  A provider that never answers is *not* excluded:
  `CancelledLoopEnds` holds against it.  `DroppedStreamCommits` has the
  assumption that providers, hooks and tools answer (`Responsive`) as its
  antecedent, because dropping a stream cancels nothing.
- `AuthorizationFairness`: weak fairness of each thread, whose waits are bounded
  by the request's timeout and by the append.  Clients owe no decision.
  `EveryWaitEnds` excepts stories with a failed append (section 6).
- `StreamFairness`: weak fairness of a publisher that has numbered an event, of
  the signal that follows a takeover or shutdown, and of a front end that has
  something to receive.  Nobody owes a further event: a receiver must be woken
  without one.
- `WorktreeFairness`: the holder of the writer lock goes on, a process that
  crashed is restarted, and maintenance runs when it starts.  Nothing makes a
  merge or a discard begin.
- `TasksFairness`: threads and drivers run on; a process owes no exit, a caller
  no cancellation.  `McpFairness`: the tasks are scheduled, requests are bounded
  by timeouts, and a read loop notices the end of its stream; a server owes no
  answer.  `FilesFairness`: a tool call goes on once it is bound; the queues are
  fair mutexes in the code, weak fairness of the calls suffices here.
- `WorkspaceFairness` is these conditions, each for its part.  The `services` run
  and the session's runs are safety only and assume no fairness.

## 5. Proofs

All theorems hold for every value of the constants allowed by the named
assumptions (`ConfigValid`, `SendAssumption`, `ReserveNat`, `HistoryAssumption`,
`QueueConfigValid`, `TurnConfigValid`, `ActorConfigValid`, `SessionConfigValid`,
`OperationAssumption`, `AuthorizationAssumption`, `FilesAssumption`,
`McpAssumption`, `TaskAssumption`, `HunkAssumption`, `RewindAssumption`,
`WorktreeAssumption`, `LspAssumption`, `StreamAssumption`), which are
what the code validates or what the model's bounds need.  Three theorems have a
hypothesis besides (`QueuesKeepOrder`, `CallsAreAnswered`, `BothAgree`), each
explained below the table, and so has the one that carries the last of them over
to the composed specification (`ServicesAgree`).

| Theorem | Says | Argument |
|---|---|---|
| `ExchangeProofs!BreakerSafety` | `[]BreakerInv`: a Closed breaker is under its threshold, a half-open one has between one and all probe slots taken | with `TypeOK` it is inductive: the window is judged in the critical section that changes it |
| `ExchangeProofs!OpenHolds` | `OpenHoldsFullDuration` | only `before_request` leaves Open, and it looks at the age |
| `ExchangeProofs!SendImplementsBreaker` | the composition implements `CircuitBreaker!Spec` | every step of a caller is an operation of the breaker or leaves it alone |
| `ExchangeProofs!RequestBudget` | `[]SendBudget`: at most `max_retries + 1` requests, one more after a refresh | `BudgetInv` ties the requests sent to the place in the loop |
| `ExchangeProofs!ProbesAccounted` | `[]SlotsCoverProbes` | `SlotsInv` adds that slots belong to callers that wait for an answer and that there are none outside HalfOpen |
| `ExchangeProofs!SendTypes` | `[]SendTypeOK` | part of the same invariants |
| `CompactionProofs!CutLosesNothing` | what is to be summarized and what is kept are, one behind the other, the conversation | the cut is in front of the results held back, the orphans moved over stand where they stood, and the usage anchor splits only the rest |
| `CompactionProofs!CutKeepsSuffix` | whichever way a conversation is cut, its end is kept, whole and in order | the places where the cut looks exist (a set of numbers has a least element), and adjacent parts join to the end of the conversation |
| `ExchangeProofs!CutsKeepAnswers` | `[]CompactionKeepsAnswers` | results stand behind their call, so the end of an answered conversation is one |
| `ExchangeProofs!HistoryTypes` | `[]HistoryTypeOK`: a conversation stays within its bound and the counted prefix in it | a cut leaves its end, never longer than it was |
| `ExchangeProofs!StreamTypes` | `[]StreamTypeOK` | `StreamInv`, see below |
| `ExchangeProofs!CutsSkipNothing` | `[]NothingSkipped` | `StreamInv`: the retained window holds the newest numbers without a hole (`Contiguous`), and whatever a live front end has not folded is ahead of its receiver or with a publisher, be it within the channel's capacity or not (`Followed`) |
| `AgentActorProofs!ActorTypes` | `[]ActorTypeOK` | `TypeInv`: also, a turn over the limit is done, and a pause follows only a turn that continues |
| `AgentActorProofs!InputsAreKept` | `[]InputsKeptOnce` | `InputInv`: the trail of a kind is what was delivered, then the working copy's queue, the pending one and the state's; every step puts the next input into one trail or keeps all trails but for what it withdraws |
| `AgentActorProofs!QueuesKeepOrder` | `[]FirstInFirstOut`, for `Uniform` inputs | `OrderInv`: trails are sorted, and what a flush left pending had no room (`FullInv`), so nothing is let in before it |
| `AgentActorProofs!CallsAreAnswered` | `[]ToolCallsAnswered`, for replies that keep the limits | `AnswerInv`: the one message with open calls is the last, and the node that answers it is next |
| `AgentActorProofs!SenderIsHeld` | `[]SenderHeld`: `expect("event sender is set")` cannot fail | `SenderInv`: the sender is held at every place from which the `select!` is reached, and no commit is pending there |
| `AgentActorProofs!OverrideIsUsedOnce` | `[]OverrideUsedOnce` | `OverrideInv`: an override already used is not in the working copy, and if the state still has it the runner knows that it was consumed |
| `SessionLogProofs!Durability` | `[]DurableInv` | acked ≤ synced ≤ lines for each file, and what the job counts as written is synced in full |
| `SessionLogProofs!AcknowledgedKept` | `AckedKept` (both files implement `DurableLog`) | every step extends a file, moves its acknowledgement forward within the lines, or cuts it no shorter than the acknowledgement |
| `SessionLogProofs!SessionInvariant` | `[]SessionInv` | see below |
| `SessionLogProofs!JournalIsSound` | `[]JournalSound` | from `RecordsGood`: the lines are numbered and each finds its obligation in the outbox |
| `SessionLogProofs!NothingFollowsDoubt` | `[]NothingAfterDoubt` | from `RecordsGood`: below a line of an operation every earlier one has ended or is marked |
| `SessionLogProofs!CrashesAreMarked` | `[]CrashedOpsMarked` | from `MarksFit`: the startup command carries the marks that are missing, and the service opens only with its reply |
| `OperationProofs!OperationInvariant` | `[]OperationInv` | types, `Tabled` (where a task is tells whether the table has it), `RevokedSwept` (what is older and not cancelled lies before a sweep still to come), `Below` (a child's parent is in the table, of its generation, and cuts it off) |
| `OperationProofs!RevocationReaches` | `[]RevokedIsCancelled` | `RevokedSwept` when no sweep is left |
| `OperationProofs!SubtreesAreHeld` | `[]SubtreeIsHeld` | `Below`, closed over the ancestors of a child: the set of all of them is the least closed one |
| `OperationProofs!ApprovalIsCurrent` | `ApprovedUnderCurrentGeneration` | `GuardInv`: who takes an entry, compares generations or sends the answer holds the transition guard, and whoever sends has compared equal under it |
| `OperationProofs!VerdictIsOne` | `[]OneVerdict` | `VerdictInv`: an entry is in the map or in one thread's hands, never both; it has no acknowledged fact until its holder persists one, and then exactly the fact of the holder's decision; and the log has no fact but the acknowledged ones, unless an append of the call failed |
| `OperationProofs!ShownConverges` | `[]ShownSettles` | `SyncInv`: a thread that publishes has the map as it is, or will find that it has not; while the clients see anything else some thread is still to publish |
| `OperationProofs!AuthorizationTypes` | `[]AuthorizationTypeOK` | `AuthorizationInv`: the invariants of the three theorems above, and `StoreInv`: what is granted, bound and shown |
| `WorkspaceProofs!FenceIsExclusive` | `[]FenceExclusive` | `Registered`: the registry has the queue of every guard and of every waiter, so a second queue for a file is never made while the first one is in use |
| `WorkspaceProofs!BaseStaysCurrent` | `[]BaseIsCurrent` | from the fence: a file somebody read or is writing is locked by that call (`Held`), and a call names a file once (`OnePath`) |
| `WorkspaceProofs!ServersStop` | `[]NothingLeftRunning` | `McpInv`: the place of a server's task bounds its lifecycle (`LifeFits`) and says which sessions may run (`SessionsFit`) |
| `WorkspaceProofs!ReadyIsLatest` | `[]ReadyServesLatest` | the same: Ready is reached only from the discovery of the session that was opened last |
| `WorkspaceProofs!OutputIsAccounted` | `[]OutputAccounted` | `OutputInv`: what a reader has had and been told is lost makes up everything before its cursor |
| `WorkspaceProofs!MergesAreWhole` | `[]NothingHalfDone` | `Whole`: there is one transaction to be rolled back at most, its backup is the parent before the merge, and while files are replaced the parent differs from it in what is done of the change set; `Journals`: what is recorded as Merged, or has an Applied journal, has landed, unless it is being undone; `Job`: what each step of the lock holder can rely on |
| `WorkspaceProofs!WorktreesTyped` | `[]WorktreeTypeOK`, torn removals included | `WorktreeTypes`: also, between the admission of a worktree and its registration there is room for it (`RoomLeft`), since the writer lock is held |
| `WorkspaceProofs!TasksTyped` | `[]TasksTypeOK` | the form of what drivers, readers and waiters hold, and `OutputInv` for the cursors |
| `WorkspaceProofs!McpTyped` | `[]McpTypeOK` | `McpInv`: every session referred to was opened |
| `WorkspaceProofs!WorkspaceTypes` | `[]WorkspaceTypeOK` under `WorkspaceSpec` | the parts' types; `WorkspaceRefined`, see below |
| `WorkspaceProofs!WorkspaceIsSafe` | `OutputAccounted`, `NothingLeftRunning`, `ReadyServesLatest`, `FenceExclusive` and `BaseIsCurrent` under `WorkspaceSpec` | the same |
| `WorkspaceProofs!MergesAreWholeTogether` | `[]NothingHalfDone` under `WorkspaceSpec` | the same |
| `UndoProofs!RejectIsFenced` | `[]RejectReplacesTheShown` | `Fenced`: a tool call between reading and writing, and a reject between its first look and its write, is the holder of the fence; so only a program without a fence can have written in between, and it is the last author |
| `UndoProofs!HunkTypes` | `[]HunkTypeOK` | `TrackerInv`, see below |
| `UndoProofs!CreditIsKept` | `CreditStays` | `TrackerInv`: no two hunks are at one place (`Tracking`); while the new hunks choose in file order (`WellTaken`), an old one is left to the hunk at its own place: a new hunk above it with another change takes it only over its lines, which it does not reach while the hunk stays on them, and below them it is the nearest of its like |
| `UndoProofs!RewindTypes` | `[]RewindTypeOK` | `InHand`: what the operation has captured by each of its steps |
| `UndoProofs!SessionFindsCheckpoint` | `[]StartupLoads` | `StartupInv`: every rewind in the journal has its checkpoint, and the manifest names a branch that is in the journal |
| `UndoProofs!RewindWhole` | `RewindIsWhole` | `WholeInv`: which files hold the old and which the new text at each place of the replacement and of its way back, but for those others wrote; a tracker that cannot be stopped ends it with the files as they are |
| `UndoProofs!BranchesReplay` | `[]BranchReplays` | `BranchInv`: branches form a tree in the order of the journal and a rewind cuts off before its own event, so an event that is appended is seen on its own branch alone; and a checkpoint was told the turns up to its cutoff |
| `ServiceProofs!LspTypes` | `[]LspTypeOK` | `LspShape` and `LspPlaces`: the form of the stores, and what the place of the actor tells of its state and its connection |
| `ServiceProofs!ServerFollows` | `[]ServerSeesDocuments` | `InStep`, see below |
| `ServiceProofs!BothAgree` | `[]DocumentsAgree`, with `FirstVersion >= 1` and `Reused = FALSE` | `Names`: wherever a text is kept or on its way, its version tells which text it is |
| `ServiceProofs!ServicesTypes` | `[]ServicesTypeOK` under `ServicesSpec` | the parts' types; `PartsRefined`, see below |
| `ServiceProofs!ServicesAreSafe` | the safety invariants and action properties of the `services` run under `ServicesSpec`, with `ServerSeesDocuments` for `DocumentsAgree` | the same |
| `ServiceProofs!ServicesAgree` | `[]DocumentsAgree` under `ServicesSpec`, with the hypotheses of `BothAgree` | the same |

None of these invariants is inductive by itself; the strengthenings were first
checked by TLC on the instances of the runs.  Some remarks on why they are needed:

- `AckedKept` needs `JobInv`: a reply acknowledges all lines of a file, which is
  sound only because the same job synced that file and nothing was written to it
  since.
- `SessionInv` is `DurableInv`, where the writer and the service stand
  (`ControlInv`), and, unless an append failed half way (`overrun`, section 6), that
  the records tell a lawful story (`RecordsGood`) which the command in hand
  continues (`LeaseInv`: its lines have the next numbers, its outbox lines cover
  them, and its operation is the last one).  A crash leaves a prefix of that
  command in the file, which is why the story is stated line by line and not by
  command.  The three theorems inherit the exception for `overrun`.
- `FenceExclusive` shows why `cleanup_queue` counts references after the lock is
  released: a waiter holds one, and the entry stays for it.  `BaseIsCurrent` rests
  on it: a write that outlives its call keeps the guard.
- `InputsKeptOnce` needs `EmptyInv`: between two loops the runner's queues are empty
  and during a loop the state's are, else a commit would put the same entries
  behind themselves.
- `ToolCallsAnswered` has the hypothesis `RepliesKeepLimits`: a reply makes calls
  only with a tool-use stop, and no more than `MAX_TOOL_CALLS_PER_TURN`.  Other
  replies are stored with calls that nobody answers (section 6); the run has none
  of them either.
- `FirstInFirstOut` has the hypothesis `Uniform`: inputs need the same room and
  no command edits or removes entries.  TLC finds it violated without either half
  (section 6).
- `DocumentsAgree` speaks of a Ready server; `InStep` says what holds
  in between: reading on from what the server knows there is one state after each
  notification in the pipe, never one it cannot make sense of, and the last is
  the open documents if the server is ready.  The hypotheses are what a
  client owes (section 6): diagnostics are matched by version alone.
- `NothingSkipped` needs `Contiguous`: an event is numbered and retained under a
  lock and sent after it, so a receiver made in between may find an event in the
  window, in the channel or with its publisher; a resumption without a gap finds
  every number after its cursor in the window, whose replay leaves none out.
- `NothingHalfDone` has no hypothesis and says in its text what it does not cover.
  Of the parent and of the records it says nothing more once `abandoned` is set:
  when a transaction is removed that was not rolled back, when a merge begins while
  another transaction waits for its rollback, and when recovery reads a transaction
  wrongly, which is a Prepared journal without all of its backup (`merge_torn`)
  or an Applied one that was being rolled back (section 6).  Of the
  directories it excepts those of a failed creation that could not be cleaned away
  (`strays`, `registry.rs:247`).  The proof attempt showed that "one prepared
  transaction at most" is no invariant of the code: nothing keeps a second merge
  from starting over the prepared transaction of another worktree (section 6).
- `OneVerdict` tells the acknowledged facts from those in the log.  Only a call of
  which an append failed can have both verdicts in the log (section 6).
- `CreditStays` says of which changes the credit is safe: those that stay on their
  lines, and those that were moved if no other old hunk was like them and no new
  one reaches over their old lines.  The same change at two places is left out in
  either case (section 6).
- `RewindIsWhole` excepts what the code does when the tracker cannot be stopped:
  before the files are replaced they are as they were and the tracker is lost
  (`review.rs:169`), after that they are those of the target (`review.rs:187`).
  In neither case are they a mixture (section 6).
- `OutputAccounted` is unconditional on bytes; that what is left starts a character
  has the antecedent `IsText`, that the output is text whose characters are no
  longer than the budget.

- The composed specifications (`ServicesSpec`, `WorkspaceSpec`) let one part run in a
  behaviour and leave the others where they start.  `PartsRefined` and
  `WorkspaceRefined` show that such a behaviour is one of every part: its initial
  states are theirs, and each step is a step of one and a stutter of the others.
  Fairness is the one thing that does not carry over, since it is demanded of the
  part that runs only; where a part's specification has fairness, the lemmas speak
  of its initial states and its next-state relation alone, which is all that the
  safety proofs use.

Some devices recur.  Most recursive functions (the bytes of a queue, the tokens
of a conversation) are never computed: the proofs use only what holds for any
value of them.  The line of a branch is recursive too: that its equation has a
solution is shown by giving one, the least sets closed under parents.  Where a
property is about the outcome of a fold over a sequence, the model has a recursive
function of `LET` (`AfterReading`, `Replayed`, `Credited`): that there is one such
function, and what it preserves, is shown for the first place at which it could
fail, which does not exist (`LeastElement`, from the well-foundedness of `<`).
Where the code searches for the first place of some kind, the place is the least
element of a set of numbers too; this replaces an induction over the sequence.
And what is reached by steps of any number (the ancestors of a child) is the
least set closed under them.

Only model-checked:

- the liveness properties, since fairness and `ENABLED` are outside the prover's
  reach: `UnwantedLoopEnds`, `RestartResolves`, `CancelWakesListener`,
  `SilentServerNoticed`, `MutationsEnd`, `EveryCallEnds`, `EveryWaitEnds`,
  `ReceiverEnds`;
- what the recursive functions compute (token estimates, bytes in a queue), which
  would need an induction over data.

## 6. Where code and its documentation disagree

Seven runs exhibit a disagreement (`findings` in `PROJECT.json` has the quotes):

1. `probe_leak`: a half-open probe that is cancelled, whose hook fails, whose
   request cannot be built or that is sent round by a 401 refresh never records
   an outcome; its slot stays taken and the breaker rejects for ever.
2. `agent_abort_lost`: an abort handled between the start of a loop and its
   first poll cancels a token that the poll replaces.
3. `compaction_dangling`: the orphan check asks whether *some* kept message
   makes a call, not whether this result's message does.
4. `outbox_regress`: a crash after the outbox sync and before the records makes
   the next startup recovery write a smaller cursor, after which `read_outbox`
   refuses the file, and with it admission, recovery and reopening.
5. `resolved_in_doubt`: the events of a resolution name no branch, the replay of
   the active branch leaves them out, and the operation stays in doubt: the
   write gate stays closed, and resolving it again writes an outbox record with
   an id that is there already, after which the session cannot be opened.
6. `merge_torn`: a rolled-back transaction is removed file by file while its
   journal still says Prepared; a crash in between makes the next start roll
   back again from what is left of the backup.
7. `rewind_reopen`: the opening of a session on a branch made by a rewind wants
   the workspace of the checkpoint that was rewound to, however many turns came
   after it; `docs/refactor/phase4-rewind.md` refuses a session only for changes
   made outside after its shutdown.

Other behaviours that the models have and no run is spent on:

*Transport and agent*
- statuses that are not retried (403, 404) count as failures and can open the
  breaker (`http.rs:383`, against the comment at `http.rs:96`);
- a late outcome of a request admitted while Closed resolves a half-open spell
  and the probes of two spells may overlap;
- a command that arrives just after the stream was dropped is received and not
  handled, a `Shutdown` too (`actor.rs:128`);
- while a turn runs, `ClearQueues` and the queue commands reach only part of the
  queues (`runtime.rs:583`);
- repeated aborts let a queue grow past its limit, since the commit appends
  unchecked (`actor.rs:250`); ids of pending entries restart with each loop
  (`runtime.rs:254`); a flush stops at the first entry that does not fit
  (`runtime.rs:217`), and a smaller input, or any once an entry was removed, is
  then put in front of it: `FirstInFirstOut` fails with sizes 2, 2, 1 and with
  `RemoveQueueEntry`, so `agent_cancel` has neither;
- a tool batch over the limit and a reply cut off by its length are stored
  with calls that nobody answers (`nodes.rs:462`, `nodes.rs:354`).

*Session*
- after a failed append the writer thread goes on with its lease; its next
  append may repeat sequence numbers or write behind torn bytes (`writer.rs:47`).
  The model marks such a log with `overrun`, and four properties of
  `session_journal` exclude it; `AckedKept` and its proof do not;
- events without a branch are in the log and not in the replay: an automatic
  naming of which only the start landed is never in doubt, tool authorizations
  pending at a crash are never interrupted, and a label set on the session tree
  is gone after reopening (`commands.rs:20`).

*Operations, authorization, events*
- the primary operation is projected after the unlock (`control/state.rs:134`):
  a shutdown may commit before an operation is joined, or wait for one that is
  gone;
- a call whose timeout lost its race waits for the decider alone; if that
  decider's append fails only another decision ends the wait, and an entry that
  is restored may belong to a waiter that is gone (`authorization.rs:424`);
- an append that fails at its sync may have left its frame in the log
  (`storage.rs:255`), after which the call is decided again: the log then holds an
  approval and a denial of it, of which one was acknowledged
  (`authorization.rs:519`);
- a client at cursor 0 is never told of a gap, a lag recovery comes with an
  empty list of pending authorizations, and an acknowledgement is refused while
  the runtime shuts down.

*Worktrees*
- a rollback restores the whole parent and with it undoes edits the user made
  to other files meanwhile; conflicts are looked for before the files are
  replaced, not while;
- a journal that is renamed to Applied may be followed by a failing sync
  (`merge.rs:505`): the parent is rolled back while the journal says Applied, and if
  the process ends before the journal is removed, or the rollback fails, the next
  startup records as Merged what was rolled back (`merge.rs:582`), against
  `docs/refactor/phase3-worktree-test-matrix.md:36`, whose test injects the failure
  before the rename.  TLC finds it if `MergedHasLanded` is checked alone, with a
  crash and a failure;
- `remove_path(&transaction)` (`merge.rs:521`, `merge.rs:450`) may remove the backup
  before the Prepared journal: a crash in between leaves a journal on which every
  later startup maintenance fails (`merge.rs:516`), with all the other worktrees
  behind it.  TLC finds it if `RestartResolves` does not except it (`torn \ backed`);
- a discard, or a second merge, drops a transaction that is still Prepared;
- `create_managed` ignores that a directory could not be removed and deletes its
  record (`registry.rs:247`): the directory stays and no record names it;
- a merge looks at no transaction but its own (`merge.rs:257`): while the prepared
  one of a process that died, or whose rollback failed, waits for the next
  startup, another worktree can be merged, and that startup then restores the
  parent from before both (`merge.rs:575`), although the second is recorded as
  Merged.  TLC finds it with two worktrees and two processes if `Merge` leaves
  `abandoned` alone.

*Background tasks*
- a `spawn` that has read the token before a shutdown registers its task after
  it: the process runs on in a closed registry (`background.rs:468`, against
  `background.rs:590`);
- `wait()` reads the state and then asks for the notification; a task that ends
  in between leaves it waiting (`background.rs:350`).

*MCP*
- over HTTP the sender of `died_rx` is dropped when the session opens
  (`transport.rs:167`), so that branch of the biased `select!` is always ready:
  the loop spins and neither pings nor takes notifications, against
  `lifecycle.rs:20`.  `SilentServerNoticed` excepts these servers;
- a reconnect that fails ends the task for good; until the new session is stored
  the handle has the dead one; `tools_version` is read and then sent, so it may
  repeat when two servers discover at once.

*Language servers*
- an error as the answer to `ping`, which is not a method of the protocol, counts
  as a failed check (`actor.rs:456`): a server that follows the standard is
  restarted at every interval until it is given up;
- attempts are counted over the life of the actor and never reset
  (`actor.rs:489`), and the first start counts;
- diagnostics for a document that is not open are stored against version 0
  (`actor.rs:437`, against the comment at `actor.rs:435`), and a second text
  under the same version keeps them fresh (`diagnostics.rs:15`): with
  `FirstVersion = 0` or `Reused = TRUE` the run violates `DocumentsAgree`.

*File tools*
- a target is the file that was opened when the call was authorized, and the
  write does not look at the path again: an edit that waits behind a patch that
  deletes and adds the file succeeds on the unlinked one;
- `apply_patch` orders and tells apart its files by display path, the fence by
  the resolved one; two names of one file in a patch would wait for themselves;
- a waiter that is cancelled after the last guard was dropped leaves its queue
  in the registry.

*Change tracker and review*
- hunks choose the identities they take over in file order: the same change made
  earlier in the file by somebody else takes the id and the credit of the
  agent's hunk (`hunk/actor.rs:703`), against
  `docs/refactor/phase4-hunk-tracker.md`, which pairs hunks of equal content by
  the nearest place.  "Nearest" compares lines of two texts (`diff.rs:137`): of
  two equal long insertions by different hands, the rejection of the upper one
  moves the lower one up to its lines, and the survivor takes the other's credit.
  `CreditStays` leaves both out, by its conditions on equal changes;
- without a hunk that is like it a hunk is compared by its lines before and after
  (`diff.rs:139`): an insertion of another program above an agent's hunk that is long
  enough to reach its old lines takes its identity, and the agent's change is
  credited to the outsider, against `docs/refactor/phase4-review-domain.md:18` ("outside
  edits that do not overlap leave the attribution of agent hunks").  TLC finds it
  with one edit and one insertion if `CreditStays` does not except hunks that
  reach over the old lines;
- an event that matches a receipt sets the current text without making a new
  snapshot (`hunk/actor.rs:493`): if another program undoes and redoes an edit
  within the causal window, a reject of one hunk is planned from a text that was
  not shown and undoes another hunk with it;
- an event that waited alone in its window is applied when the window closes,
  although a newer receipt has been recorded meanwhile, and sets the current
  text back (`hunk/actor.rs:611`); two tools that report in the other order than
  they wrote lose the first edit into the baseline, or are refused with
  "reconcile required", which nothing then requests (`write.rs:210`);
- a file first seen through an event has no baseline and can never be rejected;
- only a lag of the channel makes the forwarder ask for a reconciliation, a gap
  reported by the watcher does not (`hunk.rs:291`), and any error of the actor
  ends the forwarder (`hunk.rs:290`).

*Rewind*
- a tracker that has kept an error fails when it is stopped, and the rewind ends
  with it (`review.rs:169`): nothing is tracked until the next opening.  If the
  restored workspace does not take its tracker and stopping that one fails too
  (`review.rs:187`), the rewind ends before the rollback, as an ordinary failure, with
  the files of the target under the old branch, against
  `docs/refactor/phase4-rewind.md:12` ("any domain that fails triggers a structured
  rollback").  TLC finds it if `WholeStep` does not except `StopAgainFails`.

## 7. Abstractions and what is not modelled

- *Transport*: the wording of errors, body parsing, jitter and lengths of
  delays; a wall clock that steps back.
- *Agent*: a command is sent and received in one step (no mailbox bound); the
  setters of tool runtime, provider tools, resources and hooks; a tool batch is
  one node that suspends and resumes; the text of summaries.
- *Journal*: the operating system's file lock is assumed to exclude other
  writers; a power failure leaves a prefix of a file at least as long as what
  was synced, perhaps with a torn line; a later successful sync also covers
  bytes of an earlier failed one; the manifest's own atomic rename is one step.
- *Session*: failed and aborted operations are one event kind (`ended`);
  `SessionLog` has one branch, its root, and `Rewind` the others, without the
  crashes of a turn; sessions are not created, copied or deleted; the shared
  registry of writer owners is left out.
- *Operations*: what an operation does; *authorization*: the evaluation of the
  policy, whose answer "ask" is where the module starts; *events*: the content
  of an event and what projections make of it, the pages of a transcript.
- *Worktrees*: the Git side of linked worktrees, the conflict report, power
  failures (a crash keeps what was written).
- *Tasks*: launching and containing a process, what it prints; *MCP*: the limit
  on servers started, OAuth flows, JSON; *language servers*: queries, edits of a
  text, `pullDiagnostics`; *file tools*: path resolution and links, what an edit
  makes of a text; *change tracker*: creation, deletion and renaming of files,
  target fingerprints, budgets, checkpoints and their restoration.
- Components without a module, each with its reason in `PROJECT.json`: tool
  runtime and batches, hooks and the release updater are in the plan; provider adapters, configuration, observability, TUI, CLI
  and desktop are parsing, presentation and I/O.  They are most of the
  workspace by lines: the map covers the crates whose control the modules
  follow, a small share of the whole.

## 8. Plan

Done, in this order: transport, compaction, queues, turn, actor, journal,
session, operations, authorization, events, worktrees, tasks, MCP, file tools,
language servers, change tracker, rewind.  A further module joins `MCServices` or
`MCWorkspace` as one more part, so that the number of runs stays what it is, and
its properties take the place of weaker ones.  Next, most important first:

1. `ToolBatch` (tool runtime and `tool_execution.rs`): parallel calls, deadlines,
   cancellation with its grace period; refined by the `ExecuteTools` node.
2. `HookDispatcher` (extension-host), `ReleaseUpdate` (release-updater).

Theorems worth proving next: that `EventStream` implements a numbered log read
without loss, as `SessionLog` implements `DurableLog`, and `FileMutations` one lock
for each path.
