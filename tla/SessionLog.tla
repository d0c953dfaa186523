------------------------------ MODULE SessionLog ------------------------------
(***************************************************************************)
(* The durable session (crates/coding-agent/src/session): operations that  *)
(* write their events through the single writer of EventJournal, the gate  *)
(* that admits them, the startup recovery of what a crash left in doubt    *)
(* and the user's controls that resolve it.                                *)
(*                                                                         *)
(* An operation p of 1..MaxOps is a prompt, or a compaction or edit that   *)
(* writes nothing before its end; NamingOp is the automatic naming of the  *)
(* session, which runs beside the others.  Events are                      *)
(*   started, input, message, committed, ended (OperationFailed or         *)
(*   OperationAborted), terminal                                           *)
(*   recovery          OperationRecoveryPending after attempt n            *)
(*   scheduled         the same with a next_attempt_at                     *)
(*   resolved          OperationRecoveryResolved                           *)
(*   settled           the OperationFailed or OperationAborted beside it   *)
(* and outbox records session_write, operation_terminal, recovery (n) and  *)
(* resolution.  phase is the state of the service:                         *)
(*   closed, records/outbox (repairing that tail), scan, startup, open,    *)
(*   closing (no more commands, the writer finishes the one it has)        *)
(***************************************************************************)
EXTENDS EventJournal

CONSTANTS
    MaxOps,             \* bound on the operations admitted
    MaxMessages,        \* bound on the events between checkpoint and end
    MaxRetries,         \* MAX_RECOVERY_RETRY_ATTEMPTS
    Troubles,           \* the kinds of trouble of this instance
    MaxTroubles,        \* bound on their number
    MaxStory            \* bound on operations and troubles together

SessionConfig ==
    /\ Troubles \subseteq {"crash", "power", "append", "manifest"}
    /\ {MaxOps, MaxMessages, MaxRetries, MaxTroubles, MaxStory} \subseteq Nat

ASSUME SessionConfigValid == SessionConfig

Roots == 1..MaxOps
NamingOp == MaxOps + 1
Ends == {"committed", "ended"}

VARIABLES
    phase,
    hydrating,          \* the lock is held by repair_tails_for_read
    op,                 \* the operation in flight, 0 for none
    stage,              \* idle, begun, checkpointed, finalized
    naming,             \* none, wanted, done
    mine,               \* history: operations begun since the service opened
    ops,                \* operations begun so far
    troubles            \* how much trouble there was so far

serviceVars == <<phase, hydrating>>
opVars == <<op, stage, naming, mine, ops>>
vars == <<journalVars, serviceVars, opVars, troubles>>

Entry(kind, o, n, seq) == [kind |-> kind, op |-> o, n |-> n, seq |-> seq]

\* prepare_events_locked: the events numbered from next_sequence.
Numbered(kinds, o, n, first) ==
    [i \in DOMAIN kinds |-> Entry(kinds[i], o, n, first + i - 1)]

CreatedLog == [lines |-> <<Entry("created", 0, 0, 1)>>, tail |-> <<>>]
EmptyLog == [lines |-> <<>>, tail |-> <<>>]

Init ==
    /\ file = [f \in Files |-> IF f = "records" THEN CreatedLog ELSE EmptyLog]
    /\ synced = [f \in Files |-> Len(file[f].lines)]
    /\ acked = synced
    /\ next_sequence = 0 /\ failed = FALSE /\ overrun = FALSE
    /\ job = NoJob
    /\ phase = "closed" /\ hydrating = FALSE
    /\ op = 0 /\ stage = "idle" /\ naming = "none" /\ mine = {} /\ ops = 0
    /\ troubles = 0

-----------------------------------------------------------------------------
(* What the code finds in the files. *)

Has(lines, o, kinds) == \E i \in DOMAIN lines : lines[i].op = o /\ lines[i].kind \in kinds

\* branch_events: replay takes the events that name the active branch.  Only
\* transactions write it into their events; recovery, terminal records,
\* resolutions, naming and SessionEventWriter leave it out.
OnBranch(e) == e.op \in Roots /\ e.kind \in {"started", "input", "message"} \union Ends

\* observe_operation_status and recovery_summary, of the active branch.
InDoubt(lines) ==
    LET branch == {lines[i] : i \in {j \in DOMAIN lines : OnBranch(lines[j])}}
        saw(o, kinds) == \E e \in branch : e.op = o /\ e.kind \in kinds
    IN  {o \in Roots : saw(o, {"started"}) /\ ~saw(o, Ends)}

RecordId(r) == <<r.kind, r.op, r.n>>

\* read_outbox: the cursors do not go back and no record id comes twice.
ReadableOutbox(lines) ==
    /\ \A i \in DOMAIN lines : Decodes(lines[i])
    /\ \A i, j \in DOMAIN lines : i < j =>
          /\ lines[i].seq <= lines[j].seq
          /\ RecordId(lines[i]) # RecordId(lines[j])

\* inspect_recovery_pending reads both logs before it says what is pending.
CanInspect ==
    /\ Contiguous(VisitLines("records"))
    /\ ReadableOutbox(VisitLines("outbox"))

PendingKinds == {"recovery", "scheduled"}

\* The last OperationRecoveryPending of an operation.
LastPending(lines, o) ==
    CHOOSE i \in DOMAIN lines :
        /\ lines[i].op = o /\ lines[i].kind \in PendingKinds
        /\ \A j \in DOMAIN lines : j > i => ~(lines[j].op = o /\ lines[j].kind \in PendingKinds)

Attempts(lines, o) ==
    IF Has(lines, o, PendingKinds) THEN lines[LastPending(lines, o)].n ELSE 0

-----------------------------------------------------------------------------
(* Opening and closing the service. *)

\* from_handle and open_session_bounded: both take the writer lock.
Open(for_read) ==
    /\ phase = "closed"
    /\ phase' = "records"
    /\ hydrating' = for_read
    /\ UNCHANGED <<journalVars, opVars, troubles>>

RepairRecords ==
    /\ phase = "records"
    /\ Repair("records")
    /\ phase' = "outbox"
    /\ UNCHANGED <<hydrating, opVars, troubles>>

RepairOutbox ==
    /\ phase = "outbox"
    /\ Repair("outbox")
    /\ phase' = IF hydrating THEN "closed" ELSE "scan"
    /\ hydrating' = FALSE
    /\ UNCHANGED <<opVars, troubles>>

\* The scan for the next sequence number and read_outbox.
ScanLogs ==
    /\ phase = "scan"
    /\ CanInspect
    /\ GrantLease
    /\ phase' = "startup"
    /\ mine' = {}
    /\ UNCHANGED <<hydrating, op, stage, naming, ops, troubles>>

\* A log that does not read back: the service is not opened.
ScanRefused ==
    /\ phase = "scan"
    /\ ~CanInspect
    /\ DropLease
    /\ phase' = "closed"
    /\ UNCHANGED <<hydrating, opVars, troubles>>

\* recovery_id_for_uncertain_operation aside, a marker is an operation and
\* its attempt count; they come in the order of the operations.
Marked(count) ==
    LET ids == DOMAIN count
        nth(i) == CHOOSE o \in ids : Cardinality({p \in ids : p <= o}) = i
    IN  [i \in 1..Cardinality(ids) |-> [op |-> nth(i), n |-> count[nth(i)]]]

\* Mutant: only scheduled retries are marked.
StartupMarkers_Scheduled(lines, due) ==
    Marked([o \in due |-> Attempts(lines, o) + 1])

\* apply_startup_recovery: operations in doubt without a recovery event get
\* one, and scheduled retries that are due get the next, whatever became of
\* their operation.
StartupMarkers(lines, due) ==
    Marked([o \in {d \in InDoubt(lines) : ~Has(lines, d, PendingKinds)} |-> 0])
        \o Marked([o \in due |-> Attempts(lines, o) + 1])

ScheduledRetries(lines) ==
    {o \in 1..NamingOp :
        /\ Has(lines, o, PendingKinds)
        /\ lines[LastPending(lines, o)].kind = "scheduled"
        /\ Attempts(lines, o) < MaxRetries}

StartupRecovery ==
    /\ phase = "startup"
    /\ Idle
    /\ LET lines == VisitLines("records")
       IN  \E due \in SUBSET ScheduledRetries(lines) :
              LET markers == IF InDoubt(lines) = {} THEN <<>>
                             ELSE StartupMarkers(lines, due)
                  through == next_sequence + Len(markers) - 1
              IN  IF markers = <<>>
                  THEN phase' = "open" /\ UNCHANGED journalVars
                  ELSE /\ TakeJob("startup", 0,
                             [i \in DOMAIN markers |->
                                 Entry("recovery", markers[i].op, markers[i].n,
                                       next_sequence + i - 1)],
                             [i \in DOMAIN markers |->
                                 Entry("recovery", markers[i].op, markers[i].n, through)],
                             through)
                       /\ UNCHANGED phase
    /\ UNCHANGED <<hydrating, opVars, troubles>>

\* The last owner has released the writer, or startup recovery failed:
\* close_and_join waits for the writer thread.
Close ==
    /\ phase = "closing"
    /\ Idle
    /\ DropLease
    /\ phase' = "closed"
    /\ UNCHANGED <<hydrating, opVars, troubles>>

-----------------------------------------------------------------------------
(* Operations. *)

Submit(command, o, kinds, n, outbox) ==
    LET through == next_sequence + Len(kinds) - 1
    IN  TakeJob(command, o, Numbered(kinds, o, n, next_sequence),
                [i \in DOMAIN outbox |-> Entry(outbox[i], o, n, through)], through)

\* Mutant: operations in doubt are not looked at.
EnsureWriteAdmission_AnyState == CanInspect

\* ensure_write_admission
EnsureWriteAdmission == CanInspect /\ InDoubt(VisitLines("records")) = {}

\* begin_admitted: the transaction keeps its first events to itself.
Begin ==
    /\ phase = "open" /\ op = 0
    /\ ops < MaxOps /\ ops + troubles < MaxStory
    /\ EnsureWriteAdmission
    /\ ops' = ops + 1
    /\ op' = ops + 1
    /\ stage' = "begun"
    /\ mine' = mine \union {ops + 1}
    /\ UNCHANGED <<journalVars, serviceVars, naming, troubles>>

\* record_user_input checkpoints the transaction.
Checkpoint ==
    /\ stage = "begun"
    /\ Submit("checkpoint", op, <<"started", "input">>, 0, <<>>)
    /\ UNCHANGED <<serviceVars, opVars, troubles>>

\* SessionEventWriter: tools and authorizations append events of their own
\* while the operation runs, and it goes on when that fails.  One such event
\* per operation is the bound.
AppendBeside ==
    /\ stage = "checkpointed"
    /\ ~Has(file["records"].lines, op, {"beside"})
    /\ Submit("beside", op, <<"beside">>, 0, <<>>)
    /\ UNCHANGED <<serviceVars, opVars, troubles>>

Messages(k) == [i \in 1..k |-> "message"]

\* commit, fail or abort with the session_write obligation.  What was not
\* checkpointed before goes with it.
Finalize(k, end) ==
    /\ stage \in {"begun", "checkpointed"}
    /\ Submit("finalize", op,
              (IF stage = "begun" THEN <<"started">> ELSE <<>>) \o Messages(k) \o <<end>>,
              0, <<"session_write">>)
    /\ UNCHANGED <<serviceVars, opVars, troubles>>

\* The queue of the writer stayed full: the operation ends without its events.
Abandon ==
    /\ stage \in {"begun", "checkpointed"}
    /\ job.op # op
    /\ op' = 0 /\ stage' = "idle"
    /\ UNCHANGED <<journalVars, serviceVars, naming, mine, ops, troubles>>

\* The session is released: between operations, or with the task of one that
\* is aborted because the stream of its execution was dropped or the
\* application shuts down.  A command that the writer has taken is executed
\* all the same.
DropSession ==
    /\ phase = "open"
    /\ phase' = "closing"
    /\ op' = 0 /\ stage' = "idle"
    /\ naming' = IF naming = "wanted" THEN "none" ELSE naming
    /\ UNCHANGED <<journalVars, hydrating, mine, ops, troubles>>

\* persist_terminal_decision
PersistTerminal ==
    /\ stage = "finalized"
    /\ Submit("terminal", op, <<"terminal">>, 0, <<"operation_terminal">>)
    /\ UNCHANGED <<serviceVars, opVars, troubles>>

\* Agent invocations and teams announce their end without persisting it.
SkipTerminal ==
    /\ stage = "finalized" /\ Idle
    /\ op' = 0 /\ stage' = "idle"
    /\ UNCHANGED <<journalVars, serviceVars, naming, mine, ops, troubles>>

\* The naming task of the first committed prompt, beside other operations.
CommitName(end) ==
    /\ phase = "open" /\ naming = "wanted"
    /\ Submit("naming", NamingOp, <<"started", end>>, 0, <<>>)
    /\ naming' = "done"
    /\ UNCHANGED <<serviceVars, op, stage, mine, ops, troubles>>

\* resolve_recovery_as, for an operation of a durable root family.
ResolveRecovery(o) ==
    /\ phase = "open" /\ op = 0
    /\ CanInspect
    /\ o \in InDoubt(VisitLines("records"))
    /\ Submit("resolve", o, <<"resolved", "settled", "terminal">>, 0, <<"resolution">>)
    /\ UNCHANGED <<serviceVars, opVars, troubles>>

\* retry_recovery: one more OperationRecoveryPending, scheduled or not.
RetryRecovery(o, kind) ==
    /\ phase = "open" /\ op = 0
    /\ CanInspect
    /\ o \in InDoubt(VisitLines("records"))
    /\ LET n == Attempts(VisitLines("records"), o)
       IN  /\ n < MaxRetries
           /\ Submit("retry", o, <<kind>>, n + 1, <<"recovery">>)
    /\ UNCHANGED <<serviceVars, opVars, troubles>>

-----------------------------------------------------------------------------
(* The writer thread and what its answers mean. *)

Write == \E f \in Files : WriteFrame(f) /\ UNCHANGED <<serviceVars, opVars, troubles>>
Sync == \E f \in Files : SyncFile(f) /\ UNCHANGED <<serviceVars, opVars, troubles>>

\* The operation in flight awaits the answer; else it is dropped.
Awaited == job.op = op

Succeeded ==
    /\ phase' = IF job.command = "startup" THEN "open" ELSE phase
    /\ op' = IF Awaited /\ job.command = "terminal" THEN 0 ELSE op
    /\ stage' = CASE Awaited /\ job.command = "checkpoint" -> "checkpointed"
                  [] Awaited /\ job.command = "finalize" -> "finalized"
                  [] Awaited /\ job.command = "terminal" -> "idle"
                  [] OTHER -> stage
    /\ naming' = IF /\ Awaited /\ job.command = "terminal" /\ naming = "none"
                    /\ Has(file["records"].lines, job.op, {"committed"})
                 THEN "wanted" ELSE naming

Answer ==
    /\ Reply
    /\ Succeeded
    /\ UNCHANGED <<hydrating, mine, ops, troubles>>

Trouble(kind) ==
    /\ kind \in Troubles
    /\ troubles < MaxTroubles /\ ops + troubles < MaxStory
    /\ troubles' = troubles + 1

\* The operation is in doubt (InDoubt, PartialCommit) and ends; a failed
\* startup recovery gives the session up.
EndsOperation == Awaited /\ job.command \in {"checkpoint", "finalize", "terminal"}

Rejected ==
    /\ phase' = IF job.command = "startup" THEN "closing" ELSE phase
    /\ op' = IF EndsOperation THEN 0 ELSE op
    /\ stage' = IF EndsOperation THEN "idle" ELSE stage

AppendError ==
    /\ Trouble("append")
    /\ \E f \in Files : AppendFails(f)
    /\ Rejected
    /\ UNCHANGED <<hydrating, naming, mine, ops>>

ManifestError ==
    /\ Trouble("manifest")
    /\ job.command # "beside"
    /\ ReplyManifestError
    /\ Rejected
    /\ UNCHANGED <<hydrating, naming, mine, ops>>

Crash ==
    /\ phase # "closed"
    /\ Trouble("crash")
    /\ Die
    /\ phase' = "closed" /\ hydrating' = FALSE
    /\ op' = 0 /\ stage' = "idle"
    /\ naming' = IF naming = "wanted" THEN "none" ELSE naming
    /\ UNCHANGED <<mine, ops>>

\* The machine goes down after the process.
PowerFailure ==
    /\ phase = "closed"
    /\ Trouble("power")
    /\ LosePower
    /\ UNCHANGED <<serviceVars, opVars>>

Next ==
    \/ \E for_read \in BOOLEAN : Open(for_read)
    \/ RepairRecords \/ RepairOutbox \/ ScanLogs \/ ScanRefused
    \/ StartupRecovery \/ Close
    \/ Begin \/ Checkpoint \/ AppendBeside \/ Abandon \/ DropSession
    \/ \E k \in 0..MaxMessages, end \in Ends : Finalize(k, end)
    \/ PersistTerminal \/ SkipTerminal
    \/ \E end \in Ends : CommitName(end)
    \/ \E o \in Roots : ResolveRecovery(o)
    \/ \E o \in Roots, kind \in PendingKinds : RetryRecovery(o, kind)
    \/ Write \/ Sync \/ Answer \/ AppendError \/ ManifestError
    \/ Crash \/ PowerFailure

Spec == Init /\ [][Next]_vars

-----------------------------------------------------------------------------
(* Properties. *)

\* Whatever crashes, power failures and failed appends happen, the records
\* carry the numbers 1, 2, 3...: next_session_sequence finds them contiguous
\* (repository/io.rs).  An append in a lease that has already failed one is
\* the exception; it may write a number twice or behind torn bytes.
RecordsContiguous == ~overrun => Contiguous(file["records"].lines)

\* The outbox records that an event goes with.
Obligations(e) ==
    CASE e.kind \in PendingKinds -> {"recovery"}
      [] e.kind \in {"resolved", "settled"} -> {"resolution"}
      [] e.kind = "terminal" -> {"operation_terminal", "resolution"}
      [] e.kind \in Ends /\ e.op # NamingOp -> {"session_write"}
      [] OTHER -> {}

\* An event that obliges the session to publish something is never in the
\* log before the obligation is on stable storage in the outbox
\* (append_checkpoint writes and syncs the outbox first).
ObligationFirst ==
    ~overrun =>
        \A i \in DOMAIN file["records"].lines :
            LET e == file["records"].lines[i]
            IN  Obligations(e) # {} =>
                    \E j \in 1..synced["outbox"] :
                        LET o == file["outbox"].lines[j]
                        IN  /\ o.kind \in Obligations(e) /\ o.op = e.op /\ o.n = e.n
                            /\ o.seq >= e.seq

\* Whatever crashes and fails, the records are contiguous and none of them is
\* ahead of the outbox.
JournalSound == RecordsContiguous /\ ObligationFirst

\* No operation has written anything while an earlier one was in doubt:
\* ensure_write_admission holds across crashes, lost suffixes and errors
\* (application/session_coordinator.rs).
NothingAfterDoubt ==
    ~overrun =>
        \A p \in InDoubt(file["records"].lines), q \in Roots :
            q > p => \A i \in DOMAIN file["records"].lines : file["records"].lines[i].op # q

\* An open session has a recovery event for every operation that an earlier
\* process left in doubt (apply_startup_recovery).
CrashedOpsMarked ==
    phase = "open" /\ ~overrun =>
        \A o \in InDoubt(file["records"].lines) :
            o \in mine \/ Has(file["records"].lines, o, PendingKinds)

\* An operation is settled once its resolution is in the log: the write gate
\* does not find it again and a second resolution is refused as one of an
\* "unknown or already resolved recovery" (session/service/finalize.rs).
ResolvedIsSettled ==
    \A o \in Roots :
        Has(file["records"].lines, o, {"settled"}) => o \notin InDoubt(file["records"].lines)

RecordsLog == INSTANCE DurableLog WITH log <- file["records"].lines, committed <- acked["records"]
OutboxLog == INSTANCE DurableLog WITH log <- file["outbox"].lines, committed <- acked["outbox"]

\* Both files keep what was acknowledged, line by line, through repairs,
\* crashes and power failures: they implement DurableLog.
AckedKept == RecordsLog!Spec /\ OutboxLog!Spec

\* read_outbox accepts the outbox: cursors never regress and no record id
\* comes twice (repository/store.rs).
OutboxReadable == ReadableOutbox(file["outbox"].lines)

=============================================================================
