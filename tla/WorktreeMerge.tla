----------------------------- MODULE WorktreeMerge -----------------------------
(***************************************************************************)
(* Managed child worktrees and their merge back into the parent workspace: *)
(* workspace-runtime worktree/registry.rs (durable records, one writer     *)
(* lock across processes, startup maintenance, garbage collection) and     *)
(* worktree/merge.rs (backup, journal, apply, rollback, recovery), driven  *)
(* as coding-agent operations/delegation/worktree.rs and operations/merge  *)
(* drive them.                                                             *)
(*                                                                         *)
(* A directory is a partial function from Path to what is in the file.     *)
(* Everything a process does to the registry it does as the one writer, so *)
(* "job" is the work of that writer; a crash can come between its steps.   *)
(* Copy-mode worktrees: the HEAD check and the Git registration of linked  *)
(* ones only add refusals.                                                 *)
(***************************************************************************)
EXTENDS Naturals, Sequences, FiniteSets, Functions

CONSTANTS
  Path,           \* files of the workspace
  Existing,       \* those that are there at first
  Worktree,       \* worktree ids; an id is used once
  Process,        \* processes that share the registry
  Capacity,       \* live worktrees the registry admits
  MaxCrashes,     \* bound: crashes of processes
  MaxFailures,    \* bound: I/O errors and cancellations
  MaxEdits        \* bound: edits of the parent by its user

WorktreeConfig ==
  /\ {Capacity, MaxCrashes, MaxFailures, MaxEdits} \subseteq Nat
  /\ Existing \subseteq Path /\ "nobody" \notin Process

ASSUME WorktreeAssumption == WorktreeConfig

VARIABLES
  parent,        \* the parent workspace
  records,       \* lifecycle of each durable record, "none" without one
  keeper,        \* the process that created the record; "dead" once it died
  trees,         \* worktrees/<id>, of the materialized ones
  materialized,  \* ids with a worktree directory
  baselines,     \* baselines/<id>: what the child started from
  based,         \* ids with a baseline directory
  backups,       \* transactions/<id>/backup
  backed,        \* ids with a backup directory
  phases,        \* phase in transactions/<id>/journal.json, "none" without one
  processes,     \* what each process is at: down, starting, collecting, up
  job,           \* what the holder of the writer lock does
  spent,         \* crashes, failures and edits so far
  expected,      \* history: the parent, were a merge one step
  dirty,         \* history: files the user edited under an open transaction
  landed,        \* history: the worktrees whose changes are in "expected"
  undone,        \* history: those whose Applied journal is being rolled back
  torn,          \* history: those whose Prepared journal lost some of its backup
  strays,        \* history: those created in vain and not cleaned away
  abandoned      \* history: a merge was left neither done nor undone (see AtomicMerge)

outcomeVars == <<landed, undone, torn, strays>>
ghostVars == <<expected, dirty, outcomeVars, abandoned>>
parentVars == <<parent, ghostVars>>
directoryVars == <<trees, materialized, baselines, based>>
registryVars == <<records, keeper, directoryVars>>
transactionVars == <<backups, backed, phases>>
worktreeVars == <<parentVars, registryVars, transactionVars, processes, job, spent>>

Empty == <<>>
Idle0 == [by |-> "nobody", wt |-> "none", step |-> "free", then |-> "free", todo |-> {}]

Lookup(tree, x) == IF x \in DOMAIN tree THEN tree[x] ELSE "none"
Without(tree, x) == Restrict(tree, DOMAIN tree \ {x})
With(tree, x, c) == [y \in DOMAIN tree \cup {x} |-> IF y = x THEN c ELSE tree[y]]
Overlay(upper, lower) ==
  [x \in DOMAIN upper \cup DOMAIN lower |-> IF x \in DOMAIN upper THEN upper[x] ELSE lower[x]]

WorktreeInit ==
  /\ parent = [x \in Existing |-> "base"]
  /\ expected = parent /\ dirty = {} /\ abandoned = FALSE
  /\ landed = {} /\ undone = {} /\ torn = {} /\ strays = {}
  /\ records = [w \in Worktree |-> "none"] /\ keeper = [w \in Worktree |-> "nobody"]
  /\ trees = [w \in Worktree |-> Empty] /\ materialized = {}
  /\ baselines = [w \in Worktree |-> Empty] /\ based = {}
  /\ backups = [w \in Worktree |-> Empty] /\ backed = {}
  /\ phases = [w \in Worktree |-> "none"]
  /\ processes = [p \in Process |-> "up"]
  /\ job = Idle0
  /\ spent = [crashes |-> 0, failures |-> 0, edits |-> 0]

(***************************************************************************)
(* The writer.                                                             *)
(***************************************************************************)
Lock(p, w, step) ==
  /\ job.step = "free"
  /\ job' = [Idle0 EXCEPT !.by = p, !.wt = w, !.step = step]

\* Mutant: the lock is released, the work is not.
Unlock_Half == job' = [Idle0 EXCEPT !.step = "scan"]

At(step) == job.step = step
Continue(step) == job' = [job EXCEPT !.step = step]
Unlock == job' = Idle0

Spend(what) ==
  LET limit == [crashes |-> MaxCrashes, failures |-> MaxFailures, edits |-> MaxEdits] IN
  /\ spent[what] < limit[what]
  /\ spent' = [spent EXCEPT ![what] = @ + 1]

\* WorktreeRecord::transition, for the table of valid_lifecycle_transition.
ValidTransition(from, to) ==
  <<from, to>> \in
    { <<"Creating", "Ready">>, <<"Ready", "Discarded">>, <<"Ready", "Active">>,
      <<"Active", "MergePending">>, <<"Active", "Discarded">>,
      <<"MergePending", "Merged">>, <<"MergePending", "Discarded">>,
      <<"Merged", "Cleaning">>, <<"Discarded", "Cleaning">>, <<"Cleaning", "Removed">> }

WriteRecord(w, state) == records' = [records EXCEPT ![w] = state]

Transactions == {w \in Worktree : w \in backed \/ phases[w] # "none"}
Live == {w \in Worktree : records[w] \in {"Ready", "Active", "MergePending"}}

(***************************************************************************)
(* create_managed.                                                         *)
(***************************************************************************)
Create(p, w) ==
  /\ processes[p] = "up" /\ keeper[w] = "nobody"
  /\ Cardinality(Live) < Capacity
  /\ Lock(p, w, "materialize")
  /\ WriteRecord(w, "Creating") /\ keeper' = [keeper EXCEPT ![w] = p]
  /\ UNCHANGED <<parentVars, directoryVars, transactionVars, processes, spent>>

Materialize ==
  /\ At("materialize") /\ Continue("baseline")
  /\ trees' = [trees EXCEPT ![job.wt] = parent]
  /\ materialized' = materialized \cup {job.wt}
  /\ UNCHANGED <<parentVars, records, keeper, baselines, based, transactionVars, processes, spent>>

\* A cancellation takes the record back, another failure leaves it Creating,
\* perhaps with a part of the directory.
MaterializeFails ==
  /\ At("materialize") /\ Spend("failures") /\ Unlock
  /\ \/ WriteRecord(job.wt, "none") /\ UNCHANGED materialized
     \/ UNCHANGED records /\ materialized' \in {materialized, materialized \cup {job.wt}}
  /\ UNCHANGED <<parentVars, keeper, trees, baselines, based, transactionVars, processes>>

Baseline ==
  /\ At("baseline") /\ Continue("ready")
  /\ baselines' = [baselines EXCEPT ![job.wt] = trees[job.wt]] /\ based' = based \cup {job.wt}
  /\ UNCHANGED <<parentVars, records, keeper, trees, materialized, transactionVars, processes,
                 spent>>

\* The directories and then the record are removed, and errors of that are
\* ignored: the directories may stay without their record.
BaselineFails ==
  /\ At("baseline") /\ Spend("failures") /\ Unlock
  /\ \/ materialized' = materialized \ {job.wt} /\ trees' = [trees EXCEPT ![job.wt] = Empty]
     \/ UNCHANGED <<materialized, trees>>
  /\ based' \in {based, based \cup {job.wt}}
  /\ UNCHANGED records \/ WriteRecord(job.wt, "none")
  /\ strays' = strays \cup {w \in {job.wt} \cap (materialized' \cup based') : records'[w] = "none"}
  /\ UNCHANGED <<parent, expected, dirty, landed, undone, torn, abandoned, keeper, baselines,
                 transactionVars, processes>>

Register ==
  /\ At("ready") /\ Unlock
  /\ WriteRecord(job.wt, "Ready")
  /\ UNCHANGED <<parentVars, keeper, directoryVars, transactionVars, processes, spent>>

(***************************************************************************)
(* The child works in its worktree; a finished child is promoted in two    *)
(* transitions (promote_to_merge_pending), a failed one discarded.         *)
(***************************************************************************)
\* What the child may make of a tree: it writes some files, deletes others.
Edited(tree, w) ==
  {[x \in (DOMAIN tree \cup touched) \ gone |-> IF x \in touched THEN w ELSE tree[x]] :
     gone \in SUBSET DOMAIN tree, touched \in SUBSET Path}

ChildWorks(w) ==
  /\ records[w] = "Ready" /\ w \in materialized /\ keeper[w] \in Process
  /\ trees[w] = baselines[w]
  /\ \E tree \in Edited(trees[w], w) \ {trees[w]} : trees' = [trees EXCEPT ![w] = tree]
  /\ UNCHANGED <<parentVars, records, keeper, materialized, baselines, based, transactionVars,
                 processes, job, spent>>

Promote(w) ==
  /\ job.step = "free" /\ keeper[w] \in Process /\ processes[keeper[w]] = "up"
  /\ \E next \in {"Active", "MergePending"} :
       ValidTransition(records[w], next) /\ WriteRecord(w, next)
  /\ UNCHANGED <<parentVars, keeper, directoryVars, transactionVars, processes, job, spent>>

\* The user of the parent workspace works on, whatever the registry does.
UserEdits(x) ==
  /\ Spend("edits") /\ Lookup(parent, x) # "user"
  /\ parent' = With(parent, x, "user")
  /\ IF Transactions = {} THEN expected' = With(expected, x, "user") /\ UNCHANGED dirty
                         ELSE dirty' = dirty \cup {x} /\ UNCHANGED expected
  /\ UNCHANGED <<registryVars, transactionVars, processes, job, outcomeVars, abandoned>>

(***************************************************************************)
(* apply_merge.                                                            *)
(***************************************************************************)
\* build_changeset, and parent_conflicts of it.
Changed(w) == {x \in Path : Lookup(baselines[w], x) # Lookup(trees[w], x)}
Conflicts(w) == {x \in Changed(w) : Lookup(parent, x) # Lookup(baselines[w], x)}

Merge(p, w) ==
  /\ processes[p] = "up" /\ records[w] = "MergePending"
  /\ w \in based /\ w \in materialized /\ Conflicts(w) = {}
  /\ job.step = "free"
  /\ job' = [Idle0 EXCEPT !.by = p, !.wt = w, !.step = "remove", !.then = "backup",
                          !.todo = Changed(w)]
  /\ abandoned' = (\/ abandoned \/ undone # {}
                   \/ \E v \in Worktree \ {w} : phases[v] = "Prepared")
  /\ UNCHANGED <<parent, expected, dirty, outcomeVars, registryVars, transactionVars, processes,
                 spent>>

Backup ==
  /\ At("backup") /\ Continue("journal")
  /\ backups' = [backups EXCEPT ![job.wt] = parent] /\ backed' = backed \cup {job.wt}
  /\ UNCHANGED <<parentVars, registryVars, phases, processes, spent>>

Prepare ==
  /\ At("journal") /\ Continue("apply")
  /\ phases' = [phases EXCEPT ![job.wt] = "Prepared"]
  /\ UNCHANGED <<parentVars, registryVars, backups, backed, processes, spent>>

\* The transaction could not be prepared: the merge is given up as it stands,
\* which may be with a journal that was renamed into place but not synced.
PrepareFails ==
  /\ At("backup") \/ At("journal")
  /\ Spend("failures") /\ Unlock
  /\ \/ UNCHANGED phases
     \/ At("journal") /\ phases' = [phases EXCEPT ![job.wt] = "Prepared"]
  /\ UNCHANGED <<parentVars, registryVars, backups, backed, processes>>

Deletions == {x \in job.todo : x \notin DOMAIN trees[job.wt]}

\* Deletions come first; a written file is removed before its replacement is
\* renamed into place.
ApplyEntry ==
  /\ At("apply")
  /\ \/ \E x \in Deletions :
          /\ parent' = Without(parent, x)
          /\ job' = [job EXCEPT !.todo = @ \ {x}]
     \/ /\ Deletions = {}
        /\ \E x \in job.todo :
             \/ /\ x \in DOMAIN parent /\ parent' = Without(parent, x)
                /\ UNCHANGED job
             \/ /\ x \notin DOMAIN parent
                /\ parent' = With(parent, x, trees[job.wt][x])
                /\ job' = [job EXCEPT !.todo = @ \ {x}]
  /\ UNCHANGED <<ghostVars, registryVars, transactionVars, processes, spent>>

\* What the parent is with the changes of a child.
Merged(tree, w) == Overlay(Restrict(trees[w], Changed(w) \cap DOMAIN trees[w]),
                           Restrict(tree, DOMAIN tree \ Changed(w)))

MarkApplied ==
  /\ At("apply") /\ job.todo = {} /\ Continue("merged")
  /\ phases' = [phases EXCEPT ![job.wt] = "Applied"]
  /\ expected' = Merged(expected, job.wt) /\ landed' = landed \cup {job.wt}
  /\ UNCHANGED <<parent, dirty, undone, torn, strays, abandoned, registryVars, backups, backed,
                 processes, spent>>

\* The journal was renamed into place and its directory not synced: the merge
\* is rolled back while the journal says Applied.
MarkAppliedFails ==
  /\ At("apply") /\ job.todo = {} /\ Spend("failures")
  /\ phases' = [phases EXCEPT ![job.wt] = "Applied"] /\ undone' = undone \cup {job.wt}
  /\ job' = [job EXCEPT !.step = "wipe", !.then = "free"]
  /\ UNCHANGED <<parent, expected, dirty, landed, torn, strays, abandoned, registryVars, backups,
                 backed, processes>>

\* Mutant: a failed merge drops its transaction instead of rolling it back.
ApplyFails_Drops ==
  /\ At("apply") /\ Spend("failures")
  /\ job' = [job EXCEPT !.step = "remove", !.then = "free"]
  /\ UNCHANGED <<parentVars, registryVars, transactionVars, processes>>

ApplyFails ==
  /\ At("apply") /\ Spend("failures")
  /\ job' = [job EXCEPT !.step = "wipe", !.then = "free"]
  /\ UNCHANGED <<parentVars, registryVars, transactionVars, processes>>

CommitMerge ==
  /\ At("merged") /\ job' = [job EXCEPT !.step = "remove", !.then = "free"]
  /\ WriteRecord(job.wt, "Merged")
  /\ UNCHANGED <<parentVars, keeper, directoryVars, transactionVars, processes, spent>>

(***************************************************************************)
(* rollback_transaction: empty the parent, copy the backup, drop the       *)
(* transaction.                                                            *)
(***************************************************************************)
Wipe ==
  /\ At("wipe") /\ job.wt \in backed /\ Continue("restore")
  /\ parent' = Empty
  /\ UNCHANGED <<ghostVars, registryVars, transactionVars, processes, spent>>

Restore ==
  /\ At("restore") /\ Continue("remove")
  /\ parent' = Overlay(backups[job.wt], parent)
  /\ UNCHANGED <<ghostVars, registryVars, transactionVars, processes, spent>>

\* The backup is missing, or a file that appeared meanwhile is in the way.
RollbackStuck ==
  /\ \/ At("wipe") /\ job.wt \notin backed
     \/ At("restore") /\ DOMAIN parent \cap DOMAIN backups[job.wt] # {}
  /\ Unlock
  /\ UNCHANGED <<parentVars, registryVars, transactionVars, processes, spent>>

(***************************************************************************)
(* Removal of a transaction directory, and what follows it.                *)
(***************************************************************************)
DropTransaction(w) ==
  /\ backed' = backed \ {w} /\ backups' = [backups EXCEPT ![w] = Empty]
  /\ phases' = [phases EXCEPT ![w] = "none"]

\* What the removal makes of a transaction: one that was not rolled back is
\* abandoned, one that keeps its Prepared journal torn.
Removing ==
  LET w == job.wt
      open == phases[w] = "Prepared" \/ w \in undone
  IN  /\ abandoned' = (abandoned \/ (open /\ job.then \notin {"free", "scan"}))
      /\ undone' = IF phases'[w] = "none" THEN undone \ {w} ELSE undone
      /\ torn' = IF phases'[w] = "Prepared" THEN torn \cup {w} ELSE torn \ {w}
      /\ UNCHANGED <<parent, expected, dirty, landed, strays>>

RemoveTransaction ==
  /\ At("remove") /\ DropTransaction(job.wt) /\ Removing
  /\ job' = IF job.then = "free" THEN Idle0 ELSE [job EXCEPT !.step = job.then]
  /\ UNCHANGED <<registryVars, processes, spent>>

\* remove_dir_all goes file by file, in the order of the directory.
RemoveSome ==
  /\ At("remove")
  /\ \/ /\ phases' = [phases EXCEPT ![job.wt] = "none"] /\ UNCHANGED <<backups, backed>>
     \/ \E x \in DOMAIN backups[job.wt] :
          /\ backups' = [backups EXCEPT ![job.wt] = Without(@, x)]
          /\ UNCHANGED <<backed, phases>>
     \/ /\ backups[job.wt] = Empty /\ backed' = backed \ {job.wt}
        /\ UNCHANGED <<backups, phases>>
  /\ Removing /\ UNCHANGED <<registryVars, processes, job, spent>>

(***************************************************************************)
(* discard, and the cleaning it shares with recovery and collection        *)
(* (remove_materialization, remove_unlocked).                              *)
(***************************************************************************)
Discard(p, w) ==
  /\ processes[p] = "up" /\ records[w] # "none"
  /\ Lock(p, w, IF records[w] = "Removed" THEN "forget" ELSE "discard")
  /\ IF records[w] = "Creating" THEN Spend("failures") ELSE UNCHANGED spent
  /\ UNCHANGED <<parentVars, registryVars, transactionVars, processes>>

DiscardWrites ==
  /\ At("discard")
  /\ \E next \in {"Discarded", "Cleaning"} :
       ValidTransition(records[job.wt], next) /\ WriteRecord(job.wt, next)
  /\ UNCHANGED <<parentVars, keeper, directoryVars, transactionVars, processes, job, spent>>

DiscardCleans ==
  /\ At("discard") /\ records[job.wt] \in {"Cleaning", "Creating"}
  /\ job' = [job EXCEPT !.step = "clean", !.then = "removed"]
  /\ UNCHANGED <<parentVars, registryVars, transactionVars, processes, spent>>

Clean ==
  /\ At("clean") /\ Continue("clean_base")
  /\ materialized' = materialized \ {job.wt} /\ trees' = [trees EXCEPT ![job.wt] = Empty]
  /\ UNCHANGED <<parentVars, records, keeper, baselines, based, transactionVars, processes, spent>>

\* Mutant: the baseline is forgotten.
CleanBase_Skips ==
  /\ At("clean_base") /\ Continue("remove")
  /\ UNCHANGED <<parentVars, registryVars, transactionVars, processes, spent>>

CleanBase ==
  /\ At("clean_base") /\ Continue("remove")
  /\ based' = based \ {job.wt} /\ baselines' = [baselines EXCEPT ![job.wt] = Empty]
  /\ UNCHANGED <<parentVars, records, keeper, trees, materialized, transactionVars, processes,
                 spent>>

\* A record still Creating is refused here, its directory gone.
WriteRemoved ==
  /\ At("removed")
  /\ IF ValidTransition(records[job.wt], "Removed")
       THEN WriteRecord(job.wt, "Removed") /\ Continue("forget")
       ELSE UNCHANGED records /\ Unlock
  /\ UNCHANGED <<parentVars, keeper, directoryVars, transactionVars, processes, spent>>

\* The record goes last; maintenance then looks for the next one.
Forget ==
  /\ At("forget")
  /\ job' = IF processes[job.by] = "up" THEN Idle0 ELSE [job EXCEPT !.step = "scan"]
  /\ WriteRecord(job.wt, "none")
  /\ UNCHANGED <<parentVars, keeper, directoryVars, transactionVars, processes, spent>>

(***************************************************************************)
(* startup_maintenance: recover, then gc.                                  *)
(***************************************************************************)
Maintain(p) ==
  /\ processes[p] \in {"starting", "collecting"}
  /\ Lock(p, "none", "scan")
  /\ UNCHANGED <<parentVars, registryVars, transactionVars, processes, spent>>

\* Mutant: a transaction whose record has gone on is taken for settled.
RecoverTransaction_Pending ==
  /\ At("scan") /\ processes[job.by] = "starting"
  /\ \E w \in Transactions :
       LET next == IF phases[w] = "Prepared" THEN "wipe" ELSE "remove"
       IN  /\ (phases[w] # "none" => records[w] = "MergePending")
           /\ job' = [job EXCEPT !.wt = w, !.step = next, !.then = "scan"]
           /\ abandoned' = (abandoned \/ w \in torn \cup undone)
           /\ IF phases[w] = "Applied"
                THEN WriteRecord(w, "Merged") ELSE UNCHANGED records
  /\ UNCHANGED <<parent, expected, dirty, outcomeVars, keeper, directoryVars, transactionVars,
                 processes, spent>>

\* recover_transactions, for one transaction.
RecoverTransaction ==
  /\ At("scan") /\ processes[job.by] = "starting"
  /\ \E w \in Transactions :
       LET next == IF phases[w] = "Prepared" THEN "wipe" ELSE "remove"
       IN  /\ (phases[w] # "none" => records[w] # "none")
           /\ job' = [job EXCEPT !.wt = w, !.step = next, !.then = "scan"]
           /\ abandoned' = (abandoned \/ w \in torn \cup undone)
           /\ IF phases[w] = "Applied" /\ records[w] = "MergePending"
                THEN WriteRecord(w, "Merged") ELSE UNCHANGED records
  /\ UNCHANGED <<parent, expected, dirty, outcomeVars, keeper, directoryVars, transactionVars,
                 processes, spent>>

\* scan_unlocked: interrupted and stale records; gc: what dead owners left.
Interrupted == {w \in Worktree : records[w] \in {"Creating", "Cleaning"}}
Stale == {w \in Worktree : records[w] # "none" /\ w \notin materialized}
Collectable ==
  {w \in Worktree : records[w] \in {"Ready", "Active", "Merged", "Discarded"} /\ keeper[w] = "dead"}

Doomed(p) == IF processes[p] = "starting" THEN Interrupted \cup Stale ELSE Collectable

Sweep ==
  /\ At("scan") /\ (processes[job.by] = "starting" => Transactions = {})
  /\ \E w \in Doomed(job.by) :
       job' = [job EXCEPT !.wt = w, !.step = "clean", !.then = "forget"]
  /\ UNCHANGED <<parentVars, registryVars, transactionVars, processes, spent>>

Swept ==
  /\ At("scan") /\ (processes[job.by] = "starting" => Transactions = {})
  /\ Doomed(job.by) = {} /\ Unlock
  /\ processes' = [processes EXCEPT ![job.by] = IF @ = "starting" THEN "collecting" ELSE "up"]
  /\ UNCHANGED <<parentVars, registryVars, transactionVars, spent>>

(***************************************************************************)
(* Faults.                                                                 *)
(***************************************************************************)
\* An I/O error in any other step returns from the call; what it has done
\* stays, and a maintenance that failed is run again.
StepFails ==
  /\ job.step \notin {"free", "scan", "materialize", "baseline", "backup", "journal", "apply"}
  /\ Spend("failures") /\ Unlock
  /\ UNCHANGED <<parentVars, registryVars, transactionVars, processes>>

\* The lock of a dead process is released by the operating system.
Crash(p) ==
  /\ processes[p] # "down" /\ Spend("crashes")
  /\ processes' = [processes EXCEPT ![p] = "down"]
  /\ keeper' = [w \in Worktree |-> IF keeper[w] = p THEN "dead" ELSE keeper[w]]
  /\ job' = IF job.by = p THEN Idle0 ELSE job
  /\ UNCHANGED <<parentVars, records, directoryVars, transactionVars>>

Restart(p) ==
  /\ processes[p] = "down"
  /\ processes' = [processes EXCEPT ![p] = "starting"]
  /\ UNCHANGED <<parentVars, registryVars, transactionVars, job, spent>>

JobStep ==
  \/ Materialize \/ MaterializeFails \/ Baseline \/ BaselineFails \/ Register
  \/ Backup \/ Prepare \/ PrepareFails \/ ApplyEntry \/ MarkApplied \/ ApplyFails
  \/ MarkAppliedFails \/ CommitMerge
  \/ Wipe \/ Restore \/ RollbackStuck \/ RemoveTransaction \/ RemoveSome
  \/ DiscardWrites \/ DiscardCleans \/ Clean \/ CleanBase \/ WriteRemoved \/ Forget
  \/ RecoverTransaction \/ Sweep \/ Swept \/ StepFails

WorktreeNext ==
  \/ JobStep
  \/ \E p \in Process : Maintain(p) \/ Crash(p) \/ Restart(p)
  \/ \E p \in Process, w \in Worktree : Create(p, w) \/ Merge(p, w) \/ Discard(p, w)
  \/ \E w \in Worktree : ChildWorks(w) \/ Promote(w)
  \/ \E x \in Path : UserEdits(x)

\* The writer works on, dead processes are started again and a started one
\* runs its maintenance; children, merges and discards owe nothing.
WorktreeFairness ==
  /\ WF_worktreeVars(JobStep)
  /\ \A p \in Process : WF_worktreeVars(Restart(p)) /\ WF_worktreeVars(Maintain(p))

WorktreeSpec == WorktreeInit /\ [][WorktreeNext]_worktreeVars /\ WorktreeFairness

(***************************************************************************)
(* Properties.                                                             *)
(***************************************************************************)
\* Every variable has its type (WorktreeRecord, MergeTransaction).
WorktreeTypeOK ==
  /\ DOMAIN parent \subseteq Path /\ DOMAIN expected \subseteq Path /\ dirty \subseteq Path
  /\ landed \cup undone \cup torn \cup strays \subseteq Worktree
  /\ \A w \in Worktree :
       /\ records[w] \in {"none", "Creating", "Ready", "Active", "MergePending", "Merged",
                          "Discarded", "Cleaning", "Removed"}
       /\ phases[w] \in {"none", "Prepared", "Applied"}
       /\ keeper[w] \in Process \cup {"nobody", "dead"}
  /\ Cardinality(Live) <= Capacity
  /\ job.step # "free" => job.by \in Process

Agrees(tree) == \A x \in Path \ dirty : Lookup(tree, x) = Lookup(expected, x)

\* phase3-merge-protocol.md: until a merge the parent is byte-identical, and
\* afterwards it has the whole change set, whatever fails or dies between.
\* Without a transaction to roll back, the parent is what merges of one step
\* would have made of it, edits under an open transaction aside.  Not covered
\* (abandoned) are a transaction removed before it was rolled back, a merge
\* begun while another is to be rolled back, which is undone with it, and two
\* that recovery reads wrongly: an Applied journal that was being rolled back
\* and a Prepared one that lost some of its backup.
AtomicMerge ==
  (\A w \in Worktree : phases[w] # "Prepared") /\ undone = {} /\ ~abandoned => Agrees(parent)

\* A record turns Merged after a successful apply only, never of a merge that
\* was rolled back (merge.rs:582).
MergedHasLanded == \A w \in Worktree : records[w] = "Merged" => w \in landed

\* A worktree directory, a backup or a journal always has its durable record,
\* unless the failed creation of its baseline left it: otherwise it would be an
\* orphan nobody may delete, or startup would refuse (UnknownWorktree) for good.
NothingStranded ==
  \A w \in Worktree :
    (w \in (materialized \cup based) \ strays \/ phases[w] # "none") => records[w] # "none"

\* Neither a merge nor a removal is left half done where nobody can finish it,
\* and no merge is recorded that did not happen.
NothingHalfDone == AtomicMerge /\ (~abandoned => MergedHasLanded) /\ NothingStranded

\* Once a process that starts has it to recover, a transaction is rolled back
\* or completed: no journal blocks the startup maintenance for ever, but one
\* whose backup was removed before it.
RestartResolves ==
  \A w \in Worktree, p \in Process :
    (phases[w] # "none" /\ processes[p] = "starting")
      ~> (phases[w] = "none" \/ w \in torn \ backed)

\* RecoveryReport: prepared merges are restored to their pre-merge parent
\* bytes.  Whatever a rollback restores is the parent before the merge.
RestoresParentBytes ==
  [][Restore => \A x \in Path \ dirty : Lookup(parent', x) = Lookup(expected, x)]_worktreeVars
=============================================================================
