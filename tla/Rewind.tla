-------------------------------- MODULE Rewind --------------------------------
(***************************************************************************)
(* Rewind: checkpoints of a session and the way back to one.               *)
(* coding-agent: application/operation/dispatch.rs (CreateRewindCheckpoint *)
(* and Rewind), services/review.rs (the workspace and the tracker),        *)
(* session/service/commands.rs and queries.rs, repository/store.rs (the    *)
(* journal and its branches), runtime/facade/lifecycle.rs (opening);       *)
(* workspace-runtime rewind.rs (capture and restore); change-tracker       *)
(* hunk/checkpoint.rs.                                                     *)
(*                                                                         *)
(* A file's text is one of a few; the tracker is what it believes the text *)
(* of each file to be.  A branch is named after the SessionRewound event   *)
(* that made it, an event after its session_sequence, a checkpoint after   *)
(* its place among the sidecar files.  A turn of the agent is one edit and *)
(* one event, and is not interrupted: SessionLog has its crashes.          *)
(***************************************************************************)
EXTENDS Naturals, Sequences, FiniteSets

CONSTANTS
  NumEntries,      \* how many files the workspace may have
  Texts,           \* what a file may hold
  MaxRecords,      \* bound: events in the journal, and troubles
  MaxTurns,        \* bound: those that are turns
  MaxTroubles,     \* bound: crashes, failures and writes of other programs
  MaxStory         \* bound: those and checkpoints

NoFile == "none"
Torn == "torn"
Untracked == "untracked"

RewindConfig ==
  /\ {NumEntries, MaxRecords, MaxTurns, MaxTroubles, MaxStory} \subseteq Nat
  /\ {NoFile, Torn, Untracked} \cap Texts = {}

ASSUME RewindAssumption == RewindConfig

VARIABLES
  workspace,    \* the text of every file
  tracker,      \* HunkTracker: the text it believes every file to have
  journal,      \* the events of the session
  manifest,     \* active_branch_id on disk
  branch,       \* active_branch_id in the writer's snapshot
  sidecar,      \* the files of the directory rewind/
  session,      \* "open", "closed", "opening" or "refused"
  rewind,       \* the operation in hand, or the session's opening
  disturbances, \* how many crashes, failures and outside writes there were
  before,       \* history: what the operation found, and what others wrote since
  told          \* history: the turns of each branch

rewindVars == <<workspace, tracker, journal, manifest, branch, sidecar, session, rewind,
                disturbances, before, told>>
sessionVars == <<journal, manifest, branch, sidecar, session, told>>

Entry == 1 .. NumEntries
RootBranch == 0
Empty == [f \in Entry |-> NoFile]
NewTracker == [f \in Entry |-> Untracked]
ReviewOf(w, t) == [workspace |-> w, tracker |-> t]
NoReview == ReviewOf(<<>>, <<>>)
NothingBefore == [review |-> NoReview, manifest |-> RootBranch, touched |-> {}]

Resting(result) ==
  [task |-> "none", step |-> "idle", reading |-> "none", at |-> 1, seen |-> <<>>,
   id |-> 0, from |-> NoReview, to |-> NoReview, back |-> FALSE, undo |-> FALSE,
   bad |-> FALSE, result |-> result]

RewindInit ==
  /\ workspace = Empty /\ tracker = NewTracker
  /\ journal = <<>> /\ manifest = RootBranch /\ branch = RootBranch /\ sidecar = <<>>
  /\ session = "open" /\ rewind = Resting("none")
  /\ disturbances = 0 /\ before = NothingBefore
  /\ told = [b \in 0 .. MaxRecords |-> {}]

Tellable == Len(sidecar) + disturbances < MaxStory
Disturbed == disturbances < MaxTroubles /\ Tellable /\ disturbances' = disturbances + 1
Calm == UNCHANGED disturbances

\* What was read is not what it should be, or something could not be read.
Fails(stale) == (stale /\ Calm) \/ Disturbed

(***************************************************************************)
(* branch_events: the branch, its parent up to the sequence it was rewound *)
(* to, and so on to the root.                                              *)
(***************************************************************************)
IsRewound(b) == b \in DOMAIN journal /\ journal[b].kind = "rewound"

Lineage(b) ==
  LET line[c \in 0 .. Len(journal)] ==
        {c} \cup IF IsRewound(c) THEN line[journal[c].branch] ELSE {}
  IN  line[b]

\* Mutant: only the parent's own events are cut off.
Visible_NoCutoff(b) == {e \in DOMAIN journal : journal[e].branch \in Lineage(b)}

Visible(b) ==
  {e \in DOMAIN journal :
     /\ journal[e].branch \in Lineage(b)
     /\ \A c \in Lineage(b) :
          IsRewound(c) /\ journal[c].branch = journal[e].branch => e <= journal[c].cutoff}

\* committed_through_session_sequence of the active branch.
CommittedThrough(b) ==
  IF Visible(b) = {} THEN 0 ELSE CHOOSE e \in Visible(b) : \A d \in Visible(b) : d <= e

Record(kind, cutoff, id) == [kind |-> kind, branch |-> branch, cutoff |-> cutoff, id |-> id]

(***************************************************************************)
(* What happens between rewinds: a turn, a write of another program, the   *)
(* watcher's event for it.                                                 *)
(***************************************************************************)
Ready == session = "open" /\ rewind.step = "idle" /\ Len(journal) + disturbances < MaxRecords

Turn ==
  /\ Ready /\ Calm
  /\ Cardinality({e \in DOMAIN journal : journal[e].kind = "turn"}) < MaxTurns
  /\ \E f \in Entry, t \in Texts \cup {NoFile} :
       /\ t # workspace[f]
       /\ workspace' = [workspace EXCEPT ![f] = t]
       /\ tracker' = [tracker EXCEPT ![f] = t]
  /\ journal' = Append(journal, Record("turn", 0, 0))
  /\ told' = [told EXCEPT ![branch] = @ \cup {Len(journal')}]
  /\ branch' = manifest
  /\ UNCHANGED <<manifest, sidecar, session, rewind, before>>

OutsideWrite(f, t) ==
  /\ Disturbed
  /\ workspace[f] # t /\ workspace' = [workspace EXCEPT ![f] = t]
  /\ before' = [before EXCEPT !.touched = IF rewind.step = "idle" THEN @ ELSE @ \cup {f}]
  /\ UNCHANGED <<tracker, sessionVars, rewind>>

ObserveWrite(f) ==
  /\ session = "open" /\ tracker[f] \notin {Untracked, workspace[f]}
  /\ tracker' = [tracker EXCEPT ![f] = workspace[f]]
  /\ Calm /\ UNCHANGED <<workspace, sessionVars, rewind, before>>

(***************************************************************************)
(* The operations begin alike: ReviewService::checkpoint takes the         *)
(* tracker's checkpoint and then reads the workspace, file by file.        *)
(***************************************************************************)
BeginOperation(task, id, to) ==
  /\ Ready /\ Calm
  /\ rewind' = [Resting("none") EXCEPT !.task = task, !.step = "capture",
                 !.reading = "current", !.id = id, !.to = to,
                 !.from = ReviewOf(<<>>, tracker)]
  /\ before' = [review |-> ReviewOf(workspace, tracker), manifest |-> manifest,
                touched |-> {f \in Entry : tracker[f] \notin {Untracked, workspace[f]}}]
  /\ UNCHANGED <<workspace, tracker, sessionVars>>

\* A checkpoint needs a committed leaf.
CreateCheckpoint ==
  /\ Tellable /\ \E e \in Visible(branch) : journal[e].kind = "turn"
  /\ BeginOperation("create", Len(sidecar) + 1, NoReview)

BeginRewind(c) ==
  /\ c \in DOMAIN sidecar /\ sidecar[c].saved
  /\ BeginOperation("rewind", c, sidecar[c].review)

ReadEntry ==
  /\ rewind.step = "capture" /\ Len(rewind.seen) < NumEntries
  /\ rewind' = [rewind EXCEPT !.seen = Append(@, workspace[Len(@) + 1])]
  /\ Calm /\ UNCHANGED <<workspace, tracker, sessionVars, before>>

Looked(reading) ==
  /\ rewind.step = "capture" /\ rewind.reading = reading /\ Len(rewind.seen) = NumEntries
  /\ UNCHANGED workspace
Captured(reading) == Looked(reading) /\ Calm

Finish(result) == rewind' = Resting(result) /\ before' = NothingBefore

Restoring(r) == [r EXCEPT !.step = "preflight", !.at = 1, !.seen = <<>>]
Recapture(reading) ==
  rewind' = [rewind EXCEPT !.step = "capture", !.reading = reading, !.seen = <<>>]

\* validate_tracker_workspace.
TrackerAgrees == \A f \in Entry : rewind.from.tracker[f] \in {Untracked, rewind.seen[f]}

CheckpointStale ==
  /\ Looked("current") /\ Fails(~TrackerAgrees) /\ Finish("failed")
  /\ UNCHANGED <<tracker, sessionVars>>

SaveSidecar ==
  /\ Captured("current") /\ TrackerAgrees /\ rewind.task = "create"
  /\ sidecar' = Append(sidecar, [saved |-> TRUE, branch |-> branch,
                                 cutoff |-> CommittedThrough(branch),
                                 review |-> ReviewOf(rewind.seen, rewind.from.tracker),
                                 told |-> told[branch]])
  /\ rewind' = [rewind EXCEPT !.step = "append", !.seen = <<>>]
  /\ UNCHANGED <<tracker, journal, manifest, branch, session, told, before>>

\* restore_workspace_and_tracker stops the tracker first.
StartRestore ==
  /\ Captured("current") /\ TrackerAgrees /\ rewind.task = "rewind"
  /\ tracker' = NewTracker
  /\ rewind' = [Restoring(rewind) EXCEPT !.from.workspace = rewind.seen]
  /\ UNCHANGED <<sessionVars, before>>

Abandon == Finish(IF rewind.undo THEN "partial" ELSE "failed")

\* stop_tracking gives the tracker up and then fails on an error it had kept;
\* the rewind ends at once.
StopFails ==
  /\ rewind.step = "preflight" /\ rewind.at = 1 /\ ~rewind.back
  /\ Disturbed /\ Abandon /\ UNCHANGED <<workspace, tracker, sessionVars>>

(***************************************************************************)
(* restore_workspace_snapshot: every file of the plan must hold what is    *)
(* expected; then each is replaced; a failure replaces back, last first,   *)
(* what shows its replacement.                                             *)
(***************************************************************************)
Expected == (IF rewind.back THEN rewind.to ELSE rewind.from).workspace
Replacement == (IF rewind.back THEN rewind.from ELSE rewind.to).workspace
InPlan(f) == {Expected[f], Replacement[f]} # {NoFile}

At(step) ==
  /\ rewind.step = step /\ rewind.at \in Entry
  /\ UNCHANGED <<tracker, sessionVars, before>>
Past(step) ==
  /\ rewind.step = step /\ rewind.at \notin Entry
  /\ Calm /\ UNCHANGED <<workspace, sessionVars>>
NextEntry(r) == rewind' = [r EXCEPT !.at = @ + 1]
PreviousEntry(r) == rewind' = [r EXCEPT !.at = @ - 1]
Puts(f, t) == workspace' = [workspace EXCEPT ![f] = t]

PreflightEntry ==
  /\ At("preflight") /\ Calm /\ UNCHANGED workspace
  /\ InPlan(rewind.at) => workspace[rewind.at] = Expected[rewind.at]
  /\ NextEntry(rewind)

\* The restore fails with nothing changed, or with all changed back; a
\* restore that was itself to change back leaves the operation in doubt.
PreflightStale ==
  /\ rewind.step = "preflight" /\ rewind.at \in Entry /\ InPlan(rewind.at)
  /\ Fails(workspace[rewind.at] # Expected[rewind.at])
  /\ IF rewind.back THEN Finish("partial") ELSE Recapture("restart") /\ UNCHANGED before
  /\ UNCHANGED <<workspace, tracker, sessionVars>>

PreflightDone ==
  /\ Past("preflight") /\ UNCHANGED <<tracker, before>>
  /\ rewind' = [rewind EXCEPT !.step = "apply", !.at = 1]

\* A file that was edited in place since the preflight is replaced all the
\* same; one that is not in the plan is passed over.
ApplyEntry ==
  /\ At("apply") /\ Calm
  /\ InPlan(rewind.at) => (workspace[rewind.at] = NoFile) = (Expected[rewind.at] = NoFile)
  /\ Puts(rewind.at, IF InPlan(rewind.at) THEN Replacement[rewind.at] ELSE workspace[rewind.at])
  /\ NextEntry(rewind)

RollBack == rewind' = [rewind EXCEPT !.step = "rollback"]

\* revalidate_identity: another file has the name, or one that had none has it.
ApplyRefused ==
  /\ At("apply") /\ Calm /\ UNCHANGED workspace
  /\ InPlan(rewind.at) /\ workspace[rewind.at] # Expected[rewind.at]
  /\ RollBack

Leaves(t) == {workspace[rewind.at], t} \cup IF t = NoFile THEN {} ELSE {Torn}

ApplyFails ==
  /\ At("apply") /\ Disturbed /\ InPlan(rewind.at)
  /\ \E t \in Leaves(Replacement[rewind.at]) : Puts(rewind.at, t)
  /\ RollBack

ApplyDone ==
  /\ Past("apply") /\ UNCHANGED <<tracker, before>>
  /\ Recapture(IF rewind.back THEN "restart" ELSE "target")

RollbackEntry ==
  /\ At("rollback") /\ Calm
  /\ IF InPlan(rewind.at) /\ workspace[rewind.at] # Replacement[rewind.at]
       THEN UNCHANGED workspace /\ PreviousEntry([rewind EXCEPT !.bad = TRUE])
       ELSE Puts(rewind.at, IF InPlan(rewind.at) THEN Expected[rewind.at]
                                                 ELSE workspace[rewind.at])
            /\ PreviousEntry(rewind)

RollbackFails ==
  /\ At("rollback") /\ Disturbed
  /\ InPlan(rewind.at) /\ workspace[rewind.at] = Replacement[rewind.at]
  /\ \E t \in Leaves(Expected[rewind.at]) : Puts(rewind.at, t)
  /\ PreviousEntry([rewind EXCEPT !.bad = TRUE])

RollbackDone ==
  /\ Past("rollback") /\ UNCHANGED tracker
  /\ IF rewind.bad \/ rewind.back THEN Finish("partial")
     ELSE Recapture("restart") /\ UNCHANGED before

(***************************************************************************)
(* ReviewService::restore_checkpoint: the workspace must be that of the    *)
(* checkpoint, and every file that is tracked is read once more.           *)
(***************************************************************************)
Matches(review) ==
  /\ rewind.seen = review.workspace
  /\ \A f \in Entry : review.tracker[f] \in {Untracked, workspace[f]}

TargetReached ==
  /\ Captured("target") /\ Matches(rewind.to)
  /\ tracker' = rewind.to.tracker
  /\ IF rewind.undo THEN Finish(rewind.result)
     ELSE rewind' = [rewind EXCEPT !.step = "append", !.seen = <<>>] /\ UNCHANGED before
  /\ UNCHANGED sessionVars

\* The tracker is stopped and the workspace changed back.
TargetStale ==
  /\ Looked("target") /\ Fails(~Matches(rewind.to))
  /\ tracker' = NewTracker
  /\ rewind' = Restoring([rewind EXCEPT !.back = TRUE])
  /\ UNCHANGED <<sessionVars, before>>

\* The tracker had been started again, and stopping it fails: the workspace
\* stays where the restore has brought it.
StopAgainFails ==
  /\ Looked("target") /\ rewind.seen = rewind.to.workspace
  /\ tracker' = NewTracker
  /\ Disturbed /\ Abandon /\ UNCHANGED sessionVars

TrackerRestarted ==
  /\ Captured("restart") /\ Matches(rewind.from)
  /\ tracker' = rewind.from.tracker
  /\ Abandon /\ UNCHANGED sessionVars

RestartStale ==
  /\ Looked("restart") /\ Fails(~Matches(rewind.from)) /\ Finish("partial")
  /\ UNCHANGED <<tracker, sessionVars>>

(***************************************************************************)
(* The writer's commit of the operation: the event, the manifest, and the  *)
(* manifest read again.                                                    *)
(***************************************************************************)
Commits(step) ==
  /\ rewind.step = step /\ rewind.task \in {"create", "rewind"}
  /\ UNCHANGED <<workspace, session>>

\* Mutant: the workspace stays where the rewind has brought it.
CommitError_Stays(result) ==
  /\ Finish(result) /\ UNCHANGED tracker
  /\ sidecar' = IF rewind.task = "create" THEN [sidecar EXCEPT ![rewind.id].saved = FALSE]
                                          ELSE sidecar

\* A checkpoint's file is removed again; a rewind goes back where it was.
CommitError(result) ==
  IF rewind.task = "create"
    THEN /\ sidecar' = [sidecar EXCEPT ![rewind.id].saved = FALSE]
         /\ Finish(result) /\ UNCHANGED tracker
    ELSE /\ tracker' = NewTracker
         /\ rewind' = Restoring([rewind EXCEPT !.from = rewind.to, !.to = rewind.from,
                                               !.undo = TRUE, !.result = result])
         /\ UNCHANGED <<sidecar, before>>

BelongsElsewhere == rewind.task = "rewind" /\ sidecar[rewind.id].branch # branch

CommitRefused ==
  /\ Commits("append") /\ Calm /\ BelongsElsewhere /\ CommitError("failed")
  /\ UNCHANGED <<journal, manifest, branch, told>>

Event ==
  IF rewind.task = "create" THEN Record("created", 0, rewind.id)
  ELSE Record("rewound", sidecar[rewind.id].cutoff, rewind.id)

Logs ==
  /\ journal' = Append(journal, Event)
  /\ told' = IF rewind.task = "create" THEN told
             ELSE [told EXCEPT ![Len(journal')] = sidecar[rewind.id].told]

AppendEvent ==
  /\ Commits("append") /\ Calm /\ ~BelongsElsewhere /\ Logs
  /\ rewind' = [rewind EXCEPT !.step = "manifest"]
  /\ UNCHANGED <<tracker, manifest, branch, sidecar, before>>

\* The lines may have reached the file all the same.
AppendFails ==
  /\ Commits("append") /\ Disturbed /\ ~BelongsElsewhere /\ CommitError("failed")
  /\ Logs \/ UNCHANGED <<journal, told>>
  /\ UNCHANGED <<manifest, branch>>

Activates == manifest' = IF rewind.task = "rewind" THEN Len(journal) ELSE manifest

UpdateManifest ==
  /\ Commits("manifest") /\ Calm /\ Activates
  /\ rewind' = [rewind EXCEPT !.step = "refresh"]
  /\ UNCHANGED <<tracker, journal, branch, sidecar, told, before>>

ManifestFails ==
  /\ Commits("manifest") /\ Disturbed /\ CommitError("partial")
  /\ UNCHANGED <<journal, manifest, branch, told>>

\* Mutant: a checkpoint is removed once it has been used.
Refresh_Consumes ==
  /\ Commits("refresh") /\ Calm /\ Finish("done") /\ branch' = manifest
  /\ sidecar' = [sidecar EXCEPT ![rewind.id].saved = rewind.task = "create"]
  /\ UNCHANGED <<tracker, journal, manifest, told>>

Refresh ==
  /\ Commits("refresh") /\ Calm /\ Finish("done") /\ branch' = manifest
  /\ UNCHANGED <<tracker, journal, manifest, sidecar, told>>

RefreshFails ==
  /\ Commits("refresh") /\ Disturbed /\ CommitError("partial")
  /\ UNCHANGED <<journal, manifest, branch, told>>

(***************************************************************************)
(* The session is closed or its process dies; when it opens again on a     *)
(* rewound branch the workspace must be that of the checkpoint.            *)
(***************************************************************************)
GoesDown ==
  /\ session' = "closed" /\ rewind' = Resting("none") /\ before' = NothingBefore
  /\ tracker' = NewTracker /\ branch' = RootBranch
  /\ UNCHANGED <<journal, manifest, sidecar, told>>

CloseSession ==
  /\ session = "open" /\ rewind.step = "idle" /\ Calm /\ GoesDown
  /\ UNCHANGED workspace

\* What the file in hand holds when the process dies: files are written in place.
Dying ==
  IF rewind.at \notin Entry THEN {}
  ELSE (IF rewind.step = "apply" /\ InPlan(rewind.at) THEN Leaves(Replacement[rewind.at]) ELSE {})
       \cup IF rewind.step = "rollback" /\ InPlan(rewind.at)
                     /\ workspace[rewind.at] = Replacement[rewind.at]
              THEN Leaves(Expected[rewind.at]) ELSE {}

DieAnywhere ==
  /\ session # "closed" /\ Disturbed /\ GoesDown
  /\ UNCHANGED workspace \/ \E t \in Dying : Puts(rewind.at, t)

\* startup_rewind_checkpoint: the event of the active branch and its checkpoint.
Startup == sidecar[journal[manifest].id]
CheckpointLoads ==
  manifest # RootBranch =>
    /\ IsRewound(manifest) /\ journal[manifest].id \in DOMAIN sidecar
    /\ Startup.saved /\ Startup.branch = journal[manifest].branch
    /\ Startup.cutoff = journal[manifest].cutoff

OpenSession ==
  /\ session \in {"closed", "refused"} /\ Calm
  /\ IF manifest = RootBranch
       THEN session' = "open" /\ branch' = manifest /\ UNCHANGED rewind
       ELSE /\ CheckpointLoads /\ UNCHANGED branch
            /\ session' = "opening"
            /\ rewind' = [Resting("none") EXCEPT !.task = "startup", !.step = "capture",
                            !.reading = "startup", !.to = Startup.review]
  /\ UNCHANGED <<workspace, tracker, journal, manifest, sidecar, told, before>>

StartupRestored ==
  /\ Captured("startup") /\ Matches(rewind.to) /\ Finish("none")
  /\ session' = "open" /\ branch' = manifest /\ tracker' = rewind.to.tracker
  /\ UNCHANGED <<journal, manifest, sidecar, told>>

StartupStale ==
  /\ Looked("startup") /\ Fails(~Matches(rewind.to)) /\ Finish("none")
  /\ session' = "refused"
  /\ UNCHANGED <<tracker, journal, manifest, branch, sidecar, told>>

(***************************************************************************)
(* The next-state relation.                                                *)
(***************************************************************************)
RestoreStep ==
  \/ PreflightEntry \/ PreflightStale \/ PreflightDone
  \/ ApplyEntry \/ ApplyRefused \/ ApplyFails \/ ApplyDone
  \/ RollbackEntry \/ RollbackFails \/ RollbackDone
CaptureStep ==
  \/ ReadEntry \/ CheckpointStale \/ SaveSidecar \/ StartRestore \/ StopFails
  \/ TargetReached \/ TargetStale \/ StopAgainFails \/ TrackerRestarted \/ RestartStale
CommitStep ==
  \/ CommitRefused \/ AppendEvent \/ AppendFails
  \/ UpdateManifest \/ ManifestFails \/ Refresh \/ RefreshFails
SessionStep ==
  CloseSession \/ DieAnywhere \/ OpenSession \/ StartupRestored \/ StartupStale

RewindNext ==
  \/ Turn \/ CreateCheckpoint \/ \E c \in DOMAIN sidecar : BeginRewind(c)
  \/ \E f \in Entry : ObserveWrite(f) \/ \E t \in Texts \cup {NoFile} : OutsideWrite(f, t)
  \/ CaptureStep \/ RestoreStep \/ CommitStep \/ SessionStep

RewindSpec == RewindInit /\ [][RewindNext]_rewindVars

(***************************************************************************)
(* Properties.                                                             *)
(***************************************************************************)
EntryText == Texts \cup {NoFile, Torn}
Snapshot == {<<>>} \cup [Entry -> EntryText]
Tracked == [Entry -> EntryText \cup {Untracked}]
Review == [workspace : Snapshot, tracker : Tracked \cup {<<>>}]

\* Every variable has its type.
RewindTypeOK ==
  /\ workspace \in [Entry -> EntryText] /\ tracker \in Tracked
  /\ journal \in Seq([kind : {"turn", "created", "rewound"}, branch : Nat, cutoff : Nat, id : Nat])
  /\ manifest \in Nat /\ branch \in Nat
  /\ sidecar \in Seq([saved : BOOLEAN, branch : Nat, cutoff : Nat, review : Review,
                      told : SUBSET Nat])
  /\ session \in {"open", "closed", "opening", "refused"}
  /\ rewind.from \in Review /\ rewind.to \in Review /\ rewind.at \in Nat
  /\ disturbances \in Nat /\ before.review \in Review
  /\ told \in [0 .. MaxRecords -> SUBSET Nat]

Ends(result) == rewind.task = "rewind" /\ rewind'.step = "idle" /\ rewind'.result = result
AsIn(review, f) == workspace'[f] = review.workspace[f] /\ tracker'[f] = review.tracker[f]
FilesAsIn(review) == \A f \in Entry \ before.touched : workspace'[f] = review.workspace[f]

\* A rewind changes the workspace, the tracker and the branch together or
\* none of them, but for the files that others wrote meanwhile; and when no
\* one writes and nothing fails it is not left in doubt (phase4-rewind.md:12).
\* The two exceptions are the code's: a tracker that could not be stopped is
\* lost and the files are as before (review.rs:169), and when that happens after
\* the restore they are those of the checkpoint, with the branch where it was
\* (review.rs:187).
WholeStep ==
  /\ Ends("done") =>
       /\ manifest' # before.manifest /\ branch' = manifest'
       /\ \A f \in Entry \ before.touched : AsIn(sidecar[rewind.id].review, f)
  /\ Ends("failed") =>
       /\ manifest' = before.manifest
       /\ \/ \A f \in Entry \ before.touched : AsIn(before.review, f)
          \/ StopFails /\ FilesAsIn(before.review)
          \/ StopAgainFails /\ FilesAsIn(sidecar[rewind.id].review)
  /\ Ends("partial") => disturbances' # 0

RewindIsWhole == [][WholeStep]_rewindVars

\* A branch replays the turns its checkpoint was taken after and its own,
\* however often the session was rewound since (repository/store.rs:663).
BranchReplays ==
  \A b \in {RootBranch} \cup {e \in DOMAIN journal : IsRewound(e)} :
    {e \in Visible(b) : journal[e].kind = "turn"} = told[b]

\* The active branch always finds the event that made it and a checkpoint that
\* matches the event, else the session could never be opened again: no crash,
\* failure or later operation comes between them (session/service/queries.rs:90).
StartupLoads == CheckpointLoads

\* A session that nobody disturbed opens again (phase4-rewind.md:36: it is
\* refused when the workspace was changed from outside after shutdown).
RefusedForOutsideOnly == session = "refused" => disturbances # 0
===============================================================================
