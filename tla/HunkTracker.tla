------------------------------ MODULE HunkTracker ------------------------------
(***************************************************************************)
(* The change tracker and the review built on it: change-tracker hunk.rs   *)
(* (the actor and its forwarder), hunk/actor.rs and hunk/diff.rs (receipts *)
(* of tools matched with file system events, hunks and whom they are       *)
(* credited to), and runtime/file_review.rs of coding-agent (accept and    *)
(* reject).                                                                *)
(*                                                                         *)
(* One file that always exists.  Its text is a value for every place, of   *)
(* so many lines, and places are so far apart that each is a hunk of its   *)
(* own; place 0 is the whole file.  Its fence is what FileMutations shows  *)
(* of one: it has at most one holder.  The sequence number of a snapshot   *)
(* is modelled by whether the snapshot a request names is still the latest.*)
(***************************************************************************)
EXTENDS Naturals, Sequences, SequencesExt

CONSTANTS
  NumPlaces,   \* how many places the file has
  Values,      \* what a place may hold; 0 at first
  LinesOf,     \* how many lines a value has
  Between,     \* unchanged lines before, between and after the places
  Editor,      \* tool calls of the agent, each of one edit
  Reviewer,    \* front ends, each with one request
  MaxOutside   \* bound: writes of other programs, and events the watcher loses

Place == 1 .. NumPlaces

Nobody == "nobody"

\* context_radius: unchanged lines a hunk shows on either side.
Context == 3

HunkConfig ==
  /\ NumPlaces \in Nat \ {0} /\ 0 \in Values
  /\ LinesOf \in [Values -> Nat \ {0}] /\ Between \in Nat /\ Between > 2 * Context
  /\ Editor \cap Reviewer = {} /\ {Nobody, "outside"} \cap (Editor \cup Reviewer) = {}
  /\ MaxOutside \in Nat

ASSUME HunkAssumption == HunkConfig

VARIABLES
  text,      \* the file on disk
  author,    \* who wrote it last
  holder,    \* who has its fence
  unseen,    \* whether the watcher has yet to deliver an event for it
  edits,     \* what each tool call read and what it wrote
  tracked,   \* FileState: baseline, current, active snapshot and its hunks
  causal,    \* pending_receipts and pending_events, in the order they expire
  gap,       \* ReconcileState::Required
  review,    \* the request of each front end
  outside    \* how many outside writes and lost events there were

workspaceFileVars == <<text, author, holder, unseen>>
trackerVars == <<tracked, causal, gap>>
hunkVars == <<workspaceFileVars, edits, trackerVars, review, outside>>

NoText == <<>>
Original == [p \in Place |-> 0]
Text == [Place -> Values]

NoEdit == [step |-> "new", before |-> NoText, after |-> NoText]
Unasked == [step |-> "new", place |-> 0, after |-> NoText, plan |-> NoText, stale |-> FALSE]

HunkInit ==
  /\ text = Original /\ author = Nobody /\ holder = Nobody /\ unseen = FALSE
  /\ edits = [e \in Editor |-> NoEdit]
  /\ tracked = [baseline |-> NoText, current |-> NoText, shown |-> NoText, hunks |-> <<>>]
  /\ causal = <<>> /\ gap = FALSE
  /\ review = [r \in Reviewer |-> Unasked] /\ outside = 0

(***************************************************************************)
(* Hunks.  `change` stands for the fingerprint of a hunk, its removed and  *)
(* added lines; without a baseline the only hunk is the text as it is now. *)
(***************************************************************************)

\* The last line of every place of a text.
LastLines(content) ==
  LET last[p \in 0 .. NumPlaces] ==
        IF p = 0 THEN 0 ELSE last[p - 1] + Between + LinesOf[content[p]]
  IN  last

\* The lines a hunk shows of the new text.
NewRange(content, p) ==
  [start |-> LastLines(content)[p - 1] + Between + 1 - Context,
   lines |-> LinesOf[content[p]] + 2 * Context]

\* Without a baseline, or of a diff too large, the hunk is synthetic.
ParsedHunks(baseline, current) ==
  IF baseline = NoText
    THEN {[at |-> 0, range |-> [start |-> 0, lines |-> 0], change |-> current]}
  ELSE {[at |-> p, range |-> NewRange(current, p), change |-> <<baseline[p], current[p]>>] :
          p \in {q \in Place : baseline[q] # current[q]}}

Distance(a, b) == IF a < b THEN b - a ELSE a - b

\* range_overlap.
Overlap(a, b) ==
  LET first == IF a.start < b.start THEN b.start ELSE a.start
      end == IF a.start + a.lines < b.start + b.lines THEN a.start + a.lines
             ELSE b.start + b.lines
  IN  IF first < end THEN end - first ELSE 0

Alike(hunk, old) == {i \in DOMAIN old : old[i].change = hunk.change}

\* The one it overlaps most, the last of equals.
MostOverlap(hunk, old) ==
  LET Shared(i) == Overlap(old[i].range, hunk.range) IN
  {i \in DOMAIN old :
     Shared(i) > 0 /\ \A j \in DOMAIN old : Shared(j) < Shared(i) \/ (Shared(j) = Shared(i) /\ j <= i)}

\* Mutant: the first with the same fingerprint, not the nearest.
BestIdentityMatch_First(hunk, old) ==
  IF Alike(hunk, old) = {} THEN MostOverlap(hunk, old)
  ELSE {i \in Alike(hunk, old) : \A j \in Alike(hunk, old) : i <= j}

\* The identity a hunk takes over, one of `old` or none: the nearest with the
\* same fingerprint, the first of equals, else the one it overlaps most.  Lines
\* are counted in the text each was parsed from, so that a change above a hunk
\* moves it, and may move it past another.
BestIdentityMatch(hunk, old) ==
  LET D(i) == Distance(old[i].range.start, hunk.range.start) IN
  IF Alike(hunk, old) = {} THEN MostOverlap(hunk, old)
  ELSE {i \in Alike(hunk, old) :
          \A j \in Alike(hunk, old) \ {i} : D(i) < D(j) \/ (D(i) = D(j) /\ i < j)}

\* One hunk after the other takes over an identity nobody took before it.
TakesOver(taken, hunk, source) ==
  LET match == BestIdentityMatch(hunk, taken.old)
      kept == match \cap Alike(hunk, taken.old)
      credit == IF kept = {} THEN source ELSE taken.old[CHOOSE i \in kept : TRUE].source IN
  [old |-> IF match = {} THEN taken.old ELSE RemoveAt(taken.old, CHOOSE i \in match : TRUE),
   hunks |-> Append(taken.hunks, [at |-> hunk.at, range |-> hunk.range, change |-> hunk.change,
                                  source |-> credit])]

\* In the order of the file.
Credited(old, hunks, source) ==
  LET taken[p \in 0 .. NumPlaces + 1] ==
        IF p = 0 THEN [old |-> old, hunks |-> <<>>]
        ELSE LET here == {h \in hunks : h.at = p - 1} IN
             IF here = {} THEN taken[p - 1]
             ELSE TakesOver(taken[p - 1], CHOOSE h \in here : TRUE, source)
  IN  taken[NumPlaces + 1].hunks

\* recompute_and_record.
Recompute(baseline, current, source) ==
  tracked' = [baseline |-> baseline, current |-> current,
              shown |-> IF baseline = current THEN NoText ELSE current,
              hunks |-> IF baseline = current THEN <<>>
                        ELSE Credited(tracked.hunks, ParsedHunks(baseline, current), source)]

\* A request that is under way when a snapshot is replaced names an old one.
Outdated ==
  [r \in Reviewer |-> [review[r] EXCEPT !.stale = review[r].step \notin {"new", "over"}]]

(***************************************************************************)
(* The actor of the tracker.                                               *)
(***************************************************************************)
Waiting(kind, seen) == {i \in DOMAIN causal : causal[i] = [kind |-> kind, seen |-> seen]}
Earliest(S) == CHOOSE i \in S : \A j \in S : i <= j

\* record_receipt refuses what is no longer on disk or began elsewhere.
Believable(before, after) == text = after /\ tracked.current \in {NoText, before}

Receive(before, after, source) ==
  IF Believable(before, after) THEN
    /\ Recompute(IF tracked.current = NoText THEN before ELSE tracked.baseline, after, source)
    /\ LET events == Waiting("event", after) IN
         causal' = IF events # {} THEN RemoveAt(causal, Earliest(events))
                    ELSE Append(causal, [kind |-> "receipt", seen |-> after])
  ELSE UNCHANGED <<tracked, causal>>

\* observe_workspace, for an event the forwarder passes on.
Observe ==
  /\ unseen /\ unseen' = FALSE
  /\ LET receipts == Waiting("receipt", text) IN
       IF receipts # {}
         THEN /\ causal' = RemoveAt(causal, Earliest(receipts))
              /\ tracked' = [tracked EXCEPT !.current = text]
         ELSE /\ causal' = Append(causal, [kind |-> "event", seen |-> text])
              /\ UNCHANGED tracked
  /\ UNCHANGED <<text, author, holder, edits, gap, review, outside>>

\* flush_expired, which every command and every tick begins with: the causal
\* window of the oldest closes, and an event nobody claimed was an outsider's.
WindowCloses ==
  /\ causal # <<>> /\ causal' = Tail(causal)
  /\ IF Head(causal).kind = "event"
       THEN Recompute(tracked.baseline, Head(causal).seen, "outside") /\ review' = Outdated
       ELSE UNCHANGED <<tracked, review>>
  /\ UNCHANGED <<workspaceFileVars, edits, gap, outside>>

Disturbs == outside < MaxOutside /\ outside' = outside + 1

\* The watcher or the broadcast channel lost events.
WatchGap ==
  /\ Disturbs /\ unseen' \in {unseen, FALSE}
  /\ gap' = TRUE /\ causal' = <<>>
  /\ UNCHANGED <<text, author, holder, edits, tracked, review>>

\* The forwarder asks for it when it has lagged.
Reconcile ==
  /\ gap /\ gap' = FALSE
  /\ IF tracked.current \in {NoText, text} THEN UNCHANGED <<tracked, review>>
     ELSE Recompute(tracked.baseline, text, "outside") /\ review' = Outdated
  /\ UNCHANGED <<workspaceFileVars, edits, causal, outside>>

(***************************************************************************)
(* Tools write under the fence and report after they gave it up; other     *)
(* programs write when they like.                                          *)
(***************************************************************************)
ToolReads(e) ==
  /\ edits[e].step = "new" /\ holder = Nobody /\ holder' = e
  /\ edits' = [edits EXCEPT ![e] = [step |-> "read", before |-> text, after |-> NoText]]
  /\ UNCHANGED <<text, author, unseen, trackerVars, review, outside>>

ToolWrites(e) ==
  /\ edits[e].step = "read" /\ holder' = Nobody
  /\ \E p \in Place, v \in Values :
       /\ edits[e].before[p] # v
       /\ text' = [edits[e].before EXCEPT ![p] = v]
  /\ edits' = [edits EXCEPT ![e].step = "wrote", ![e].after = text']
  /\ author' = e /\ unseen' = TRUE
  /\ UNCHANGED <<trackerVars, review, outside>>

ToolReports(e) ==
  /\ edits[e].step = "wrote" /\ edits' = [edits EXCEPT ![e].step = "done"]
  /\ Receive(edits[e].before, edits[e].after, "agent")
  /\ review' = IF Believable(edits[e].before, edits[e].after) THEN Outdated ELSE review
  /\ UNCHANGED <<workspaceFileVars, gap, outside>>

OutsiderWrites ==
  /\ Disturbs
  /\ \E p \in Place, v \in Values : text[p] # v /\ text' = [text EXCEPT ![p] = v]
  /\ author' = "outside" /\ unseen' = TRUE
  /\ UNCHANGED <<holder, edits, trackerVars, review>>

(***************************************************************************)
(* Requests of a front end, about the snapshot it shows.  The tracker      *)
(* checks that the snapshot is still the latest and the file still as it   *)
(* was then.                                                               *)
(***************************************************************************)
ToStep(r, step) == review' = [review EXCEPT ![r].step = step]
RequestEnds(r) == review' = [review EXCEPT ![r] = [Unasked EXCEPT !.step = "over"]]

Ask(r) ==
  /\ review[r].step = "new" /\ tracked.shown # NoText
  /\ \E step \in {"accept", "reject"}, p \in {0} \cup {h.at : h \in Range(tracked.hunks)} :
       review' = [review EXCEPT ![r] =
                    [Unasked EXCEPT !.step = step, !.place = p, !.after = tracked.shown]]
  /\ UNCHANGED <<workspaceFileVars, edits, trackerVars, outside>>

\* validate_disk_revision, in the actor.
StillShown(r) ==
  ~review[r].stale /\ tracked.shown = review[r].after /\ text = review[r].after

\* The text the actor makes of one by taking what a request names from another.
TakenFrom(r, into, from) ==
  IF review[r].place = 0 THEN from
  ELSE [into EXCEPT ![review[r].place] = from[review[r].place]]

\* accept_hunk and accept_file: what is accepted becomes the baseline.
Accept(r) ==
  /\ review[r].step = "accept" /\ StillShown(r)
  /\ IF review[r].place = 0
       THEN /\ tracked' = [tracked EXCEPT !.baseline = tracked.current, !.shown = NoText,
                                         !.hunks = <<>>]
            /\ RequestEnds(r)
       ELSE LET h == CHOOSE h \in Range(tracked.hunks) : h.at = review[r].place IN
            /\ Recompute(TakenFrom(r, tracked.baseline, tracked.current), tracked.current,
                         h.source)
            /\ review' = [Outdated EXCEPT ![r] = [Unasked EXCEPT !.step = "over"]]
  /\ UNCHANGED <<workspaceFileVars, edits, causal, gap, outside>>

\* Mutant: it looks at the file and takes no fence.
RejectFences_Looks(r) ==
  /\ review[r].step = "reject" /\ text = review[r].after /\ ToStep(r, "fenced")
  /\ UNCHANGED <<workspaceFileVars, edits, trackerVars, outside>>

\* reject_change begins the mutation and looks at the file it is to change.
RejectFences(r) ==
  /\ review[r].step = "reject" /\ holder = Nobody
  /\ text = review[r].after /\ holder' = r /\ ToStep(r, "fenced")
  /\ UNCHANGED <<text, author, unseen, edits, trackerVars, outside>>

\* prepare_reject_hunk and prepare_reject_file.
PrepareReject(r) ==
  /\ review[r].step = "fenced" /\ StillShown(r) /\ tracked.baseline # NoText
  /\ review' = [review EXCEPT ![r].step = "planned",
                             ![r].plan = TakenFrom(r, tracked.current, tracked.baseline)]
  /\ UNCHANGED <<workspaceFileVars, edits, trackerVars, outside>>

\* verify_action_target, once more before the write.
VerifyTarget(r) ==
  /\ review[r].step = "planned" /\ text = review[r].after /\ ToStep(r, "verified")
  /\ UNCHANGED <<workspaceFileVars, edits, trackerVars, outside>>

\* commit_reject_plan.
RejectWrites(r) ==
  /\ review[r].step = "verified" /\ ToStep(r, "wrote")
  /\ text' = review[r].plan /\ author' = r /\ unseen' = TRUE /\ holder' = Nobody
  /\ UNCHANGED <<edits, trackerVars, outside>>

\* The reject reports itself as a HookEdit.
RejectReports(r) ==
  /\ review[r].step = "wrote" /\ Receive(review[r].after, review[r].plan, "hook")
  /\ review' = [(IF Believable(review[r].after, review[r].plan) THEN Outdated ELSE review)
                  EXCEPT ![r] = [Unasked EXCEPT !.step = "over"]]
  /\ UNCHANGED <<workspaceFileVars, edits, gap, outside>>

\* The file is not the one that was shown, or has no baseline to go back to.
Refuse(r) ==
  /\ CASE review[r].step \in {"accept", "reject"} -> ~StillShown(r)
       [] review[r].step = "fenced" -> ~StillShown(r) \/ tracked.baseline = NoText
       [] review[r].step = "planned" -> text # review[r].after
       [] OTHER -> FALSE
  /\ RequestEnds(r) /\ holder' = IF holder = r THEN Nobody ELSE holder
  /\ UNCHANGED <<text, author, unseen, edits, trackerVars, outside>>

(***************************************************************************)
(* The next-state relation.                                                *)
(***************************************************************************)
ToolEdits(e) == ToolReads(e) \/ ToolWrites(e) \/ ToolReports(e)

Reviews(r) ==
  \/ Accept(r) \/ RejectFences(r) \/ PrepareReject(r) \/ VerifyTarget(r)
  \/ RejectWrites(r) \/ RejectReports(r) \/ Refuse(r)

Tracks == Observe \/ WindowCloses

HunkNext ==
  \/ Tracks \/ WatchGap \/ Reconcile \/ OutsiderWrites
  \/ \E e \in Editor : ToolEdits(e)
  \/ \E r \in Reviewer : Ask(r) \/ Reviews(r)

HunkSpec == HunkInit /\ [][HunkNext]_hunkVars

(***************************************************************************)
(* Properties.                                                             *)
(***************************************************************************)
\* Every variable has its type.
HunkTypeOK ==
  LET Known == Text \cup {NoText} IN
  /\ text \in Text /\ author \in {Nobody, "outside"} \cup Editor \cup Reviewer
  /\ holder \in {Nobody} \cup Editor \cup Reviewer
  /\ unseen \in BOOLEAN /\ gap \in BOOLEAN
  /\ edits \in [Editor -> [step : {"new", "read", "wrote", "done"}, before : Known, after : Known]]
  /\ {tracked.baseline, tracked.current, tracked.shown} \subseteq Known
  /\ \A h \in Range(tracked.hunks) :
       h.source \in {"agent", "hook", "outside"} /\ h.range \in [start : Nat, lines : Nat]
  /\ causal \in Seq([kind : {"receipt", "event"}, seen : Text])
  /\ \A r \in Reviewer : {review[r].after, review[r].plan} \subseteq Known

\* A reject overwrites no edit of the agent that was not on the screen: the
\* text it is about to replace is the one of the request, unless another
\* program, which takes no fence, wrote meanwhile (runtime/file_review.rs:358).
RejectReplacesTheShown ==
  \A r \in Reviewer :
    review[r].step = "verified" /\ author # "outside" => text = review[r].after

\* A change keeps whom it is credited to, whatever is written, accepted or
\* rejected around it, unless the same change is now made at two places: when it
\* stays on its lines, and also when lines above it came or went, as long as no
\* other hunk was like it and none of the new ones reaches over the lines it was
\* on.  Hunks choose in the order of the file, by line numbers of two texts, and
\* an earlier one may take the identity of a later one (hunk/actor.rs:703,
\* hunk/diff.rs:137-147).
CreditStays ==
  [][\A h \in Range(tracked.hunks), k \in Range(tracked'.hunks) :
       /\ h.at = k.at /\ h.change = k.change
       /\ \A other \in Range(tracked'.hunks) \ {k} : other.change # k.change
       /\ \/ h.range.start = k.range.start
          \/ /\ \A other \in Range(tracked.hunks) \ {h} : other.change # h.change
             /\ \A other \in Range(tracked'.hunks) \ {k} : Overlap(h.range, other.range) = 0
       => h.source = k.source]_hunkVars

===============================================================================
