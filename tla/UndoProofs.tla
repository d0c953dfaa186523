------------------------------ MODULE UndoProofs ------------------------------
(***************************************************************************)
(* Taking changes back, for any files, texts, tool calls, front ends, turns*)
(* and disturbances.  A hunk that stays on its lines keeps its credit: no  *)
(* two are at one place, and one above it that is not like it ends before  *)
(* it; moved, it keeps it while no other was like it or reaches over the   *)
(* lines it was on.  A reject replaces the text that was shown: between    *)
(* its last look at the file and its write it holds the fence, so that     *)
(* nobody who takes it can have written, and an outsider who wrote is      *)
(* still the last author.  A rewind is whole or undone, but for a tracker  *)
(* that cannot be stopped; a rewound session finds its checkpoint again,   *)
(* and a branch replays its own turns.                                     *)
(***************************************************************************)
EXTENDS HunkTracker, Rewind, CompactionProofs

-----------------------------------------------------------------------------
(* Rejects of hunks. *)

RequestFields == DOMAIN Unasked
EditFields == DOMAIN NoEdit

\* Requests and edits are records with the fields they had at first; nothing
\* is said of the values.
Shaped ==
  /\ review = [r \in Reviewer |-> [f \in RequestFields |-> review[r][f]]]
  /\ edits = [e \in Editor |-> [f \in EditFields |-> edits[e][f]]]

Looking == {"fenced", "planned", "verified"}

\* Whoever is between the look at a file and the write has its fence.
Fenced ==
  /\ \A e \in Editor : edits[e].step = "read" => holder = e
  /\ \A r \in Reviewer : review[r].step \in Looking => holder = r

FencedInv == Shaped /\ Fenced /\ RejectReplacesTheShown

LEMMA HunkConstants == HunkConfig
BY HunkAssumption

LEMMA Fields ==
  /\ RequestFields = {"step", "place", "after", "plan", "stale"}
  /\ EditFields = {"step", "before", "after"}
BY DEF RequestFields, EditFields, Unasked, NoEdit

\* A record keeps its fields when one is replaced.
LEMMA OneField ==
  ASSUME NEW fields, NEW old, old = [f \in fields |-> old[f]],
         NEW field \in fields, NEW value
  PROVE  LET new == [old EXCEPT ![field] = value] IN
         /\ new = [f \in fields |-> new[f]] /\ new[field] = value
         /\ \A f \in fields \ {field} : new[f] = old[f]
OBVIOUS

LEMMA InitFenced == HunkInit => FencedInv
<1> SUFFICES ASSUME HunkInit PROVE FencedInv
  OBVIOUS
<1>1. Shaped
  BY DEF HunkInit, Shaped, RequestFields, EditFields, Unasked, NoEdit
<1> QED BY <1>1 DEF FencedInv, HunkInit, Fenced, Looking, RejectReplacesTheShown, Unasked, NoEdit

\* Replacing snapshots touches nothing else of a request.
LEMMA OutdatedKeeps ==
  ASSUME Shaped
  PROVE  /\ Outdated = [r \in Reviewer |-> [f \in RequestFields |-> Outdated[r][f]]]
         /\ \A r \in Reviewer : /\ Outdated[r].step = review[r].step
                                /\ Outdated[r].after = review[r].after
<1>1. ASSUME NEW r \in Reviewer
      PROVE  /\ Outdated[r] = [f \in RequestFields |-> Outdated[r][f]]
             /\ Outdated[r].step = review[r].step /\ Outdated[r].after = review[r].after
  <2> DEFINE started == review[r].step \notin {"new", "over"}
  <2>1. Outdated[r] = [review[r] EXCEPT !.stale = started]
    BY DEF Outdated
  <2> HIDE DEF started
  <2>2. review[r] = [f \in RequestFields |-> review[r][f]]
    BY DEF Shaped
  <2> QED BY <2>1, <2>2, Fields
<1>2. Outdated = [r \in Reviewer |-> Outdated[r]]
  BY DEF Outdated
<1> QED BY <1>1, <1>2

\* A step that leaves the file, its fence and the tool calls, and lets no
\* request begin to look or write.
LEMMA QuietStep ==
  ASSUME FencedInv, Shaped', UNCHANGED <<text, author, holder>>,
         \A e \in Editor : edits'[e].step = "read" => edits[e].step = "read",
         \A r \in Reviewer :
           /\ review'[r].step \in Looking => review[r].step \in Looking
           /\ review'[r].step = "verified" =>
                review[r].step = "verified" /\ review'[r].after = review[r].after
  PROVE  FencedInv'
BY DEF FencedInv, Fenced, RejectReplacesTheShown

\* The tracker's own steps.
LEMMA TrackerStep ==
  ASSUME FencedInv, Tracks \/ WatchGap \/ Reconcile
  PROVE  FencedInv'
<1>1. UNCHANGED <<text, author, holder, edits>> /\ review' \in {review, Outdated}
  BY DEF Tracks, Observe, WindowCloses, WatchGap, Reconcile, workspaceFileVars
<1>2. /\ Shaped'
      /\ \A r \in Reviewer : review'[r].step = review[r].step /\ review'[r].after = review[r].after
  BY <1>1, OutdatedKeeps DEF FencedInv, Shaped
<1> QED BY <1>1, <1>2, QuietStep

\* Another program writes.
LEMMA OutsiderStep ==
  ASSUME FencedInv, OutsiderWrites
  PROVE  FencedInv'
BY DEF FencedInv, Shaped, Fenced, RejectReplacesTheShown, OutsiderWrites

\* A tool call that reads or writes finds no reject that looks.
LEMMA ToolStep ==
  ASSUME FencedInv, NEW e \in Editor, ToolEdits(e)
  PROVE  FencedInv'
<1> USE DEF FencedInv
<1>0. /\ \A r \in Reviewer : r # e /\ r # Nobody
      /\ e # Nobody
  BY HunkConstants DEF HunkConfig
<1>1. CASE ToolReads(e)
  <2>1. /\ holder = Nobody /\ holder' = e
        /\ edits' = [edits EXCEPT ![e] = [step |-> "read", before |-> text, after |-> NoText]]
        /\ UNCHANGED <<text, author, review>>
    BY <1>1 DEF ToolReads
  <2>2. Shaped'
    BY <2>1, Fields DEF Shaped
  <2>3. \A r \in Reviewer : review[r].step \notin Looking
    BY <2>1, <1>0 DEF Fenced
  <2>4. Fenced'
    BY <2>1, <2>3, <1>0, HunkConstants DEF Fenced, Shaped, HunkConfig
  <2> QED BY <2>1, <2>2, <2>3, <2>4 DEF RejectReplacesTheShown, Looking
<1>2. CASE ToolWrites(e)
  <2>1. /\ edits[e].step = "read" /\ holder' = Nobody
        /\ edits' = [edits EXCEPT ![e].step = "wrote", ![e].after = text']
        /\ UNCHANGED review
    BY <1>2 DEF ToolWrites
  <2>2. Shaped'
    <3> DEFINE half == [edits[e] EXCEPT !.step = "wrote"]
    <3>0. edits[e] = [f \in EditFields |-> edits[e][f]]
      BY DEF Shaped
    <3>1. edits'[e] = [half EXCEPT !.after = text']
      BY <2>1 DEF Shaped
    <3>2. edits'[e] = [f \in EditFields |-> edits'[e][f]]
      BY <3>0, <3>1, Fields, OneField
    <3>3. /\ edits' = [d \in Editor |-> edits'[d]]
          /\ \A d \in Editor \ {e} : edits'[d] = edits[d]
      BY <2>1 DEF Shaped
    <3>4. \A d \in Editor : edits'[d] = [f \in EditFields |-> edits'[d][f]]
      BY <3>2, <3>3 DEF Shaped
    <3>5. edits' = [d \in Editor |-> [f \in EditFields |-> edits'[d][f]]]
      BY <3>3, <3>4
    <3> QED BY <2>1, <3>5 DEF Shaped
  <2>3. \A r \in Reviewer : review[r].step \notin Looking
    BY <2>1, <1>0 DEF Fenced
  <2>4. \A d \in Editor : edits'[d].step # "read"
    <3>1. edits'[e].step = "wrote"
      <4> DEFINE half == [edits[e] EXCEPT !.step = "wrote"]
      <4>1. edits[e] = [f \in EditFields |-> edits[e][f]] /\ "step" \in EditFields
        BY Fields DEF Shaped
      <4>2. half = [f \in EditFields |-> half[f]] /\ half.step = "wrote"
        BY <4>1, OneField
      <4>3. edits'[e] = [half EXCEPT !.after = text']
        BY <2>1 DEF Shaped
      <4> HIDE DEF half
      <4>4. "after" \in EditFields /\ "step" \in EditFields \ {"after"}
        BY Fields
      <4> QED BY <4>2, <4>3, <4>4, OneField
    <3>2. ASSUME NEW d \in Editor \ {e} PROVE edits'[d].step # "read"
      <4>1. edits'[d] = edits[d]
        BY <2>1 DEF Shaped
      <4>2. holder = e /\ (edits[d].step = "read" => holder = d)
        BY <2>1 DEF Fenced
      <4> QED BY <4>1, <4>2
    <3> QED BY <3>1, <3>2
  <2> QED BY <2>1, <2>2, <2>3, <2>4 DEF Fenced, RejectReplacesTheShown, Looking
<1>3. CASE ToolReports(e)
  <2>1. /\ edits' = [edits EXCEPT ![e].step = "done"] /\ review' \in {review, Outdated}
        /\ UNCHANGED <<text, author, holder>>
    BY <1>3 DEF ToolReports, workspaceFileVars
  <2>2. \A r \in Reviewer : review'[r].step = review[r].step /\ review'[r].after = review[r].after
    BY <2>1, OutdatedKeeps
  <2>3. Shaped'
    <3>0. edits[e] = [f \in EditFields |-> edits[e][f]]
      BY DEF Shaped
    <3>1. edits'[e] = [edits[e] EXCEPT !.step = "done"]
      BY <2>1 DEF Shaped
    <3>2. edits'[e] = [f \in EditFields |-> edits'[e][f]]
      BY <3>0, <3>1, Fields, OneField
    <3>3. /\ edits' = [d \in Editor |-> edits'[d]]
          /\ \A d \in Editor \ {e} : edits'[d] = edits[d]
      BY <2>1 DEF Shaped
    <3>4. \A d \in Editor : edits'[d] = [f \in EditFields |-> edits'[d][f]]
      BY <3>2, <3>3 DEF Shaped
    <3>5. edits' = [d \in Editor |-> [f \in EditFields |-> edits'[d][f]]]
      BY <3>3, <3>4
    <3> QED BY <2>1, <3>5, OutdatedKeeps DEF Shaped
  <2>4. \A d \in Editor : edits'[d].step = "read" => edits[d].step = "read"
    BY <2>1, Fields DEF Shaped
  <2> QED BY <2>1, <2>2, <2>3, <2>4, QuietStep
<1> QED BY <1>1, <1>2, <1>3 DEF ToolEdits

\* A step of the front end r: r's request becomes `new`, the snapshots of the
\* others may be replaced.
LEMMA RequestStep ==
  ASSUME FencedInv, NEW r \in Reviewer, NEW base \in {review, Outdated}, NEW new,
         review' = [base EXCEPT ![r] = new], new = [f \in RequestFields |-> new[f]],
         UNCHANGED edits
  PROVE  /\ Shaped'
         /\ review'[r] = new
         /\ \A q \in Reviewer \ {r} :
              review'[q].step = review[q].step /\ review'[q].after = review[q].after
<1> USE DEF FencedInv
<1>1. base = [q \in Reviewer |-> [f \in RequestFields |-> base[q][f]]]
  BY OutdatedKeeps DEF Shaped
<1>2. \A q \in Reviewer : base[q].step = review[q].step /\ base[q].after = review[q].after
  BY OutdatedKeeps
<1>3. Shaped'
  BY <1>1 DEF Shaped
<1>4. review'[r] = new /\ \A q \in Reviewer \ {r} : review'[q] = base[q]
  BY <1>1
<1> QED BY <1>2, <1>3, <1>4

\* A front end begins, ends or goes on without looking at the file.
LEMMA IdleStep ==
  ASSUME FencedInv, NEW r \in Reviewer, NEW base \in {review, Outdated}, NEW new,
         review' = [base EXCEPT ![r] = new], new = [f \in RequestFields |-> new[f]],
         new.step \notin Looking, UNCHANGED <<text, author, edits>>,
         holder' = holder \/ (holder = r /\ holder' = Nobody)
  PROVE  FencedInv'
<1>1. /\ Shaped' /\ review'[r].step \notin Looking
      /\ \A q \in Reviewer \ {r} :
           review'[q].step = review[q].step /\ review'[q].after = review[q].after
  BY RequestStep
<1>2. \A e \in Editor : e # r
  BY HunkConstants DEF HunkConfig
<1> QED BY <1>1, <1>2 DEF FencedInv, Fenced, RejectReplacesTheShown, Looking

\* A front end asks, accepts, reports or gives up.
LEMMA AskStep ==
  ASSUME FencedInv, NEW r \in Reviewer, Ask(r) \/ Accept(r) \/ RejectReports(r) \/ Refuse(r)
  PROVE  FencedInv'
<1>1. /\ [Unasked EXCEPT !.step = "over"] = [f \in RequestFields |-> [Unasked EXCEPT !.step = "over"][f]]
      /\ [Unasked EXCEPT !.step = "over"].step \notin Looking
  BY DEF Unasked, RequestFields, Looking
<1>2. r # Nobody
  BY HunkConstants DEF HunkConfig
<1>3. CASE Ask(r)
  <2>1. PICK kind \in {"accept", "reject"}, p \in {0} \cup {h.at : h \in Range(tracked.hunks)} :
          review' = [review EXCEPT ![r] = [Unasked EXCEPT !.step = kind, !.place = p,
                                                          !.after = tracked.shown]]
    BY <1>3 DEF Ask
  <2> DEFINE new == [Unasked EXCEPT !.step = kind, !.place = p, !.after = tracked.shown]
  <2>2. new = [f \in RequestFields |-> new[f]] /\ new.step = kind
    BY DEF Unasked, RequestFields
  <2>3. UNCHANGED <<text, author, holder, edits>>
    BY <1>3 DEF Ask, workspaceFileVars
  <2> HIDE DEF new
  <2>4. review' = [review EXCEPT ![r] = new] /\ new.step \notin Looking
    BY <2>1, <2>2 DEF new, Looking
  <2> QED BY <2>2, <2>3, <2>4, IdleStep
<1>4. CASE Accept(r) \/ RejectReports(r) \/ Refuse(r)
  <2> DEFINE new == [Unasked EXCEPT !.step = "over"]
  <2>1. /\ UNCHANGED <<text, author, edits>>
        /\ holder' = holder \/ (holder = r /\ holder' = Nobody)
    BY <1>4 DEF Accept, RejectReports, Refuse, workspaceFileVars
  <2>2. PICK base \in {review, Outdated} : review' = [base EXCEPT ![r] = new]
    BY <1>4 DEF Accept, RejectReports, Refuse, RequestEnds
  <2> HIDE DEF new
  <2>3. new = [f \in RequestFields |-> new[f]] /\ new.step \notin Looking
    BY <1>1 DEF new
  <2> QED BY <2>1, <2>2, <2>3, IdleStep
<1> QED BY <1>3, <1>4

\* A reject takes the fence, plans, looks again and writes.
LEMMA RejectStep ==
  ASSUME FencedInv, NEW r \in Reviewer,
         RejectFences(r) \/ PrepareReject(r) \/ VerifyTarget(r) \/ RejectWrites(r)
  PROVE  FencedInv'
<1> USE DEF FencedInv
<1>1. r # Nobody /\ r # "outside" /\ \A e \in Editor : e # r /\ e # Nobody
  BY HunkConstants DEF HunkConfig
<1>0. review[r] = [f \in RequestFields |-> review[r][f]]
  BY DEF Shaped
<1>2. CASE RejectFences(r)
  <2> DEFINE new == [review[r] EXCEPT !.step = "fenced"]
  <2>1. /\ holder = Nobody /\ holder' = r /\ UNCHANGED <<text, author, edits>>
        /\ review' = [review EXCEPT ![r] = new]
    BY <1>2 DEF RejectFences, ToStep
  <2>2. new = [f \in RequestFields |-> new[f]] /\ new.step = "fenced"
    BY <1>0, OneField, Fields
  <2> HIDE DEF new
  <2>3. /\ Shaped' /\ review'[r].step = "fenced"
        /\ \A q \in Reviewer \ {r} :
             review'[q].step = review[q].step /\ review'[q].after = review[q].after
    BY <2>1, <2>2, RequestStep
  <2>4. \A q \in Reviewer : q # Nobody /\ review[q].step \notin Looking
    BY <2>1, HunkConstants DEF Fenced, HunkConfig
  <2> QED BY <2>1, <2>3, <2>4, <1>1 DEF Fenced, RejectReplacesTheShown, Looking
<1>3. CASE PrepareReject(r)
  <2> DEFINE plan == TakenFrom(r, tracked.current, tracked.baseline)
             half == [review[r] EXCEPT !.step = "planned"]
             new == [half EXCEPT !.plan = plan]
  <2>1. /\ review[r].step = "fenced" /\ UNCHANGED <<text, author, holder, edits>>
    BY <1>3 DEF PrepareReject, workspaceFileVars
  <2>2. /\ half = [f \in RequestFields |-> half[f]] /\ half.step = "planned"
    BY <1>0, OneField, Fields
  <2>3. review' = [review EXCEPT ![r] = new]
    BY <1>3 DEF PrepareReject, Shaped
  <2> HIDE DEF half, plan
  <2>4. new = [f \in RequestFields |-> new[f]] /\ new.step = "planned"
    BY <2>2, Fields
  <2> HIDE DEF new
  <2>5. /\ Shaped' /\ review'[r].step = "planned"
        /\ \A q \in Reviewer \ {r} :
             review'[q].step = review[q].step /\ review'[q].after = review[q].after
    BY <2>1, <2>3, <2>4, RequestStep
  <2> QED BY <2>1, <2>5 DEF Fenced, RejectReplacesTheShown, Looking
<1>4. CASE VerifyTarget(r)
  <2> DEFINE new == [review[r] EXCEPT !.step = "verified"]
  <2>1. /\ review[r].step = "planned" /\ text = review[r].after
        /\ review' = [review EXCEPT ![r] = new] /\ UNCHANGED <<text, author, holder, edits>>
    BY <1>4 DEF VerifyTarget, ToStep, workspaceFileVars
  <2>2. /\ new = [f \in RequestFields |-> new[f]] /\ new.step = "verified"
        /\ new.after = review[r].after
    BY <1>0, OneField, Fields
  <2> HIDE DEF new
  <2>3. /\ Shaped' /\ review'[r] = new
        /\ \A q \in Reviewer \ {r} :
             review'[q].step = review[q].step /\ review'[q].after = review[q].after
    BY <2>1, <2>2, RequestStep
  <2> QED BY <2>1, <2>2, <2>3 DEF Fenced, RejectReplacesTheShown, Looking
<1>5. CASE RejectWrites(r)
  <2> DEFINE new == [review[r] EXCEPT !.step = "wrote"]
  <2>1. /\ review[r].step = "verified" /\ holder' = Nobody /\ UNCHANGED edits
        /\ review' = [review EXCEPT ![r] = new]
    BY <1>5 DEF RejectWrites, ToStep
  <2>2. new = [f \in RequestFields |-> new[f]] /\ new.step = "wrote"
    BY <1>0, OneField, Fields
  <2> HIDE DEF new
  <2>3. /\ Shaped' /\ review'[r].step = "wrote"
        /\ \A q \in Reviewer \ {r} : review'[q].step = review[q].step
    BY <2>1, <2>2, RequestStep
  <2>4. holder = r
    BY <2>1 DEF Fenced, Looking
  <2>5. \A q \in Reviewer : review'[q].step \notin Looking
    BY <2>3, <2>4 DEF Fenced, Looking
  <2> QED BY <2>1, <2>3, <2>4, <2>5, <1>1 DEF Fenced, RejectReplacesTheShown, Looking
<1> QED BY <1>2, <1>3, <1>4, <1>5

LEMMA StepFenced == FencedInv /\ [HunkNext]_hunkVars => FencedInv'
<1> SUFFICES ASSUME FencedInv, [HunkNext]_hunkVars PROVE FencedInv'
  OBVIOUS
<1>1. CASE Tracks \/ WatchGap \/ Reconcile
  BY <1>1, TrackerStep
<1>2. CASE OutsiderWrites
  BY <1>2, OutsiderStep
<1>3. CASE \E e \in Editor : ToolEdits(e)
  BY <1>3, ToolStep
<1>4. CASE \E r \in Reviewer : Ask(r) \/ Reviews(r)
  BY <1>4, AskStep, RejectStep DEF Reviews
<1>5. CASE UNCHANGED hunkVars
  BY <1>5 DEF hunkVars, workspaceFileVars, FencedInv, Shaped, Fenced, RejectReplacesTheShown
<1> QED BY <1>1, <1>2, <1>3, <1>4, <1>5 DEF HunkNext

\* A reject overwrites no edit of the agent that was not on the screen, for
\* any file and any number of tool calls and front ends: from the last look at
\* the file to the write it holds the fence (runtime/file_review.rs:365).
THEOREM RejectIsFenced == HunkSpec => []RejectReplacesTheShown
<1>1. FencedInv => RejectReplacesTheShown
  BY DEF FencedInv
<1> QED BY <1>1, InitFenced, StepFenced, PTL DEF HunkSpec

-----------------------------------------------------------------------------
(* Whom hunks are credited to.  Hunks take over identities one after the  *)
(* other; what holds of the hunks taken so far is followed from each to    *)
(* the next.                                                               *)

Known == Text \cup {NoText}
Difference == (Values \X Values) \cup Text
Source == {"agent", "hook", "outside"}
Lines == [start : Nat, lines : Nat]
Hunk == [at : 0 .. NumPlaces, range : Lines, change : Difference, source : Source]
Parsed == [at : 0 .. NumPlaces, range : Lines, change : Difference]

\* No two hunks are at one place, and no two begin on one line.
Apart(old) ==
  \A i, j \in DOMAIN old :
    old[i].at = old[j].at \/ old[i].range.start = old[j].range.start => i = j

\* One range ends where or before the other begins.
Before(a, b) == a.start < b.start /\ a.start + a.lines <= b.start

LEMMA BeforeIsApart ==
  ASSUME NEW a \in Lines, NEW b \in Lines, Before(a, b), NEW c \in Lines, c.start = b.start
  PROVE  Overlap(c, a) = 0
BY DEF Lines, Before, Overlap

LEMMA RemoveAtIs ==
  ASSUME NEW S, NEW s \in Seq(S), NEW i \in 1 .. Len(s)
  PROVE  /\ RemoveAt(s, i) \in Seq(S) /\ Len(RemoveAt(s, i)) = Len(s) - 1
         /\ \A j \in 1 .. Len(s) - 1 : RemoveAt(s, i)[j] = s[IF j < i THEN j ELSE j + 1]
<1>0. i \in Nat /\ Len(s) \in Nat /\ i - 1 \in Int /\ i + 1 \in Int /\ i <= Len(s) /\ 1 <= i
  OBVIOUS
<1> DEFINE a == SubSeq(s, 1, i - 1)
           b == SubSeq(s, i + 1, Len(s))
<1>1. \A j \in 1 .. Len(s) : s[j] \in S
  BY ElementOfSeq
<1>2. /\ a \in Seq(S) /\ Len(a) = i - 1
      /\ \A j \in 1 .. i - 1 : a[j] = s[j]
  <2>1. \A j \in 1 .. i - 1 : s[j] \in S
    BY <1>0, <1>1
  <2>2. /\ a \in Seq(S) /\ Len(a) = IF 1 <= i - 1 THEN (i - 1) - 1 + 1 ELSE 0
        /\ \A j \in 1 .. (i - 1) - 1 + 1 : a[j] = s[1 + j - 1]
    BY <1>0, <2>1, SubSeqProperties
  <2> HIDE DEF a
  <2>3. \A j \in 1 .. i - 1 : j \in 1 .. (i - 1) - 1 + 1 /\ 1 + j - 1 = j
    BY <1>0
  <2> QED BY <1>0, <2>2, <2>3
<1>3. /\ b \in Seq(S) /\ Len(b) = Len(s) - i
      /\ \A j \in 1 .. Len(s) - i : b[j] = s[i + j]
  <2>1. \A j \in i + 1 .. Len(s) : s[j] \in S
    BY <1>0, <1>1
  <2>2. /\ b \in Seq(S) /\ Len(b) = IF i + 1 <= Len(s) THEN Len(s) - (i + 1) + 1 ELSE 0
        /\ \A j \in 1 .. Len(s) - (i + 1) + 1 : b[j] = s[(i + 1) + j - 1]
    BY <1>0, <2>1, SubSeqProperties
  <2> HIDE DEF b
  <2>3. \A j \in 1 .. Len(s) - i : j \in 1 .. Len(s) - (i + 1) + 1 /\ (i + 1) + j - 1 = i + j
    BY <1>0
  <2> QED BY <1>0, <2>2, <2>3
<1> HIDE DEF a, b
<1>4. RemoveAt(s, i) = a \o b
  BY DEF RemoveAt, a, b
<1>5. /\ a \o b \in Seq(S) /\ Len(a \o b) = Len(a) + Len(b)
      /\ \A j \in 1 .. Len(a) + Len(b) : (a \o b)[j] = IF j <= Len(a) THEN a[j] ELSE b[j - Len(a)]
  BY <1>2, <1>3, ConcatProperties
<1>6. ASSUME NEW j \in 1 .. Len(s) - 1
      PROVE  (a \o b)[j] = s[IF j < i THEN j ELSE j + 1]
  <2>1. CASE j < i
    <3>1. j <= Len(a) /\ j \in 1 .. i - 1 /\ j \in 1 .. Len(a) + Len(b)
      BY <1>0, <1>2, <1>3, <2>1
    <3>2. (a \o b)[j] = a[j]
      BY <1>5, <3>1
    <3> QED BY <1>2, <2>1, <3>1, <3>2
  <2>2. CASE ~(j < i)
    <3>1. /\ ~(j <= Len(a)) /\ j - Len(a) \in 1 .. Len(s) - i /\ i + (j - Len(a)) = j + 1
          /\ j \in 1 .. Len(a) + Len(b)
      BY <1>0, <1>2, <1>3, <2>2
    <3>2. (a \o b)[j] = b[j - Len(a)]
      BY <1>5, <3>1
    <3> QED BY <1>3, <2>2, <3>1, <3>2
  <2> QED BY <2>1, <2>2
<1> QED BY <1>0, <1>2, <1>3, <1>4, <1>5, <1>6

\* What is left when one hunk is taken: hunks of before, all but that one.
LEMMA LeftOver ==
  ASSUME NEW old \in Seq(Hunk), Apart(old), NEW i \in DOMAIN old
  PROVE  /\ RemoveAt(old, i) \in Seq(Hunk) /\ Apart(RemoveAt(old, i))
         /\ Range(RemoveAt(old, i)) \subseteq Range(old)
         /\ \A h \in Range(old) : h # old[i] => h \in Range(RemoveAt(old, i))
<1> DEFINE s == RemoveAt(old, i)
           at(j) == IF j < i THEN j ELSE j + 1
<1>0. DOMAIN old = 1 .. Len(old) /\ Len(old) \in Nat /\ i \in 1 .. Len(old) /\ i \in Nat
  BY LenProperties
<1>1. /\ s \in Seq(Hunk) /\ Len(s) = Len(old) - 1
      /\ \A j \in 1 .. Len(old) - 1 : s[j] = old[at(j)]
  BY <1>0, RemoveAtIs
<1>2. DOMAIN s = 1 .. Len(old) - 1
  BY <1>1, LenProperties
<1> HIDE DEF s
<1>3. \A j \in DOMAIN s : at(j) \in DOMAIN old /\ s[j] = old[at(j)]
  BY <1>0, <1>1, <1>2
<1>4. \A j, k \in DOMAIN s : at(j) = at(k) => j = k
  BY <1>0, <1>2
<1>5. Apart(s)
  BY <1>3, <1>4 DEF Apart
<1>6. Range(s) \subseteq Range(old)
  BY <1>3 DEF Range
<1>7. ASSUME NEW h \in Range(old), h # old[i] PROVE h \in Range(s)
  <2>1. PICK k \in 1 .. Len(old) : old[k] = h
    BY <1>0 DEF Range
  <2> DEFINE j == IF k < i THEN k ELSE k - 1
  <2>2. j \in 1 .. Len(old) - 1 /\ at(j) = k
    BY <1>0, <1>7, <2>1
  <2> QED BY <1>2, <1>3, <2>1, <2>2 DEF Range
<1> QED BY <1>1, <1>5, <1>6, <1>7 DEF s

LEMMA Apartness ==
  ASSUME NEW old \in Seq(Hunk), Apart(old), NEW g \in Range(old), NEW h \in Range(old), g.at = h.at
  PROVE  g = h
BY DEF Apart, Range

\* A hunk is the nearest with the change of another: it begins on the same line,
\* or no other has that change.
Nearest(h, found, old) ==
  /\ h.change = found.change
  /\ \/ h.range.start = found.range.start
     \/ \A other \in Range(old) \ {h} : other.change # h.change

\* A hunk takes over one identity at most, of a hunk with the same change or of
\* one whose lines it overlaps; and that of the nearest with the same change
\* before all others.
LEMMA TakesOverIs ==
  ASSUME NEW taken, taken.old \in Seq(Hunk), Apart(taken.old), NEW found \in Parsed,
         NEW source \in Source
  PROVE  LET next == TakesOver(taken, found, source) IN
         /\ \/ next.old = taken.old
            \/ \E i \in DOMAIN taken.old :
                 /\ next.old = RemoveAt(taken.old, i)
                 /\ \/ taken.old[i].change = found.change
                    \/ Overlap(taken.old[i].range, found.range) > 0
         /\ \E credit \in Source :
              /\ next.hunks = Append(taken.hunks, [at |-> found.at, range |-> found.range,
                                                   change |-> found.change, source |-> credit])
              /\ \A h \in Range(taken.old) : Nearest(h, found, taken.old) => credit = h.source
<1> DEFINE old == taken.old
           match == BestIdentityMatch(found, old)
           alike == Alike(found, old)
           kept == match \cap alike
           credit == IF kept = {} THEN source ELSE old[CHOOSE i \in kept : TRUE].source
           D(i) == Distance(old[i].range.start, found.range.start)
           next == TakesOver(taken, found, source)
<1>1. /\ next.old = IF match = {} THEN old ELSE RemoveAt(old, CHOOSE i \in match : TRUE)
      /\ next.hunks = Append(taken.hunks, [at |-> found.at, range |-> found.range,
                                           change |-> found.change, source |-> credit])
  BY DEF TakesOver
<1>2. \A i \in DOMAIN old :
        old[i] \in Hunk /\ old[i].range.start \in Nat /\ found.range.start \in Nat
  <2>1. \A i \in DOMAIN old : old[i] \in Hunk
    BY ElementOfSeq, LenProperties
  <2> HIDE DEF old
  <2> QED BY <2>1 DEF Hunk, Parsed, Lines
<1>3. /\ alike = {} => match = MostOverlap(found, old)
      /\ alike # {} => match = {i \in alike : \A j \in alike \ {i} :
                                  D(i) < D(j) \/ (D(i) = D(j) /\ i < j)}
  BY DEF BestIdentityMatch
<1> DEFINE Taken(i) == old[i].change = found.change \/ Overlap(old[i].range, found.range) > 0
<1>4. \A i \in match : i \in DOMAIN old /\ Taken(i)
  <2>1. \A i \in alike : i \in DOMAIN old /\ Taken(i)
    BY DEF Alike
  <2>2. \A i \in MostOverlap(found, old) : i \in DOMAIN old /\ Taken(i)
    BY DEF MostOverlap
  <2> HIDE DEF match, Taken, alike
  <2> QED BY <1>3, <2>1, <2>2
<1>5. credit \in Source
  BY <1>2, <1>4 DEF Hunk
<1>6. ASSUME NEW h \in Range(old), Nearest(h, found, old)
      PROVE  credit = h.source
  <2>1. PICK a \in DOMAIN old : old[a] = h
    BY DEF Range
  <2>2. a \in alike
    BY <1>6, <2>1 DEF Alike, Nearest
  <2>3. \A j \in alike : j \in DOMAIN old /\ D(j) \in Nat
    BY <1>2 DEF Alike, Distance
  <2>4. alike = {a} \/ (D(a) = 0 /\ \A j \in alike \ {a} : D(j) > 0)
    <3>1. CASE h.range.start = found.range.start
      <4>1. D(a) = 0
        BY <1>2, <2>1, <3>1 DEF Distance
      <4>2. ASSUME NEW j \in alike \ {a} PROVE D(j) > 0
        <5>1. old[j].range.start # old[a].range.start
          BY <2>2, <2>3 DEF Apart
        <5>2. old[j].range.start \in Nat /\ found.range.start \in Nat
              /\ old[j].range.start # found.range.start
          BY <1>2, <2>1, <2>3, <3>1, <5>1
        <5> QED BY <5>2 DEF Distance
      <4> QED BY <4>1, <4>2
    <3>2. CASE \A other \in Range(old) \ {h} : other.change # h.change
      <4>1. ASSUME NEW j \in alike PROVE j = a
        <5>1. old[j] \in Range(old) /\ old[j].change = h.change
          BY <1>6, <2>3 DEF Range, Alike, Nearest
        <5>2. old[j] = old[a]
          BY <2>1, <3>2, <5>1
        <5> QED BY <2>2, <2>3, <5>2 DEF Apart
      <4> QED BY <2>2, <4>1
    <3> QED BY <1>6, <3>1, <3>2 DEF Nearest
  <2> HIDE DEF D, alike
  <2>5. a \in match
    BY <1>3, <2>2, <2>3, <2>4
  <2>6. \A i \in match : i = a
    <3> SUFFICES ASSUME NEW i \in match, i # a PROVE FALSE
      OBVIOUS
    <3>1. i \in alike /\ (D(i) < D(a) \/ (D(i) = D(a) /\ i < a))
      BY <1>3, <2>2
    <3> QED BY <2>3, <2>4, <3>1
  <2> HIDE DEF match
  <2>7. kept = {a}
    BY <2>2, <2>5, <2>6
  <2> QED BY <2>1, <2>7
<1>7. \/ next.old = old
      \/ \E i \in DOMAIN old :
           next.old = RemoveAt(old, i) /\ Taken(i)
  <2> HIDE DEF match, next, Taken
  <2> QED BY <1>1, <1>4
<1> HIDE DEF credit, next
<1> QED BY <1>1, <1>5, <1>6, <1>7 DEF next

\* The hunks of a text, in the order of the file, one after the other.
Takes(prev, p, hunks, source) ==
  LET here == {h \in hunks : h.at = p - 1} IN
  IF here = {} THEN prev ELSE TakesOver(prev, CHOOSE h \in here : TRUE, source)
NothingTaken(old) == [old |-> old, hunks |-> <<>>]
TakenUpTo(f, n, old, hunks, source) ==
  f = [p \in 0 .. n |-> IF p = 0 THEN NothingTaken(old) ELSE Takes(f[p - 1], p, hunks, source)]

\* There is a way to take them, however many: of the lengths without one there
\* would be a least.
LEMMA TakenExists ==
  ASSUME NEW n \in Nat, NEW old, NEW hunks, NEW source
  PROVE  \E f : TakenUpTo(f, n, old, hunks, source)
<1> DEFINE Has(m) == \E f : TakenUpTo(f, m, old, hunks, source)
           T == {m \in Nat : ~Has(m)}
<1>1. SUFFICES T = {}
  OBVIOUS
<1>2. SUFFICES ASSUME T # {} PROVE FALSE
  OBVIOUS
<1> HIDE DEF Has
<1>3. PICK m \in T : \A x \in T : m <= x
  <2>1. T \subseteq Nat
    OBVIOUS
  <2> QED BY <1>2, <2>1, LeastElement
<1>4. CASE m = 0
  <2> DEFINE f == [p \in 0 .. 0 |-> NothingTaken(old)]
  <2>1. f = [p \in 0 .. 0 |->
               IF p = 0 THEN NothingTaken(old) ELSE Takes(f[p - 1], p, hunks, source)]
    OBVIOUS
  <2> HIDE DEF f
  <2>2. Has(0)
    BY <2>1 DEF Has, TakenUpTo
  <2> QED BY <1>4, <2>2
<1>5. CASE m # 0
  <2>1. m \in Nat /\ m - 1 \in Nat /\ m - 1 \notin T
    BY <1>3, <1>5
  <2>2. PICK g : TakenUpTo(g, m - 1, old, hunks, source)
    BY <2>1 DEF Has
  <2> DEFINE f == [p \in 0 .. m |->
                    IF p = m THEN Takes(g[m - 1], m, hunks, source) ELSE g[p]]
             step(h, p) == IF p = 0 THEN NothingTaken(old) ELSE Takes(h[p - 1], p, hunks, source)
  <2>3. \A p \in 0 .. m - 1 : g[p] = step(g, p)
    BY <2>2 DEF TakenUpTo
  <2>4. ASSUME NEW p \in 0 .. m PROVE f[p] = step(f, p)
    <3>1. CASE p = 0
      BY <1>5, <2>1, <2>3, <3>1
    <3>2. CASE p # 0
      <4>1. p - 1 \in 0 .. m /\ p - 1 # m /\ (p # m => p \in 0 .. m - 1)
        BY <2>1, <3>2
      <4>2. f[p - 1] = g[p - 1]
        BY <4>1
      <4>3. f[p] = Takes(g[p - 1], p, hunks, source)
        BY <2>3, <3>2, <4>1
      <4> QED BY <3>2, <4>2, <4>3
    <3> QED BY <3>1, <3>2
  <2>5. f = [p \in 0 .. m |-> step(f, p)]
    BY <2>4
  <2> HIDE DEF f
  <2>6. Has(m)
    BY <2>5 DEF Has, TakenUpTo
  <2> QED BY <1>3, <2>6
<1> QED BY <1>4, <1>5

LEMMA CreditedIs ==
  ASSUME NEW old, NEW hunks, NEW source
  PROVE  \E f : /\ TakenUpTo(f, NumPlaces + 1, old, hunks, source)
                /\ Credited(old, hunks, source) = f[NumPlaces + 1].hunks
<1> DEFINE Solves(f) == TakenUpTo(f, NumPlaces + 1, old, hunks, source)
<1>1. \E f : Solves(f)
  <2>1. NumPlaces + 1 \in Nat
    BY HunkConstants DEF HunkConfig
  <2> HIDE DEF TakenUpTo
  <2> QED BY <2>1, TakenExists
<1>2. Solves(CHOOSE f : Solves(f))
  BY <1>1, Zenon
<1>3. Credited(old, hunks, source) = (CHOOSE f : Solves(f))[NumPlaces + 1].hunks
  BY DEF Credited, TakenUpTo, Takes, NothingTaken
<1> HIDE DEF Solves
<1>4. \E f : Solves(f) /\ Credited(old, hunks, source) = f[NumPlaces + 1].hunks
  BY <1>2, <1>3
<1> QED BY <1>4 DEF Solves

\* A set of numbers that has 0, and with each its successor, has them all.
LEMMA UpFrom ==
  ASSUME NEW S, NEW n \in Nat, 0 \in S, \A p \in 1 .. n : p - 1 \in S => p \in S
  PROVE  0 .. n \subseteq S
<1> DEFINE T == (0 .. n) \ S
<1>1. SUFFICES ASSUME T # {} PROVE FALSE
  OBVIOUS
<1>2. T \subseteq Nat
  OBVIOUS
<1>3. PICK m \in T : \A x \in T : m <= x
  BY <1>1, <1>2, LeastElement
<1>4. m \in 1 .. n /\ m - 1 \in 0 .. n /\ ~(m <= m - 1)
  BY <1>3
<1> QED BY <1>3, <1>4

\* A hunk is what was parsed, whoever it is credited to.
Alone(g, h) == g.at = h.at /\ g.range = h.range /\ g.change = h.change

\* What is taken when the places before p are done.
WellTaken(x, p, old, hunks) ==
  /\ x.old \in Seq(Hunk) /\ Apart(x.old) /\ Range(x.old) \subseteq Range(old)
  /\ x.hunks \in Seq(Hunk) /\ Apart(x.hunks)
  /\ \A h \in Range(x.hunks) :
       h.at < p /\ \E g \in hunks : Alone(g, h)
  /\ \A g \in hunks : g.at < p => \E h \in Range(x.hunks) : Alone(g, h)

\* One change at every place, and one after the other.
OneEach(hunks) ==
  /\ hunks \in SUBSET Parsed
  /\ \A g, h \in hunks : g.at = h.at => g = h
  /\ \A g, h \in hunks : g.at < h.at => Before(g.range, h.range)

LEMMA RangeAppend ==
  ASSUME NEW S, NEW s \in Seq(S), NEW e \in S
  PROVE  /\ Append(s, e) \in Seq(S) /\ Range(Append(s, e)) = Range(s) \cup {e}
         /\ DOMAIN s = 1 .. Len(s) /\ DOMAIN Append(s, e) = 1 .. Len(s) + 1
         /\ Append(s, e)[Len(s) + 1] = e
         /\ \A i \in 1 .. Len(s) : Append(s, e)[i] = s[i]
<1>1. /\ Append(s, e) \in Seq(S) /\ Len(Append(s, e)) = Len(s) + 1 /\ Len(s) \in Nat
      /\ Append(s, e)[Len(s) + 1] = e /\ \A i \in 1 .. Len(s) : Append(s, e)[i] = s[i]
  OBVIOUS
<1>2. DOMAIN s = 1 .. Len(s) /\ DOMAIN Append(s, e) = 1 .. Len(s) + 1
  BY <1>1, LenProperties
<1>3. \A i \in 1 .. Len(s) + 1 : i \in 1 .. Len(s) \/ i = Len(s) + 1
  BY <1>1
<1>4. Range(Append(s, e)) = Range(s) \cup {e}
  BY <1>1, <1>2, <1>3 DEF Range
<1> QED BY <1>1, <1>2, <1>4

LEMMA TakesWell ==
  ASSUME NEW old, NEW hunks, OneEach(hunks), NEW source \in Source, NEW p \in 1 .. NumPlaces + 1,
         NEW x, WellTaken(x, p - 1, old, hunks)
  PROVE  WellTaken(Takes(x, p, hunks, source), p, old, hunks)
<1> DEFINE here == {h \in hunks : h.at = p - 1}
<1>0. p \in Nat /\ p - 1 \in Nat /\ NumPlaces \in Nat
  BY HunkConstants DEF HunkConfig
<1>1. \A g \in hunks : g \in Parsed /\ g.at \in Nat
  BY <1>0 DEF OneEach, Parsed
<1>2. \A h \in Range(x.hunks) : h \in Hunk /\ h.at \in Nat
  <2>1. \A h \in Range(x.hunks) : h \in Hunk
    BY ElementOfSeq, LenProperties DEF WellTaken, Range
  <2> QED BY <1>0, <2>1 DEF Hunk
<1>3. CASE here = {}
  <2>1. Takes(x, p, hunks, source) = x
    BY <1>3 DEF Takes
  <2>2. \A g \in hunks : g.at < p => g.at < p - 1
    BY <1>0, <1>1, <1>3
  <2>3. \A h \in Range(x.hunks) : h.at < p - 1 => h.at < p
    BY <1>0, <1>2
  <2> QED BY <2>1, <2>2, <2>3 DEF WellTaken
<1>4. CASE here # {}
  <2> DEFINE g == CHOOSE h \in here : TRUE
             next == TakesOver(x, g, source)
  <2>1. g \in hunks /\ g.at = p - 1 /\ g \in Parsed
    BY <1>1, <1>4
  <2>2. Takes(x, p, hunks, source) = next
    BY <1>4 DEF Takes
  <2> HIDE DEF g
  <2> DEFINE Made(credit) ==
               [at |-> g.at, range |-> g.range, change |-> g.change, source |-> credit]
  <2>3. /\ \/ next.old = x.old
           \/ \E i \in DOMAIN x.old : next.old = RemoveAt(x.old, i)
        /\ \E credit \in Source : next.hunks = Append(x.hunks, Made(credit))
    <3>1. x.old \in Seq(Hunk) /\ Apart(x.old)
      BY DEF WellTaken
    <3>2. /\ \/ next.old = x.old
             \/ \E i \in DOMAIN x.old :
                  /\ next.old = RemoveAt(x.old, i)
                  /\ x.old[i].change = g.change \/ Overlap(x.old[i].range, g.range) > 0
          /\ \E credit \in Source :
               /\ next.hunks = Append(x.hunks, Made(credit))
               /\ \A h \in Range(x.old) : Nearest(h, g, x.old) => credit = h.source
      BY <2>1, <3>1, TakesOverIs
    <3> HIDE DEF next, Made
    <3> QED BY <3>2
  <2> HIDE DEF next
  <2>4. next.old \in Seq(Hunk) /\ Apart(next.old) /\ Range(next.old) \subseteq Range(old)
    BY <2>3, LeftOver DEF WellTaken
  <2>5. PICK credit \in Source : next.hunks = Append(x.hunks, Made(credit))
    BY <2>3
  <2> DEFINE e == Made(credit)
  <2>6. e \in Hunk /\ e.at = g.at /\ Alone(g, e)
    BY <2>1 DEF Parsed, Hunk, Alone
  <2> HIDE DEF e
  <2>7. /\ next.hunks \in Seq(Hunk) /\ Range(next.hunks) = Range(x.hunks) \cup {e}
        /\ DOMAIN x.hunks = 1 .. Len(x.hunks) /\ DOMAIN next.hunks = 1 .. Len(x.hunks) + 1
        /\ next.hunks[Len(x.hunks) + 1] = e
        /\ \A i \in 1 .. Len(x.hunks) : next.hunks[i] = x.hunks[i]
    BY <2>5, <2>6, RangeAppend DEF WellTaken, e
  <2>8. ASSUME NEW h \in Range(x.hunks) PROVE h.at # e.at /\ h.range.start # e.range.start
    <3>1. PICK b \in hunks : h.at < p - 1 /\ Alone(b, h)
      BY DEF WellTaken
    <3>2. b.at < g.at /\ Before(b.range, g.range)
      BY <1>0, <1>1, <2>1, <3>1 DEF Alone, OneEach
    <3>3. b.range.start \in Nat /\ g.range.start \in Nat
      BY <1>1, <2>1 DEF Parsed, Lines
    <3> QED BY <1>0, <1>2, <2>1, <2>6, <3>1, <3>2, <3>3 DEF Alone, Before
  <2>9. Apart(next.hunks)
    <3> SUFFICES ASSUME NEW i \in DOMAIN next.hunks, NEW j \in DOMAIN next.hunks,
                        \/ next.hunks[i].at = next.hunks[j].at
                        \/ next.hunks[i].range.start = next.hunks[j].range.start
                 PROVE  i = j
      BY DEF Apart
    <3>1. \A k \in DOMAIN x.hunks : next.hunks[k] = x.hunks[k] /\ x.hunks[k] \in Range(x.hunks)
      BY <2>7 DEF Range
    <3>2. \A k \in DOMAIN next.hunks : k \in DOMAIN x.hunks \/ k = Len(x.hunks) + 1
      <4>1. Len(x.hunks) \in Nat
        BY LenProperties DEF WellTaken
      <4> QED BY <2>7, <4>1
    <3>3. CASE i \in DOMAIN x.hunks /\ j \in DOMAIN x.hunks
      <4>1. x.hunks[i].at = x.hunks[j].at \/ x.hunks[i].range.start = x.hunks[j].range.start
        BY <3>1, <3>3
      <4> QED BY <3>3, <4>1 DEF WellTaken, Apart
    <3>4. CASE i \in DOMAIN x.hunks /\ j = Len(x.hunks) + 1
      BY <2>7, <2>8, <3>1, <3>4
    <3>5. CASE i = Len(x.hunks) + 1 /\ j \in DOMAIN x.hunks
      BY <2>7, <2>8, <3>1, <3>5
    <3> QED BY <3>2, <3>3, <3>4, <3>5
  <2>10. \A h \in Range(next.hunks) :
           h.at < p /\ \E b \in hunks : Alone(b, h)
    <3>1. \A h \in Range(x.hunks) : h.at < p
      BY <1>0, <1>2 DEF WellTaken
    <3>2. e.at < p
      BY <1>0, <2>1, <2>6
    <3> QED BY <2>1, <2>6, <2>7, <3>1, <3>2 DEF WellTaken
  <2>11. ASSUME NEW b \in hunks, b.at < p
         PROVE  \E h \in Range(next.hunks) : Alone(b, h)
    <3>1. CASE b.at = p - 1
      BY <2>1, <2>6, <2>7, <3>1 DEF OneEach
    <3>2. CASE b.at # p - 1
      <4>1. b.at < p - 1
        BY <1>0, <1>1, <2>11, <3>2
      <4> QED BY <2>7, <4>1 DEF WellTaken
    <3> QED BY <3>1, <3>2
  <2> QED BY <2>2, <2>4, <2>7, <2>9, <2>10, <2>11 DEF WellTaken
<1> QED BY <1>3, <1>4

LEMMA TakenWell ==
  ASSUME NEW old \in Seq(Hunk), Apart(old), NEW hunks, OneEach(hunks), NEW source \in Source,
         NEW f, TakenUpTo(f, NumPlaces + 1, old, hunks, source)
  PROVE  \A p \in 0 .. NumPlaces + 1 : WellTaken(f[p], p, old, hunks)
<1> DEFINE S == {p \in 0 .. NumPlaces + 1 : WellTaken(f[p], p, old, hunks)}
<1>0. NumPlaces + 1 \in Nat /\ NumPlaces \in Nat
  BY HunkConstants DEF HunkConfig
<1>1. f[0] = NothingTaken(old) /\ \A p \in 1 .. NumPlaces + 1 : f[p] = Takes(f[p - 1], p, hunks, source)
  BY <1>0 DEF TakenUpTo
<1>2. 0 \in S
  <2>1. NothingTaken(old).old = old /\ NothingTaken(old).hunks = <<>>
    BY DEF NothingTaken
  <2>2. <<>> \in Seq(Hunk) /\ Range(<<>>) = {} /\ Apart(<<>>)
    BY EmptySeq DEF Range, Apart
  <2>3. \A g \in hunks : ~(g.at < 0)
    BY <1>0 DEF OneEach, Parsed
  <2>4. f[0].old = old /\ f[0].hunks = <<>> /\ 0 \in 0 .. NumPlaces + 1
    BY <1>0, <1>1, <2>1
  <2>5. WellTaken(f[0], 0, old, hunks)
    BY <2>2, <2>3, <2>4, Zenon DEF WellTaken
  <2> QED BY <2>4, <2>5
<1>3. ASSUME NEW p \in 1 .. NumPlaces + 1, p - 1 \in S PROVE p \in S
  BY <1>0, <1>1, <1>3, TakesWell
<1> HIDE DEF S
<1>4. 0 .. NumPlaces + 1 \subseteq S
  BY <1>0, <1>2, <1>3, UpFrom
<1> QED BY <1>4 DEF S

\* A hunk that was there, and whose change is now made at its place and at no
\* other, is credited to whom it was credited before, when it is the nearest with
\* its change and none above it has come to overlap its lines.
LEMMA CreditGoesOn ==
  ASSUME NEW old \in Seq(Hunk), Apart(old), NEW hunks, OneEach(hunks), NEW source \in Source,
         NEW h \in Range(old), NEW g \in hunks, g.at = h.at, Nearest(h, g, old),
         \A b \in hunks \ {g} : b.change # g.change,
         \A b \in hunks : b.at < g.at => Overlap(h.range, b.range) = 0,
         NEW f, TakenUpTo(f, NumPlaces + 1, old, hunks, source)
  PROVE  \A k \in Range(f[NumPlaces + 1].hunks) : k.at = h.at => k.source = h.source
<1> DEFINE GoesWith(p) ==
             /\ p <= h.at => h \in Range(f[p].old)
             /\ \A k \in Range(f[p].hunks) : k.at = h.at => k.source = h.source
           S == {p \in 0 .. NumPlaces + 1 : GoesWith(p)}
<1>0. NumPlaces + 1 \in Nat /\ NumPlaces \in Nat /\ h.at \in 0 .. NumPlaces
  <2>1. h \in Hunk
    BY ElementOfSeq, LenProperties DEF Range
  <2> QED BY <2>1, HunkConstants DEF HunkConfig, Hunk
<1>1. f[0] = NothingTaken(old) /\ \A p \in 1 .. NumPlaces + 1 : f[p] = Takes(f[p - 1], p, hunks, source)
  BY <1>0 DEF TakenUpTo
<1>2. 0 \in S
  <2>1. f[0].old = old /\ f[0].hunks = <<>>
    BY <1>1 DEF NothingTaken
  <2>2. Range(<<>>) = {}
    BY DEF Range
  <2> QED BY <1>0, <2>1, <2>2
<1>3. ASSUME NEW p \in 1 .. NumPlaces + 1, p - 1 \in S PROVE p \in S
  <2> DEFINE x == f[p - 1]
             here == {b \in hunks : b.at = p - 1}
  <2>0. p \in Nat /\ p - 1 \in 0 .. NumPlaces + 1 /\ f[p] = Takes(x, p, hunks, source)
    BY <1>0, <1>1
  <2>1. WellTaken(x, p - 1, old, hunks)
    BY <2>0, TakenWell
  <2>2. /\ p - 1 <= h.at => h \in Range(x.old)
        /\ \A k \in Range(x.hunks) : k.at = h.at => k.source = h.source
    BY <1>3
  <2> HIDE DEF x
  <2>3. CASE here = {}
    <3>1. f[p] = x
      BY <2>0, <2>3 DEF Takes
    <3> QED BY <1>0, <2>0, <2>2, <3>1
  <2>4. CASE here # {}
    <3> DEFINE b == CHOOSE c \in here : TRUE
               next == TakesOver(x, b, source)
    <3>1. b \in hunks /\ b.at = p - 1 /\ b \in Parsed /\ f[p] = next
      BY <2>0, <2>4 DEF Takes, OneEach
    <3> HIDE DEF b
    <3> DEFINE Made(credit) ==
                 [at |-> b.at, range |-> b.range, change |-> b.change, source |-> credit]
    <3>2. /\ \/ next.old = x.old
             \/ \E i \in DOMAIN x.old :
                  /\ next.old = RemoveAt(x.old, i)
                  /\ x.old[i].change = b.change \/ Overlap(x.old[i].range, b.range) > 0
          /\ \E credit \in Source :
               /\ next.hunks = Append(x.hunks, Made(credit))
               /\ \A c \in Range(x.old) : Nearest(c, b, x.old) => credit = c.source
      <4>1. x.old \in Seq(Hunk) /\ Apart(x.old)
        BY <2>1 DEF WellTaken
      <4> HIDE DEF next
      <4> QED BY <3>1, <4>1, TakesOverIs DEF next
    <3> HIDE DEF next
    <3>3. ASSUME p <= h.at PROVE h \in Range(next.old)
      <4>1. h \in Range(x.old) /\ b.at < h.at /\ b.at # h.at
        BY <1>0, <2>0, <2>2, <3>1, <3>3
      <4>2. b.change # h.change /\ Overlap(h.range, b.range) = 0
        BY <3>1, <4>1 DEF Nearest
      <4>3. \A i \in DOMAIN x.old :
              x.old[i].change = b.change \/ Overlap(x.old[i].range, b.range) > 0 => h # x.old[i]
        BY <4>2
      <4> QED BY <2>1, <3>2, <4>1, <4>3, LeftOver DEF WellTaken
    <3>4. PICK credit \in Source :
            /\ next.hunks = Append(x.hunks, Made(credit))
            /\ \A c \in Range(x.old) : Nearest(c, b, x.old) => credit = c.source
      BY <3>2
    <3> DEFINE e == Made(credit)
    <3>5. e \in Hunk /\ e.at = b.at /\ e.source = credit
      BY <3>1 DEF Parsed, Hunk
    <3> HIDE DEF e
    <3>6. Range(next.hunks) = Range(x.hunks) \cup {e}
      BY <2>1, <3>4, <3>5, RangeAppend DEF WellTaken, e
    <3>7. e.at = h.at => e.source = h.source
      <4> SUFFICES ASSUME e.at = h.at PROVE credit = h.source
        BY <3>5
      <4>1. b = g /\ p - 1 <= h.at
        BY <1>0, <2>0, <3>1, <3>5 DEF OneEach
      <4>2. h \in Range(x.old) /\ Range(x.old) \subseteq Range(old)
        BY <2>1, <2>2, <4>1 DEF WellTaken
      <4>3. Nearest(h, b, x.old)
        BY <4>1, <4>2 DEF Nearest
      <4> QED BY <3>4, <4>2, <4>3
    <3> QED BY <2>2, <3>1, <3>3, <3>6, <3>7
  <2> QED BY <2>3, <2>4
<1> HIDE DEF S
<1>4. 0 .. NumPlaces + 1 \subseteq S
  BY <1>0, <1>2, <1>3, UpFrom
<1>5. NumPlaces + 1 \in S
  BY <1>0, <1>4
<1> QED BY <1>5 DEF S

\* Nobody but a hunk itself takes its credit: it is on its lines, or no other
\* was like it and none overlaps them.
KeepsCredit(h, k, old, new) ==
  /\ h.at = k.at /\ h.change = k.change
  /\ \A other \in Range(new) \ {k} : other.change # k.change
  /\ \/ h.range.start = k.range.start
     \/ /\ \A other \in Range(old) \ {h} : other.change # h.change
        /\ \A other \in Range(new) \ {k} : Overlap(h.range, other.range) = 0

LEMMA CreditedHunks ==
  ASSUME NEW old \in Seq(Hunk), Apart(old), NEW hunks, OneEach(hunks), NEW source \in Source
  PROVE  LET new == Credited(old, hunks, source) IN
         /\ new \in Seq(Hunk) /\ Apart(new)
         /\ \A k \in Range(new) : \E g \in hunks : g.at = k.at
         /\ \A h \in Range(old), k \in Range(new) :
              KeepsCredit(h, k, old, new) => h.source = k.source
<1>1. PICK f : /\ TakenUpTo(f, NumPlaces + 1, old, hunks, source)
               /\ Credited(old, hunks, source) = f[NumPlaces + 1].hunks
  BY CreditedIs
<1> DEFINE new == Credited(old, hunks, source)
<1>2. NumPlaces + 1 \in 0 .. NumPlaces + 1 /\ NumPlaces \in Nat
  BY HunkConstants DEF HunkConfig
<1>3. WellTaken(f[NumPlaces + 1], NumPlaces + 1, old, hunks)
  BY <1>1, <1>2, TakenWell
<1> HIDE DEF new
<1>4. new = f[NumPlaces + 1].hunks
  BY <1>1 DEF new
<1>5. /\ new \in Seq(Hunk) /\ Apart(new)
      /\ \A k \in Range(new) : \E g \in hunks : Alone(g, k)
      /\ \A g \in hunks : g.at < NumPlaces + 1 => \E h \in Range(new) : Alone(g, h)
  BY <1>3, <1>4 DEF WellTaken
<1>6. \A g \in hunks : \E h \in Range(new) : Alone(g, h)
  <2>1. \A g \in hunks : g.at < NumPlaces + 1
    BY <1>2 DEF OneEach, Parsed
  <2> QED BY <1>5, <2>1
<1>7. ASSUME NEW h \in Range(old), NEW k \in Range(new), KeepsCredit(h, k, old, new)
      PROVE  h.source = k.source
  <2>1. PICK g \in hunks : Alone(g, k)
    BY <1>5
  <2>2. ASSUME NEW b \in hunks \ {g}
        PROVE  \E o \in Range(new) \ {k} : Alone(b, o)
    <3>1. PICK o \in Range(new) : Alone(b, o)
      BY <1>6
    <3>2. b.at # g.at
      BY DEF OneEach
    <3> QED BY <2>1, <3>1, <3>2 DEF Alone
  <2>3. \A b \in hunks \ {g} : b.change # g.change
    BY <1>7, <2>1, <2>2 DEF Alone, KeepsCredit
  <2>4. g.at = h.at /\ Nearest(h, g, old)
    BY <1>7, <2>1 DEF Alone, Nearest, KeepsCredit
  <2>5. ASSUME NEW b \in hunks, b.at < g.at PROVE Overlap(h.range, b.range) = 0
    <3>1. h \in Hunk
      BY ElementOfSeq, LenProperties DEF Range
    <3>2. /\ b.range \in Lines /\ g.range \in Lines /\ h.range \in Lines
          /\ b.at \in Nat /\ g.at \in Nat
      BY <1>2, <3>1 DEF OneEach, Parsed, Hunk
    <3>3. b # g
      BY <2>5, <3>2
    <3>4. CASE h.range.start = k.range.start
      BY <2>1, <2>5, <3>2, <3>4, BeforeIsApart DEF Alone, OneEach
    <3>5. CASE \A other \in Range(new) \ {k} : Overlap(h.range, other.range) = 0
      BY <2>2, <3>3, <3>5 DEF Alone
    <3> QED BY <1>7, <3>4, <3>5 DEF KeepsCredit
  <2>6. \A c \in Range(f[NumPlaces + 1].hunks) : c.at = h.at => c.source = h.source
    BY <1>1, <2>3, <2>4, <2>5, CreditGoesOn
  <2> QED BY <1>4, <1>7, <2>6 DEF KeepsCredit
<1>8. \A k \in Range(new) : \E g \in hunks : g.at = k.at
  BY <1>5 DEF Alone
<1> QED BY <1>5, <1>7, <1>8 DEF new

LEMMA NoTextIs == NoText \notin Text
<1>1. 1 \in Place
  BY HunkConstants DEF HunkConfig, Place
<1>2. DOMAIN NoText = {}
  BY DEF NoText
<1>3. \A t \in Text : DOMAIN t = Place
  BY DEF Text
<1> QED BY <1>1, <1>2, <1>3

\* The last lines of the places, up to one of them.
LastUpTo(f, n, content) ==
  f = [p \in 0 .. n |-> IF p = 0 THEN 0 ELSE f[p - 1] + Between + LinesOf[content[p]]]

\* There is a way to count them, however many: of the lengths without one there
\* would be a least.
LEMMA LastExists ==
  ASSUME NEW n \in Nat, NEW content
  PROVE  \E f : LastUpTo(f, n, content)
<1> DEFINE Has(m) == \E f : LastUpTo(f, m, content)
           T == {m \in Nat : ~Has(m)}
           step(h, p) == IF p = 0 THEN 0 ELSE h[p - 1] + Between + LinesOf[content[p]]
<1>1. SUFFICES ASSUME T # {} PROVE FALSE
  OBVIOUS
<1> HIDE DEF Has
<1>2. PICK m \in T : \A x \in T : m <= x
  <2>1. T \subseteq Nat
    OBVIOUS
  <2> QED BY <1>1, <2>1, LeastElement
<1>3. CASE m = 0
  <2> DEFINE f == [p \in 0 .. 0 |-> 0]
  <2>1. f = [p \in 0 .. 0 |-> step(f, p)]
    OBVIOUS
  <2> HIDE DEF f
  <2>2. Has(0)
    BY <2>1 DEF Has, LastUpTo
  <2> QED BY <1>2, <1>3, <2>2
<1>4. CASE m # 0
  <2>1. m \in Nat /\ m - 1 \in Nat /\ m - 1 \notin T
    BY <1>2, <1>4
  <2>2. PICK g : LastUpTo(g, m - 1, content)
    BY <2>1 DEF Has
  <2> DEFINE f == [p \in 0 .. m |->
                    IF p = m THEN g[m - 1] + Between + LinesOf[content[m]] ELSE g[p]]
  <2>3. \A p \in 0 .. m - 1 : g[p] = step(g, p)
    BY <2>2 DEF LastUpTo
  <2>4. ASSUME NEW p \in 0 .. m PROVE f[p] = step(f, p)
    <3>1. CASE p = 0
      BY <1>4, <2>1, <2>3, <3>1
    <3>2. CASE p # 0
      <4>1. p - 1 \in 0 .. m /\ p - 1 # m /\ (p # m => p \in 0 .. m - 1)
        BY <2>1, <3>2
      <4>2. f[p - 1] = g[p - 1]
        BY <4>1
      <4>3. f[p] = g[p - 1] + Between + LinesOf[content[p]]
        BY <2>3, <3>2, <4>1
      <4> QED BY <3>2, <4>2, <4>3
    <3> QED BY <3>1, <3>2
  <2>5. f = [p \in 0 .. m |-> step(f, p)]
    BY <2>4
  <2> HIDE DEF f
  <2>6. Has(m)
    BY <2>5 DEF Has, LastUpTo
  <2> QED BY <1>2, <2>6
<1> QED BY <1>3, <1>4

\* The last line of a place comes its own lines, and those unchanged, after that
\* of the place before it.
LEMMA LastLinesIs ==
  ASSUME NEW content \in Text
  PROVE  /\ \A p \in 0 .. NumPlaces : LastLines(content)[p] \in Nat
         /\ \A p \in Place :
              LastLines(content)[p] = LastLines(content)[p - 1] + Between + LinesOf[content[p]]
<1> DEFINE Solves(f) == LastUpTo(f, NumPlaces, content)
           last == LastLines(content)
<1>0. NumPlaces \in Nat /\ Between \in Nat
  BY HunkConstants DEF HunkConfig
<1>1. \E f : Solves(f)
  BY <1>0, LastExists
<1>2. Solves(CHOOSE f : Solves(f))
  BY <1>1, Zenon
<1>3. last = CHOOSE f : Solves(f)
  BY DEF LastLines, LastUpTo
<1>4. LastUpTo(last, NumPlaces, content)
  BY <1>2, <1>3
<1> HIDE DEF last
<1>5. /\ last[0] = 0
      /\ \A p \in Place : last[p] = last[p - 1] + Between + LinesOf[content[p]]
  BY <1>0, <1>4 DEF LastUpTo, Place
<1>6. \A p \in Place : LinesOf[content[p]] \in Nat
  BY HunkConstants DEF HunkConfig, Text
<1> DEFINE S == {p \in 0 .. NumPlaces : last[p] \in Nat}
<1>7. 0 \in S
  BY <1>0, <1>5
<1>8. ASSUME NEW p \in 1 .. NumPlaces, p - 1 \in S PROVE p \in S
  <2>1. p \in Place /\ last[p - 1] \in Nat
    BY <1>8 DEF Place
  <2> QED BY <1>0, <1>5, <1>6, <2>1
<1> HIDE DEF S
<1>9. 0 .. NumPlaces \subseteq S
  BY <1>0, <1>7, <1>8, UpFrom
<1> QED BY <1>5, <1>9 DEF S, last

\* Hunks are further apart than the lines they show around them.
LEMMA RangesApart ==
  ASSUME NEW content \in Text, NEW p \in Place
  PROVE  /\ NewRange(content, p) \in Lines
         /\ \A q \in Place : p < q => Before(NewRange(content, p), NewRange(content, q))
<1> DEFINE last == LastLines(content)
<1>0. NumPlaces \in Nat /\ Between \in Nat /\ Between > 6
  BY HunkConstants DEF HunkConfig, Context
<1>1. /\ \A q \in 0 .. NumPlaces : last[q] \in Nat
      /\ \A q \in Place : last[q] = last[q - 1] + Between + LinesOf[content[q]]
  BY LastLinesIs
<1>2. \A q \in Place : LinesOf[content[q]] \in Nat
  BY HunkConstants DEF HunkConfig, Text
<1>3. \A q \in Place : NewRange(content, q) = [start |-> last[q - 1] + Between - 2,
                                             lines |-> LinesOf[content[q]] + 6]
  <2>1. \A q \in Place : last[q - 1] \in Nat
    BY <1>0, <1>1 DEF Place
  <2> HIDE DEF last
  <2>2. ASSUME NEW q \in Place
        PROVE  /\ last[q - 1] + Between + 1 - 3 = last[q - 1] + Between - 2
               /\ LinesOf[content[q]] + 2 * 3 = LinesOf[content[q]] + 6
    BY <1>0, <1>2, <2>1
  <2>3. \A q \in Place : NewRange(content, q) = [start |-> last[q - 1] + Between + 1 - 3,
                                               lines |-> LinesOf[content[q]] + 2 * 3]
    BY DEF NewRange, Context, last
  <2> QED BY <2>2, <2>3
<1> HIDE DEF last
<1>4. \A q \in Place : q - 1 \in 0 .. NumPlaces /\ last[q - 1] \in Nat
  BY <1>0, <1>1 DEF Place
<1>5. NewRange(content, p) \in Lines
  BY <1>0, <1>2, <1>3, <1>4 DEF Lines
<1> DEFINE S == {q \in 0 .. NumPlaces : p <= q => last[p] <= last[q]}
<1>6. p \in 1 .. NumPlaces /\ last[p] \in Nat
  BY <1>0, <1>1 DEF Place
<1>7. 0 \in S
  BY <1>0, <1>6
<1>8. ASSUME NEW q \in 1 .. NumPlaces, q - 1 \in S PROVE q \in S
  <2>1. q \in Place /\ last[q - 1] \in Nat /\ last[q] = last[q - 1] + Between + LinesOf[content[q]]
    BY <1>0, <1>1, <1>4 DEF Place
  <2>2. last[q - 1] <= last[q]
    BY <1>0, <1>2, <2>1
  <2>3. p <= q - 1 => last[p] <= last[q - 1]
    BY <1>8
  <2>4. last[q] \in Nat
    BY <1>0, <1>1
  <2>5. p <= q => p = q \/ p <= q - 1
    BY <1>6
  <2> QED BY <1>6, <2>1, <2>2, <2>3, <2>4, <2>5
<1> HIDE DEF S
<1>9. 0 .. NumPlaces \subseteq S
  BY <1>0, <1>7, <1>8, UpFrom
<1>10. ASSUME NEW q \in Place, p < q PROVE Before(NewRange(content, p), NewRange(content, q))
  <2>1. q - 1 \in 0 .. NumPlaces /\ p <= q - 1
    BY <1>0, <1>6, <1>10 DEF Place
  <2>2. last[p] <= last[q - 1]
    BY <1>9, <2>1 DEF S
  <2>3. /\ last[p - 1] \in Nat /\ last[q - 1] \in Nat /\ LinesOf[content[p]] \in Nat
        /\ last[p] = last[p - 1] + Between + LinesOf[content[p]]
    BY <1>1, <1>2, <1>4
  <2>4. /\ NewRange(content, p).start = last[p - 1] + Between - 2
        /\ NewRange(content, p).lines = LinesOf[content[p]] + 6
        /\ NewRange(content, q).start = last[q - 1] + Between - 2
    BY <1>3
  <2> QED BY <1>0, <2>2, <2>3, <2>4 DEF Before
<1> QED BY <1>5, <1>10

LEMMA ParsedIs ==
  ASSUME NEW baseline \in Known, NEW current \in Text
  PROVE  /\ OneEach(ParsedHunks(baseline, current))
         /\ \A g \in ParsedHunks(baseline, current) : g.at # 0 => baseline \in Text
<1>1. CASE baseline = NoText
  <2> DEFINE g == [at |-> 0, range |-> [start |-> 0, lines |-> 0], change |-> current]
  <2>1. ParsedHunks(baseline, current) = {g}
    BY <1>1 DEF ParsedHunks
  <2>2. g \in Parsed /\ g.at = 0
    BY HunkConstants DEF Parsed, Lines, Difference, HunkConfig
  <2> HIDE DEF g
  <2> QED BY <2>1, <2>2 DEF OneEach
<1>2. CASE baseline # NoText
  <2> DEFINE here(p) == [at |-> p, range |-> NewRange(current, p),
                         change |-> <<baseline[p], current[p]>>]
  <2>1. baseline \in Text
    BY <1>2 DEF Known
  <2>2. ASSUME NEW p \in Place
        PROVE  here(p) \in Parsed /\ here(p).at = p /\ here(p).range = NewRange(current, p)
    <3>1. NewRange(current, p) \in Lines
      BY RangesApart
    <3>2. <<baseline[p], current[p]>> \in Difference
      BY <2>1 DEF Difference, Text
    <3>3. p \in 0 .. NumPlaces
      BY HunkConstants DEF HunkConfig, Place
    <3> QED BY <3>1, <3>2, <3>3 DEF Parsed
  <2>3. ParsedHunks(baseline, current) = {here(p) : p \in {q \in Place : baseline[q] # current[q]}}
    BY <1>2 DEF ParsedHunks
  <2> HIDE DEF here
  <2>4. \A g \in ParsedHunks(baseline, current) : \E p \in Place : g = here(p)
    BY <2>3
  <2>5. OneEach(ParsedHunks(baseline, current))
    <3>1. \A g \in ParsedHunks(baseline, current) : g \in Parsed
      BY <2>2, <2>4
    <3>2. ASSUME NEW g \in ParsedHunks(baseline, current), NEW h \in ParsedHunks(baseline, current)
          PROVE  (g.at = h.at => g = h) /\ (g.at < h.at => Before(g.range, h.range))
      <4>1. PICK p \in Place, q \in Place : g = here(p) /\ h = here(q)
        BY <2>4
      <4> QED BY <2>2, <4>1, RangesApart
    <3> QED BY <3>1, <3>2 DEF OneEach
  <2> QED BY <2>1, <2>5
<1> QED BY <1>1, <1>2

-----------------------------------------------------------------------------
(* The tracker and the requests have their form. *)

Tracking ==
  /\ tracked \in [baseline : Known, current : Known, shown : Known, hunks : Seq(Hunk)]
  /\ Apart(tracked.hunks)
  /\ tracked.shown # NoText => tracked.current # NoText
  /\ \A h \in Range(tracked.hunks) : h.at # 0 => tracked.baseline # NoText

\* What CreditStays says of a step.
CreditStep ==
  \A h \in Range(tracked.hunks), k \in Range(tracked'.hunks) :
    KeepsCredit(h, k, tracked.hunks, tracked'.hunks) => h.source = k.source

LEMMA SameCredit ==
  ASSUME Tracking, tracked'.hunks = tracked.hunks \/ tracked'.hunks = <<>>
  PROVE  CreditStep
<1>1. Range(<<>>) = {}
  BY DEF Range
<1> QED BY <1>1, Apartness DEF Tracking, CreditStep, KeepsCredit

LEMMA RecomputeTracks ==
  ASSUME Tracking, NEW baseline \in Known, NEW current \in Text, NEW source \in Source,
         Recompute(baseline, current, source)
  PROVE  Tracking' /\ CreditStep
<1> DEFINE new == Credited(tracked.hunks, ParsedHunks(baseline, current), source)
<1>1. tracked.hunks \in Seq(Hunk) /\ Apart(tracked.hunks)
  BY DEF Tracking
<1>2. OneEach(ParsedHunks(baseline, current))
  BY ParsedIs
<1>3. /\ new \in Seq(Hunk) /\ Apart(new)
      /\ \A k \in Range(new) : \E g \in ParsedHunks(baseline, current) : g.at = k.at
      /\ \A h \in Range(tracked.hunks), k \in Range(new) :
           KeepsCredit(h, k, tracked.hunks, new) => h.source = k.source
  BY <1>1, <1>2, CreditedHunks
<1>4. \A k \in Range(new) : k.at # 0 => baseline \in Text
  BY <1>3, ParsedIs
<1> HIDE DEF new
<1>5. tracked' = [baseline |-> baseline, current |-> current,
                  shown |-> IF baseline = current THEN NoText ELSE current,
                  hunks |-> IF baseline = current THEN <<>> ELSE new]
  BY DEF Recompute, new
<1>6. CASE baseline = current
  <2>1. /\ tracked'.hunks = <<>> /\ tracked'.shown = NoText /\ tracked'.current = current
        /\ tracked'.baseline = baseline
    BY <1>5, <1>6
  <2>2. <<>> \in Seq(Hunk) /\ Apart(<<>>) /\ Range(<<>>) = {}
    BY EmptySeq DEF Apart, Range
  <2>3. tracked' \in [baseline : Known, current : Known, shown : Known, hunks : Seq(Hunk)]
    BY <1>5, <1>6, <2>2 DEF Known
  <2> QED BY <2>1, <2>2, <2>3, SameCredit DEF Tracking
<1>7. CASE baseline # current
  <2>1. /\ tracked'.hunks = new /\ tracked'.shown = current /\ tracked'.current = current
        /\ tracked'.baseline = baseline
    BY <1>5, <1>7
  <2>2. tracked' \in [baseline : Known, current : Known, shown : Known, hunks : Seq(Hunk)]
    BY <1>3, <1>5, <1>7 DEF Known
  <2>3. Tracking'
    BY <1>3, <1>4, <2>1, <2>2, NoTextIs DEF Tracking
  <2>4. CreditStep
    BY <1>3, <2>1 DEF CreditStep
  <2> QED BY <2>3, <2>4
<1> QED BY <1>6, <1>7

LEMMA EmptyHunks == <<>> \in Seq(Hunk) /\ Apart(<<>>) /\ Range(<<>>) = {}
BY EmptySeq DEF Apart, Range

-----------------------------------------------------------------------------
(* The state of the tracker, of the tools and of the requests. *)

RequestSteps == {"new", "accept", "reject", "fenced", "planned", "verified", "wrote", "over"}
Requested == [step : RequestSteps, place : 0 .. NumPlaces, after : Known, plan : Known,
            stale : BOOLEAN]
Pending == [kind : {"receipt", "event"}, seen : Text]
EditStep == {"new", "read", "wrote", "done"}
Edit == [step : EditStep, before : Known, after : Known]

Begun(q) == q.step \notin {"new", "over"}

\* A request under way names a text; what it is to write is one; and the place
\* it names is that of a hunk as long as it names the latest snapshot.
Sound(q, shown, hunks) ==
  /\ q \in Requested
  /\ Begun(q) => q.after \in Text
  /\ q.step \in {"planned", "verified", "wrote"} => q.plan \in Text
  /\ Begun(q) /\ ~q.stale /\ shown # NoText /\ q.place # 0 =>
       \E h \in Range(hunks) : h.at = q.place

AllSound(requests, shown, hunks) ==
  /\ requests \in [Reviewer -> Requested]
  /\ \A r \in Reviewer : Sound(requests[r], shown, hunks)

Asked == AllSound(review, tracked.shown, tracked.hunks)

SoundEdit(d) ==
  /\ d \in Edit
  /\ d.step # "new" => d.before \in Text
  /\ d.step \in {"wrote", "done"} => d.after \in Text

Edited == edits \in [Editor -> Edit] /\ \A e \in Editor : SoundEdit(edits[e])

OnDisk ==
  /\ text \in Text /\ author \in {Nobody, "outside"} \cup Editor \cup Reviewer
  /\ holder \in {Nobody} \cup Editor \cup Reviewer
  /\ unseen \in BOOLEAN /\ gap \in BOOLEAN

Held == causal \in Seq(Pending)

TrackerInv == OnDisk /\ Held /\ Tracking /\ Edited /\ Asked

LEMMA OverIsSound ==
  ASSUME NEW shown, NEW hunks
  PROVE  /\ Sound([Unasked EXCEPT !.step = "over"], shown, hunks)
         /\ Sound(Unasked, shown, hunks)
         /\ [Unasked EXCEPT !.step = "over"] \in Requested /\ Unasked \in Requested
<1>1. NumPlaces \in Nat
  BY HunkConstants DEF HunkConfig
<1>2. Unasked \in Requested
  <2>1. 0 \in 0 .. NumPlaces /\ NoText \in Known /\ "new" \in RequestSteps /\ FALSE \in BOOLEAN
    BY <1>1 DEF Known, RequestSteps
  <2> QED BY <2>1, Zenon DEF Unasked, Requested
<1>4. [Unasked EXCEPT !.step = "over"] \in Requested
  BY <1>2 DEF Requested, RequestSteps
<1>3. Unasked.step = "new" /\ [Unasked EXCEPT !.step = "over"].step = "over"
  BY DEF Unasked
<1> QED BY <1>2, <1>3, <1>4 DEF Sound, Begun

\* A snapshot that is replaced makes no request unsound.
LEMMA OutdatedIsSound ==
  ASSUME Asked, NEW shown, NEW hunks
  PROVE  AllSound(Outdated, shown, hunks)
<1>1. ASSUME NEW r \in Reviewer
      PROVE  Outdated[r] \in Requested /\ Sound(Outdated[r], shown, hunks)
  <2> DEFINE q == review[r]
             o == [q EXCEPT !.stale = q.step \notin {"new", "over"}]
  <2>1. Outdated[r] = o
    BY DEF Outdated
  <2>2. Sound(q, tracked.shown, tracked.hunks)
    BY DEF Asked, AllSound
  <2> HIDE DEF q
  <2>3. q \in Requested
    BY <2>2 DEF Sound
  <2>4. /\ o \in Requested /\ o.step = q.step /\ o.after = q.after /\ o.plan = q.plan
        /\ Begun(q) => o.stale
    BY <2>3 DEF Requested, Begun
  <2> HIDE DEF o
  <2> QED BY <2>1, <2>2, <2>4 DEF Sound, Begun
<1>2. Outdated \in [Reviewer -> Requested]
  BY <1>1 DEF Outdated
<1> QED BY <1>1, <1>2 DEF AllSound

\* One request changes, the others stay.
LEMMA OneChanges ==
  ASSUME NEW requests, NEW shown, NEW hunks, AllSound(requests, shown, hunks),
         NEW r \in Reviewer, NEW q, Sound(q, shown, hunks)
  PROVE  AllSound([requests EXCEPT ![r] = q], shown, hunks)
BY DEF AllSound, Sound

LEMMA StepIsSound ==
  ASSUME NEW q, NEW shown, NEW hunks, Sound(q, shown, hunks), Begun(q),
         NEW step \in RequestSteps \ {"new", "over"},
         step \in {"planned", "verified", "wrote"} => q.plan \in Text
  PROVE  Sound([q EXCEPT !.step = step], shown, hunks)
<1> DEFINE o == [q EXCEPT !.step = step]
<1>1. q \in Requested
  BY DEF Sound
<1>2. /\ o \in Requested /\ o.step = step /\ o.after = q.after /\ o.plan = q.plan
      /\ o.stale = q.stale /\ o.place = q.place
  BY <1>1 DEF Requested
<1> HIDE DEF o
<1>3. Begun(o)
  BY <1>2 DEF Begun
<1>4. Sound(o, shown, hunks)
  BY <1>2, <1>3 DEF Sound
<1> QED BY <1>4 DEF o

LEMMA EarliestIs ==
  ASSUME Held, NEW kind, NEW seen, Waiting(kind, seen) # {}
  PROVE  Earliest(Waiting(kind, seen)) \in 1 .. Len(causal)
<1> DEFINE S == Waiting(kind, seen)
<1>1. S \subseteq 1 .. Len(causal) /\ Len(causal) \in Nat
  BY LenProperties DEF Waiting, Held
<1> HIDE DEF S
<1>2. S \subseteq Nat /\ S # {}
  BY <1>1 DEF S
<1>3. \E i \in S : \A j \in S : i <= j
  BY <1>2, LeastElement
<1>4. Earliest(S) \in S
  BY <1>3 DEF Earliest
<1> QED BY <1>1, <1>4 DEF S

LEMMA ReceiveTracks ==
  ASSUME OnDisk, Held, Tracking, NEW was \in Text, NEW after \in Text, NEW source \in Source,
         Receive(was, after, source)
  PROVE  /\ Held' /\ Tracking' /\ CreditStep
         /\ ~Believable(was, after) => tracked' = tracked
<1>1. CASE Believable(was, after)
  <2> DEFINE baseline == IF tracked.current = NoText THEN was ELSE tracked.baseline
             events == Waiting("event", after)
             receipt == [kind |-> "receipt", seen |-> after]
  <2>1. baseline \in Known
    BY DEF Tracking, Known
  <2>2. /\ Recompute(baseline, after, source)
        /\ causal' = IF events # {} THEN RemoveAt(causal, Earliest(events))
                     ELSE Append(causal, receipt)
    BY <1>1 DEF Receive
  <2> HIDE DEF baseline, events
  <2>3. Tracking' /\ CreditStep
    BY <2>1, <2>2, RecomputeTracks
  <2>4. receipt \in Pending
    BY DEF Pending
  <2>5. ASSUME events # {} PROVE Held'
    <3>1. Earliest(events) \in 1 .. Len(causal)
      BY <2>5, EarliestIs DEF events
    <3>2. RemoveAt(causal, Earliest(events)) \in Seq(Pending)
      BY <3>1, RemoveAtIs DEF Held
    <3> QED BY <2>2, <2>5, <3>2 DEF Held
  <2>6. ASSUME events = {} PROVE Held'
    <3>1. Append(causal, receipt) \in Seq(Pending)
      BY <2>4, AppendProperties DEF Held
    <3> QED BY <2>2, <2>6, <3>1 DEF Held
  <2> QED BY <1>1, <2>3, <2>5, <2>6
<1>2. CASE ~Believable(was, after)
  BY <1>2, SameCredit DEF Receive, Held, Tracking
<1> QED BY <1>1, <1>2

LEMMA TrackerInit ==
  ASSUME HunkInit
  PROVE  TrackerInv
<1>1. Original \in Text
  BY HunkConstants DEF Original, Text, HunkConfig
<1>2. OnDisk
  BY <1>1 DEF HunkInit, OnDisk
<1>3. Held
  BY EmptySeq DEF HunkInit, Held
<1>4. Tracking
  BY EmptyHunks DEF HunkInit, Tracking, Known
<1>5. Edited
  BY DEF HunkInit, Edited, SoundEdit, Edit, EditStep, NoEdit, Known
<1>6. Asked
  BY OverIsSound DEF HunkInit, Asked, AllSound
<1> QED BY <1>2, <1>3, <1>4, <1>5, <1>6 DEF TrackerInv

\* The tracker's own steps.
LEMMA TrackStep ==
  ASSUME TrackerInv, Tracks \/ WatchGap \/ Reconcile
  PROVE  TrackerInv' /\ CreditStep
<1> USE DEF TrackerInv
<1>0. <<>> \in Seq(Pending)
  BY EmptySeq
<1>1. CASE Observe
  <2> DEFINE receipts == Waiting("receipt", text)
             event == [kind |-> "event", seen |-> text]
  <2>1. /\ UNCHANGED <<text, author, holder, edits, gap, review, outside>> /\ unseen' = FALSE
        /\ receipts # {} => /\ causal' = RemoveAt(causal, Earliest(receipts))
                            /\ tracked' = [tracked EXCEPT !.current = text]
        /\ receipts = {} => causal' = Append(causal, event) /\ tracked' = tracked
    BY <1>1 DEF Observe
  <2>2. OnDisk' /\ Edited'
    BY <2>1 DEF OnDisk, Edited
  <2> HIDE DEF receipts
  <2>3. event \in Pending
    BY DEF OnDisk, Pending
  <2>4. ASSUME receipts # {} PROVE Held' /\ Tracking' /\ Asked' /\ CreditStep
    <3>1. Earliest(receipts) \in 1 .. Len(causal)
      BY <2>4, EarliestIs DEF receipts
    <3>2. RemoveAt(causal, Earliest(receipts)) \in Seq(Pending)
      BY <3>1, RemoveAtIs DEF Held
    <3>3. /\ tracked'.hunks = tracked.hunks /\ tracked'.shown = tracked.shown
          /\ tracked'.current = text /\ tracked'.baseline = tracked.baseline
          /\ tracked' \in [baseline : Known, current : Known, shown : Known, hunks : Seq(Hunk)]
      BY <2>1, <2>4 DEF Tracking, OnDisk, Known
    <3>4. Tracking'
      BY <3>3, NoTextIs DEF Tracking, OnDisk
    <3> QED BY <2>1, <2>4, <3>2, <3>3, <3>4, SameCredit DEF Held, Asked
  <2>5. ASSUME receipts = {} PROVE Held' /\ Tracking' /\ Asked' /\ CreditStep
    <3>1. Append(causal, event) \in Seq(Pending)
      BY <2>3, AppendProperties DEF Held
    <3> QED BY <2>1, <2>5, <3>1, SameCredit DEF Held, Asked, Tracking
  <2> QED BY <2>2, <2>4, <2>5
<1>2. CASE WindowCloses
  <2>1. /\ causal # <<>> /\ causal' = Tail(causal)
        /\ UNCHANGED <<text, author, holder, unseen, edits, gap>>
    BY <1>2 DEF WindowCloses, workspaceFileVars
  <2>2. OnDisk' /\ Edited'
    BY <2>1 DEF OnDisk, Edited
  <2>3. Tail(causal) \in Seq(Pending) /\ Head(causal) \in Pending
    BY <2>1, HeadTailProperties DEF Held
  <2>4. Held'
    BY <2>1, <2>3 DEF Held
  <2>5. ASSUME Head(causal).kind = "event" PROVE Tracking' /\ Asked' /\ CreditStep
    <3>1. /\ Recompute(tracked.baseline, Head(causal).seen, "outside") /\ review' = Outdated
          /\ Head(causal).seen \in Text /\ tracked.baseline \in Known /\ "outside" \in Source
      BY <1>2, <2>3, <2>5 DEF WindowCloses, Pending, Tracking, Source
    <3>2. Tracking' /\ CreditStep
      BY <3>1, RecomputeTracks
    <3> QED BY <3>1, <3>2, OutdatedIsSound DEF Asked
  <2>6. ASSUME Head(causal).kind # "event" PROVE Tracking' /\ Asked' /\ CreditStep
    BY <1>2, <2>6, SameCredit DEF WindowCloses, Tracking, Asked
  <2> QED BY <2>2, <2>4, <2>5, <2>6
<1>3. CASE WatchGap
  <2>1. OnDisk' /\ Held' /\ Edited'
    BY <1>0, <1>3 DEF WatchGap, OnDisk, Held, Edited
  <2>2. UNCHANGED <<tracked, review>>
    BY <1>3 DEF WatchGap
  <2> QED BY <2>1, <2>2, SameCredit DEF Tracking, Asked
<1>4. CASE Reconcile
  <2>1. OnDisk' /\ Held' /\ Edited'
    BY <1>4 DEF Reconcile, OnDisk, Held, Edited, workspaceFileVars
  <2>2. ASSUME tracked.current \in {NoText, text} PROVE Tracking' /\ Asked' /\ CreditStep
    BY <1>4, <2>2, SameCredit DEF Reconcile, Tracking, Asked
  <2>3. ASSUME tracked.current \notin {NoText, text} PROVE Tracking' /\ Asked' /\ CreditStep
    <3>1. /\ Recompute(tracked.baseline, text, "outside") /\ review' = Outdated
          /\ text \in Text /\ tracked.baseline \in Known /\ "outside" \in Source
      BY <1>4, <2>3 DEF Reconcile, OnDisk, Tracking, Source
    <3>2. Tracking' /\ CreditStep
      BY <3>1, RecomputeTracks
    <3> QED BY <3>1, <3>2, OutdatedIsSound DEF Asked
  <2> QED BY <2>1, <2>2, <2>3
<1> QED BY <1>1, <1>2, <1>3, <1>4 DEF Tracks

\* The steps of tools and of other programs.
LEMMA WriterStep ==
  ASSUME TrackerInv, OutsiderWrites \/ \E e \in Editor : ToolEdits(e)
  PROVE  TrackerInv' /\ CreditStep
<1> USE DEF TrackerInv
<1>1. CASE OutsiderWrites
  <2>1. PICK p \in Place, v \in Values : text' = [text EXCEPT ![p] = v]
    BY <1>1 DEF OutsiderWrites
  <2>2. /\ author' = "outside" /\ unseen' = TRUE
        /\ UNCHANGED <<holder, edits, tracked, causal, gap, review>>
    BY <1>1 DEF OutsiderWrites, trackerVars
  <2>3. text' \in Text
    BY <2>1 DEF OnDisk, Text
  <2>4. OnDisk' /\ Edited' /\ Held' /\ Tracking' /\ Asked'
    BY <2>2, <2>3 DEF OnDisk, Edited, Held, Tracking, Asked
  <2> QED BY <2>2, <2>4, SameCredit
<1>2. ASSUME NEW e \in Editor, ToolReads(e) PROVE TrackerInv' /\ CreditStep
  <2> DEFINE d == [step |-> "read", before |-> text, after |-> NoText]
  <2>1. /\ holder' = e /\ edits' = [edits EXCEPT ![e] = d]
        /\ UNCHANGED <<text, author, unseen, tracked, causal, gap, review>>
    BY <1>2 DEF ToolReads, trackerVars
  <2>2. SoundEdit(d) /\ d \in Edit
    BY DEF SoundEdit, Edit, EditStep, OnDisk, Known
  <2> HIDE DEF d
  <2>3. Edited'
    BY <2>1, <2>2 DEF Edited
  <2>4. OnDisk' /\ Held' /\ Tracking' /\ Asked'
    BY <2>1 DEF OnDisk, Held, Tracking, Asked
  <2> QED BY <2>1, <2>3, <2>4, SameCredit
<1>3. ASSUME NEW e \in Editor, ToolWrites(e) PROVE TrackerInv' /\ CreditStep
  <2>1. PICK p \in Place, v \in Values : text' = [edits[e].before EXCEPT ![p] = v]
    BY <1>3 DEF ToolWrites
  <2> DEFINE old == edits[e]
             d == [[old EXCEPT !.step = "wrote"] EXCEPT !.after = text']
  <2>2. /\ old.step = "read" /\ holder' = Nobody /\ author' = e /\ unseen' = TRUE
        /\ edits' = [edits EXCEPT ![e] = d]
        /\ UNCHANGED <<tracked, causal, gap, review>>
    BY <1>3 DEF ToolWrites, trackerVars, Edited
  <2>3. SoundEdit(old)
    BY DEF Edited
  <2> HIDE DEF old
  <2>4. text' \in Text
    BY <2>1, <2>2, <2>3 DEF SoundEdit, Text, old
  <2>5. d \in Edit /\ d.step = "wrote" /\ d.before = old.before /\ d.after = text'
    <3>1. old \in Edit /\ text' \in Known /\ "wrote" \in EditStep
      BY <2>3, <2>4 DEF SoundEdit, Known, EditStep
    <3> QED BY <3>1 DEF Edit
  <2> HIDE DEF d
  <2>6. SoundEdit(d)
    BY <2>2, <2>3, <2>4, <2>5 DEF SoundEdit
  <2>7. Edited'
    BY <2>2, <2>5, <2>6 DEF Edited
  <2>8. OnDisk' /\ Held' /\ Tracking' /\ Asked'
    BY <2>2, <2>4 DEF OnDisk, Held, Tracking, Asked
  <2> QED BY <2>2, <2>7, <2>8, SameCredit
<1>4. ASSUME NEW e \in Editor, ToolReports(e) PROVE TrackerInv' /\ CreditStep
  <2> DEFINE old == edits[e]
             d == [old EXCEPT !.step = "done"]
  <2>1. /\ old.step = "wrote" /\ edits' = [edits EXCEPT ![e] = d]
        /\ Receive(old.before, old.after, "agent")
        /\ review' = IF Believable(old.before, old.after) THEN Outdated ELSE review
        /\ UNCHANGED <<text, author, holder, unseen, gap>>
    BY <1>4 DEF ToolReports, workspaceFileVars
  <2>2. SoundEdit(old)
    BY DEF Edited
  <2> HIDE DEF old
  <2>3. old \in Edit /\ old.before \in Text /\ old.after \in Text /\ "agent" \in Source
    BY <2>1, <2>2 DEF SoundEdit, Source
  <2>4. d \in Edit /\ d.before = old.before /\ d.after = old.after
    BY <2>3 DEF Edit, EditStep
  <2> HIDE DEF d
  <2>5. SoundEdit(d)
    BY <2>3, <2>4 DEF SoundEdit
  <2>6. OnDisk' /\ Edited'
    BY <2>1, <2>4, <2>5 DEF OnDisk, Edited
  <2>7. /\ Held' /\ Tracking' /\ CreditStep
        /\ ~Believable(old.before, old.after) => tracked' = tracked
    BY <2>1, <2>3, ReceiveTracks
  <2>8. Asked'
    BY <2>1, <2>7, OutdatedIsSound DEF Asked
  <2> QED BY <2>6, <2>7, <2>8
<1> QED BY <1>1, <1>2, <1>3, <1>4 DEF ToolEdits

\* A request begins with the latest snapshot, and ends.
LEMMA AskOrRefuse ==
  ASSUME TrackerInv, NEW r \in Reviewer, Ask(r) \/ Refuse(r)
  PROVE  TrackerInv' /\ CreditStep
<1> USE DEF TrackerInv
<1>0. NumPlaces \in Nat
  BY HunkConstants DEF HunkConfig
<1>1. CASE Ask(r)
  <2>1. PICK step \in {"accept", "reject"}, p \in {0} \cup {h.at : h \in Range(tracked.hunks)} :
          review' = [review EXCEPT ![r] = [Unasked EXCEPT !.step = step, !.place = p,
                                                          !.after = tracked.shown]]
    BY <1>1 DEF Ask
  <2> DEFINE q == [[[Unasked EXCEPT !.step = step] EXCEPT !.place = p] EXCEPT !.after = tracked.shown]
  <2>2. /\ tracked.shown # NoText /\ review' = [review EXCEPT ![r] = q]
        /\ UNCHANGED <<text, author, holder, unseen, edits, tracked, causal, gap>>
    BY <1>1, <2>1 DEF Ask, workspaceFileVars, trackerVars
  <2>3. tracked.shown \in Text /\ tracked.shown \in Known
    BY <2>2 DEF Tracking, Known
  <2>4. p \in 0 .. NumPlaces
    <3>1. \A h \in Range(tracked.hunks) : h \in Hunk
      BY ElementOfSeq, LenProperties DEF Tracking, Range
    <3> QED BY <1>0, <3>1 DEF Hunk
  <2>5. /\ q \in Requested /\ q.step = step /\ q.after = tracked.shown /\ q.place = p
    <3>1. Unasked \in Requested /\ step \in RequestSteps
      BY OverIsSound DEF RequestSteps
    <3> QED BY <2>3, <2>4, <3>1 DEF Requested
  <2>6. p # 0 => \E h \in Range(tracked.hunks) : h.at = p
    OBVIOUS
  <2> HIDE DEF q
  <2>7. Sound(q, tracked.shown, tracked.hunks)
    BY <2>3, <2>5, <2>6 DEF Sound
  <2>8. Asked'
    BY <2>2, <2>7, OneChanges DEF Asked
  <2> QED BY <2>2, <2>8, SameCredit DEF OnDisk, Held, Tracking, Edited
<1>2. CASE Refuse(r)
  <2>1. /\ review' = [review EXCEPT ![r] = [Unasked EXCEPT !.step = "over"]]
        /\ holder' = IF holder = r THEN Nobody ELSE holder
        /\ UNCHANGED <<text, author, unseen, edits, tracked, causal, gap>>
    BY <1>2 DEF Refuse, RequestEnds, trackerVars
  <2>2. Asked'
    BY <2>1, OverIsSound, OneChanges DEF Asked
  <2> QED BY <2>1, <2>2, SameCredit DEF OnDisk, Held, Tracking, Edited
<1> QED BY <1>1, <1>2

\* What a request names is a place of the file, or the file.
LEMMA TakenIsText ==
  ASSUME NEW r \in Reviewer, review[r].place \in 0 .. NumPlaces,
         NEW into \in Text, NEW from \in Text
  PROVE  TakenFrom(r, into, from) \in Text
<1>1. NumPlaces \in Nat
  BY HunkConstants DEF HunkConfig
<1>2. review[r].place # 0 => review[r].place \in Place
  BY <1>1 DEF Place
<1>3. review[r].place # 0 => from[review[r].place] \in Values
  BY <1>2 DEF Text
<1> QED BY <1>2, <1>3 DEF TakenFrom, Text

LEMMA AcceptStep ==
  ASSUME TrackerInv, NEW r \in Reviewer, Accept(r)
  PROVE  TrackerInv' /\ CreditStep
<1> USE DEF TrackerInv
<1> DEFINE q == review[r]
           over == [Unasked EXCEPT !.step = "over"]
<1>1. /\ q.step = "accept" /\ StillShown(r)
      /\ UNCHANGED <<text, author, holder, unseen, edits, causal, gap>>
  BY DEF Accept, workspaceFileVars
<1>2. Sound(q, tracked.shown, tracked.hunks) /\ review \in [Reviewer -> Requested]
  BY DEF Asked, AllSound
<1>3. OnDisk' /\ Held' /\ Edited'
  BY <1>1 DEF OnDisk, Held, Edited
<1>4. /\ Begun(q) /\ q.after \in Text /\ ~q.stale /\ tracked.shown = q.after
      /\ tracked.shown # NoText /\ tracked.current \in Text /\ q.place \in 0 .. NumPlaces
  <2>1. Begun(q) /\ q.after \in Text /\ ~q.stale /\ tracked.shown = q.after
    BY <1>1, <1>2 DEF Sound, Begun, StillShown
  <2>2. tracked.shown # NoText
    BY <2>1, NoTextIs
  <2> QED BY <1>2, <2>1, <2>2 DEF Tracking, Known, Sound, Requested
<1>5. ASSUME q.place = 0 PROVE Tracking' /\ Asked' /\ CreditStep
  <2>1. /\ tracked' = [tracked EXCEPT !.baseline = tracked.current, !.shown = NoText,
                                     !.hunks = <<>>]
        /\ review' = [review EXCEPT ![r] = over]
    BY <1>5 DEF Accept, RequestEnds
  <2>2. /\ tracked' \in [baseline : Known, current : Known, shown : Known, hunks : Seq(Hunk)]
        /\ tracked'.hunks = <<>> /\ tracked'.shown = NoText
    <3>1. NoText \in Known /\ <<>> \in Seq(Hunk)
      BY EmptyHunks DEF Known
    <3> QED BY <2>1, <3>1 DEF Tracking
  <2>3. Tracking'
    BY <2>2, EmptyHunks DEF Tracking
  <2>4. \A s \in Reviewer : Sound(review[s], NoText, <<>>)
    BY DEF Asked, AllSound, Sound
  <2>5. AllSound(review, NoText, <<>>)
    BY <1>2, <2>4 DEF AllSound
  <2>6. AllSound([review EXCEPT ![r] = over], NoText, <<>>)
    BY <2>5, OverIsSound, OneChanges
  <2> QED BY <2>1, <2>2, <2>3, <2>6, SameCredit DEF Asked
<1>6. ASSUME q.place # 0 PROVE Tracking' /\ Asked' /\ CreditStep
  <2> DEFINE h == CHOOSE g \in Range(tracked.hunks) : g.at = q.place
             baseline == TakenFrom(r, tracked.baseline, tracked.current)
  <2>1. /\ Recompute(baseline, tracked.current, h.source)
        /\ review' = [Outdated EXCEPT ![r] = over]
    BY <1>6 DEF Accept
  <2>2. h \in Range(tracked.hunks) /\ h.at = q.place
    BY <1>2, <1>4, <1>6 DEF Sound
  <2> HIDE DEF h
  <2>3. h.source \in Source
    <3>1. h \in Hunk
      BY <2>2, ElementOfSeq, LenProperties DEF Tracking, Range
    <3> QED BY <3>1 DEF Hunk
  <2>4. tracked.baseline \in Text
    BY <1>6, <2>2 DEF Tracking, Known
  <2>5. baseline \in Known
    BY <1>4, <2>4, TakenIsText DEF Known
  <2> HIDE DEF baseline
  <2>6. Tracking' /\ CreditStep
    BY <1>4, <2>1, <2>3, <2>5, RecomputeTracks
  <2>7. AllSound([Outdated EXCEPT ![r] = over], tracked'.shown, tracked'.hunks)
    <3>1. AllSound(Outdated, tracked'.shown, tracked'.hunks)
      BY OutdatedIsSound
    <3>2. Sound(over, tracked'.shown, tracked'.hunks)
      BY OverIsSound
    <3> HIDE DEF over
    <3> QED BY <3>1, <3>2, OneChanges
  <2> QED BY <2>1, <2>6, <2>7 DEF Asked
<1> QED BY <1>3, <1>5, <1>6

\* A reject goes on one step; only the last changes the tracker.
LEMMA GoesOn ==
  ASSUME TrackerInv, NEW r \in Reviewer, NEW step \in RequestSteps \ {"new", "over"},
         Begun(review[r]), step \in {"planned", "verified", "wrote"} => review[r].plan \in Text,
         ToStep(r, step), UNCHANGED <<edits, trackerVars>>, OnDisk'
  PROVE  TrackerInv' /\ CreditStep
<1> USE DEF TrackerInv
<1> DEFINE q == [review[r] EXCEPT !.step = step]
<1>1. Sound(review[r], tracked.shown, tracked.hunks) /\ review \in [Reviewer -> Requested]
  BY DEF Asked, AllSound
<1>2. Sound(q, tracked.shown, tracked.hunks)
  BY <1>1, StepIsSound
<1>3. review' = [review EXCEPT ![r] = q] /\ UNCHANGED <<edits, tracked, causal, gap>>
  BY <1>1 DEF ToStep, trackerVars
<1> HIDE DEF q
<1>4. Asked'
  BY <1>2, <1>3, OneChanges DEF Asked
<1> QED BY <1>3, <1>4, SameCredit DEF Held, Tracking, Edited

LEMMA RejectGoesOn ==
  ASSUME TrackerInv, NEW r \in Reviewer,
         RejectFences(r) \/ PrepareReject(r) \/ VerifyTarget(r) \/ RejectWrites(r)
  PROVE  TrackerInv' /\ CreditStep
<1> DEFINE q == review[r]
<1>0. /\ OnDisk /\ Tracking /\ Sound(q, tracked.shown, tracked.hunks)
      /\ review \in [Reviewer -> Requested] /\ q \in Requested
  BY DEF TrackerInv, Asked, AllSound
<1> HIDE DEF q
<1>1. CASE RejectFences(r)
  <2>1. /\ q.step = "reject" /\ holder' = r /\ ToStep(r, "fenced")
        /\ UNCHANGED <<text, author, unseen>> /\ UNCHANGED <<edits, trackerVars>>
    BY <1>1 DEF RejectFences, q
  <2>2. OnDisk'
    BY <1>0, <2>1 DEF OnDisk, trackerVars
  <2>3. "fenced" \in RequestSteps \ {"new", "over"} /\ Begun(q)
    BY <2>1 DEF Begun, RequestSteps
  <2> QED BY <2>1, <2>2, <2>3, GoesOn DEF q
<1>2. CASE PrepareReject(r)
  <2> DEFINE plan == TakenFrom(r, tracked.current, tracked.baseline)
             o == [[q EXCEPT !.step = "planned"] EXCEPT !.plan = plan]
  <2>1. /\ q.step = "fenced" /\ StillShown(r) /\ tracked.baseline # NoText
        /\ review' = [review EXCEPT ![r].step = "planned", ![r].plan = plan]
        /\ UNCHANGED <<text, author, holder, unseen, edits, tracked, causal, gap>>
    BY <1>2 DEF PrepareReject, workspaceFileVars, trackerVars, q
  <2>2. review' = [review EXCEPT ![r] = o]
    BY <1>0, <2>1 DEF q
  <2>3. Begun(q) /\ q.after \in Text /\ tracked.shown = q.after /\ q.place \in 0 .. NumPlaces
    BY <1>0, <2>1 DEF Begun, Sound, StillShown, Requested, q
  <2>4. tracked.current \in Text /\ tracked.baseline \in Text
    BY <1>0, <2>1, <2>3, NoTextIs DEF Tracking, Known
  <2>5. plan \in Text /\ plan \in Known
    BY <2>3, <2>4, TakenIsText DEF Known, q
  <2> HIDE DEF plan
  <2>6. /\ o \in Requested /\ o.step = "planned" /\ o.after = q.after /\ o.plan = plan
        /\ o.stale = q.stale /\ o.place = q.place
    <3>1. "planned" \in RequestSteps
      BY DEF RequestSteps
    <3> QED BY <1>0, <2>5, <3>1 DEF Requested
  <2> HIDE DEF o
  <2>7. Sound(o, tracked.shown, tracked.hunks)
    BY <1>0, <2>3, <2>5, <2>6 DEF Sound
  <2>8. AllSound([review EXCEPT ![r] = o], tracked.shown, tracked.hunks)
    BY <2>7, OneChanges DEF Asked, TrackerInv
  <2>9. Asked'
    BY <2>1, <2>2, <2>8 DEF Asked
  <2> QED BY <2>1, <2>9, SameCredit DEF TrackerInv, OnDisk, Held, Tracking, Edited
<1>3. CASE VerifyTarget(r)
  <2>1. /\ q.step = "planned" /\ ToStep(r, "verified")
        /\ UNCHANGED <<text, author, holder, unseen>> /\ UNCHANGED <<edits, trackerVars>>
    BY <1>3 DEF VerifyTarget, workspaceFileVars, q
  <2>2. OnDisk'
    BY <1>0, <2>1 DEF OnDisk, trackerVars
  <2>3. "verified" \in RequestSteps \ {"new", "over"} /\ Begun(q) /\ q.plan \in Text
    BY <1>0, <2>1 DEF Begun, RequestSteps, Sound
  <2> QED BY <2>1, <2>2, <2>3, GoesOn DEF q
<1>4. CASE RejectWrites(r)
  <2>1. /\ q.step = "verified" /\ ToStep(r, "wrote") /\ UNCHANGED <<edits, trackerVars>>
        /\ text' = q.plan /\ author' = r /\ unseen' = TRUE /\ holder' = Nobody
    BY <1>4 DEF RejectWrites, q
  <2>2. "wrote" \in RequestSteps \ {"new", "over"} /\ Begun(q) /\ q.plan \in Text
    BY <1>0, <2>1 DEF Begun, RequestSteps, Sound
  <2>3. OnDisk'
    BY <1>0, <2>1, <2>2 DEF OnDisk, trackerVars
  <2> QED BY <2>1, <2>2, <2>3, GoesOn DEF q
<1> QED BY <1>1, <1>2, <1>3, <1>4

LEMMA RejectReportsStep ==
  ASSUME TrackerInv, NEW r \in Reviewer, RejectReports(r)
  PROVE  TrackerInv' /\ CreditStep
<1> DEFINE q == review[r]
           over == [Unasked EXCEPT !.step = "over"]
           seen == IF Believable(q.after, q.plan) THEN Outdated ELSE review
<1>1. /\ q.step = "wrote" /\ Receive(q.after, q.plan, "hook")
      /\ review' = [seen EXCEPT ![r] = over]
      /\ UNCHANGED <<text, author, holder, unseen, edits, gap>>
  BY DEF RejectReports, workspaceFileVars
<1>2. q.after \in Text /\ q.plan \in Text /\ "hook" \in Source
  BY <1>1 DEF TrackerInv, Asked, AllSound, Sound, Begun, Source
<1>3. /\ Held' /\ Tracking' /\ CreditStep
      /\ ~Believable(q.after, q.plan) => tracked' = tracked
  BY <1>1, <1>2, ReceiveTracks DEF TrackerInv
<1>4. AllSound(seen, tracked'.shown, tracked'.hunks)
  BY <1>3, OutdatedIsSound DEF TrackerInv, Asked
<1> HIDE DEF seen
<1>5. AllSound([seen EXCEPT ![r] = over], tracked'.shown, tracked'.hunks)
  BY <1>4, OverIsSound, OneChanges
<1>6. Asked'
  BY <1>1, <1>5 DEF Asked
<1> QED BY <1>1, <1>3, <1>6 DEF TrackerInv, OnDisk, Edited

LEMMA TrackerKept ==
  ASSUME TrackerInv, [HunkNext]_hunkVars
  PROVE  TrackerInv' /\ CreditStep
<1>1. CASE UNCHANGED hunkVars
  <2>1. UNCHANGED <<text, author, holder, unseen, edits, tracked, causal, gap, review>>
    BY <1>1 DEF hunkVars, workspaceFileVars, trackerVars
  <2> QED BY <2>1, SameCredit DEF TrackerInv, OnDisk, Held, Tracking, Edited, Asked
<1>2. CASE Tracks \/ WatchGap \/ Reconcile
  BY <1>2, TrackStep
<1>3. CASE OutsiderWrites \/ \E e \in Editor : ToolEdits(e)
  BY <1>3, WriterStep
<1>4. ASSUME NEW r \in Reviewer, Ask(r) \/ Reviews(r) PROVE TrackerInv' /\ CreditStep
  BY <1>4, AskOrRefuse, AcceptStep, RejectGoesOn, RejectReportsStep DEF Reviews
<1> QED BY <1>1, <1>2, <1>3, <1>4 DEF HunkNext

LEMMA TrackerInvariant == HunkSpec => []TrackerInv
<1>1. HunkInit => TrackerInv
  BY TrackerInit
<1>2. TrackerInv /\ [HunkNext]_hunkVars => TrackerInv'
  BY TrackerKept
<1> QED BY <1>1, <1>2, PTL DEF HunkSpec

LEMMA TrackerTypes == TrackerInv => HunkTypeOK
<1> SUFFICES ASSUME TrackerInv PROVE HunkTypeOK
  OBVIOUS
<1> USE DEF TrackerInv
<1>1. edits \in [Editor -> [step : {"new", "read", "wrote", "done"},
                            before : Text \cup {NoText}, after : Text \cup {NoText}]]
  BY DEF Edited, Edit, EditStep, Known
<1>2. {tracked.baseline, tracked.current, tracked.shown} \subseteq Text \cup {NoText}
  BY DEF Tracking, Known
<1>3. \A h \in Range(tracked.hunks) :
        h.source \in {"agent", "hook", "outside"} /\ h.range \in [start : Nat, lines : Nat]
  <2>1. \A h \in Range(tracked.hunks) : h \in Hunk
    BY ElementOfSeq, LenProperties DEF Tracking, Range
  <2> QED BY <2>1 DEF Hunk, Source, Lines
<1>4. \A r \in Reviewer : {review[r].after, review[r].plan} \subseteq Text \cup {NoText}
  BY DEF Asked, AllSound, Sound, Requested, Known
<1> QED BY <1>1, <1>2, <1>3, <1>4 DEF HunkTypeOK, OnDisk, Held, Pending

\* Whatever the tracker, the tools, other programs and the front ends do, the
\* variables of the tracker have their types (hunk/actor.rs, file_review.rs).
THEOREM HunkTypes == HunkSpec => []HunkTypeOK
BY TrackerInvariant, TrackerTypes, PTL

\* A change keeps whom it is credited to, as long as the same change is not made
\* at two places: on its lines, and also when it was moved, if no other old hunk
\* was like it and no new one reaches over its old lines (recompute_and_record,
\* hunk/actor.rs:703, and best_identity_match, hunk/diff.rs:129).
THEOREM CreditIsKept == HunkSpec => CreditStays
<1>1. TrackerInv /\ [HunkNext]_hunkVars => CreditStep
  BY TrackerKept
<1>2. HunkSpec => [][CreditStep]_hunkVars
  BY <1>1, TrackerInvariant, PTL DEF HunkSpec
<1> QED BY <1>2, PTL DEF CreditStays, CreditStep, KeepsCredit

-----------------------------------------------------------------------------
(* Rewinds of a session. *)

-----------------------------------------------------------------------------
(* The types of the operation in hand and of the session's records. *)

Full == [workspace : [Entry -> EntryText], tracker : Tracked]

OperationRecord ==
  [task : {"none", "create", "rewind", "startup"},
   step : {"idle", "capture", "preflight", "apply", "rollback", "append", "manifest", "refresh"},
   reading : {"none", "current", "target", "restart", "startup"},
   at : 0 .. NumEntries + 1, seen : Seq(EntryText), id : Nat, from : Review, to : Review,
   back : BOOLEAN, undo : BOOLEAN, bad : BOOLEAN, result : {"none", "failed", "partial", "done"}]

JournalRecord == [kind : {"turn", "created", "rewound"}, branch : Nat, cutoff : Nat, id : Nat]
SidecarRecord == [saved : BOOLEAN, branch : Nat, cutoff : Nat, review : Full, told : SUBSET Nat]

\* Which operation may stand where, and what it has captured by then.
InHand ==
  /\ rewind \in OperationRecord
  /\ rewind.step = "idle" <=> rewind.task = "none"
  /\ rewind.task = "create" =>
       /\ rewind.step \in {"capture", "append", "manifest", "refresh"}
       /\ rewind.reading = "current" /\ rewind.from.tracker \in Tracked
  /\ rewind.task = "startup" =>
       rewind.step = "capture" /\ rewind.reading = "startup" /\ rewind.to \in Full
  /\ rewind.task = "rewind" =>
       /\ rewind.reading \in {"current", "target", "restart"}
       /\ rewind.to \in Full /\ rewind.from.tracker \in Tracked
       /\ rewind.from \in Full \/ (rewind.step = "capture" /\ rewind.reading = "current")

\* Nothing is numbered past the bound: who has yet to log finds room.
Room ==
  /\ Len(journal) <= MaxRecords /\ manifest <= Len(journal) /\ branch <= Len(journal)
  /\ rewind.task \in {"create", "rewind"} /\ rewind.step \notin {"manifest", "refresh"}
     /\ ~rewind.undo => Len(journal) < MaxRecords
  /\ rewind.step \in {"append", "manifest", "refresh"} => ~rewind.undo
  /\ rewind.task = "create" => ~rewind.undo

\* What lies on disk and in memory beside the operation.
Stores ==
  /\ workspace \in [Entry -> EntryText] /\ tracker \in Tracked
  /\ journal \in Seq(JournalRecord) /\ manifest \in Nat /\ branch \in Nat
  /\ sidecar \in Seq(SidecarRecord)
  /\ session \in {"open", "closed", "opening", "refused"} /\ disturbances \in Nat
  /\ before \in [review : Review, manifest : Nat, touched : SUBSET Entry]
  /\ told \in [0 .. MaxRecords -> SUBSET Nat]

TypeInv == Stores /\ InHand /\ Room

-----------------------------------------------------------------------------
(* The journal and the checkpoints. *)

\* Every rewind in the journal has its checkpoint, of the branch it left.
RewindsFound ==
  \A e \in DOMAIN journal :
    journal[e].kind = "rewound" =>
      /\ journal[e].id \in DOMAIN sidecar
      /\ sidecar[journal[e].id].saved
      /\ sidecar[journal[e].id].branch = journal[e].branch
      /\ sidecar[journal[e].id].cutoff = journal[e].cutoff

\* A checkpoint that may still be removed is the last and nobody has rewound
\* to it.
CreateFresh ==
  rewind.task = "create" =>
    IF rewind.step = "capture" THEN rewind.id = Len(sidecar) + 1
    ELSE /\ rewind.id = Len(sidecar) /\ rewind.id # 0
         /\ \A e \in DOMAIN journal : journal[e].kind = "rewound" => journal[e].id # rewind.id

\* A checkpoint that is being rewound to stays, and its event is the last.
RewindKept ==
  rewind.task = "rewind" =>
    /\ rewind.id \in DOMAIN sidecar /\ sidecar[rewind.id].saved
    /\ rewind.step \in {"manifest", "refresh"} =>
         journal # <<>> /\ journal[Len(journal)].kind = "rewound"

StartupInv ==
  /\ manifest # RootBranch => IsRewound(manifest)
  /\ RewindsFound /\ CreateFresh /\ RewindKept

-----------------------------------------------------------------------------
(* The types. *)

\* What a branch has committed is at least each of its events.
LEMMA CommittedLast ==
  ASSUME TypeInv, NEW b
  PROVE  /\ CommittedThrough(b) \in 0 .. Len(journal)
         /\ \A e \in Visible(b) : e <= CommittedThrough(b)
<1> DEFINE n == Len(journal)
           V == Visible(b)
           T == {n - e : e \in V}
<1>1. n \in Nat /\ V \subseteq 1 .. n
  BY DEF TypeInv, Stores, Visible
<1>2. CASE V = {}
  BY <1>2 DEF CommittedThrough
<1>3. CASE V # {}
  <2>1. \E e \in V : \A d \in V : d <= e
    <3> HIDE DEF V
    <3>1. T \subseteq Nat /\ T # {}
      <4>1. PICK e0 \in V : TRUE
        BY <1>3
      <4>2. n - e0 \in T
        BY <4>1
      <4>3. \A e \in 1 .. n : n - e \in Nat
        BY <1>1
      <4> QED BY <1>1, <4>2, <4>3
    <3>2. PICK x \in T : \A y \in T : x <= y
      BY <3>1, LeastElement
    <3>3. PICK e \in V : x = n - e
      BY <3>2
    <3>4. ASSUME NEW d \in V PROVE d <= e
      <4>1. n - d \in T
        OBVIOUS
      <4>2. n - e <= n - d
        BY <3>2, <3>3, <4>1
      <4>3. d \in Nat /\ e \in Nat
        BY <1>1
      <4> QED
        BY <1>1, <4>2, <4>3
    <3> QED
      BY <3>4
  <2>2. CommittedThrough(b) \in V /\ \A d \in V : d <= CommittedThrough(b)
    BY <1>3, <2>1 DEF CommittedThrough
  <2> QED
    BY <1>1, <2>2
<1> QED
  BY <1>2, <1>3

\* The types in detail give the types that the runs check.
LEMMA TypesShow == TypeInv => RewindTypeOK
<1> SUFFICES ASSUME TypeInv PROVE RewindTypeOK
  OBVIOUS
<1>1. SidecarRecord \subseteq [saved : BOOLEAN, branch : Nat, cutoff : Nat, review : Review,
                              told : SUBSET Nat]
  BY DEF SidecarRecord, Full, Review, Snapshot
<1>2. sidecar \in Seq([saved : BOOLEAN, branch : Nat, cutoff : Nat, review : Review,
                       told : SUBSET Nat])
  BY <1>1, SeqMonotonic DEF TypeInv, Stores
<1>3. rewind.from \in Review /\ rewind.to \in Review /\ rewind.at \in Nat
  BY RewindAssumption DEF TypeInv, InHand, OperationRecord, RewindConfig
<1> QED
  BY <1>2, <1>3 DEF TypeInv, Stores, RewindTypeOK, JournalRecord

\* What is known of the parts of an operation.
LEMMA ReviewFacts ==
  /\ NoReview \in Review /\ Full \subseteq Review
  /\ \A w \in Snapshot, t \in Tracked \cup {<<>>} : ReviewOf(w, t) \in Review
  /\ \A w \in [Entry -> EntryText], t \in Tracked : ReviewOf(w, t) \in Full
  /\ \A r \in Full : r.workspace \in [Entry -> EntryText] /\ r.tracker \in Tracked
  /\ \A r \in Review : r = ReviewOf(r.workspace, r.tracker)
  BY DEF NoReview, ReviewOf, Review, Full, Snapshot

\* A capture that has read every file is a workspace.
LEMMA CaptureFacts ==
  ASSUME NEW s \in Seq(EntryText)
  PROVE  /\ Len(s) = NumEntries => s \in [Entry -> EntryText]
         /\ \A t \in EntryText : Append(s, t) \in Seq(EntryText)
         /\ <<>> \in Seq(EntryText)
  BY RewindAssumption DEF RewindConfig, Entry

\* What is known of the records of the journal and of the checkpoints.
LEMMA RecordFacts ==
  ASSUME Stores
  PROVE  /\ Len(journal) \in Nat /\ DOMAIN journal = 1 .. Len(journal)
         /\ Len(sidecar) \in Nat /\ DOMAIN sidecar = 1 .. Len(sidecar)
         /\ \A e \in DOMAIN journal : journal[e] \in JournalRecord
         /\ \A c \in DOMAIN sidecar :
              /\ sidecar[c] \in SidecarRecord /\ sidecar[c].review \in Full
              /\ sidecar[c].saved \in BOOLEAN /\ sidecar[c].branch \in Nat
              /\ sidecar[c].cutoff \in Nat /\ sidecar[c].told \subseteq Nat
<1>1. journal \in Seq(JournalRecord) /\ sidecar \in Seq(SidecarRecord)
  BY DEF Stores
<1>2. \A c \in DOMAIN sidecar : sidecar[c] \in SidecarRecord
  BY <1>1
<1> QED
  BY <1>1, <1>2 DEF SidecarRecord

\* A file's place in a walk over them.
LEMMA PlaceFacts ==
  /\ 1 \in 0 .. NumEntries + 1
  /\ \A n \in Entry : n + 1 \in 0 .. NumEntries + 1 /\ n - 1 \in 0 .. NumEntries + 1
  BY RewindAssumption DEF RewindConfig, Entry

\* An operation that has ended.
LEMMA RestingFacts ==
  ASSUME NEW result \in {"none", "failed", "partial", "done"}, rewind' = Resting(result)
  PROVE  InHand'
  BY ReviewFacts, CaptureFacts, PlaceFacts DEF Resting, InHand, OperationRecord

\* An operation that begins.
LEMMA BeginFacts ==
  ASSUME Stores, NEW task \in {"create", "rewind"}, NEW id \in Nat, NEW to \in Review,
         task = "rewind" => to \in Full, BeginOperation(task, id, to)
  PROVE  InHand'
<1>1. ReviewOf(<<>>, tracker) \in Review /\ ReviewOf(<<>>, tracker).tracker \in Tracked
  BY ReviewFacts DEF Stores, ReviewOf, Snapshot
<1>2. <<>> \in Seq(EntryText)
  OBVIOUS
<1> QED
  BY <1>1, <1>2, ReviewFacts, PlaceFacts
     DEF BeginOperation, Resting, InHand, OperationRecord

\* A commit that fails: a rewind turns back.
LEMMA CommitErrorFacts ==
  ASSUME InHand, NEW step \in {"append", "manifest", "refresh"}, Commits(step),
         NEW result \in {"failed", "partial"}, CommitError(result)
  PROVE  InHand'
<1>1. CASE rewind.task = "create"
  BY <1>1, RestingFacts DEF CommitError, Finish
<1>2. CASE rewind.task = "rewind"
  <2>1. rewind \in OperationRecord /\ rewind.to \in Full /\ rewind.from \in Full
    BY <1>2 DEF InHand, Commits
  <2>2. rewind.to.tracker \in Tracked /\ <<>> \in Seq(EntryText)
    BY <2>1, ReviewFacts
  <2>3. rewind' = [rewind EXCEPT !.from = rewind.to, !.to = rewind.from, !.undo = TRUE,
                                 !.result = result, !.step = "preflight", !.at = 1,
                                 !.seen = <<>>]
    BY <1>2, <2>1 DEF CommitError, Restoring, OperationRecord
  <2>4. rewind' \in OperationRecord
    BY <2>1, <2>2, <2>3, ReviewFacts, PlaceFacts DEF OperationRecord
  <2> QED
    BY <1>2, <2>1, <2>2, <2>3, <2>4 DEF InHand, OperationRecord, Commits
<1> QED
  BY <1>1, <1>2 DEF Commits

\* The operation keeps its form.
LEMMA InHandKept ==
  ASSUME Stores, InHand, [RewindNext]_rewindVars
  PROVE  InHand'
<1> USE DEF InHand, OperationRecord
<1>1. CASE Turn
  BY <1>1 DEF Turn
<1>2. CASE CreateCheckpoint
  BY <1>2, ReviewFacts, BeginFacts DEF CreateCheckpoint, Stores
<1>3. CASE \E c \in DOMAIN sidecar : BeginRewind(c)
  <2>1. PICK c \in DOMAIN sidecar : BeginRewind(c)
    BY <1>3
  <2>2. c \in Nat /\ sidecar[c].review \in Full
    BY RecordFacts
  <2> QED
    BY <2>1, <2>2, ReviewFacts, BeginFacts DEF BeginRewind
<1>4. CASE \E f \in Entry : ObserveWrite(f)
  BY <1>4 DEF ObserveWrite
<1>5. CASE \E f \in Entry, t \in Texts \cup {NoFile} : OutsideWrite(f, t)
  BY <1>5 DEF OutsideWrite
<1>6. CASE ReadEntry
  <2>1. rewind.seen \in Seq(EntryText) /\ Len(rewind.seen) \in Nat
    OBVIOUS
  <2>2. Len(rewind.seen) + 1 \in Entry
    BY <1>6, <2>1, RewindAssumption DEF ReadEntry, Entry, RewindConfig
  <2>3. workspace[Len(rewind.seen) + 1] \in EntryText
    BY <2>2 DEF Stores
  <2> QED
    BY <1>6, <2>1, <2>3, CaptureFacts DEF ReadEntry
<1>7. CASE CheckpointStale
  BY <1>7, RestingFacts DEF CheckpointStale, Finish
<1>8. CASE SaveSidecar
  BY <1>8, CaptureFacts DEF SaveSidecar, Captured, Looked
<1>9. CASE StartRestore
  <2>1. rewind.seen \in [Entry -> EntryText]
    BY <1>9, CaptureFacts DEF StartRestore, Captured, Looked
  <2>2. /\ tracker' = NewTracker /\ UNCHANGED <<workspace, sessionVars, before>>
        /\ rewind' = [Restoring(rewind) EXCEPT !.from.workspace = rewind.seen]
    BY <1>9 DEF StartRestore, Captured, Looked
  <2>3. /\ rewind.from.tracker \in Tracked /\ rewind.to \in Full /\ rewind.task = "rewind"
        /\ rewind.reading = "current" /\ rewind.step = "capture" /\ <<>> \in Seq(EntryText)
    BY <1>9 DEF StartRestore, Captured, Looked
  <2> DEFINE whole == ReviewOf(rewind.seen, rewind.from.tracker)
  <2>4. rewind.from \in Review /\ rewind.to \in Review
    OBVIOUS
  <2>5. [rewind.from EXCEPT !.workspace = rewind.seen] = whole
    BY <2>4 DEF Review, ReviewOf
  <2>6. whole \in Full /\ Full \subseteq Review
    BY <2>1, <2>3, ReviewFacts
  <2>7. rewind' = [rewind EXCEPT !.from = whole, !.step = "preflight", !.at = 1, !.seen = <<>>]
    BY <2>2, <2>5 DEF Restoring
  <2> HIDE DEF whole
  <2>8. rewind' \in OperationRecord
    BY <2>3, <2>6, <2>7, PlaceFacts
  <2>9. /\ rewind'.task = "rewind" /\ rewind'.step = "preflight" /\ rewind'.from = whole
        /\ rewind'.to = rewind.to /\ rewind'.reading = "current"
    BY <2>3, <2>7
  <2> QED BY <2>3, <2>6, <2>8, <2>9 DEF Full
<1>10. CASE TargetReached
  <2>1. CASE rewind.undo
    BY <1>10, <2>1, RestingFacts DEF TargetReached, Finish
  <2>2. CASE ~rewind.undo
    <3>1. /\ rewind' = [rewind EXCEPT !.step = "append", !.seen = <<>>] /\ before' = before
          /\ rewind.step = "capture" /\ rewind.reading = "target"
      BY <1>10, <2>2 DEF TargetReached, Captured, Looked
    <3>2. <<>> \in Seq(EntryText)
      OBVIOUS
    <3> QED BY <2>2, <3>1, <3>2
  <2> QED BY <2>1, <2>2
<1>11. CASE TargetStale
  BY <1>11, CaptureFacts, PlaceFacts DEF TargetStale, Captured, Looked, Restoring
<1>12. CASE TrackerRestarted
  BY <1>12, RestingFacts DEF TrackerRestarted, Abandon, Finish
<1>13. CASE RestartStale
  BY <1>13, RestingFacts DEF RestartStale, Finish
<1>14. CASE PreflightEntry
  BY <1>14, PlaceFacts DEF PreflightEntry, At, NextEntry
<1>15. CASE PreflightStale
  <2>1. CASE rewind.back
    BY <1>15, <2>1, RestingFacts DEF PreflightStale, Finish
  <2>2. CASE ~(rewind.back)
    <3>1. /\ rewind' = [rewind EXCEPT !.step = "capture", !.reading = "restart", !.seen = <<>>]
          /\ rewind.step = "preflight"
      BY <1>15, <2>2 DEF PreflightStale, Recapture
    <3>2. <<>> \in Seq(EntryText)
      OBVIOUS
    <3> QED BY <3>1, <3>2
  <2> QED BY <2>1, <2>2
<1>16. CASE PreflightDone
  BY <1>16, PlaceFacts DEF PreflightDone, Past
<1>17. CASE ApplyEntry
  BY <1>17, PlaceFacts DEF ApplyEntry, At, NextEntry
<1>18. CASE ApplyRefused
  BY <1>18 DEF ApplyRefused, At, RollBack
<1>19. CASE ApplyFails
  BY <1>19 DEF ApplyFails, At, RollBack
<1>20. CASE ApplyDone
  BY <1>20, CaptureFacts DEF ApplyDone, Past, Recapture
<1>21. CASE RollbackEntry
  <2>1. rewind.step = "rollback" /\ rewind.at \in Entry
    BY <1>21 DEF RollbackEntry, At
  <2>2. rewind.at - 1 \in 0 .. NumEntries + 1
    BY <2>1, PlaceFacts
  <2>3. \/ rewind' = [rewind EXCEPT !.at = rewind.at - 1]
        \/ rewind' = [rewind EXCEPT !.at = rewind.at - 1, !.bad = TRUE]
    BY <1>21 DEF RollbackEntry, PreviousEntry
  <2> QED BY <2>1, <2>2, <2>3
<1>22. CASE RollbackFails
  BY <1>22, PlaceFacts DEF RollbackFails, At, PreviousEntry
<1>23. CASE RollbackDone
  <2>1. CASE rewind.bad \/ rewind.back
    BY <1>23, <2>1, RestingFacts DEF RollbackDone, Finish
  <2>2. CASE ~(rewind.bad \/ rewind.back)
    <3>1. rewind' = [rewind EXCEPT !.step = "capture", !.reading = "restart", !.seen = <<>>]
      BY <1>23, <2>2 DEF RollbackDone, Recapture
    <3>2. rewind.step = "rollback" /\ rewind.task = "rewind" /\ <<>> \in Seq(EntryText)
      BY <1>23 DEF RollbackDone, Past
    <3> QED
      BY <3>1, <3>2
  <2> QED
    BY <2>1, <2>2
<1>24. CASE CommitRefused
  BY <1>24, CommitErrorFacts DEF CommitRefused
<1>25. CASE AppendEvent
  BY <1>25 DEF AppendEvent, Commits
<1>26. CASE AppendFails
  BY <1>26, CommitErrorFacts DEF AppendFails
<1>27. CASE UpdateManifest
  BY <1>27 DEF UpdateManifest, Commits
<1>28. CASE ManifestFails
  BY <1>28, CommitErrorFacts DEF ManifestFails
<1>29. CASE Refresh
  BY <1>29, RestingFacts DEF Refresh, Finish
<1>30. CASE RefreshFails
  BY <1>30, CommitErrorFacts DEF RefreshFails
<1>31. CASE CloseSession
  BY <1>31, RestingFacts DEF CloseSession, GoesDown
<1>32. CASE DieAnywhere
  BY <1>32, RestingFacts DEF DieAnywhere, GoesDown
<1>33. CASE OpenSession
  <2>1. CASE manifest = RootBranch
    BY <1>33, <2>1 DEF OpenSession
  <2>2. CASE manifest # RootBranch
    <3>1. Startup.review \in Full
      BY <1>33, <2>2, RecordFacts DEF OpenSession, CheckpointLoads, Startup
    <3>2. <<>> \in Seq(EntryText) /\ Startup.review \in Review
      BY <3>1, ReviewFacts
    <3> QED
      <4>1. rewind' = [Resting("none") EXCEPT !.task = "startup", !.step = "capture",
                                              !.reading = "startup", !.to = Startup.review]
        BY <1>33, <2>2 DEF OpenSession
      <4> HIDE DEF Startup
      <4> QED
        BY <3>1, <3>2, <4>1, ReviewFacts, PlaceFacts DEF Resting
  <2> QED
    BY <2>1, <2>2
<1>34. CASE StartupRestored
  BY <1>34, RestingFacts DEF StartupRestored, Finish
<1>35. CASE StartupStale
  BY <1>35, RestingFacts DEF StartupStale, Finish
<1>36. CASE UNCHANGED rewindVars
  BY <1>36 DEF rewindVars
<1>37. CASE StopFails
  BY <1>37, RestingFacts DEF StopFails, Abandon, Finish
<1>38. CASE StopAgainFails
  BY <1>38, RestingFacts DEF StopAgainFails, Abandon, Finish
<1> QED
  BY <1>1, <1>2, <1>3, <1>4, <1>5, <1>6, <1>7, <1>8, <1>9, <1>10, <1>11, <1>12, <1>13, <1>14,
     <1>15, <1>16, <1>17, <1>18, <1>19, <1>20, <1>21, <1>22, <1>23, <1>24, <1>25, <1>26, <1>27,
     <1>28, <1>29, <1>30, <1>31, <1>32, <1>33, <1>34, <1>35, <1>36, <1>37, <1>38
     DEF RewindNext, CaptureStep, RestoreStep, CommitStep, SessionStep

\* The texts that a step may put down.
LEMMA TextFacts ==
  /\ Texts \cup {NoFile} \subseteq EntryText /\ Torn \in EntryText
  /\ EntryText \subseteq EntryText \cup {Untracked}
  /\ NewTracker \in Tracked
  BY DEF EntryText, Tracked, NewTracker

\* A record of the session's branch.
LEMMA RecordMade ==
  ASSUME Stores, NEW kind \in {"turn", "created", "rewound"}, NEW cutoff \in Nat, NEW id \in Nat
  PROVE  /\ Append(journal, Record(kind, cutoff, id)) \in Seq(JournalRecord)
         /\ Len(Append(journal, Record(kind, cutoff, id))) = Len(journal) + 1
<1>1. Record(kind, cutoff, id) \in JournalRecord
  BY DEF Record, JournalRecord, Stores
<1> QED
  BY <1>1 DEF Stores

\* The history of no operation.
LEMMA NothingFacts == NothingBefore \in [review : Review, manifest : Nat, touched : SUBSET Entry]
  BY ReviewFacts DEF NothingBefore, RootBranch

\* An operation that begins only writes down what it found.
LEMMA BeginStores ==
  ASSUME Stores, NEW task, NEW id, NEW to, BeginOperation(task, id, to)
  PROVE  Stores'
<1>1. ReviewOf(workspace, tracker) \in Review
  BY ReviewFacts DEF Stores, Snapshot
<1> QED
  BY <1>1 DEF BeginOperation, Stores, sessionVars, Calm

\* The checkpoint that is saved.
LEMMA SavedFacts ==
  ASSUME TypeInv, SaveSidecar
  PROVE  /\ sidecar' \in Seq(SidecarRecord) /\ Len(sidecar') = Len(sidecar) + 1
         /\ \A c \in DOMAIN sidecar : sidecar'[c] = sidecar[c]
<1> DEFINE new == [saved |-> TRUE, branch |-> branch, cutoff |-> CommittedThrough(branch),
                   review |-> ReviewOf(rewind.seen, rewind.from.tracker),
                   told |-> told[branch]]
<1>1. rewind.seen \in [Entry -> EntryText] /\ rewind.from.tracker \in Tracked
  BY CaptureFacts DEF SaveSidecar, Captured, Looked, TypeInv, InHand, OperationRecord
<1>2. branch \in 0 .. MaxRecords
  BY RecordFacts, RewindAssumption DEF TypeInv, Stores, Room, RewindConfig
<1>3. new \in SidecarRecord
  <2>1. CommittedThrough(branch) \in Nat
    BY CommittedLast, RecordFacts DEF TypeInv
  <2> QED BY <1>1, <1>2, <2>1, ReviewFacts DEF SidecarRecord, TypeInv, Stores
<1>4. sidecar \in Seq(SidecarRecord) /\ sidecar' = Append(sidecar, new)
  BY DEF SaveSidecar, TypeInv, Stores
<1> HIDE DEF new
<1> QED
  BY <1>3, <1>4

\* What a restore may find and put is text.
LEMMA PlanFacts ==
  ASSUME InHand, rewind.step \in {"preflight", "apply", "rollback"}
  PROVE  /\ rewind.task = "rewind" /\ rewind.from \in Full /\ rewind.to \in Full
         /\ Expected \in [Entry -> EntryText] /\ Replacement \in [Entry -> EntryText]
         /\ \A t \in EntryText :
              rewind.at \in Entry /\ workspace \in [Entry -> EntryText]
                => Leaves(t) \subseteq EntryText
<1>1. rewind.task = "rewind" /\ rewind.from \in Full /\ rewind.to \in Full
  BY DEF InHand, OperationRecord
<1> QED
  BY <1>1, ReviewFacts, TextFacts DEF Expected, Replacement, Leaves

\* A process that dies in a restore leaves a text or a torn file.
LEMMA DyingFacts ==
  ASSUME Stores, InHand
  PROVE  \A t \in Dying : rewind.at \in Entry /\ t \in EntryText
<1>1. CASE rewind.step \in {"apply", "rollback"} /\ rewind.at \in Entry
  BY <1>1, PlanFacts DEF Dying, Stores
<1>2. CASE ~(rewind.step \in {"apply", "rollback"} /\ rewind.at \in Entry)
  BY <1>2 DEF Dying
<1> QED
  BY <1>1, <1>2

\* A commit that fails changes at most the mark of the checkpoint it made.
LEMMA ErrorStores ==
  ASSUME Stores, InHand, NEW step \in {"append", "manifest", "refresh"}, Commits(step),
         NEW result, CommitError(result)
  PROVE  /\ sidecar' \in Seq(SidecarRecord) /\ tracker' \in Tracked
         /\ before' \in [review : Review, manifest : Nat, touched : SUBSET Entry]
         /\ UNCHANGED <<workspace, session>>
<1>1. [sidecar EXCEPT ![rewind.id].saved = FALSE] \in Seq(SidecarRecord)
  <2>1. ASSUME rewind.id \in DOMAIN sidecar
        PROVE  [sidecar[rewind.id] EXCEPT !.saved = FALSE] \in SidecarRecord
    BY <2>1, RecordFacts DEF SidecarRecord
  <2> HIDE DEF SidecarRecord
  <2>2. sidecar \in Seq(SidecarRecord)
    BY DEF Stores
  <2>3. CASE rewind.id \in DOMAIN sidecar
    <3>1. [sidecar EXCEPT ![rewind.id].saved = FALSE]
            = [sidecar EXCEPT ![rewind.id] = [sidecar[rewind.id] EXCEPT !.saved = FALSE]]
      BY <2>3
    <3> QED
      BY <2>1, <2>2, <2>3, <3>1, ExceptSeq
  <2>4. CASE rewind.id \notin DOMAIN sidecar
    <3>1. sidecar = [c \in DOMAIN sidecar |-> sidecar[c]]
      BY <2>2
    <3>2. [sidecar EXCEPT ![rewind.id].saved = FALSE] = sidecar
      BY <2>4, <3>1, Zenon
    <3> QED
      BY <2>2, <3>2
  <2> QED
    BY <2>3, <2>4
<1> QED
  BY <1>1, NothingFacts, TextFacts DEF CommitError, Commits, Finish, Stores

\* The event that is appended.
LEMMA LogsFacts ==
  ASSUME Stores, InHand, NEW step, Commits(step), Logs,
         rewind.task = "rewind" => rewind.id \in DOMAIN sidecar
  PROVE  /\ journal' \in Seq(JournalRecord) /\ Len(journal') = Len(journal) + 1
         /\ told' \in [0 .. MaxRecords -> SUBSET Nat]
<1>1. rewind.id \in Nat
  BY DEF InHand, OperationRecord
<1>2. journal' \in Seq(JournalRecord) /\ Len(journal') = Len(journal) + 1
  BY <1>1, RecordFacts, RecordMade DEF Logs, Event, Commits
<1>3. told' \in [0 .. MaxRecords -> SUBSET Nat]
  BY RecordFacts DEF Logs, Stores, Commits
<1> QED
  BY <1>2, <1>3

\* A session that goes down keeps what is on disk.
LEMMA DownFacts ==
  ASSUME Stores, GoesDown
  PROVE  /\ tracker' \in Tracked /\ branch' \in Nat /\ session' = "closed"
         /\ before' \in [review : Review, manifest : Nat, touched : SUBSET Entry]
         /\ UNCHANGED <<journal, manifest, sidecar, told>>
  BY TextFacts, NothingFacts DEF GoesDown, RootBranch, Stores

\* The stores keep their types.
LEMMA StoresKept ==
  ASSUME TypeInv, [RewindNext]_rewindVars,
         rewind.task = "rewind" => rewind.id \in DOMAIN sidecar
  PROVE  Stores'
<1> USE DEF Stores, TypeInv
<1>1. CASE Turn
  <2>1. workspace' \in [Entry -> EntryText] /\ tracker' \in Tracked
    BY <1>1, TextFacts DEF Turn, Tracked
  <2>2. journal' \in Seq(JournalRecord) /\ Len(journal') \in Nat
    BY <1>1, RecordMade DEF Turn
  <2> QED
    BY <1>1, <2>1, <2>2 DEF Turn, Calm
<1>2. CASE CreateCheckpoint
  BY <1>2, BeginStores DEF CreateCheckpoint
<1>3. CASE \E c \in DOMAIN sidecar : BeginRewind(c)
  BY <1>3, BeginStores DEF BeginRewind
<1>4. CASE \E f \in Entry : ObserveWrite(f)
  BY <1>4, TextFacts DEF ObserveWrite, sessionVars, Calm, Tracked
<1>5. CASE \E f \in Entry, t \in Texts \cup {NoFile} : OutsideWrite(f, t)
  BY <1>5, TextFacts DEF OutsideWrite, sessionVars, Disturbed
<1>6. CASE ReadEntry
  BY <1>6 DEF ReadEntry, sessionVars, Calm
<1>7. CASE CheckpointStale
  BY <1>7, NothingFacts
     DEF CheckpointStale, Fails, Disturbed, Looked, Finish, sessionVars, Calm
<1>8. CASE SaveSidecar
  BY <1>8, SavedFacts DEF SaveSidecar, Captured, Looked, Calm
<1>9. CASE StartRestore
  BY <1>9, TextFacts DEF StartRestore, Captured, Looked, sessionVars, Calm
<1>10. CASE TargetReached
  <2>1. rewind.to.tracker \in Tracked
    BY <1>10, ReviewFacts DEF TargetReached, Captured, Looked, InHand, OperationRecord
  <2> QED
    BY <1>10, <2>1, NothingFacts DEF TargetReached, Captured, Looked, Finish, sessionVars, Calm
<1>11. CASE TargetStale
  BY <1>11, TextFacts DEF TargetStale, Fails, Disturbed, Captured, Looked, sessionVars, Calm
<1>12. CASE TrackerRestarted
  <2>1. rewind.from.tracker \in Tracked
    BY <1>12 DEF TrackerRestarted, Captured, Looked, InHand, OperationRecord
  <2> QED
    BY <1>12, <2>1, NothingFacts
       DEF TrackerRestarted, Captured, Looked, Abandon, Finish, sessionVars, Calm
<1>13. CASE RestartStale
  BY <1>13, NothingFacts DEF RestartStale, Fails, Disturbed, Looked, Finish, sessionVars, Calm
<1>14. CASE PreflightEntry
  BY <1>14 DEF PreflightEntry, At, sessionVars, Calm
<1>15. CASE PreflightStale
  BY <1>15, NothingFacts DEF PreflightStale, Fails, Disturbed, Finish, sessionVars, Calm
<1>16. CASE PreflightDone
  BY <1>16 DEF PreflightDone, Past, sessionVars, Calm
<1>17. CASE ApplyEntry
  BY <1>17, PlanFacts DEF ApplyEntry, At, Puts, sessionVars, Calm
<1>18. CASE ApplyRefused
  BY <1>18 DEF ApplyRefused, At, sessionVars, Calm
<1>19. CASE ApplyFails
  <2>1. rewind.at \in Entry /\ Replacement[rewind.at] \in EntryText
    BY <1>19, PlanFacts DEF ApplyFails, At
  <2>2. PICK t \in Leaves(Replacement[rewind.at]) : Puts(rewind.at, t)
    BY <1>19 DEF ApplyFails
  <2>3. t \in EntryText
    BY <1>19, <2>1, <2>2, PlanFacts DEF ApplyFails, At
  <2> QED
    BY <1>19, <2>2, <2>3 DEF ApplyFails, At, Puts, sessionVars, Disturbed
<1>20. CASE ApplyDone
  BY <1>20 DEF ApplyDone, Past, sessionVars, Calm
<1>21. CASE RollbackEntry
  BY <1>21, PlanFacts DEF RollbackEntry, At, Puts, sessionVars, Calm
<1>22. CASE RollbackFails
  <2>1. rewind.at \in Entry /\ Expected[rewind.at] \in EntryText
    BY <1>22, PlanFacts DEF RollbackFails, At
  <2>2. PICK t \in Leaves(Expected[rewind.at]) : Puts(rewind.at, t)
    BY <1>22 DEF RollbackFails
  <2>3. t \in EntryText
    BY <1>22, <2>1, <2>2, PlanFacts DEF RollbackFails, At
  <2> QED
    BY <1>22, <2>2, <2>3 DEF RollbackFails, At, Puts, sessionVars, Disturbed
<1>23. CASE RollbackDone
  BY <1>23, NothingFacts DEF RollbackDone, Past, Finish, sessionVars, Calm
<1>24. CASE CommitRefused
  BY <1>24, ErrorStores DEF CommitRefused, Calm
<1>25. CASE AppendEvent
  BY <1>25, LogsFacts DEF AppendEvent, Commits, Calm
<1>26. CASE AppendFails
  BY <1>26, LogsFacts, ErrorStores DEF AppendFails, Disturbed
<1>27. CASE UpdateManifest
  BY <1>27, RecordFacts DEF UpdateManifest, Commits, Activates, Calm
<1>28. CASE ManifestFails
  BY <1>28, ErrorStores DEF ManifestFails, Disturbed
<1>29. CASE Refresh
  BY <1>29, NothingFacts DEF Refresh, Commits, Finish, Calm
<1>30. CASE RefreshFails
  BY <1>30, ErrorStores DEF RefreshFails, Disturbed
<1>31. CASE CloseSession
  BY <1>31, DownFacts DEF CloseSession, Calm
<1>32. CASE DieAnywhere
  <2>1. workspace' \in [Entry -> EntryText]
    BY <1>32, DyingFacts DEF DieAnywhere, Puts
  <2> QED
    BY <1>32, <2>1, DownFacts DEF DieAnywhere, Disturbed
<1>33. CASE OpenSession
  BY <1>33 DEF OpenSession, Calm
<1>34. CASE StartupRestored
  <2>1. rewind.to.tracker \in Tracked
    BY <1>34, ReviewFacts DEF StartupRestored, Captured, Looked, InHand, OperationRecord
  <2> QED
    BY <1>34, <2>1, NothingFacts DEF StartupRestored, Captured, Looked, Finish, Calm
<1>35. CASE StartupStale
  BY <1>35, NothingFacts DEF StartupStale, Fails, Disturbed, Captured, Looked, Finish, Calm
<1>36. CASE UNCHANGED rewindVars
  BY <1>36 DEF rewindVars
<1>37. CASE StopFails
  BY <1>37, NothingFacts DEF StopFails, Abandon, Finish, Disturbed, sessionVars
<1>38. CASE StopAgainFails
  BY <1>38, NothingFacts, TextFacts
     DEF StopAgainFails, Looked, Abandon, Finish, Disturbed, sessionVars
<1> QED
  BY <1>1, <1>2, <1>3, <1>4, <1>5, <1>6, <1>7, <1>8, <1>9, <1>10, <1>11, <1>12, <1>13, <1>14,
     <1>15, <1>16, <1>17, <1>18, <1>19, <1>20, <1>21, <1>22, <1>23, <1>24, <1>25, <1>26, <1>27,
     <1>28, <1>29, <1>30, <1>31, <1>32, <1>33, <1>34, <1>35, <1>36, <1>37, <1>38
     DEF RewindNext, CaptureStep, RestoreStep, CommitStep, SessionStep

\* The event of a turn.
LEMMA TurnRecord ==
  ASSUME Stores, Turn
  PROVE  /\ Len(journal') = Len(journal) + 1 /\ DOMAIN journal' = 1 .. Len(journal')
         /\ \A e \in DOMAIN journal : journal'[e] = journal[e]
         /\ journal'[Len(journal')].kind = "turn"
<1> DEFINE new == Record("turn", 0, 0)
<1>1. new \in JournalRecord /\ new.kind = "turn"
  BY DEF Record, JournalRecord, Stores
<1>2. journal \in Seq(JournalRecord) /\ journal' = Append(journal, new)
  BY DEF Turn, Stores
<1> HIDE DEF new
<1> QED
  BY <1>1, <1>2

\* The event of an operation.
LEMMA LoggedRecord ==
  ASSUME Stores, InHand, NEW step, Commits(step), Logs,
         rewind.task = "rewind" => rewind.id \in DOMAIN sidecar
  PROVE  /\ Len(journal') = Len(journal) + 1 /\ DOMAIN journal' = 1 .. Len(journal')
         /\ \A e \in DOMAIN journal : journal'[e] = journal[e]
         /\ journal'[Len(journal')].id = rewind.id
         /\ journal'[Len(journal')].branch = branch
         /\ rewind.task = "create" => journal'[Len(journal')].kind = "created"
         /\ rewind.task = "rewind" =>
              /\ journal'[Len(journal')].kind = "rewound"
              /\ journal'[Len(journal')].cutoff = sidecar[rewind.id].cutoff
<1> DEFINE new == Event
<1>1. rewind.id \in Nat
  BY DEF InHand, OperationRecord
<1>2. /\ new \in JournalRecord /\ new.id = rewind.id /\ new.branch = branch
      /\ rewind.task = "create" => new.kind = "created"
      /\ rewind.task = "rewind" => new.kind = "rewound" /\ new.cutoff = sidecar[rewind.id].cutoff
  BY <1>1, RecordFacts DEF Event, Record, JournalRecord, Stores, Commits
<1>3. journal \in Seq(JournalRecord) /\ journal' = Append(journal, new)
  BY DEF Logs, Stores
<1> HIDE DEF new
<1> QED
  BY <1>2, <1>3

\* A commit that fails takes its checkpoint away, or turns back.
LEMMA ErrorRecords ==
  ASSUME Stores, InHand, NEW step \in {"append", "manifest", "refresh"}, Commits(step),
         NEW result, CommitError(result)
  PROVE  /\ rewind.task = "create" =>
              /\ rewind'.task = "none" /\ rewind'.step = "idle" /\ ~rewind'.undo
              /\ Len(sidecar') = Len(sidecar) /\ DOMAIN sidecar' = DOMAIN sidecar
              /\ \A c \in DOMAIN sidecar : c # rewind.id => sidecar'[c] = sidecar[c]
         /\ rewind.task = "rewind" =>
              /\ UNCHANGED sidecar
              /\ rewind'.task = "rewind" /\ rewind'.step = "preflight" /\ rewind'.undo
              /\ rewind'.id = rewind.id
<1>1. CASE rewind.task = "create"
  <2>1. sidecar \in Seq(SidecarRecord) /\ sidecar' = [sidecar EXCEPT ![rewind.id].saved = FALSE]
    BY <1>1 DEF CommitError, Stores
  <2>2. DOMAIN sidecar' = DOMAIN sidecar
        /\ \A c \in DOMAIN sidecar : c # rewind.id => sidecar'[c] = sidecar[c]
    BY <2>1
  <2>3. sidecar' \in Seq(SidecarRecord)
    BY ErrorStores
  <2>4. Len(sidecar') = Len(sidecar)
    BY <2>1, <2>2, <2>3
  <2> QED
    BY <1>1, <2>2, <2>4 DEF CommitError, Finish, Resting
<1>2. CASE rewind.task = "rewind"
  <2>1. rewind' = [rewind EXCEPT !.from = rewind.to, !.to = rewind.from, !.undo = TRUE,
                                 !.result = result, !.step = "preflight", !.at = 1,
                                 !.seen = <<>>]
        /\ UNCHANGED sidecar
    BY <1>2 DEF CommitError, Restoring, InHand, OperationRecord
  <2> QED
    BY <1>2, <2>1 DEF InHand, OperationRecord
<1> QED
  BY <1>1, <1>2 DEF Commits

\* The steps of a commit: what each leaves of the journal, the checkpoints and
\* the operation.
LEMMA CommitRecords ==
  ASSUME Stores, InHand, rewind.task = "rewind" => rewind.id \in DOMAIN sidecar,
         CommitRefused \/ AppendEvent \/ AppendFails \/ ManifestFails \/ RefreshFails
  PROVE  /\ rewind.step \in {"append", "manifest", "refresh"}
         /\ rewind.task \in {"create", "rewind"}
         /\ UNCHANGED <<manifest, branch>>
         /\ \/ UNCHANGED journal /\ ~AppendEvent
            \/ /\ rewind.step = "append"
               /\ Len(journal') = Len(journal) + 1 /\ DOMAIN journal' = 1 .. Len(journal')
               /\ \A e \in DOMAIN journal : journal'[e] = journal[e]
               /\ journal'[Len(journal')].id = rewind.id
               /\ journal'[Len(journal')].branch = branch
               /\ rewind.task = "create" => journal'[Len(journal')].kind = "created"
               /\ rewind.task = "rewind" =>
                    /\ journal'[Len(journal')].kind = "rewound"
                    /\ journal'[Len(journal')].cutoff = sidecar[rewind.id].cutoff
                    /\ sidecar[rewind.id].branch = branch
         /\ \/ /\ AppendEvent /\ UNCHANGED sidecar
               /\ rewind' = [rewind EXCEPT !.step = "manifest"]
            \/ /\ rewind.task = "create"
               /\ rewind'.task = "none" /\ rewind'.step = "idle" /\ ~rewind'.undo
               /\ Len(sidecar') = Len(sidecar) /\ DOMAIN sidecar' = DOMAIN sidecar
               /\ \A c \in DOMAIN sidecar : c # rewind.id => sidecar'[c] = sidecar[c]
            \/ /\ rewind.task = "rewind" /\ UNCHANGED sidecar
               /\ rewind'.task = "rewind" /\ rewind'.step = "preflight" /\ rewind'.undo
               /\ rewind'.id = rewind.id
<1>1. PICK step \in {"append", "manifest", "refresh"} : Commits(step) /\ rewind.step = step
  BY DEF CommitRefused, AppendEvent, AppendFails, ManifestFails, RefreshFails, Commits
<1>2. rewind.task \in {"create", "rewind"}
  BY <1>1 DEF Commits
<1>3. UNCHANGED <<manifest, branch>>
  BY DEF CommitRefused, AppendEvent, AppendFails, ManifestFails, RefreshFails
<1>4. CASE AppendEvent
  <2>1. Logs /\ ~BelongsElsewhere /\ rewind.step = "append" /\ UNCHANGED sidecar
        /\ rewind' = [rewind EXCEPT !.step = "manifest"]
    BY <1>4 DEF AppendEvent, Commits
  <2> QED
    BY <1>1, <1>2, <1>3, <1>4, <2>1, LoggedRecord DEF BelongsElsewhere
<1>5. CASE ~AppendEvent
  <2>1. \E result : CommitError(result)
    BY <1>5 DEF CommitRefused, AppendFails, ManifestFails, RefreshFails
  <2>2. \/ UNCHANGED journal
        \/ Logs /\ ~BelongsElsewhere /\ rewind.step = "append"
    BY <1>5 DEF CommitRefused, AppendFails, ManifestFails, RefreshFails, Commits
  <2>3. \/ /\ rewind.task = "create"
           /\ rewind'.task = "none" /\ rewind'.step = "idle" /\ ~rewind'.undo
           /\ Len(sidecar') = Len(sidecar) /\ DOMAIN sidecar' = DOMAIN sidecar
           /\ \A c \in DOMAIN sidecar : c # rewind.id => sidecar'[c] = sidecar[c]
        \/ /\ rewind.task = "rewind" /\ UNCHANGED sidecar
           /\ rewind'.task = "rewind" /\ rewind'.step = "preflight" /\ rewind'.undo
           /\ rewind'.id = rewind.id
    BY <1>1, <1>2, <2>1, ErrorRecords
  <2>4. CASE UNCHANGED journal
    BY <1>1, <1>2, <1>3, <1>5, <2>3, <2>4
  <2>5. CASE Logs /\ ~BelongsElsewhere /\ rewind.step = "append"
    BY <1>1, <1>2, <1>3, <2>3, <2>5, LoggedRecord DEF BelongsElsewhere
  <2> QED
    BY <2>2, <2>4, <2>5
<1> QED
  BY <1>4, <1>5

\* An operation begins only while there is room for its event.
LEMMA BeginRoom ==
  ASSUME Stores, Room, NEW task \in {"create", "rewind"}, NEW id, NEW to,
         BeginOperation(task, id, to)
  PROVE  Room'
<1>1. Len(journal) \in Nat /\ disturbances \in Nat /\ MaxRecords \in Nat
      /\ Len(journal) + disturbances < MaxRecords
  BY RecordFacts, RewindAssumption DEF Stores, BeginOperation, Ready, RewindConfig
<1>2. /\ rewind'.task = task /\ rewind'.step = "capture" /\ rewind'.undo = FALSE
      /\ UNCHANGED <<journal, manifest, branch>>
  BY DEF BeginOperation, Resting, sessionVars
<1> QED
  BY <1>1, <1>2 DEF Room

\* A commit that fails leaves room, one that is logged takes it.
LEMMA CommitRoom ==
  ASSUME TypeInv, rewind.task = "rewind" => rewind.id \in DOMAIN sidecar,
         CommitRefused \/ AppendEvent \/ AppendFails \/ ManifestFails \/ RefreshFails
  PROVE  Room'
<1>1. /\ Len(journal) \in Nat /\ MaxRecords \in Nat /\ manifest \in Nat /\ branch \in Nat
      /\ "undo" \in DOMAIN rewind /\ "step" \in DOMAIN rewind /\ "task" \in DOMAIN rewind
  BY RecordFacts, RewindAssumption DEF TypeInv, Stores, RewindConfig, InHand, OperationRecord
<1>2. Stores /\ InHand
  BY DEF TypeInv
<1> QED
  BY <1>1, <1>2, CommitRecords DEF TypeInv, Room

\* A commit keeps the checkpoint of every rewind in the journal.
LEMMA CommitStartup ==
  ASSUME TypeInv, StartupInv,
         CommitRefused \/ AppendEvent \/ AppendFails \/ ManifestFails \/ RefreshFails
  PROVE  StartupInv'
<1>1. /\ Stores /\ InHand /\ (rewind.task = "rewind" => rewind.id \in DOMAIN sidecar)
  BY DEF TypeInv, StartupInv, RewindKept
<1>2. /\ Len(journal) \in Nat /\ DOMAIN journal = 1 .. Len(journal)
      /\ Len(sidecar) \in Nat /\ DOMAIN sidecar = 1 .. Len(sidecar)
      /\ "id" \in DOMAIN rewind /\ "step" \in DOMAIN rewind /\ "task" \in DOMAIN rewind
      /\ manifest \in Nat
  BY <1>1, RecordFacts DEF Stores, InHand, OperationRecord
<1>3. RewindsFound'
  <2> SUFFICES ASSUME NEW e \in DOMAIN journal', journal'[e].kind = "rewound"
               PROVE  /\ journal'[e].id \in DOMAIN sidecar'
                      /\ sidecar'[journal'[e].id].saved
                      /\ sidecar'[journal'[e].id].branch = journal'[e].branch
                      /\ sidecar'[journal'[e].id].cutoff = journal'[e].cutoff
    BY DEF RewindsFound
  <2>1. CASE e \in DOMAIN journal
    <3>1. journal'[e] = journal[e]
      BY <1>1, <2>1, CommitRecords
    <3>2. rewind.task = "create" => journal[e].id # rewind.id
      BY <1>1, <2>1, <3>1, CommitRecords DEF StartupInv, CreateFresh
    <3> QED
      BY <1>1, <2>1, <3>1, <3>2, CommitRecords DEF StartupInv, RewindsFound
  <2>2. CASE e \notin DOMAIN journal
    <3>1. e = Len(journal')
      BY <1>1, <1>2, <2>2, CommitRecords
    <3>2. rewind.task = "rewind" /\ UNCHANGED sidecar
      BY <1>1, <2>2, <3>1, CommitRecords
    <3> QED
      BY <1>1, <2>2, <3>1, <3>2, CommitRecords DEF StartupInv, RewindKept
  <2> QED
    BY <2>1, <2>2
<1>4. CreateFresh' /\ RewindKept'
  BY <1>1, <1>2, CommitRecords DEF StartupInv, RewindsFound, CreateFresh, RewindKept
<1>5. manifest' # RootBranch => IsRewound(manifest)'
  BY <1>1, <1>2, CommitRecords DEF StartupInv, IsRewound
<1> QED
  BY <1>3, <1>4, <1>5 DEF StartupInv

\* There is room where nothing is logged: before and after a step of an
\* operation that has yet to log or undoes, and once none is under way.
LEMMA RoomStays ==
  ASSUME Room, UNCHANGED <<journal, manifest, branch>>,
         \/ /\ rewind'.task = rewind.task /\ rewind'.undo = rewind.undo
            /\ rewind.step \notin {"append", "manifest", "refresh"}
            /\ rewind'.step \notin {"append", "manifest", "refresh"}
         \/ /\ rewind'.task \notin {"create", "rewind"}
            /\ rewind'.step \notin {"append", "manifest", "refresh"}
  PROVE  Room'
BY DEF Room

\* Nothing grows past its bound.
LEMMA RoomKept ==
  ASSUME TypeInv, [RewindNext]_rewindVars,
         rewind.task = "rewind" => rewind.id \in DOMAIN sidecar
  PROVE  Room'
<1> USE RewindAssumption DEF TypeInv, Room, InHand, OperationRecord, RewindConfig, rewindVars,
   sessionVars, RootBranch
<1>1. CASE Turn
  <2>1. rewind.task = "none" /\ UNCHANGED <<rewind, manifest>> /\ branch' = manifest
        /\ Len(journal) + disturbances < MaxRecords
    BY <1>1 DEF Turn, Ready
  <2>2. Stores
    OBVIOUS
  <2>3. Len(journal) \in Nat /\ disturbances \in Nat /\ Len(journal') = Len(journal) + 1
        /\ manifest \in Nat
    BY <1>1, <2>2, RecordFacts, TurnRecord DEF Stores
  <2> QED
    BY <2>1, <2>3
<1>2. CASE CreateCheckpoint
  BY <1>2, BeginRoom DEF CreateCheckpoint
<1>3. CASE \E c \in DOMAIN sidecar : BeginRewind(c)
  BY <1>3, BeginRoom DEF BeginRewind
<1>4. CASE \E f \in Entry : ObserveWrite(f)
  BY <1>4 DEF ObserveWrite
<1>5. CASE \E f \in Entry, t \in Texts \cup {NoFile} : OutsideWrite(f, t)
  BY <1>5 DEF OutsideWrite
<1>6. CASE ReadEntry
  BY <1>6 DEF ReadEntry
<1>7. CASE CheckpointStale
  BY <1>7 DEF CheckpointStale, Finish, Resting
<1>8. CASE SaveSidecar
  BY <1>8, SavedFacts, RecordFacts DEF SaveSidecar, Captured, Looked
<1>9. CASE StartRestore
  BY <1>9 DEF StartRestore, Captured, Looked, Restoring
<1>10. CASE TargetReached
  <2>1. CASE rewind.undo
    BY <1>10, <2>1 DEF TargetReached, Captured, Looked, Finish, Resting
  <2>2. CASE ~(rewind.undo)
    BY <1>10, <2>2 DEF TargetReached, Captured, Looked, Finish, Resting
  <2> QED
    BY <2>1, <2>2
<1>11. CASE TargetStale
  BY <1>11 DEF TargetStale, Captured, Looked, Restoring
<1>12. CASE TrackerRestarted
  BY <1>12 DEF TrackerRestarted, Abandon, Finish, Resting
<1>13. CASE RestartStale
  BY <1>13 DEF RestartStale, Finish, Resting
<1>14. CASE PreflightEntry
  BY <1>14 DEF PreflightEntry, At, NextEntry
<1>15. CASE PreflightStale
  <2>1. CASE rewind.back
    BY <1>15, <2>1 DEF PreflightStale, Finish, Resting, Recapture
  <2>2. CASE ~(rewind.back)
    <3>1. /\ rewind' = [rewind EXCEPT !.step = "capture", !.reading = "restart", !.seen = <<>>]
          /\ rewind.step = "preflight" /\ UNCHANGED <<journal, manifest, branch>>
      BY <1>15, <2>2 DEF PreflightStale, Recapture
    <3>2. rewind'.task = rewind.task /\ rewind'.undo = rewind.undo /\ rewind'.step = "capture"
      BY <3>1
    <3> HIDE DEF TypeInv, Room, InHand, OperationRecord
    <3> QED BY <3>1, <3>2, RoomStays DEF TypeInv
  <2> QED
    BY <2>1, <2>2
<1>16. CASE PreflightDone
  BY <1>16 DEF PreflightDone, Past
<1>17. CASE ApplyEntry
  BY <1>17 DEF ApplyEntry, At, NextEntry
<1>18. CASE ApplyRefused
  BY <1>18 DEF ApplyRefused, At, RollBack
<1>19. CASE ApplyFails
  BY <1>19 DEF ApplyFails, At, RollBack
<1>20. CASE ApplyDone
  BY <1>20 DEF ApplyDone, Past, Recapture
<1>21. CASE RollbackEntry
  <2>1. /\ rewind.step = "rollback" /\ UNCHANGED <<journal, manifest, branch>>
        /\ \/ rewind' = [rewind EXCEPT !.at = rewind.at - 1]
           \/ rewind' = [rewind EXCEPT !.at = rewind.at - 1, !.bad = TRUE]
    BY <1>21 DEF RollbackEntry, At, PreviousEntry
  <2>2. rewind'.task = rewind.task /\ rewind'.undo = rewind.undo /\ rewind'.step = "rollback"
    BY <2>1
  <2> HIDE DEF TypeInv, Room, InHand, OperationRecord
  <2> QED BY <2>1, <2>2, RoomStays DEF TypeInv
<1>22. CASE RollbackFails
  BY <1>22 DEF RollbackFails, At, PreviousEntry
<1>23. CASE RollbackDone
  <2>1. CASE rewind.bad \/ rewind.back
    BY <1>23, <2>1 DEF RollbackDone, Past, Finish, Resting, Recapture
  <2>2. CASE ~(rewind.bad \/ rewind.back)
    <3>1. /\ rewind' = [rewind EXCEPT !.step = "capture", !.reading = "restart", !.seen = <<>>]
          /\ rewind.step = "rollback" /\ UNCHANGED <<journal, manifest, branch>>
      BY <1>23, <2>2 DEF RollbackDone, Past, Recapture
    <3>2. rewind'.task = rewind.task /\ rewind'.undo = rewind.undo /\ rewind'.step = "capture"
      BY <3>1
    <3> HIDE DEF TypeInv, Room, InHand, OperationRecord
    <3> QED BY <3>1, <3>2, RoomStays DEF TypeInv
  <2> QED
    BY <2>1, <2>2
<1>24. CASE CommitRefused
  BY <1>24, CommitRoom
<1>25. CASE AppendEvent
  BY <1>25, CommitRoom
<1>26. CASE AppendFails
  BY <1>26, CommitRoom
<1>27. CASE UpdateManifest
  BY <1>27, RecordFacts DEF UpdateManifest, Commits, Activates
<1>28. CASE ManifestFails
  BY <1>28, CommitRoom
<1>29. CASE Refresh
  BY <1>29, RecordFacts DEF Refresh, Finish, Resting
<1>30. CASE RefreshFails
  BY <1>30, CommitRoom
<1>31. CASE CloseSession
  BY <1>31 DEF CloseSession, GoesDown, Resting
<1>32. CASE DieAnywhere
  BY <1>32 DEF DieAnywhere, GoesDown, Resting
<1>33. CASE OpenSession
  <2>1. CASE manifest = RootBranch
    <3>1. branch' = manifest /\ UNCHANGED <<rewind, journal, manifest>>
      BY <1>33, <2>1 DEF OpenSession
    <3> QED BY <3>1
  <2>2. CASE manifest # RootBranch
    <3>1. /\ UNCHANGED <<journal, manifest, branch>>
          /\ rewind' = [Resting("none") EXCEPT !.task = "startup", !.step = "capture",
                          !.reading = "startup", !.to = Startup.review]
      BY <1>33, <2>2 DEF OpenSession
    <3>2. rewind'.task = "startup" /\ rewind'.step = "capture"
      BY <3>1 DEF Resting
    <3> HIDE DEF TypeInv, Room, InHand, OperationRecord
    <3> QED BY <3>1, <3>2, RoomStays DEF TypeInv
  <2> QED BY <2>1, <2>2
<1>34. CASE StartupRestored
  BY <1>34 DEF StartupRestored, Finish, Resting
<1>35. CASE StartupStale
  BY <1>35 DEF StartupStale, Finish, Resting
<1>36. CASE UNCHANGED rewindVars
  BY <1>36 DEF rewindVars
<1>37. CASE StopFails
  BY <1>37 DEF StopFails, Abandon, Finish, Resting
<1>38. CASE StopAgainFails
  BY <1>38 DEF StopAgainFails, Abandon, Finish, Resting
<1> QED
  BY <1>1, <1>2, <1>3, <1>4, <1>5, <1>6, <1>7, <1>8, <1>9, <1>10, <1>11, <1>12, <1>13, <1>14,
     <1>15, <1>16, <1>17, <1>18, <1>19, <1>20, <1>21, <1>22, <1>23, <1>24, <1>25, <1>26, <1>27,
     <1>28, <1>29, <1>30, <1>31, <1>32, <1>33, <1>34, <1>35, <1>36, <1>37, <1>38
     DEF RewindNext, CaptureStep, RestoreStep, CommitStep, SessionStep

\* A step of a restore before its event is written changes no record.
LEMMA StartupStays ==
  ASSUME StartupInv, UNCHANGED <<journal, manifest, sidecar>>,
         rewind.task = "rewind", rewind'.task = "rewind", rewind'.id = rewind.id,
         rewind'.step = "capture"
  PROVE  StartupInv'
<1>1. (manifest # RootBranch => IsRewound(manifest))'
  BY DEF StartupInv, IsRewound, RootBranch
<1>2. RewindsFound'
  BY DEF StartupInv, RewindsFound
<1>3. CreateFresh' /\ RewindKept'
  BY DEF StartupInv, CreateFresh, RewindKept
<1> QED BY <1>1, <1>2, <1>3 DEF StartupInv

\* The session still finds the checkpoints it needs.
LEMMA StartupKept ==
  ASSUME TypeInv, StartupInv, [RewindNext]_rewindVars
  PROVE  StartupInv'
<1> USE DEF TypeInv, StartupInv, InHand, OperationRecord, IsRewound, RewindsFound, CreateFresh,
   RewindKept, rewindVars, sessionVars, RootBranch
<1>1. CASE Turn
  <2>1. rewind.task = "none" /\ UNCHANGED <<rewind, manifest, sidecar>>
    BY <1>1 DEF Turn, Ready
  <2>2. Stores
    OBVIOUS
  <2>3. Len(journal) \in Nat /\ DOMAIN journal = 1 .. Len(journal) /\ manifest \in Nat
    BY <2>2, RecordFacts DEF Stores
  <2>4. /\ Len(journal') = Len(journal) + 1 /\ DOMAIN journal' = 1 .. Len(journal')
        /\ \A e \in DOMAIN journal : journal'[e] = journal[e]
        /\ journal'[Len(journal')].kind = "turn"
    BY <1>1, <2>2, TurnRecord
  <2>5. \A e \in DOMAIN journal' : journal'[e].kind = "rewound" => e \in DOMAIN journal
    BY <2>3, <2>4
  <2> QED
    BY <2>1, <2>3, <2>4, <2>5
<1>2. CASE CreateCheckpoint
  BY <1>2, RecordFacts DEF CreateCheckpoint, BeginOperation, Ready, Resting
<1>3. CASE \E c \in DOMAIN sidecar : BeginRewind(c)
  BY <1>3, RecordFacts DEF BeginRewind, BeginOperation, Ready, Resting
<1>4. CASE \E f \in Entry : ObserveWrite(f)
  BY <1>4 DEF ObserveWrite
<1>5. CASE \E f \in Entry, t \in Texts \cup {NoFile} : OutsideWrite(f, t)
  BY <1>5 DEF OutsideWrite
<1>6. CASE ReadEntry
  BY <1>6 DEF ReadEntry
<1>7. CASE CheckpointStale
  BY <1>7 DEF CheckpointStale, Finish, Resting
<1>8. CASE SaveSidecar
  <2>1. /\ rewind.task = "create" /\ rewind.step = "capture" /\ UNCHANGED <<journal, manifest>>
        /\ rewind' = [rewind EXCEPT !.step = "append", !.seen = <<>>]
    BY <1>8 DEF SaveSidecar, Captured, Looked
  <2>2. TypeInv /\ Stores
    OBVIOUS
  <2>3. Len(sidecar) \in Nat /\ DOMAIN sidecar = 1 .. Len(sidecar)
    BY <2>2, RecordFacts
  <2>4. /\ sidecar' \in Seq(SidecarRecord) /\ Len(sidecar') = Len(sidecar) + 1
        /\ \A c \in DOMAIN sidecar : sidecar'[c] = sidecar[c]
    BY <1>8, <2>2, SavedFacts
  <2>5. DOMAIN sidecar' = 1 .. Len(sidecar')
    BY <2>4
  <2> QED
    BY <2>1, <2>3, <2>4, <2>5
<1>9. CASE StartRestore
  BY <1>9 DEF StartRestore, Captured, Looked, Restoring
<1>10. CASE TargetReached
  <2>1. CASE rewind.undo
    BY <1>10, <2>1 DEF TargetReached, Captured, Looked, Finish, Resting
  <2>2. CASE ~(rewind.undo)
    BY <1>10, <2>2 DEF TargetReached, Captured, Looked, Finish, Resting
  <2> QED
    BY <2>1, <2>2
<1>11. CASE TargetStale
  BY <1>11 DEF TargetStale, Captured, Looked, Restoring
<1>12. CASE TrackerRestarted
  BY <1>12 DEF TrackerRestarted, Abandon, Finish, Resting
<1>13. CASE RestartStale
  BY <1>13 DEF RestartStale, Finish, Resting
<1>14. CASE PreflightEntry
  BY <1>14 DEF PreflightEntry, At, NextEntry
<1>15. CASE PreflightStale
  <2>1. CASE rewind.back
    BY <1>15, <2>1 DEF PreflightStale, Finish, Resting, Recapture
  <2>2. CASE ~(rewind.back)
    <3>1. /\ rewind.step = "preflight" /\ UNCHANGED <<journal, manifest, sidecar>>
          /\ rewind' = [rewind EXCEPT !.step = "capture", !.reading = "restart", !.seen = <<>>]
      BY <1>15, <2>2 DEF PreflightStale, Recapture
    <3>2. rewind.task = "rewind"
      BY <3>1
    <3>3. rewind'.task = "rewind" /\ rewind'.id = rewind.id /\ rewind'.step = "capture"
      BY <3>1, <3>2
    <3> HIDE DEF StartupInv, TypeInv, InHand, OperationRecord, RewindsFound, CreateFresh, RewindKept
    <3> QED BY <3>1, <3>2, <3>3, StartupStays
  <2> QED
    BY <2>1, <2>2
<1>16. CASE PreflightDone
  BY <1>16 DEF PreflightDone, Past
<1>17. CASE ApplyEntry
  BY <1>17 DEF ApplyEntry, At, NextEntry
<1>18. CASE ApplyRefused
  BY <1>18 DEF ApplyRefused, At, RollBack
<1>19. CASE ApplyFails
  BY <1>19 DEF ApplyFails, At, RollBack
<1>20. CASE ApplyDone
  BY <1>20 DEF ApplyDone, Past, Recapture
<1>21. CASE RollbackEntry
  BY <1>21 DEF RollbackEntry, At, PreviousEntry
<1>22. CASE RollbackFails
  BY <1>22 DEF RollbackFails, At, PreviousEntry
<1>23. CASE RollbackDone
  <2>1. CASE rewind.bad \/ rewind.back
    BY <1>23, <2>1 DEF RollbackDone, Past, Finish, Resting, Recapture
  <2>2. CASE ~(rewind.bad \/ rewind.back)
    <3>1. /\ rewind.step = "rollback" /\ UNCHANGED <<journal, manifest, sidecar>>
          /\ rewind' = [rewind EXCEPT !.step = "capture", !.reading = "restart", !.seen = <<>>]
      BY <1>23, <2>2 DEF RollbackDone, Past, Recapture
    <3>2. rewind.task = "rewind"
      BY <3>1
    <3>3. rewind'.task = "rewind" /\ rewind'.id = rewind.id /\ rewind'.step = "capture"
      BY <3>1, <3>2
    <3> HIDE DEF StartupInv, TypeInv, InHand, OperationRecord, RewindsFound, CreateFresh, RewindKept
    <3> QED BY <3>1, <3>2, <3>3, StartupStays
  <2> QED
    BY <2>1, <2>2
<1>24. CASE CommitRefused
  BY <1>24, CommitStartup
<1>25. CASE AppendEvent
  BY <1>25, CommitStartup
<1>26. CASE AppendFails
  BY <1>26, CommitStartup
<1>27. CASE UpdateManifest
  BY <1>27, RecordFacts DEF UpdateManifest, Commits, Activates
<1>28. CASE ManifestFails
  BY <1>28, CommitStartup
<1>29. CASE Refresh
  BY <1>29, RecordFacts DEF Refresh, Finish, Resting
<1>30. CASE RefreshFails
  BY <1>30, CommitStartup
<1>31. CASE CloseSession
  BY <1>31 DEF CloseSession, GoesDown, Resting
<1>32. CASE DieAnywhere
  BY <1>32 DEF DieAnywhere, GoesDown, Resting
<1>33. CASE OpenSession
  <2>1. UNCHANGED <<journal, manifest, sidecar>> /\ (rewind' = rewind \/ rewind'.task = "startup")
    BY <1>33 DEF OpenSession, Resting
  <2> QED
    BY <2>1
<1>34. CASE StartupRestored
  BY <1>34 DEF StartupRestored, Finish, Resting
<1>35. CASE StartupStale
  BY <1>35 DEF StartupStale, Finish, Resting
<1>36. CASE UNCHANGED rewindVars
  BY <1>36 DEF rewindVars
<1>37. CASE StopFails
  BY <1>37 DEF StopFails, Abandon, Finish, Resting
<1>38. CASE StopAgainFails
  BY <1>38 DEF StopAgainFails, Abandon, Finish, Resting
<1> QED
  BY <1>1, <1>2, <1>3, <1>4, <1>5, <1>6, <1>7, <1>8, <1>9, <1>10, <1>11, <1>12, <1>13, <1>14,
     <1>15, <1>16, <1>17, <1>18, <1>19, <1>20, <1>21, <1>22, <1>23, <1>24, <1>25, <1>26, <1>27,
     <1>28, <1>29, <1>30, <1>31, <1>32, <1>33, <1>34, <1>35, <1>36, <1>37, <1>38
     DEF RewindNext, CaptureStep, RestoreStep, CommitStep, SessionStep

-----------------------------------------------------------------------------
(* A session opens where it was rewound to. *)

\* The first session has neither checkpoints nor rewinds.
LEMMA InitStartup == RewindInit => TypeInv /\ StartupInv
<1> SUFFICES ASSUME RewindInit PROVE TypeInv /\ StartupInv
  OBVIOUS
<1>1. journal = <<>> /\ sidecar = <<>> /\ manifest = 0 /\ branch = 0 /\ rewind = Resting("none")
  BY DEF RewindInit, RootBranch
<1>2. Stores
  <2>1. journal \in Seq(JournalRecord) /\ sidecar \in Seq(SidecarRecord)
    BY <1>1
  <2>2. workspace \in [Entry -> EntryText]
    BY TextFacts DEF RewindInit, Empty
  <2> QED
    BY <1>1, <2>1, <2>2, TextFacts, NothingFacts DEF RewindInit, Stores
<1>3. InHand
  BY <1>1, ReviewFacts, PlaceFacts DEF InHand, OperationRecord, Resting
<1>4. Room
  BY <1>1, RewindAssumption DEF Room, Resting, RewindConfig
<1>5. StartupInv
  BY <1>1 DEF StartupInv, RewindsFound, CreateFresh, RewindKept, Resting, RootBranch
<1> QED
  BY <1>2, <1>3, <1>4, <1>5 DEF TypeInv

\* Both invariants hold together: which checkpoint is rewound to is known
\* from the second.
LEMMA StartupInvariant == RewindSpec => [](TypeInv /\ StartupInv)
<1>1. TypeInv /\ StartupInv /\ [RewindNext]_rewindVars => (TypeInv /\ StartupInv)'
  <2> SUFFICES ASSUME TypeInv, StartupInv, [RewindNext]_rewindVars
               PROVE  TypeInv' /\ StartupInv'
    OBVIOUS
  <2>1. rewind.task = "rewind" => rewind.id \in DOMAIN sidecar
    BY DEF StartupInv, RewindKept
  <2>2. Stores' /\ InHand' /\ Room'
    BY <2>1, StoresKept, InHandKept, RoomKept DEF TypeInv
  <2> QED
    BY <2>2, StartupKept DEF TypeInv
<1> QED
  BY <1>1, InitStartup, PTL DEF RewindSpec

\* Every variable keeps its type.
THEOREM RewindTypes == RewindSpec => []RewindTypeOK
  BY StartupInvariant, TypesShow, PTL

\* The active branch always finds the event that made it and the checkpoint
\* of that event, whatever crashes, fails or is written from outside: a
\* session that was rewound can be opened again.
THEOREM SessionFindsCheckpoint == RewindSpec => []StartupLoads
<1>1. TypeInv /\ StartupInv => StartupLoads
  BY DEF StartupLoads, CheckpointLoads, StartupInv, RewindsFound, IsRewound, Startup
<1> QED
  BY <1>1, StartupInvariant, PTL

-----------------------------------------------------------------------------
(* A rewind is whole. *)

\* What the rewind found, and where it is to lead: both change places when the
\* commit has failed.
Found == IF rewind.undo THEN rewind.to ELSE rewind.from
Goal == IF rewind.undo THEN rewind.from ELSE rewind.to

\* The files nobody else has written since the operation began.
Own == Entry \ before.touched

Consistent(state) ==
  \A f \in Entry : state.tracker[f] \in {Untracked, state.workspace[f]}
Looks == rewind.step = "capture" /\ rewind.reading = "current"

\* The two ends of a rewind.
EndsKnown ==
  /\ \A c \in DOMAIN sidecar : Consistent(sidecar[c].review)
  /\ rewind.task \in {"create", "rewind"} /\ Looks =>
       rewind.from.tracker = before.review.tracker
  /\ rewind.task = "rewind" =>
       /\ Goal = sidecar[rewind.id].review
       /\ Found.tracker = before.review.tracker
       /\ Looks => ~rewind.undo /\ ~rewind.back
       /\ ~Looks =>
            /\ Consistent(Found)
            /\ \A f \in Own : Found.workspace[f] = before.review.workspace[f]

\* What is seen is still so, but for the files of others.
SeenTrue ==
  rewind.step = "capture" =>
    \A f \in Own : f <= Len(rewind.seen) => rewind.seen[f] = workspace[f]

\* Where the files and the tracker are.
FilesKnown ==
  rewind.task = "rewind" =>
    /\ Looks => \A f \in Own :
         /\ workspace[f] = before.review.workspace[f] /\ tracker[f] = before.review.tracker[f]
         /\ tracker[f] \in {Untracked, workspace[f]}
    /\ rewind.step \in {"append", "manifest", "refresh"} => \A f \in Own :
         workspace[f] = rewind.to.workspace[f] /\ tracker[f] = rewind.to.tracker[f]
    /\ ~Looks /\ rewind.step \notin {"append", "manifest", "refresh"} => tracker = NewTracker
    /\ rewind.step = "preflight" /\ ~rewind.undo /\ ~rewind.back => \A f \in Own :
         workspace[f] = before.review.workspace[f]

\* Where the manifest is.
ManifestKnown ==
  rewind.task = "rewind" =>
    /\ before.manifest <= Len(journal)
    /\ rewind.step \in {"manifest", "refresh"} => before.manifest < Len(journal)
    /\ rewind.step = "refresh" => manifest = Len(journal)
    /\ rewind.undo => rewind.result \in {"failed", "partial"}
    /\ rewind.step # "refresh" /\ ~(rewind.undo /\ rewind.result = "partial")
         => manifest = before.manifest

\* As long as nothing has failed, nothing goes wrong.
Undisturbed ==
  disturbances = 0 =>
    /\ \A f \in Entry : tracker[f] \in {Untracked, workspace[f]}
    /\ rewind.task \in {"create", "rewind"} => before.touched = {}
    /\ rewind.task = "rewind" =>
         /\ ~rewind.back /\ rewind.step # "rollback" /\ rewind.reading # "restart"
         /\ rewind.undo => rewind.result # "partial"
         /\ rewind.step = "preflight" => workspace = rewind.from.workspace
         /\ rewind.step = "apply" => rewind.at # 0 /\ \A f \in Entry :
              workspace[f] = (IF f < rewind.at THEN rewind.to ELSE rewind.from).workspace[f]
         /\ rewind.step = "capture" /\ rewind.reading = "target" =>
              workspace = rewind.to.workspace

WholeInv == EndsKnown /\ SeenTrue /\ FilesKnown /\ ManifestKnown /\ Undisturbed

\* A commit that fails: the operation is over, or its ends change places.
LEMMA ErrorTurn ==
  ASSUME Stores, InHand, Room, EndsKnown,
         NEW step \in {"append", "manifest", "refresh"}, Commits(step),
         NEW result \in {"failed", "partial"}, CommitError(result)
  PROVE  /\ rewind.task \in {"create", "rewind"} /\ ~rewind.undo /\ UNCHANGED workspace
         /\ rewind.task = "create" =>
              /\ rewind'.task = "none" /\ rewind'.step = "idle" /\ rewind'.result = result
              /\ UNCHANGED tracker
         /\ rewind.task = "rewind" =>
              /\ UNCHANGED <<sidecar, before>> /\ tracker' = NewTracker
              /\ rewind' = [rewind EXCEPT !.from = rewind.to, !.to = rewind.from, !.undo = TRUE,
                                          !.result = result, !.step = "preflight", !.at = 1,
                                          !.seen = <<>>]
         /\ DOMAIN sidecar' = DOMAIN sidecar
         /\ \A c \in DOMAIN sidecar : sidecar'[c].review = sidecar[c].review
<1>1. rewind.task \in {"create", "rewind"} /\ ~rewind.undo /\ UNCHANGED workspace
  BY DEF Commits, Room
<1>2. CASE rewind.task = "create"
  <2>1. sidecar \in Seq(SidecarRecord) /\ sidecar' = [sidecar EXCEPT ![rewind.id].saved = FALSE]
    BY <1>2 DEF CommitError, Stores
  <2>2. DOMAIN sidecar' = DOMAIN sidecar
    BY <2>1
  <2>3. \A c \in DOMAIN sidecar : sidecar'[c].review = sidecar[c].review
    BY <2>1, RecordFacts DEF SidecarRecord
  <2> QED
    BY <1>1, <1>2, <2>2, <2>3 DEF CommitError, Finish, Resting
<1>3. CASE rewind.task = "rewind"
  <2>1. rewind' = [rewind EXCEPT !.from = rewind.to, !.to = rewind.from, !.undo = TRUE,
                                 !.result = result, !.step = "preflight", !.at = 1,
                                 !.seen = <<>>]
    BY <1>3 DEF CommitError, Restoring, InHand, OperationRecord
  <2> QED
    BY <1>1, <1>3, <2>1 DEF CommitError
<1> QED
  BY <1>1, <1>2, <1>3

\* What most steps of an operation leave alone.
Plan == <<rewind.task, rewind.id, rewind.from, rewind.to, rewind.back, rewind.undo, rewind.result>>

\* What the steps change in the operation in hand.
LEMMA OperationFields ==
  ASSUME rewind \in OperationRecord
  PROVE  /\ \A result : rewind' = Resting(result) =>
              rewind'.task = "none" /\ rewind'.step = "idle" /\ rewind'.result = result
         /\ \A reading : Recapture(reading) =>
              /\ UNCHANGED Plan
              /\ rewind'.step = "capture" /\ rewind'.reading = reading /\ rewind'.seen = <<>>
         /\ RollBack => UNCHANGED Plan /\ rewind'.step = "rollback"
         /\ NextEntry(rewind) =>
              UNCHANGED <<Plan, rewind.step, rewind.reading>> /\ rewind'.at = rewind.at + 1
         /\ \A bad \in BOOLEAN :
              PreviousEntry(rewind) \/ PreviousEntry([rewind EXCEPT !.bad = bad]) =>
                UNCHANGED <<Plan, rewind.step, rewind.reading>>
<1> USE DEF OperationRecord, Plan
<1>1. ASSUME NEW result, rewind' = Resting(result)
      PROVE  rewind'.task = "none" /\ rewind'.step = "idle" /\ rewind'.result = result
  BY <1>1 DEF Resting
<1>2. ASSUME NEW reading, Recapture(reading)
      PROVE  /\ UNCHANGED Plan
             /\ rewind'.step = "capture" /\ rewind'.reading = reading /\ rewind'.seen = <<>>
  BY <1>2 DEF Recapture
<1>3. RollBack => UNCHANGED Plan /\ rewind'.step = "rollback"
  BY DEF RollBack
<1>4. NextEntry(rewind) =>
        UNCHANGED <<Plan, rewind.step, rewind.reading>> /\ rewind'.at = rewind.at + 1
  BY DEF NextEntry
<1>5. ASSUME NEW bad \in BOOLEAN, PreviousEntry([rewind EXCEPT !.bad = bad])
      PROVE  UNCHANGED <<Plan, rewind.step, rewind.reading>>
  BY <1>5 DEF PreviousEntry
<1>6. PreviousEntry(rewind) => UNCHANGED <<Plan, rewind.step, rewind.reading>>
  BY DEF PreviousEntry
<1> HIDE DEF OperationRecord, Plan
<1> QED
  BY <1>1, <1>2, <1>3, <1>4, <1>5, <1>6

\* What the invariants say of the types, in a few words.
LEMMA OperationFacts ==
  ASSUME TypeInv
  PROVE  /\ rewind \in OperationRecord /\ disturbances \in Nat
         /\ workspace \in [Entry -> EntryText] /\ tracker \in Tracked
         /\ Len(journal) \in Nat /\ manifest <= Len(journal) /\ manifest \in Nat
         /\ NumEntries \in Nat /\ rewind.at \in Nat /\ rewind.at <= NumEntries + 1
         /\ rewind.seen \in Seq(EntryText) /\ Len(rewind.seen) \in Nat
         /\ before \in [review : Review, manifest : Nat, touched : SUBSET Entry]
<1>1. Len(journal) \in Nat
  BY RecordFacts DEF TypeInv
<1>2. rewind.seen \in Seq(EntryText) /\ Len(rewind.seen) \in Nat
  BY DEF TypeInv, InHand, OperationRecord
<1> QED
  BY <1>1, <1>2, RewindAssumption
     DEF TypeInv, Stores, InHand, Room, OperationRecord, RewindConfig

\* Only a rewind walks over the files.
LEMMA WalkIsRewind ==
  ASSUME TypeInv, rewind.step \in {"preflight", "apply", "rollback"}
  PROVE  rewind.task = "rewind" /\ rewind.from \in Full /\ rewind.to \in Full
  BY DEF TypeInv, InHand, OperationRecord

\* Where nothing is in hand little can go wrong.
LEMMA RestingWhole ==
  ASSUME rewind'.task = "none", rewind'.step = "idle",
         \A c \in DOMAIN sidecar' : Consistent(sidecar'[c].review),
         disturbances' = 0 => \A f \in Entry : tracker'[f] \in {Untracked, workspace'[f]}
  PROVE  WholeInv'
  BY DEF WholeInv, EndsKnown, SeenTrue, FilesKnown, ManifestKnown, Undisturbed, Looks, Consistent

\* The walk over the files.
LEMMA WalkKept ==
  ASSUME TypeInv, WholeInv, rewind.step \in {"preflight", "apply", "rollback"},
         rewind'.step \in {"preflight", "apply", "rollback"},
         rewind'.step = "preflight" => rewind.step = "preflight" /\ UNCHANGED workspace,
         UNCHANGED <<Plan, tracker, sessionVars, before>>
  PROVE  EndsKnown' /\ SeenTrue' /\ FilesKnown' /\ ManifestKnown' /\ tracker = NewTracker
<1>1. rewind.task = "rewind" /\ tracker = NewTracker
  BY WalkIsRewind DEF WholeInv, FilesKnown, Looks
<1>2. EndsKnown'
  BY <1>1 DEF WholeInv, EndsKnown, Looks, Plan, Found, Goal, Own, Consistent, sessionVars
<1>3. ManifestKnown'
  BY <1>1 DEF WholeInv, ManifestKnown, Plan, sessionVars
<1>4. FilesKnown'
  BY <1>1 DEF WholeInv, FilesKnown, Looks, Plan, Own
<1> QED
  BY <1>1, <1>2, <1>3, <1>4 DEF SeenTrue


\* The steps of the walk.
LEMMA WalkStepKept ==
  ASSUME TypeInv, WholeInv,
         \/ PreflightEntry \/ PreflightDone \/ ApplyEntry \/ ApplyRefused \/ ApplyFails
         \/ RollbackEntry \/ RollbackFails
  PROVE  WholeInv'
<1>1. CASE PreflightEntry
  <2>1. /\ UNCHANGED <<Plan, rewind.step, rewind.reading, tracker, sessionVars, before, workspace>>
        /\ rewind.step = "preflight" /\ UNCHANGED disturbances
    BY <1>1, OperationFields, OperationFacts DEF PreflightEntry, At, Calm
  <2>2. WholeInv /\ rewind'.step = "preflight"
    BY <2>1
  <2>3. EndsKnown' /\ SeenTrue' /\ FilesKnown' /\ ManifestKnown' /\ tracker = NewTracker
    BY <2>1, <2>2, WalkKept
  <2>4. Undisturbed'
    BY <2>1, <2>2, WalkIsRewind DEF WholeInv, Undisturbed, Plan
  <2> QED
    BY <2>3, <2>4 DEF WholeInv
<1>2. CASE PreflightDone
  <2>1. /\ UNCHANGED <<Plan, tracker, sessionVars, before, workspace, disturbances>>
        /\ rewind.step = "preflight" /\ rewind'.step = "apply" /\ rewind'.at = 1
        /\ UNCHANGED rewind.reading
    BY <1>2, OperationFacts DEF PreflightDone, Past, Calm, OperationRecord, Plan
  <2>3. EndsKnown' /\ SeenTrue' /\ FilesKnown' /\ ManifestKnown' /\ tracker = NewTracker
    BY <2>1, WalkKept
  <2>4. Undisturbed'
    <3>1. \A f \in Entry : ~(f < 1)
      BY DEF Entry
    <3> QED
      BY <2>1, <3>1, WalkIsRewind DEF WholeInv, Undisturbed, Plan
  <2> QED
    BY <2>3, <2>4 DEF WholeInv
<1>3. CASE ApplyEntry
  <2>1. /\ UNCHANGED <<Plan, rewind.step, rewind.reading, tracker, sessionVars, before>>
        /\ rewind.step = "apply" /\ UNCHANGED disturbances
        /\ rewind.at \in Entry /\ rewind'.at = rewind.at + 1
        /\ workspace' = [workspace EXCEPT ![rewind.at] =
                            IF InPlan(rewind.at) THEN Replacement[rewind.at]
                                                 ELSE workspace[rewind.at]]
    BY <1>3, OperationFields, OperationFacts DEF ApplyEntry, At, Calm, Puts
  <2>2. WholeInv /\ rewind'.step = "apply"
    BY <2>1
  <2>3. EndsKnown' /\ SeenTrue' /\ FilesKnown' /\ ManifestKnown' /\ tracker = NewTracker
    BY <2>1, <2>2, WalkKept
  <2>4. ASSUME disturbances' = 0
        PROVE  rewind'.at # 0 /\ \A f \in Entry :
                 workspace'[f] = (IF f < rewind'.at THEN rewind'.to ELSE rewind'.from).workspace[f]
    <3>1. /\ \A f \in Entry :
               workspace[f] = (IF f < rewind.at THEN rewind.to ELSE rewind.from).workspace[f]
          /\ ~rewind.back
      BY <2>1, <2>4, WalkIsRewind DEF WholeInv, Undisturbed
    <3>2. Replacement = rewind.to.workspace
      BY <3>1 DEF Replacement
    <3>3. workspace \in [Entry -> EntryText] /\ Entry \subseteq Nat /\ rewind.at \in Nat
      BY OperationFacts DEF Entry
    <3>4. rewind'.to = rewind.to /\ rewind'.from = rewind.from
      BY <2>1 DEF Plan
    <3>5. ASSUME NEW f \in Entry
          PROVE  workspace'[f] = (IF f < rewind'.at THEN rewind'.to ELSE rewind'.from).workspace[f]
      <4>1. CASE f = rewind.at
        <5>1. f < rewind'.at /\ workspace'[f] = IF InPlan(f) THEN Replacement[f] ELSE workspace[f]
          BY <2>1, <3>3, <4>1
        <5>2. ~(f < rewind.at)
          BY <3>3, <4>1
        <5>3. workspace[f] = Expected[f]
          BY <3>1, <5>2 DEF Expected
        <5>4. workspace'[f] = rewind.to.workspace[f]
          BY <3>2, <5>1, <5>3 DEF InPlan
        <5> QED
          BY <3>4, <5>1, <5>4
      <4>2. CASE f # rewind.at
        <5>1. workspace'[f] = workspace[f] /\ (f < rewind'.at <=> f < rewind.at)
          BY <2>1, <3>3, <4>2
        <5> QED
          BY <3>1, <3>4, <5>1
      <4> QED
        BY <4>1, <4>2
    <3>6. rewind'.at # 0
      BY <2>1, <3>3
    <3> QED
      BY <3>5, <3>6
  <2>5. Undisturbed'
    BY <2>1, <2>2, <2>3, <2>4, WalkIsRewind DEF WholeInv, Undisturbed, Plan, NewTracker
  <2> QED
    BY <2>3, <2>5 DEF WholeInv
<1>4. CASE ApplyRefused
  <2>1. /\ UNCHANGED <<Plan, tracker, sessionVars, before, workspace, disturbances>>
        /\ rewind.step = "apply" /\ rewind'.step = "rollback"
        /\ rewind.at \in Entry /\ workspace[rewind.at] # Expected[rewind.at]
    BY <1>4, OperationFields, OperationFacts DEF ApplyRefused, At, Calm
  <2>3. EndsKnown' /\ SeenTrue' /\ FilesKnown' /\ ManifestKnown' /\ tracker = NewTracker
    BY <2>1, WalkKept
  <2>4. disturbances # 0
    <3> SUFFICES ASSUME disturbances = 0 PROVE FALSE
      OBVIOUS
    <3>1. /\ workspace[rewind.at] =
               (IF rewind.at < rewind.at THEN rewind.to ELSE rewind.from).workspace[rewind.at]
          /\ ~rewind.back
      BY <2>1, WalkIsRewind DEF WholeInv, Undisturbed
    <3>2. ~(rewind.at < rewind.at)
      BY OperationFacts
    <3> QED
      BY <2>1, <3>1, <3>2 DEF Expected
  <2> QED
    BY <2>1, <2>3, <2>4 DEF WholeInv, Undisturbed
<1>5. CASE ApplyFails
  <2>1. /\ UNCHANGED <<Plan, tracker, sessionVars, before>> /\ disturbances' = disturbances + 1
        /\ rewind.step = "apply" /\ rewind'.step = "rollback"
    BY <1>5, OperationFields, OperationFacts DEF ApplyFails, At, Disturbed
  <2>3. EndsKnown' /\ SeenTrue' /\ FilesKnown' /\ ManifestKnown' /\ tracker = NewTracker
    BY <2>1, WalkKept
  <2> QED
    BY <2>1, <2>3, OperationFacts DEF WholeInv, Undisturbed
<1>6. CASE RollbackEntry
  <2>1. /\ UNCHANGED <<Plan, rewind.step, tracker, sessionVars, before, disturbances>>
        /\ rewind.step = "rollback"
    BY <1>6, OperationFields, OperationFacts DEF RollbackEntry, At, Calm
  <2>2. WholeInv /\ rewind'.step = "rollback"
    BY <2>1
  <2>3. EndsKnown' /\ SeenTrue' /\ FilesKnown' /\ ManifestKnown' /\ tracker = NewTracker
    BY <2>1, <2>2, WalkKept
  <2> QED
    BY <2>1, <2>3, WalkIsRewind DEF WholeInv, Undisturbed
<1>7. CASE RollbackFails
  <2>1. /\ UNCHANGED <<Plan, rewind.step, tracker, sessionVars, before>>
        /\ rewind.step = "rollback" /\ disturbances' = disturbances + 1
    BY <1>7, OperationFields, OperationFacts DEF RollbackFails, At, Disturbed
  <2>2. WholeInv /\ rewind'.step = "rollback"
    BY <2>1
  <2>3. EndsKnown' /\ SeenTrue' /\ FilesKnown' /\ ManifestKnown' /\ tracker = NewTracker
    BY <2>1, <2>2, WalkKept
  <2> QED
    BY <2>1, <2>3, OperationFacts DEF WholeInv, Undisturbed
<1> QED
  BY <1>1, <1>2, <1>3, <1>4, <1>5, <1>6, <1>7

\* A restore that has ended one way or the other reads the workspace again.
LEMMA RestoreEndKept ==
  ASSUME TypeInv, WholeInv, PreflightStale \/ ApplyDone \/ RollbackDone
  PROVE  WholeInv' /\ WholeStep
<1>1. /\ rewind.task = "rewind" /\ tracker = NewTracker
      /\ UNCHANGED <<workspace, tracker, sessionVars>>
      /\ disturbances' = 0 => disturbances = 0
  BY WalkIsRewind, OperationFacts
     DEF PreflightStale, ApplyDone, RollbackDone, Past, Fails, Disturbed, Calm, WholeInv,
         FilesKnown, Looks
<1>2. ASSUME NEW reading \in {"target", "restart"}, Recapture(reading), UNCHANGED before,
             disturbances' = 0 => /\ reading = "target" /\ rewind.step = "apply"
                                  /\ workspace = rewind.to.workspace
      PROVE  WholeInv' /\ WholeStep
  <2>1. UNCHANGED Plan /\ rewind'.step = "capture" /\ rewind'.reading = reading
        /\ rewind'.seen = <<>>
    BY <1>2, OperationFields, OperationFacts
  <2>2. ~Looks /\ ~Looks' /\ rewind'.task = "rewind"
    BY <1>1, <1>2, <2>1 DEF Looks, Plan, PreflightStale, ApplyDone, RollbackDone, Past
  <2>3. EndsKnown'
    BY <1>1, <1>2, <2>1, <2>2
       DEF WholeInv, EndsKnown, Plan, Found, Goal, Own, Consistent, sessionVars
  <2>4. SeenTrue'
    BY <2>1 DEF SeenTrue, Own, Entry
  <2>5. FilesKnown'
    BY <1>1, <2>1, <2>2 DEF FilesKnown, NewTracker
  <2>6. ManifestKnown'
    BY <1>1, <1>2, <2>1, WalkIsRewind
       DEF WholeInv, ManifestKnown, Plan, sessionVars, PreflightStale, ApplyDone, RollbackDone, Past
  <2>7. Undisturbed'
    BY <1>1, <1>2, <2>1 DEF WholeInv, Undisturbed, Plan, NewTracker
  <2> QED
    BY <2>1, <2>3, <2>4, <2>5, <2>6, <2>7 DEF WholeInv, WholeStep, Ends
<1>3. ASSUME Finish("partial"), disturbances' # 0
      PROVE  WholeInv' /\ WholeStep
  <2>1. rewind'.task = "none" /\ rewind'.step = "idle" /\ rewind'.result = "partial"
    BY <1>3, OperationFields, OperationFacts DEF Finish
  <2>2. WholeInv'
    BY <1>1, <1>3, <2>1, RestingWhole DEF WholeInv, EndsKnown, sessionVars
  <2> QED
    BY <1>3, <2>1, <2>2 DEF WholeStep, Ends
<1>4. CASE PreflightStale
  <2>1. /\ rewind.step = "preflight" /\ rewind.at \in Entry
        /\ disturbances' = 0 => workspace[rewind.at] # Expected[rewind.at]
    BY <1>4, OperationFacts DEF PreflightStale, Fails, Disturbed
  <2>2. disturbances' # 0
    BY <1>1, <2>1 DEF WholeInv, Undisturbed, Expected
  <2> QED
    BY <1>2, <1>3, <1>4, <2>2 DEF PreflightStale
<1>5. CASE ApplyDone
  <2>1. rewind.step = "apply" /\ rewind.at \notin Entry /\ UNCHANGED before
    BY <1>5 DEF ApplyDone, Past
  <2>2. ASSUME disturbances = 0
        PROVE  ~rewind.back /\ workspace = rewind.to.workspace
    <3>1. /\ ~rewind.back /\ rewind.at # 0
          /\ \A f \in Entry :
               workspace[f] = (IF f < rewind.at THEN rewind.to ELSE rewind.from).workspace[f]
      BY <1>1, <2>1, <2>2 DEF WholeInv, Undisturbed
    <3>2. \A f \in Entry : f < rewind.at
      BY <2>1, <3>1, OperationFacts DEF Entry
    <3>3. rewind.to.workspace \in [Entry -> EntryText] /\ workspace \in [Entry -> EntryText]
      BY <2>1, WalkIsRewind, ReviewFacts, OperationFacts
    <3> QED
      BY <3>1, <3>2, <3>3
  <2> QED
    BY <1>1, <1>2, <1>5, <2>1, <2>2 DEF ApplyDone
<1>6. CASE RollbackDone
  <2>1. disturbances' # 0
    BY <1>1, <1>6 DEF WholeInv, Undisturbed, RollbackDone, Past
  <2> QED
    BY <1>2, <1>3, <1>6, <2>1 DEF RollbackDone
<1> QED
  BY <1>4, <1>5, <1>6


\* What is tracked of a workspace is in it.
Agrees == \A f \in Entry : tracker[f] \in {Untracked, workspace[f]}

\* A file that was read and is nobody else's is still what was read.
LEMMA SeenFacts ==
  ASSUME TypeInv, SeenTrue, rewind.step = "capture", Len(rewind.seen) = NumEntries
  PROVE  /\ rewind.seen \in [Entry -> EntryText]
         /\ \A f \in Own : rewind.seen[f] = workspace[f]
         /\ before.touched = {} => rewind.seen = workspace
<1>1. rewind.seen \in [Entry -> EntryText] /\ workspace \in [Entry -> EntryText]
  BY CaptureFacts, OperationFacts
<1>2. \A f \in Own : rewind.seen[f] = workspace[f]
  BY OperationFacts DEF SeenTrue, Own, Entry
<1>3. before.touched = {} => rewind.seen = workspace
  BY <1>1, <1>2 DEF Own
<1> QED
  BY <1>1, <1>2, <1>3

\* An operation begins.
LEMMA BeginKept ==
  ASSUME TypeInv, WholeInv, NEW task \in {"create", "rewind"}, NEW id, NEW to,
         task = "rewind" => id \in DOMAIN sidecar /\ to = sidecar[id].review,
         BeginOperation(task, id, to)
  PROVE  WholeInv'
<1>1. /\ rewind'.task = task /\ rewind'.step = "capture" /\ rewind'.reading = "current"
      /\ rewind'.id = id /\ rewind'.to = to /\ rewind'.from = ReviewOf(<<>>, tracker)
      /\ rewind'.seen = <<>> /\ rewind'.undo = FALSE /\ rewind'.back = FALSE
  BY DEF BeginOperation, Resting
<1>2. /\ before'.review.workspace = workspace /\ before'.review.tracker = tracker
      /\ before'.manifest = manifest
      /\ before'.touched = {f \in Entry : tracker[f] \notin {Untracked, workspace[f]}}
      /\ UNCHANGED <<workspace, tracker, sessionVars, disturbances>>
  BY DEF BeginOperation, ReviewOf, Calm
<1>3. EndsKnown'
  BY <1>1, <1>2 DEF WholeInv, EndsKnown, Looks, Goal, Found, Consistent, sessionVars, ReviewOf
<1>4. SeenTrue'
  BY <1>1 DEF SeenTrue, Own, Entry
<1>5. FilesKnown'
  BY <1>1, <1>2 DEF FilesKnown, Looks, Own
<1>6. ManifestKnown'
  BY <1>1, <1>2, OperationFacts DEF ManifestKnown, sessionVars
<1>7. Undisturbed'
  BY <1>1, <1>2 DEF WholeInv, Undisturbed
<1> QED
  BY <1>3, <1>4, <1>5, <1>6, <1>7 DEF WholeInv

\* Files are read and written, and the tracker observes them.
LEMMA FilesChange ==
  ASSUME TypeInv, StartupInv, WholeInv,
         \/ ReadEntry \/ \E f \in Entry : ObserveWrite(f)
         \/ \E f \in Entry, t \in Texts \cup {NoFile} : OutsideWrite(f, t)
  PROVE  WholeInv' /\ WholeStep
<1>1. CASE ReadEntry
  <2>1. /\ UNCHANGED <<workspace, tracker, sessionVars, before, disturbances, Plan>>
        /\ UNCHANGED <<rewind.step, rewind.reading>>
        /\ rewind.step = "capture" /\ Len(rewind.seen) < NumEntries
        /\ rewind'.seen = Append(rewind.seen, workspace[Len(rewind.seen) + 1])
    BY <1>1, OperationFacts DEF ReadEntry, Calm, OperationRecord, Plan
  <2>2. EndsKnown' /\ FilesKnown' /\ ManifestKnown' /\ Undisturbed'
    BY <2>1
       DEF WholeInv, EndsKnown, FilesKnown, ManifestKnown, Undisturbed, Looks, Plan, Found,
           Goal, Own, Consistent, sessionVars
  <2>3. SeenTrue'
    <3> SUFFICES ASSUME NEW f \in Own, f <= Len(rewind'.seen)
                 PROVE  rewind'.seen[f] = workspace[f]
      BY <2>1 DEF SeenTrue, Own
    <3>1. f \in 1 .. NumEntries /\ rewind.seen \in Seq(EntryText) /\ Len(rewind.seen) \in Nat
      BY OperationFacts DEF Own, Entry
    <3>2. /\ Len(rewind'.seen) = Len(rewind.seen) + 1
          /\ \A i \in 1 .. Len(rewind.seen) : rewind'.seen[i] = rewind.seen[i]
          /\ rewind'.seen[Len(rewind.seen) + 1] = workspace[Len(rewind.seen) + 1]
      BY <2>1, <3>1
    <3>3. CASE f <= Len(rewind.seen)
      <4>1. rewind.seen[f] = workspace[f]
        BY <2>1, <3>3 DEF WholeInv, SeenTrue
      <4> QED BY <3>1, <3>2, <3>3, <4>1
    <3>4. CASE ~(f <= Len(rewind.seen))
      BY <3>1, <3>2, <3>4
    <3> QED BY <3>3, <3>4
  <2> QED
    BY <2>1, <2>2, <2>3 DEF WholeInv, WholeStep, Ends
<1>2. CASE \E f \in Entry : ObserveWrite(f)
  <2>1. PICK f \in Entry : ObserveWrite(f)
    BY <1>2
  <2>2. /\ UNCHANGED <<workspace, sessionVars, before, disturbances, rewind>>
        /\ tracker[f] \notin {Untracked, workspace[f]}
        /\ tracker' = [tracker EXCEPT ![f] = workspace[f]]
    BY <2>1 DEF ObserveWrite, Calm
  <2>3. EndsKnown' /\ SeenTrue' /\ ManifestKnown'
    BY <2>2
       DEF WholeInv, EndsKnown, SeenTrue, ManifestKnown, Looks, Found, Goal, Own, Consistent,
           sessionVars
  <2>4. \A g \in Entry : g # f => tracker'[g] = tracker[g]
    BY <2>2, OperationFacts
  <2>5. FilesKnown'
    <3> SUFFICES ASSUME rewind.task = "rewind" PROVE FilesKnown'
      BY <2>2 DEF FilesKnown
    <3>1. CASE Looks
      <4>1. f \notin Own
        BY <2>2, <3>1 DEF WholeInv, FilesKnown
      <4> QED
        BY <2>2, <2>4, <3>1, <4>1 DEF WholeInv, FilesKnown, Looks, Own
    <3>2. CASE rewind.step \in {"append", "manifest", "refresh"}
      <4>1. Consistent(rewind.to)
        <5>1. ~rewind.undo /\ rewind.id \in DOMAIN sidecar
          BY <3>2 DEF TypeInv, Room, StartupInv, RewindKept
        <5> QED
          BY <5>1 DEF WholeInv, EndsKnown, Goal
      <4>2. f \notin Own
        BY <2>2, <3>2, <4>1 DEF WholeInv, FilesKnown, Consistent, Own
      <4> QED
        BY <2>2, <2>4, <3>2, <4>2 DEF WholeInv, FilesKnown, Looks, Own
    <3>3. CASE ~Looks /\ rewind.step \notin {"append", "manifest", "refresh"}
      <4>1. tracker[f] = Untracked
        BY <3>3 DEF WholeInv, FilesKnown, NewTracker
      <4> QED
        BY <2>2, <4>1
    <3> QED
      BY <3>1, <3>2, <3>3
  <2>6. Undisturbed'
    BY <2>2 DEF WholeInv, Undisturbed
  <2>7. rewind.task = "rewind" => rewind.step # "idle"
    BY DEF TypeInv, InHand
  <2> QED
    BY <2>2, <2>3, <2>5, <2>6, <2>7 DEF WholeInv, WholeStep, Ends
<1>3. CASE \E f \in Entry, t \in Texts \cup {NoFile} : OutsideWrite(f, t)
  <2>1. PICK f \in Entry, t \in Texts \cup {NoFile} : OutsideWrite(f, t)
    BY <1>3
  <2>2. /\ UNCHANGED <<tracker, sessionVars, rewind>> /\ disturbances' = disturbances + 1
        /\ workspace' = [workspace EXCEPT ![f] = t]
        /\ before' = [before EXCEPT !.touched = IF rewind.step = "idle" THEN @ ELSE @ \cup {f}]
    BY <2>1 DEF OutsideWrite, Disturbed
  <2>3. /\ before'.review = before.review /\ before'.manifest = before.manifest
        /\ rewind.step # "idle" => before'.touched = before.touched \cup {f}
    BY <2>2, OperationFacts
  <2>4. rewind.task = "rewind" => rewind.step # "idle"
    BY DEF TypeInv, InHand
  <2>5. \A g \in Entry : g # f => workspace'[g] = workspace[g]
    BY <2>2, OperationFacts
  <2>6. rewind.step # "idle" => Own' = Own \ {f}
    BY <2>3 DEF Own
  <2>7. EndsKnown' /\ ManifestKnown'
    BY <2>2, <2>3, <2>4, <2>6
       DEF WholeInv, EndsKnown, ManifestKnown, Looks, Found, Goal, Consistent, sessionVars
  <2>8. SeenTrue'
    BY <2>2, <2>5, <2>6 DEF WholeInv, SeenTrue, Own
  <2>9. FilesKnown'
    BY <2>2, <2>3, <2>4, <2>5, <2>6 DEF WholeInv, FilesKnown, Looks, Own
  <2>10. Undisturbed'
    BY <2>2, OperationFacts DEF Undisturbed
  <2> QED
    BY <2>2, <2>4, <2>7, <2>8, <2>9, <2>10 DEF WholeInv, WholeStep, Ends
<1> QED
  BY <1>1, <1>2, <1>3


\* The workspace and the tracker stay where they are, and nothing is in hand.
LEMMA Ended ==
  ASSUME TypeInv, WholeInv, NEW result \in {"none", "failed", "partial", "done"},
         Finish(result), UNCHANGED <<sidecar, workspace>>,
         disturbances' = 0 => \A f \in Entry : tracker'[f] \in {Untracked, workspace[f]}
  PROVE  WholeInv' /\ rewind'.step = "idle" /\ rewind'.result = result
<1>1. rewind'.task = "none" /\ rewind'.step = "idle" /\ rewind'.result = result
  BY OperationFields, OperationFacts DEF Finish
<1> QED
  BY <1>1, RestingWhole DEF WholeInv, EndsKnown

\* A capture of the workspace as the operation finds it.
LEMMA CurrentKept ==
  ASSUME TypeInv, StartupInv, WholeInv, CheckpointStale \/ SaveSidecar \/ StartRestore
  PROVE  WholeInv' /\ WholeStep
<1>1. /\ rewind.step = "capture" /\ rewind.reading = "current" /\ Looks
      /\ Len(rewind.seen) = NumEntries /\ UNCHANGED workspace
      /\ disturbances' = 0 => disturbances = 0
  BY OperationFacts
     DEF CheckpointStale, SaveSidecar, StartRestore, Captured, Looked, Fails, Disturbed, Calm, Looks
<1>2. /\ rewind.seen \in [Entry -> EntryText] /\ SeenTrue
      /\ \A f \in Own : rewind.seen[f] = workspace[f]
      /\ before.touched = {} => rewind.seen = workspace
  BY <1>1, SeenFacts DEF WholeInv
<1>3. CASE CheckpointStale
  <2>1. Finish("failed") /\ UNCHANGED <<tracker, sessionVars>>
    BY <1>3 DEF CheckpointStale
  <2>2. WholeInv' /\ rewind'.step = "idle" /\ rewind'.result = "failed"
    BY <1>1, <2>1, Ended DEF WholeInv, Undisturbed, sessionVars
  <2>3. rewind.task = "rewind" =>
          /\ manifest = before.manifest
          /\ \A f \in Own : AsIn(before.review, f)
    BY <1>1, <2>1 DEF WholeInv, ManifestKnown, FilesKnown, EndsKnown, AsIn, Own
  <2> QED
    BY <2>1, <2>2, <2>3 DEF WholeStep, Ends, Own, sessionVars
<1>4. CASE SaveSidecar
  <2>1. /\ rewind.task = "create" /\ TrackerAgrees
        /\ UNCHANGED <<tracker, before>>
        /\ sidecar' = Append(sidecar, [saved |-> TRUE, branch |-> branch,
                                       cutoff |-> CommittedThrough(branch),
                                       review |-> ReviewOf(rewind.seen, rewind.from.tracker),
                                       told |-> told[branch]])
    BY <1>4 DEF SaveSidecar
  <2>2. rewind'.task = "create" /\ rewind'.step = "append"
    BY <1>4, <2>1, OperationFacts DEF SaveSidecar, OperationRecord
  <2>3. Consistent(ReviewOf(rewind.seen, rewind.from.tracker))
    BY <2>1 DEF Consistent, ReviewOf, TrackerAgrees
  <2>4. \A c \in DOMAIN sidecar' : Consistent(sidecar'[c].review)
    <3>1. sidecar \in Seq(SidecarRecord)
      BY DEF TypeInv, Stores
    <3>2. DOMAIN sidecar' = 1 .. Len(sidecar) + 1 /\ Len(sidecar) \in Nat
      BY <2>1, <3>1
    <3>3. sidecar'[Len(sidecar) + 1].review = ReviewOf(rewind.seen, rewind.from.tracker)
      BY <2>1, <3>1
    <3>4. \A c \in 1 .. Len(sidecar) : c \in DOMAIN sidecar /\ sidecar'[c] = sidecar[c]
      BY <2>1, <3>1
    <3>5. \A c \in 1 .. Len(sidecar) + 1 : c \in 1 .. Len(sidecar) \/ c = Len(sidecar) + 1
      BY <3>2
    <3> QED
      BY <2>3, <3>2, <3>3, <3>4, <3>5 DEF WholeInv, EndsKnown
  <2>5. EndsKnown'
    BY <2>2, <2>4 DEF EndsKnown, Looks
  <2>6. SeenTrue' /\ FilesKnown' /\ ManifestKnown'
    BY <2>2 DEF SeenTrue, FilesKnown, ManifestKnown
  <2>7. Undisturbed'
    BY <1>1, <2>1, <2>2 DEF WholeInv, Undisturbed
  <2> QED
    BY <2>2, <2>5, <2>6, <2>7 DEF WholeInv, WholeStep, Ends
<1>5. CASE StartRestore
  <2>1. /\ rewind.task = "rewind" /\ TrackerAgrees /\ UNCHANGED <<sessionVars, before>>
        /\ tracker' = NewTracker
    BY <1>5 DEF StartRestore
  <2>2. rewind' = [rewind EXCEPT !.step = "preflight", !.at = 1, !.seen = <<>>,
                                 !.from.workspace = rewind.seen]
    BY <1>5, OperationFacts DEF StartRestore, Restoring, OperationRecord
  <2>3. /\ rewind'.task = "rewind" /\ rewind'.step = "preflight"
        /\ rewind'.to = rewind.to /\ rewind'.id = rewind.id /\ rewind'.undo = rewind.undo
        /\ rewind'.back = rewind.back /\ rewind'.result = rewind.result
        /\ rewind'.reading = rewind.reading
    BY <2>1, <2>2, OperationFacts DEF OperationRecord
  <2>4. rewind'.from.workspace = rewind.seen /\ rewind'.from.tracker = rewind.from.tracker
    <3>1. rewind'.from = [rewind.from EXCEPT !.workspace = rewind.seen]
      BY <2>2, OperationFacts DEF OperationRecord
    <3>2. rewind.from \in Review
      BY OperationFacts DEF OperationRecord
    <3> QED
      BY <3>1, <3>2 DEF Review
  <2>5. ~rewind.undo /\ ~rewind.back
    BY <1>1, <2>1 DEF WholeInv, EndsKnown
  <2>6. EndsKnown'
    <3>1. Goal' = Goal /\ Found' = rewind'.from /\ Found = rewind.from
      BY <2>3, <2>5 DEF Goal, Found
    <3>2. Consistent(rewind'.from)
      BY <2>1, <2>4 DEF Consistent, TrackerAgrees
    <3>3. \A f \in Own : rewind.seen[f] = before.review.workspace[f]
      BY <1>1, <1>2, <2>1 DEF WholeInv, FilesKnown
    <3>4. ~Looks' /\ Own' = Own
      BY <2>1, <2>3 DEF Looks, Own
    <3> QED
      BY <2>1, <2>3, <2>4, <2>5, <3>1, <3>2, <3>3, <3>4
         DEF WholeInv, EndsKnown, sessionVars, Consistent
  <2>7. SeenTrue' /\ FilesKnown'
    BY <1>1, <2>1, <2>3 DEF WholeInv, SeenTrue, FilesKnown, Looks, NewTracker, Own
  <2>8. ManifestKnown'
    BY <1>1, <2>1, <2>3, <2>5 DEF WholeInv, ManifestKnown, sessionVars
  <2>9. Undisturbed'
    BY <1>1, <1>2, <2>1, <2>3, <2>4, <2>5 DEF WholeInv, Undisturbed, NewTracker
  <2> QED
    BY <2>3, <2>6, <2>7, <2>8, <2>9 DEF WholeInv, WholeStep, Ends
<1> QED
  BY <1>3, <1>4, <1>5

\* A capture after a restore.
LEMMA RestoredKept ==
  ASSUME TypeInv, StartupInv, WholeInv,
         TargetReached \/ TargetStale \/ TrackerRestarted \/ RestartStale
  PROVE  WholeInv' /\ WholeStep
<1>1. /\ rewind.step = "capture" /\ rewind.reading \in {"target", "restart"}
      /\ Len(rewind.seen) = NumEntries /\ UNCHANGED <<workspace, sessionVars>>
      /\ disturbances' = 0 => disturbances = 0
  BY OperationFacts DEF TargetReached, TargetStale, TrackerRestarted, RestartStale, Captured, Looked,
                        Fails, Disturbed, Calm
<1>2. /\ rewind.seen \in [Entry -> EntryText]
      /\ \A f \in Own : rewind.seen[f] = workspace[f]
      /\ before.touched = {} => rewind.seen = workspace
  BY <1>1, SeenFacts DEF WholeInv
<1>3. /\ rewind.task = "rewind" /\ ~Looks /\ rewind.to \in Full /\ rewind.from \in Full
      /\ rewind.id \in DOMAIN sidecar
  BY <1>1 DEF TypeInv, InHand, OperationRecord, Looks, StartupInv, RewindKept
<1>4. Consistent(rewind.to) /\ Consistent(rewind.from)
  BY <1>3 DEF WholeInv, EndsKnown, Goal, Found
<1>5. \A f \in Own :
        /\ Found.workspace[f] = before.review.workspace[f]
        /\ Found.tracker = before.review.tracker
  BY <1>3 DEF WholeInv, EndsKnown
<1>6. CASE TargetReached
  <2>1. Matches(rewind.to) /\ tracker' = rewind.to.tracker
    BY <1>6 DEF TargetReached
  <2>2. \A f \in Own : workspace'[f] = rewind.to.workspace[f]
    BY <1>1, <1>2, <2>1 DEF Matches
  <2>3. \A f \in Entry : tracker'[f] \in {Untracked, workspace[f]}
    BY <2>1 DEF Matches
  <2>4. CASE rewind.undo
    <3>1. Finish(rewind.result) /\ rewind.result \in {"failed", "partial"}
      BY <1>3, <1>6, <2>4 DEF TargetReached, WholeInv, ManifestKnown
    <3>2. WholeInv' /\ rewind'.step = "idle" /\ rewind'.result = rewind.result
      BY <1>1, <2>3, <3>1, Ended DEF sessionVars
    <3>3. Found = rewind.to
      BY <2>4 DEF Found
    <3>4. \A f \in Own : AsIn(before.review, f)
      BY <1>5, <2>1, <2>2, <3>3 DEF AsIn
    <3>5. rewind.result = "failed" => manifest' = before.manifest
      BY <1>1, <1>3 DEF WholeInv, ManifestKnown, sessionVars
    <3>6. rewind.result = "partial" => disturbances' # 0
      BY <1>1, <1>3, <2>4 DEF WholeInv, Undisturbed
    <3> QED
      BY <3>1, <3>2, <3>4, <3>5, <3>6 DEF WholeStep, Ends, Own
  <2>5. CASE ~rewind.undo
    <3>1. rewind' = [rewind EXCEPT !.step = "append", !.seen = <<>>] /\ UNCHANGED before
      BY <1>6, <2>5 DEF TargetReached
    <3>2. UNCHANGED <<Plan, rewind.reading>> /\ rewind'.step = "append"
      BY <3>1, OperationFacts DEF OperationRecord, Plan
    <3>3. EndsKnown'
      BY <1>1, <1>3, <3>1, <3>2
         DEF WholeInv, EndsKnown, Looks, Plan, Found, Goal, Own, Consistent, sessionVars
    <3>4. SeenTrue' /\ FilesKnown'
      BY <2>1, <2>2, <3>1, <3>2 DEF SeenTrue, FilesKnown, Looks, Plan, Own
    <3>5. ManifestKnown'
      BY <1>1, <1>3, <3>1, <3>2 DEF WholeInv, ManifestKnown, Plan, sessionVars
    <3>6. Undisturbed'
      BY <1>1, <1>3, <2>3, <3>1, <3>2 DEF WholeInv, Undisturbed, Plan
    <3> QED
      BY <3>2, <3>3, <3>4, <3>5, <3>6 DEF WholeInv, WholeStep, Ends
  <2> QED
    BY <2>4, <2>5
<1>7. CASE TargetStale
  <2>1. /\ tracker' = NewTracker /\ UNCHANGED before /\ rewind.reading = "target"
        /\ disturbances' = 0 => ~Matches(rewind.to)
    BY <1>7, OperationFacts DEF TargetStale, Looked, Fails, Disturbed
  <2>2. rewind' = [rewind EXCEPT !.back = TRUE, !.step = "preflight", !.at = 1, !.seen = <<>>]
    BY <1>7, OperationFacts DEF TargetStale, Restoring, OperationRecord
  <2>3. /\ rewind'.task = "rewind" /\ rewind'.step = "preflight"
        /\ rewind'.to = rewind.to /\ rewind'.from = rewind.from /\ rewind'.id = rewind.id
        /\ rewind'.undo = rewind.undo /\ rewind'.result = rewind.result /\ rewind'.back
    BY <1>3, <2>2, OperationFacts DEF OperationRecord
  <2>4. disturbances' # 0
    <3> SUFFICES ASSUME disturbances' = 0 PROVE FALSE
      OBVIOUS
    <3>1. workspace = rewind.to.workspace /\ before.touched = {}
      BY <1>1, <1>3, <2>1 DEF WholeInv, Undisturbed
    <3> QED
      BY <1>2, <1>4, <2>1, <3>1 DEF Matches, Consistent
  <2>5. EndsKnown'
    BY <1>1, <1>3, <2>1, <2>3
       DEF WholeInv, EndsKnown, Looks, Found, Goal, Own, Consistent, sessionVars
  <2>6. SeenTrue' /\ FilesKnown'
    BY <2>1, <2>3 DEF SeenTrue, FilesKnown, Looks, NewTracker
  <2>7. ManifestKnown'
    BY <1>1, <1>3, <2>1, <2>3 DEF WholeInv, ManifestKnown, sessionVars
  <2> QED
    BY <1>1, <2>3, <2>4, <2>5, <2>6, <2>7 DEF WholeInv, Undisturbed, WholeStep, Ends
<1>8. CASE TrackerRestarted
  <2>1. /\ Matches(rewind.from) /\ tracker' = rewind.from.tracker
        /\ Finish(IF rewind.undo THEN "partial" ELSE "failed")
        /\ rewind.reading = "restart"
    BY <1>8 DEF TrackerRestarted, Captured, Looked, Abandon
  <2>2. disturbances' # 0
    BY <1>1, <1>3, <2>1 DEF WholeInv, Undisturbed
  <2>3. /\ WholeInv' /\ rewind'.step = "idle"
        /\ rewind'.result = IF rewind.undo THEN "partial" ELSE "failed"
    BY <1>1, <2>1, <2>2, Ended DEF sessionVars
  <2>4. ~rewind.undo => manifest' = before.manifest
    BY <1>1, <1>3 DEF WholeInv, ManifestKnown, sessionVars
  <2>5. ~rewind.undo => \A f \in Own : AsIn(before.review, f)
    BY <1>1, <1>2, <1>5, <2>1 DEF AsIn, Matches, Found
  <2> QED
    BY <2>2, <2>3, <2>4, <2>5 DEF WholeStep, Ends, Own
<1>9. CASE RestartStale
  <2>1. Finish("partial") /\ UNCHANGED tracker /\ rewind.reading = "restart"
    BY <1>9 DEF RestartStale, Looked
  <2>2. disturbances' # 0
    BY <1>1, <1>3, <2>1 DEF WholeInv, Undisturbed
  <2>3. WholeInv' /\ rewind'.step = "idle" /\ rewind'.result = "partial"
    BY <1>1, <2>1, <2>2, Ended DEF sessionVars
  <2> QED
    BY <2>2, <2>3 DEF WholeStep, Ends
<1> QED
  BY <1>6, <1>7, <1>8, <1>9


\* A tracker that cannot be stopped ends the rewind.
LEMMA StopKept ==
  ASSUME TypeInv, WholeInv, StopFails \/ StopAgainFails
  PROVE  WholeInv' /\ WholeStep
<1>1. /\ Finish(IF rewind.undo THEN "partial" ELSE "failed")
      /\ UNCHANGED <<workspace, sessionVars>> /\ disturbances' # 0
      /\ rewind.step \in {"preflight", "capture"}
  BY OperationFacts DEF StopFails, StopAgainFails, Abandon, Disturbed, Looked
<1>2. /\ WholeInv' /\ rewind'.step = "idle"
      /\ rewind'.result = IF rewind.undo THEN "partial" ELSE "failed"
  BY <1>1, Ended DEF sessionVars
<1>3. CASE rewind.undo
  BY <1>1, <1>2, <1>3 DEF WholeStep, Ends
<1>4. CASE ~rewind.undo
  <2>1. rewind.task = "rewind" => manifest' = before.manifest
    BY <1>1, <1>4 DEF WholeInv, ManifestKnown, sessionVars
  <2>2. rewind.task = "rewind" /\ StopFails => FilesAsIn(before.review)
    BY <1>1, <1>4 DEF StopFails, WholeInv, FilesKnown, FilesAsIn, Own
  <2>3. ASSUME rewind.task = "rewind", StopAgainFails
        PROVE  FilesAsIn(sidecar[rewind.id].review)
    <3>1. /\ rewind.step = "capture" /\ Len(rewind.seen) = NumEntries
          /\ rewind.seen = rewind.to.workspace
      BY <2>3 DEF StopAgainFails, Looked
    <3>2. \A f \in Own : rewind.seen[f] = workspace[f]
      BY <3>1, SeenFacts DEF WholeInv
    <3>3. rewind.to = sidecar[rewind.id].review
      BY <1>4, <2>3 DEF WholeInv, EndsKnown, Goal
    <3> QED
      BY <1>1, <3>1, <3>2, <3>3 DEF FilesAsIn, Own
  <2> QED
    BY <1>2, <1>4, <2>1, <2>2, <2>3 DEF WholeStep, Ends
<1> QED
  BY <1>3, <1>4

\* A commit that fails leaves a rewind to go back.
LEMMA ErrorKept ==
  ASSUME TypeInv, StartupInv, WholeInv,
         NEW step \in {"append", "manifest", "refresh"}, Commits(step),
         NEW result \in {"failed", "partial"}, CommitError(result),
         result = "failed" => step = "append",
         disturbances' = 0 => disturbances = 0 /\ result = "failed",
         Len(journal') \in Nat, Len(journal) <= Len(journal'), UNCHANGED manifest
  PROVE  WholeInv' /\ WholeStep
<1> USE DEF TypeInv
<1>1. /\ rewind.task \in {"create", "rewind"} /\ ~rewind.undo /\ UNCHANGED workspace
      /\ rewind.step = step
      /\ DOMAIN sidecar' = DOMAIN sidecar
      /\ \A c \in DOMAIN sidecar : sidecar'[c].review = sidecar[c].review
  BY ErrorTurn DEF WholeInv, Commits
<1>2. CASE rewind.task = "create"
  <2>1. rewind'.task = "none" /\ rewind'.step = "idle" /\ UNCHANGED tracker
    BY <1>2, ErrorTurn DEF WholeInv
  <2>2. WholeInv'
    BY <1>1, <2>1, RestingWhole DEF WholeInv, EndsKnown, Undisturbed, Consistent
  <2> QED
    BY <1>2, <2>2 DEF WholeStep, Ends
<1>3. CASE rewind.task = "rewind"
  <2>1. /\ UNCHANGED <<sidecar, before>> /\ tracker' = NewTracker
        /\ rewind' = [rewind EXCEPT !.from = rewind.to, !.to = rewind.from, !.undo = TRUE,
                                    !.result = result, !.step = "preflight", !.at = 1,
                                    !.seen = <<>>]
    BY <1>3, ErrorTurn DEF WholeInv
  <2>2. /\ rewind'.task = "rewind" /\ rewind'.from = rewind.to /\ rewind'.to = rewind.from
        /\ rewind'.undo = TRUE /\ rewind'.result = result /\ rewind'.step = "preflight"
        /\ rewind'.id = rewind.id /\ rewind'.back = rewind.back
        /\ rewind'.reading = rewind.reading
    BY <1>3, <2>1, OperationFacts DEF OperationRecord
  <2>3. EndsKnown'
    <3>1. Goal' = Goal /\ Found' = Found /\ ~Looks /\ ~Looks' /\ Own' = Own
      BY <1>1, <2>1, <2>2 DEF Goal, Found, Looks, Own
    <3> QED
      BY <1>3, <2>1, <2>2, <3>1 DEF WholeInv, EndsKnown, Consistent
  <2>4. SeenTrue' /\ FilesKnown'
    BY <2>1, <2>2 DEF SeenTrue, FilesKnown, Looks, NewTracker
  <2>5. ManifestKnown'
    BY <1>1, <1>3, <2>1, <2>2, OperationFacts DEF WholeInv, ManifestKnown
  <2>6. Undisturbed'
    <3> SUFFICES ASSUME disturbances' = 0 PROVE Undisturbed'
      BY DEF Undisturbed
    <3>1. before.touched = {} /\ ~rewind.back /\ rewind.reading # "restart"
      BY <1>3 DEF WholeInv, Undisturbed
    <3>2. workspace = rewind.to.workspace
      <4>1. \A f \in Entry : workspace[f] = rewind.to.workspace[f]
        BY <1>1, <1>3, <3>1 DEF WholeInv, FilesKnown, Own
      <4>2. rewind.to.workspace \in [Entry -> EntryText] /\ workspace \in [Entry -> EntryText]
        BY <1>3, ReviewFacts, OperationFacts DEF InHand
      <4> QED
        BY <4>1, <4>2
    <3> QED
      BY <1>1, <2>1, <2>2, <3>1, <3>2 DEF Undisturbed, NewTracker
  <2> QED
    BY <2>2, <2>3, <2>4, <2>5, <2>6 DEF WholeInv, WholeStep, Ends
<1> QED
  BY <1>1, <1>2, <1>3

\* The commit of an operation.
LEMMA CommitKept ==
  ASSUME TypeInv, StartupInv, WholeInv, CommitStep
  PROVE  WholeInv' /\ WholeStep
<1>0. Len(journal) \in Nat /\ disturbances \in Nat
  BY OperationFacts
<1>1. CASE CommitRefused
  <2>1. /\ Commits("append") /\ CommitError("failed")
        /\ UNCHANGED <<journal, manifest, disturbances>>
    BY <1>1 DEF CommitRefused, Calm
  <2> QED
    BY <1>0, <2>1, ErrorKept
<1>2. CASE AppendFails
  <2>1. /\ Commits("append") /\ CommitError("failed") /\ UNCHANGED manifest
        /\ disturbances' = disturbances + 1
        /\ Logs \/ UNCHANGED <<journal, told>>
    BY <1>2 DEF AppendFails, Disturbed
  <2>2. Len(journal') \in Nat /\ Len(journal) <= Len(journal')
    <3>1. CASE UNCHANGED journal
      BY <1>0, <3>1
    <3>2. CASE journal' = Append(journal, Event)
      <4>1. journal \in Seq(JournalRecord)
        BY DEF TypeInv, Stores
      <4>2. Len(journal') = Len(journal) + 1
        BY <3>2, <4>1
      <4> QED
        BY <1>0, <4>2
    <3> QED
      BY <2>1, <3>1, <3>2 DEF Logs
  <2>3. disturbances' # 0
    <3>1. disturbances' = disturbances + 1
      BY <2>1
    <3> QED
      BY <1>0, <3>1
  <2> QED
    BY <2>1, <2>2, <2>3, ErrorKept
<1>3. CASE ManifestFails \/ RefreshFails
  <2>1. /\ Commits("manifest") \/ Commits("refresh")
        /\ CommitError("partial") /\ UNCHANGED <<journal, manifest>>
        /\ disturbances' = disturbances + 1
    BY <1>3 DEF ManifestFails, RefreshFails, Disturbed
  <2>2. disturbances' # 0
    BY <1>0, <2>1
  <2>3. CASE Commits("manifest")
    BY <1>0, <2>1, <2>2, <2>3, ErrorKept
  <2>4. CASE Commits("refresh")
    BY <1>0, <2>1, <2>2, <2>4, ErrorKept
  <2> QED
    BY <2>1, <2>3, <2>4
<1>4. CASE AppendEvent
  <2>1. /\ rewind.step = "append" /\ rewind.task \in {"create", "rewind"}
        /\ UNCHANGED <<workspace, tracker, manifest, sidecar, before, disturbances>>
        /\ journal' = Append(journal, Event)
        /\ rewind' = [rewind EXCEPT !.step = "manifest"]
    BY <1>4 DEF AppendEvent, Commits, Calm, Logs
  <2>2. Len(journal') = Len(journal) + 1
    <3>1. journal \in Seq(JournalRecord)
      BY DEF TypeInv, Stores
    <3> QED
      BY <2>1, <3>1
  <2>3. UNCHANGED <<Plan, rewind.reading>> /\ rewind'.step = "manifest"
    BY <2>1, OperationFacts DEF OperationRecord, Plan
  <2>4. EndsKnown'
    BY <2>1, <2>3 DEF WholeInv, EndsKnown, Looks, Plan, Found, Goal, Own, Consistent
  <2>5. SeenTrue' /\ FilesKnown'
    BY <2>1, <2>3 DEF WholeInv, SeenTrue, FilesKnown, Looks, Plan, Own
  <2>6. ManifestKnown'
    BY <1>0, <2>1, <2>2, <2>3, OperationFacts DEF WholeInv, ManifestKnown, Plan
  <2>7. Undisturbed'
    BY <2>1, <2>3 DEF WholeInv, Undisturbed, Plan
  <2> QED
    BY <2>3, <2>4, <2>5, <2>6, <2>7 DEF WholeInv, WholeStep, Ends
<1>5. CASE UpdateManifest
  <2>1. /\ rewind.step = "manifest" /\ rewind.task \in {"create", "rewind"}
        /\ UNCHANGED <<workspace, tracker, journal, sidecar, before, disturbances>>
        /\ rewind.task = "rewind" => manifest' = Len(journal)
        /\ rewind' = [rewind EXCEPT !.step = "refresh"]
    BY <1>5 DEF UpdateManifest, Commits, Calm, Activates
  <2>2. UNCHANGED <<Plan, rewind.reading>> /\ rewind'.step = "refresh"
    BY <2>1, OperationFacts DEF OperationRecord, Plan
  <2>3. EndsKnown'
    BY <2>1, <2>2 DEF WholeInv, EndsKnown, Looks, Plan, Found, Goal, Own, Consistent
  <2>4. SeenTrue' /\ FilesKnown'
    BY <2>1, <2>2 DEF WholeInv, SeenTrue, FilesKnown, Looks, Plan, Own
  <2>5. ManifestKnown'
    BY <2>1, <2>2 DEF WholeInv, ManifestKnown, Plan
  <2>6. Undisturbed'
    BY <2>1, <2>2 DEF WholeInv, Undisturbed, Plan
  <2> QED
    BY <2>2, <2>3, <2>4, <2>5, <2>6 DEF WholeInv, WholeStep, Ends
<1>6. CASE Refresh
  <2>1. /\ rewind.step = "refresh" /\ Finish("done") /\ branch' = manifest
        /\ UNCHANGED <<workspace, tracker, journal, manifest, sidecar, disturbances>>
    BY <1>6 DEF Refresh, Commits, Calm
  <2>2. WholeInv' /\ rewind'.step = "idle" /\ rewind'.result = "done"
    BY <2>1, Ended DEF WholeInv, Undisturbed
  <2>3. rewind.task = "rewind" =>
          manifest # before.manifest /\ \A f \in Own : AsIn(sidecar[rewind.id].review, f)
    <3>1. ~rewind.undo
      BY <2>1 DEF TypeInv, Room
    <3>2. rewind.task = "rewind" => rewind.to = sidecar[rewind.id].review
      BY <3>1 DEF WholeInv, EndsKnown, Goal
    <3>3. rewind.task = "rewind" =>
            /\ manifest = Len(journal) /\ before.manifest < Len(journal)
            /\ before.manifest \in Nat
      BY <2>1, OperationFacts DEF WholeInv, ManifestKnown
    <3> QED
      BY <1>0, <2>1, <3>2, <3>3 DEF WholeInv, FilesKnown, AsIn
  <2> QED
    BY <2>1, <2>2, <2>3 DEF WholeStep, Ends, Own
<1> QED
  BY <1>1, <1>2, <1>3, <1>4, <1>5, <1>6 DEF CommitStep

\* The session is closed, dies and opens.
LEMMA SessionKept ==
  ASSUME TypeInv, WholeInv, SessionStep
  PROVE  WholeInv' /\ WholeStep
<1>1. UNCHANGED sidecar
  BY DEF SessionStep, CloseSession, DieAnywhere, GoesDown, OpenSession, StartupRestored,
         StartupStale
<1>2. CASE CloseSession \/ DieAnywhere
  <2>1. tracker' = NewTracker /\ rewind' = Resting("none")
    BY <1>2 DEF CloseSession, DieAnywhere, GoesDown
  <2>2. rewind'.task = "none" /\ rewind'.step = "idle" /\ rewind'.result = "none"
    BY <2>1, OperationFields, OperationFacts
  <2>3. WholeInv'
    BY <1>1, <2>1, <2>2, RestingWhole DEF WholeInv, EndsKnown, NewTracker
  <2> QED
    BY <2>2, <2>3 DEF WholeStep, Ends
<1>3. CASE OpenSession
  <2>1. /\ UNCHANGED <<workspace, tracker, before, disturbances>>
        /\ \/ UNCHANGED rewind
           \/ rewind'.task = "startup" /\ rewind'.seen = <<>> /\ rewind'.step = "capture"
    BY <1>3 DEF OpenSession, Calm, Resting
  <2>2. CASE UNCHANGED rewind
    <3>1. session # "open"
      BY <1>3 DEF OpenSession
    <3>2. EndsKnown' /\ SeenTrue' /\ Undisturbed'
      BY <1>1, <2>1, <2>2
         DEF WholeInv, EndsKnown, SeenTrue, Undisturbed, Looks, Found, Goal, Own, Consistent
    <3>3. FilesKnown' /\ ManifestKnown'
      BY <1>1, <1>3, <2>1, <2>2
         DEF WholeInv, FilesKnown, ManifestKnown, Looks, Own, OpenSession
    <3>4. rewind.step = "idle" => rewind.task = "none"
      BY DEF TypeInv, InHand
    <3> QED
      BY <2>2, <3>2, <3>3, <3>4 DEF WholeInv, WholeStep, Ends
  <2>3. CASE rewind'.task = "startup" /\ rewind'.seen = <<>> /\ rewind'.step = "capture"
    <3>1. EndsKnown' /\ FilesKnown' /\ ManifestKnown' /\ Undisturbed'
      BY <1>1, <2>1, <2>3
         DEF WholeInv, EndsKnown, FilesKnown, ManifestKnown, Undisturbed, Consistent
    <3>2. SeenTrue'
      BY <2>3 DEF SeenTrue, Own, Entry
    <3> QED
      BY <2>3, <3>1, <3>2 DEF WholeInv, WholeStep, Ends
  <2> QED
    BY <2>1, <2>2, <2>3
<1>4. CASE StartupRestored
  <2>1. /\ Matches(rewind.to) /\ Finish("none") /\ tracker' = rewind.to.tracker
        /\ UNCHANGED <<workspace, disturbances>>
    BY <1>4 DEF StartupRestored, Captured, Looked, Calm
  <2>2. WholeInv' /\ rewind'.step = "idle" /\ rewind'.result = "none"
    BY <1>1, <2>1, Ended DEF Matches
  <2> QED
    BY <2>2 DEF WholeStep, Ends
<1>5. CASE StartupStale
  <2>1. /\ Finish("none") /\ UNCHANGED <<workspace, tracker>>
        /\ disturbances' = 0 => disturbances = 0
    BY <1>5, OperationFacts DEF StartupStale, Looked, Fails, Disturbed, Calm
  <2>2. WholeInv' /\ rewind'.step = "idle" /\ rewind'.result = "none"
    BY <1>1, <2>1, Ended DEF WholeInv, Undisturbed
  <2> QED
    BY <2>2 DEF WholeStep, Ends
<1> QED
  BY <1>2, <1>3, <1>4, <1>5 DEF SessionStep

\* A turn, and an operation that begins.
LEMMA StartKept ==
  ASSUME TypeInv, StartupInv, WholeInv,
         Turn \/ CreateCheckpoint \/ \E c \in DOMAIN sidecar : BeginRewind(c)
  PROVE  WholeInv' /\ WholeStep
<1>1. rewind.step = "idle" /\ rewind.task = "none"
  BY DEF Turn, CreateCheckpoint, BeginRewind, BeginOperation, Ready, TypeInv, InHand
<1>2. CASE Turn
  <2>1. UNCHANGED <<rewind, sidecar, disturbances>>
    BY <1>2 DEF Turn, Calm
  <2>2. PICK f \in Entry, t \in Texts \cup {NoFile} :
          /\ workspace' = [workspace EXCEPT ![f] = t] /\ tracker' = [tracker EXCEPT ![f] = t]
    BY <1>2 DEF Turn
  <2>3. workspace \in [Entry -> EntryText] /\ tracker \in [Entry -> EntryText \cup {Untracked}]
    BY OperationFacts DEF Tracked
  <2>4. Agrees => Agrees'
    BY <2>2, <2>3 DEF Agrees
  <2> QED
    BY <1>1, <2>1, <2>4, RestingWhole DEF WholeInv, EndsKnown, Undisturbed, Agrees, WholeStep, Ends
<1>3. CASE CreateCheckpoint
  BY <1>1, <1>3, BeginKept DEF CreateCheckpoint, WholeStep, Ends
<1>4. CASE \E c \in DOMAIN sidecar : BeginRewind(c)
  BY <1>1, <1>4, BeginKept DEF BeginRewind, WholeStep, Ends
<1> QED
  BY <1>2, <1>3, <1>4

\* Every step keeps the two ends of a rewind in hand, and no rewind ends but
\* as it may.
LEMMA WholeKept ==
  ASSUME TypeInv, StartupInv, WholeInv, [RewindNext]_rewindVars
  PROVE  WholeInv' /\ [WholeStep]_rewindVars
<1>1. CASE \/ PreflightEntry \/ PreflightDone \/ ApplyEntry \/ ApplyRefused \/ ApplyFails
           \/ RollbackEntry \/ RollbackFails
  <2>1. rewind'.step # "idle"
    BY <1>1, OperationFields, OperationFacts
       DEF PreflightEntry, PreflightDone, ApplyEntry, ApplyRefused, ApplyFails, RollbackEntry,
           RollbackFails, At, Past, OperationRecord
  <2> QED
    BY <1>1, <2>1, WalkStepKept DEF WholeStep, Ends
<1>2. CASE UNCHANGED rewindVars
  BY <1>2
     DEF rewindVars, WholeInv, EndsKnown, SeenTrue, FilesKnown, ManifestKnown, Undisturbed,
         Looks, Found, Goal, Own, Consistent
<1> QED
  BY <1>1, <1>2, RestoreEndKept, FilesChange, CurrentKept, StopKept, RestoredKept, CommitKept,
     SessionKept, StartKept DEF RewindNext, CaptureStep, RestoreStep

\* A rewind that has ended has changed the workspace, the tracker and the
\* branch together, or none of them, but for the files others wrote meanwhile;
\* and it is left in doubt only when something failed or wrote between.  The
\* exceptions are a tracker that could not be stopped (review.rs:169, 187).
THEOREM RewindWhole == RewindSpec => RewindIsWhole
<1>1. RewindInit => WholeInv
  BY DEF RewindInit, WholeInv, EndsKnown, SeenTrue, FilesKnown, ManifestKnown, Undisturbed, Resting,
         NewTracker
<1>2. TypeInv /\ StartupInv /\ WholeInv /\ [RewindNext]_rewindVars
        => WholeInv' /\ [WholeStep]_rewindVars
  BY WholeKept
<1> QED
  BY <1>1, <1>2, StartupInvariant, PTL DEF RewindSpec, RewindIsWhole

-----------------------------------------------------------------------------
(* What a branch replays.  A journal is a value here, so that those of       *)
(* before and after a step can be compared.                                 *)

RewoundIn(j, b) == b \in DOMAIN j /\ j[b].kind = "rewound"

LineOf(j, b) ==
  LET line[c \in 0 .. Len(j)] ==
        {c} \cup IF RewoundIn(j, c) THEN line[j[c].branch] ELSE {}
  IN  line[b]

VisibleIn(j, b) ==
  {e \in DOMAIN j :
     /\ j[e].branch \in LineOf(j, b)
     /\ \A c \in LineOf(j, b) : RewoundIn(j, c) /\ j[c].branch = j[e].branch => e <= j[c].cutoff}

TurnsIn(j, b) == {e \in VisibleIn(j, b) : j[e].kind = "turn"}

\* The turns of a branch when nothing of its own beyond a cutoff counts.
TurnsUntil(j, b, cutoff) == {e \in TurnsIn(j, b) : j[e].branch = b => e <= cutoff}

\* An event belongs to a branch made before it, and a rewind cuts off before itself.
Tree(j) ==
  \A c \in DOMAIN j : j[c].branch \in 0 .. (c - 1) /\ (j[c].kind = "rewound" => j[c].cutoff < c)

Grows(j, k) == Len(k) = Len(j) + 1 /\ \A e \in DOMAIN j : k[e] = j[e]

\* The branch of a session is the root or has its event in the journal; every
\* branch was told its turns, and every checkpoint those up to its cutoff.
BranchInv ==
  /\ Tree(journal)
  /\ branch # RootBranch => IsRewound(branch)
  /\ \A b \in 0 .. Len(journal) :
       b = RootBranch \/ RewoundIn(journal, b) => told[b] = TurnsIn(journal, b)
  /\ \A c \in DOMAIN sidecar : sidecar[c].saved =>
       /\ sidecar[c].branch \in 0 .. Len(journal) /\ sidecar[c].cutoff \in 0 .. Len(journal)
       /\ sidecar[c].told = TurnsUntil(journal, sidecar[c].branch, sidecar[c].cutoff)

\* The definitions of the model are these, of the journal there is.
LEMMA InJournal ==
  \A b : /\ IsRewound(b) <=> RewoundIn(journal, b)
         /\ Lineage(b) = LineOf(journal, b)
         /\ Visible(b) = VisibleIn(journal, b)
<1>1. \A b : IsRewound(b) <=> RewoundIn(journal, b)
  BY DEF IsRewound, RewoundIn
<1>2. \A b : Lineage(b) = LineOf(journal, b)
  BY DEF Lineage, LineOf, IsRewound, RewoundIn
<1> QED BY <1>1, <1>2 DEF Visible, VisibleIn

\* What a journal holds.
LEMMA JournalIs ==
  ASSUME NEW j \in Seq(JournalRecord)
  PROVE  /\ Len(j) \in Nat /\ DOMAIN j = 1 .. Len(j)
         /\ \A e \in DOMAIN j : /\ j[e].kind \in {"turn", "created", "rewound"}
                                /\ j[e].branch \in Nat /\ j[e].cutoff \in Nat
<1>1. \A e \in DOMAIN j : j[e] \in JournalRecord
  OBVIOUS
<1>2. Len(j) \in Nat /\ DOMAIN j = 1 .. Len(j)
  OBVIOUS
<1> QED BY <1>1, <1>2 DEF JournalRecord

\* The line of a branch is the branch and, if it was made by a rewind, the line
\* of its parent: the least sets closed under parents are such lines, so the
\* recursive definition has a solution.
LEMMA LineIs ==
  ASSUME NEW j \in Seq(JournalRecord), Tree(j)
  PROVE  \A b \in 0 .. Len(j) :
           LineOf(j, b) = {b} \cup IF RewoundIn(j, b) THEN LineOf(j, j[b].branch) ELSE {}
<1> DEFINE N == 0 .. Len(j)
           closed(S) == \A c \in S : RewoundIn(j, c) => j[c].branch \in S
           line == [b \in N |-> {x \in N : \A S \in SUBSET N : b \in S /\ closed(S) => x \in S}]
           Solves(f) == f = [c \in N |-> {c} \cup IF RewoundIn(j, c) THEN f[j[c].branch] ELSE {}]
<1>1. \A b \in N : RewoundIn(j, b) => j[b].branch \in N
  BY JournalIs DEF Tree, RewoundIn
<1>2. ASSUME NEW b \in N
      PROVE  line[b] = {b} \cup IF RewoundIn(j, b) THEN line[j[b].branch] ELSE {}
  <2>1. b \in line[b] /\ line[b] \subseteq N
    OBVIOUS
  <2>2. CASE ~RewoundIn(j, b)
    <3>1. {b} \in SUBSET N /\ closed({b})
      BY <2>2
    <3>2. line[b] \subseteq {b}
      BY <3>1
    <3> QED BY <2>1, <2>2, <3>2
  <2>3. CASE RewoundIn(j, b)
    <3> DEFINE p == j[b].branch
               T == {b} \cup line[p]
    <3>1. p \in N
      BY <1>1, <2>3
    <3>2. p \in line[p] /\ line[p] \subseteq N
      BY <3>1
    <3>3. \A c \in line[p] : RewoundIn(j, c) => j[c].branch \in line[p]
      <4> SUFFICES ASSUME NEW c \in line[p], RewoundIn(j, c) PROVE j[c].branch \in line[p]
        OBVIOUS
      <4>1. c \in N /\ \A S \in SUBSET N : p \in S /\ closed(S) => c \in S
        BY <3>1
      <4>2. j[c].branch \in N
        BY <1>1, <4>1
      <4>3. \A S \in SUBSET N : p \in S /\ closed(S) => j[c].branch \in S
        BY <4>1
      <4> QED BY <3>1, <4>2, <4>3
    <3>4. T \in SUBSET N /\ b \in T /\ closed(T)
      BY <3>2, <3>3
    <3>5. line[b] \subseteq T
      BY <3>4
    <3>6. line[p] \subseteq line[b]
      <4> SUFFICES ASSUME NEW x \in line[p] PROVE x \in line[b]
        OBVIOUS
      <4>1. x \in N /\ \A S \in SUBSET N : p \in S /\ closed(S) => x \in S
        BY <3>1
      <4>2. \A S \in SUBSET N : b \in S /\ closed(S) => p \in S
        BY <2>3
      <4> QED BY <4>1, <4>2
    <3> QED BY <2>1, <2>3, <3>5, <3>6
  <2> QED BY <2>2, <2>3
<1>3. Solves(line)
  <2> HIDE DEF closed
  <2>1. line = [b \in N |-> line[b]]
    OBVIOUS
  <2>2. DOMAIN line = N
    OBVIOUS
  <2> HIDE DEF line
  <2> QED BY <1>2, <2>1, Zenon
<1>4. PICK f : Solves(f)
  BY <1>3
<1>5. Solves(CHOOSE g : Solves(g))
  BY <1>4, Zenon
<1> DEFINE h == CHOOSE g : Solves(g)
<1>6. \A b : LineOf(j, b) = h[b]
  BY DEF LineOf
<1> HIDE DEF h
<1>7. \A b \in N : h[b] = {b} \cup IF RewoundIn(j, b) THEN h[j[b].branch] ELSE {}
  BY <1>5 DEF h
<1> QED BY <1>6, <1>7

\* Along a line one goes back in time: every member but the branch itself is
\* the parent of a member.
LEMMA LineGoesBack ==
  ASSUME NEW j \in Seq(JournalRecord), Tree(j)
  PROVE  \A b \in 0 .. Len(j) :
           /\ LineOf(j, b) \subseteq 0 .. b
           /\ \A d \in LineOf(j, b) \ {b} :
                \E c \in LineOf(j, b) : RewoundIn(j, c) /\ j[c].branch = d
<1> DEFINE Good(b) ==
             /\ LineOf(j, b) \subseteq 0 .. b
             /\ \A d \in LineOf(j, b) \ {b} :
                  \E c \in LineOf(j, b) : RewoundIn(j, c) /\ j[c].branch = d
           T == {b \in 0 .. Len(j) : ~Good(b)}
<1>1. ASSUME NEW b \in 0 .. Len(j), \A a \in 0 .. Len(j) : a < b => Good(a) PROVE Good(b)
  <2>1. CASE ~RewoundIn(j, b)
    <3>1. LineOf(j, b) = {b}
      BY <2>1, LineIs
    <3> QED BY <3>1
  <2>2. CASE RewoundIn(j, b)
    <3> DEFINE p == j[b].branch
    <3>1. p \in 0 .. Len(j) /\ p < b
      BY <2>2, JournalIs DEF Tree, RewoundIn
    <3>2. LineOf(j, b) = {b} \cup LineOf(j, p)
      BY <2>2, LineIs
    <3>3. Good(p)
      BY <1>1, <3>1
    <3>4. LineOf(j, b) \subseteq 0 .. b
      BY <3>1, <3>2, <3>3
    <3>5. ASSUME NEW d \in LineOf(j, b) \ {b}
          PROVE  \E c \in LineOf(j, b) : RewoundIn(j, c) /\ j[c].branch = d
      <4>1. CASE d = p
        BY <2>2, <3>2, <4>1
      <4>2. CASE d # p
        BY <3>2, <3>3, <4>2
      <4> QED BY <4>1, <4>2
    <3> QED BY <3>4, <3>5
  <2> QED BY <2>1, <2>2
<1> HIDE DEF Good
<1>2. T = {}
  <2> SUFFICES ASSUME T # {} PROVE FALSE
    OBVIOUS
  <2>1. T \subseteq Nat
    BY JournalIs
  <2>2. PICK b \in T : \A a \in T : b <= a
    BY <2>1, LeastElement
  <2>3. \A a \in 0 .. Len(j) : a < b => Good(a)
    BY <2>1, <2>2, JournalIs
  <2> QED BY <1>1, <2>2, <2>3
<1>3. \A b \in 0 .. Len(j) : Good(b)
  BY <1>2
<1> QED BY <1>3 DEF Good

\* An event more leaves the lines there are.
LEMMA LineKept ==
  ASSUME NEW j \in Seq(JournalRecord), NEW k \in Seq(JournalRecord), Grows(j, k), Tree(k)
  PROVE  /\ Tree(j)
         /\ \A b \in 0 .. Len(j) :
              (RewoundIn(k, b) <=> RewoundIn(j, b)) /\ LineOf(k, b) = LineOf(j, b)
<1>1. /\ Len(j) \in Nat /\ DOMAIN j = 1 .. Len(j) /\ DOMAIN k = 1 .. Len(j) + 1
      /\ Len(k) = Len(j) + 1 /\ \A e \in DOMAIN j : k[e] = j[e]
  BY JournalIs DEF Grows
<1>2. \A b \in 0 .. Len(j) : RewoundIn(k, b) <=> RewoundIn(j, b)
  BY <1>1 DEF RewoundIn
<1>3. Tree(j)
  BY <1>1 DEF Tree
<1> DEFINE T == {b \in 0 .. Len(j) : LineOf(k, b) # LineOf(j, b)}
<1>4. ASSUME NEW b \in 0 .. Len(j), \A a \in 0 .. Len(j) : a < b => LineOf(k, a) = LineOf(j, a)
      PROVE  LineOf(k, b) = LineOf(j, b)
  <2>1. b \in 0 .. Len(k)
    BY <1>1
  <2>2. CASE ~RewoundIn(j, b)
    <3>1. LineOf(k, b) = {b} /\ LineOf(j, b) = {b}
      BY <1>2, <1>3, <2>1, <2>2, LineIs
    <3> QED BY <3>1
  <2>3. CASE RewoundIn(j, b)
    <3>1. b \in DOMAIN j /\ k[b].branch = j[b].branch
      BY <1>1, <2>3 DEF RewoundIn
    <3>2. j[b].branch \in 0 .. Len(j) /\ j[b].branch < b
      BY <1>1, <1>3, <3>1 DEF Tree
    <3>3. LineOf(k, j[b].branch) = LineOf(j, j[b].branch)
      BY <1>4, <3>2
    <3>4. LineOf(k, b) = {b} \cup LineOf(k, k[b].branch)
      BY <1>2, <2>1, <2>3, LineIs
    <3>5. LineOf(j, b) = {b} \cup LineOf(j, j[b].branch)
      BY <1>3, <2>3, LineIs
    <3> QED BY <3>1, <3>3, <3>4, <3>5
  <2> QED BY <2>2, <2>3
<1>5. T = {}
  <2> SUFFICES ASSUME T # {} PROVE FALSE
    OBVIOUS
  <2>1. T \subseteq Nat
    BY <1>1
  <2>2. PICK b \in T : \A a \in T : b <= a
    BY <2>1, LeastElement
  <2>3. \A a \in 0 .. Len(j) : a < b => LineOf(k, a) = LineOf(j, a)
    BY <1>1, <2>2
  <2> QED BY <1>4, <2>2, <2>3
<1> QED BY <1>2, <1>3, <1>5

\* A new event is seen on its own branch alone: who has left that branch has
\* cut it off before.
LEMMA VisibleGrows ==
  ASSUME NEW j \in Seq(JournalRecord), NEW k \in Seq(JournalRecord), Grows(j, k), Tree(k),
         NEW b \in 0 .. Len(j)
  PROVE  VisibleIn(k, b)
           = VisibleIn(j, b) \cup IF k[Len(k)].branch = b THEN {Len(k)} ELSE {}
<1> DEFINE n == Len(j)
           line == LineOf(j, b)
<1>1. /\ n \in Nat /\ DOMAIN j = 1 .. n /\ DOMAIN k = 1 .. n + 1
      /\ Len(k) = n + 1 /\ \A e \in DOMAIN j : k[e] = j[e]
      /\ \A e \in DOMAIN k : k[e].branch \in Nat /\ k[e].cutoff \in Nat
  BY JournalIs DEF Grows
<1>2. line \subseteq 0 .. b /\ LineOf(k, b) = line /\ b \in line
  BY LineKept, LineGoesBack, LineIs
<1>3. \A c \in line : RewoundIn(k, c) <=> RewoundIn(j, c)
  BY <1>1, <1>2, LineKept
<1>4. \A c \in line : RewoundIn(j, c) =>
        /\ c \in DOMAIN j /\ k[c] = j[c] /\ j[c].branch < b /\ j[c].cutoff <= n /\ j[c].cutoff \in Nat
  <2> SUFFICES ASSUME NEW c \in line, RewoundIn(j, c)
               PROVE  /\ c \in DOMAIN j /\ k[c] = j[c] /\ j[c].branch < b
                      /\ j[c].cutoff <= n /\ j[c].cutoff \in Nat
    OBVIOUS
  <2>1. c \in DOMAIN j /\ k[c] = j[c] /\ c <= b
    BY <1>1, <1>2 DEF RewoundIn
  <2>2. k[c].branch \in 0 .. (c - 1) /\ k[c].cutoff < c
    BY <1>1, <2>1 DEF Tree, RewoundIn
  <2> QED BY <1>1, <2>1, <2>2
<1>5. \A e \in DOMAIN j : e \in VisibleIn(k, b) <=> e \in VisibleIn(j, b)
  BY <1>1, <1>2, <1>3, <1>4 DEF VisibleIn
<1>6. ASSUME k[n + 1].branch = b PROVE n + 1 \in VisibleIn(k, b)
  <2>1. \A c \in line : RewoundIn(k, c) => k[c].branch # b
    BY <1>1, <1>3, <1>4
  <2> QED BY <1>1, <1>2, <1>6, <2>1 DEF VisibleIn
<1>7. ASSUME n + 1 \in VisibleIn(k, b) PROVE k[n + 1].branch = b
  <2> SUFFICES ASSUME k[n + 1].branch # b PROVE FALSE
    OBVIOUS
  <2>1. k[n + 1].branch \in line \ {b}
    BY <1>2, <1>7 DEF VisibleIn
  <2>2. PICK c \in line : RewoundIn(j, c) /\ j[c].branch = k[n + 1].branch
    <3>1. /\ Tree(j) /\ b \in 0 .. Len(j)
          /\ \A c \in line : RewoundIn(k, c) <=> RewoundIn(j, c)
      BY <1>3, LineKept
    <3>2. \A d \in line \ {b} : \E c \in line : RewoundIn(j, c) /\ j[c].branch = d
      BY <3>1, LineGoesBack
    <3> QED BY <2>1, <3>2
  <2>3. n + 1 <= k[c].cutoff
    BY <1>2, <1>3, <1>4, <1>7, <2>2 DEF VisibleIn
  <2> QED BY <1>1, <1>4, <2>2, <2>3
<1>8. VisibleIn(k, b) \subseteq 1 .. n + 1 /\ VisibleIn(j, b) \subseteq 1 .. n
  BY <1>1 DEF VisibleIn
<1> QED BY <1>1, <1>5, <1>6, <1>7, <1>8

\* A branch begins with the turns of its parent up to the cutoff.
LEMMA BranchBegins ==
  ASSUME NEW j \in Seq(JournalRecord), NEW k \in Seq(JournalRecord), Grows(j, k), Tree(k),
         k[Len(k)].kind = "rewound"
  PROVE  TurnsIn(k, Len(k)) = TurnsUntil(j, k[Len(k)].branch, k[Len(k)].cutoff)
<1> DEFINE n == Len(j)
           p == k[n + 1].branch
           cutoff == k[n + 1].cutoff
           line == LineOf(j, p)
<1>1. /\ n \in Nat /\ DOMAIN j = 1 .. n /\ DOMAIN k = 1 .. n + 1
      /\ Len(k) = n + 1 /\ \A e \in DOMAIN j : k[e] = j[e]
  BY JournalIs DEF Grows
<1>2. p \in 0 .. n
  BY <1>1 DEF Tree
<1>3. line \subseteq 0 .. p /\ LineOf(k, p) = line /\ p \in line
  BY <1>2, LineKept, LineGoesBack, LineIs
<1>4. RewoundIn(k, n + 1) /\ LineOf(k, n + 1) = {n + 1} \cup line
  BY <1>1, <1>3, LineIs DEF RewoundIn
<1>5. \A c \in line : /\ c # n + 1 /\ (RewoundIn(k, c) <=> RewoundIn(j, c))
                      /\ RewoundIn(j, c) => k[c] = j[c]
  BY <1>1, <1>2, <1>3, LineKept DEF RewoundIn
<1>6. ASSUME NEW e \in DOMAIN j
      PROVE  e \in VisibleIn(k, n + 1) <=> e \in VisibleIn(j, p) /\ (j[e].branch = p => e <= cutoff)
  <2>1. j[e].branch # n + 1
    BY <1>1 DEF Tree
  <2>2. k[e] = j[e] /\ e \in DOMAIN k
    BY <1>1
  <2>3. \A c \in {n + 1} \cup line :
          (RewoundIn(k, c) /\ k[c].branch = k[e].branch => e <= k[c].cutoff)
          <=> IF c = n + 1 THEN p = j[e].branch => e <= cutoff
              ELSE RewoundIn(j, c) /\ j[c].branch = j[e].branch => e <= j[c].cutoff
    BY <1>4, <1>5, <2>2
  <2> QED BY <1>4, <1>5, <2>1, <2>2, <2>3 DEF VisibleIn
<1>7. VisibleIn(k, n + 1) \subseteq DOMAIN j \cup {n + 1} /\ VisibleIn(j, p) \subseteq DOMAIN j
  BY <1>1 DEF VisibleIn
<1>8. k[n + 1].kind # "turn"
  BY <1>1
<1> HIDE DEF p, cutoff
<1>9. TurnsIn(k, n + 1) = TurnsUntil(j, p, cutoff)
  BY <1>1, <1>6, <1>7, <1>8 DEF TurnsIn, TurnsUntil
<1> QED BY <1>1, <1>9 DEF p, cutoff

\* What an event more does to the turns of the branches there are.
LEMMA TurnsGrow ==
  ASSUME NEW j \in Seq(JournalRecord), NEW k \in Seq(JournalRecord), Grows(j, k), Tree(k),
         NEW b \in 0 .. Len(j)
  PROVE  /\ TurnsIn(k, b) = TurnsIn(j, b) \cup
              IF k[Len(k)].branch = b /\ k[Len(k)].kind = "turn" THEN {Len(k)} ELSE {}
         /\ \A cutoff \in 0 .. Len(j) : TurnsUntil(k, b, cutoff) = TurnsUntil(j, b, cutoff)
<1>1. /\ Len(j) \in Nat /\ DOMAIN j = 1 .. Len(j) /\ DOMAIN k = 1 .. Len(j) + 1
      /\ Len(k) = Len(j) + 1 /\ \A e \in DOMAIN j : k[e] = j[e]
  BY JournalIs DEF Grows
<1>2. VisibleIn(j, b) \subseteq DOMAIN j
  BY DEF VisibleIn
<1>3. TurnsIn(k, b) = TurnsIn(j, b) \cup
        IF k[Len(k)].branch = b /\ k[Len(k)].kind = "turn" THEN {Len(k)} ELSE {}
  BY <1>1, <1>2, VisibleGrows DEF TurnsIn
<1>4. ASSUME NEW cutoff \in 0 .. Len(j)
      PROVE  TurnsUntil(k, b, cutoff) = TurnsUntil(j, b, cutoff)
  <2>1. TurnsIn(j, b) \subseteq DOMAIN j
    BY <1>2 DEF TurnsIn
  <2>2. ~(Len(k) <= cutoff)
    BY <1>1
  <2> QED BY <1>1, <1>3, <2>1, <2>2 DEF TurnsUntil
<1> QED BY <1>3, <1>4

\* What is asked of the checkpoints does not change when the journal grows, or
\* one of them is removed.
TreeKept ==
  \A c \in DOMAIN sidecar' : sidecar'[c].saved =>
    c \in DOMAIN sidecar /\ sidecar'[c] = sidecar[c]

\* The event of a step belongs to the session's branch.
LEMMA TreeGrows ==
  ASSUME TypeInv, BranchInv, journal' \in Seq(JournalRecord), Grows(journal, journal'),
         journal'[Len(journal')].branch = branch,
         journal'[Len(journal')].kind = "rewound" => journal'[Len(journal')].cutoff <= Len(journal)
  PROVE  Tree(journal')
<1>1. /\ Len(journal) \in Nat /\ DOMAIN journal = 1 .. Len(journal)
      /\ DOMAIN journal' = 1 .. Len(journal) + 1
      /\ Len(journal') = Len(journal) + 1 /\ \A e \in DOMAIN journal : journal'[e] = journal[e]
      /\ branch \in 0 .. Len(journal)
      /\ journal'[Len(journal')].cutoff \in Nat
  BY JournalIs DEF Grows, TypeInv, Stores, Room
<1> QED BY <1>1 DEF Tree, BranchInv

\* A step that logs an event.
LEMMA BranchLogged ==
  ASSUME TypeInv, BranchInv, journal' \in Seq(JournalRecord), Grows(journal, journal'),
         Tree(journal'), TreeKept,
         branch' # RootBranch => RewoundIn(journal, branch'),
         \A b \in 0 .. Len(journal) : told'[b] = IF b = journal'[Len(journal')].branch
                                                   /\ journal'[Len(journal')].kind = "turn"
                                                 THEN told[b] \cup {Len(journal')} ELSE told[b],
         journal'[Len(journal')].kind = "rewound" =>
           told'[Len(journal')] = TurnsUntil(journal, journal'[Len(journal')].branch,
                                                      journal'[Len(journal')].cutoff)
  PROVE  BranchInv'
<1> DEFINE n == Len(journal)
<1>1. /\ journal \in Seq(JournalRecord) /\ n \in Nat /\ DOMAIN journal = 1 .. n
      /\ Len(journal') = n + 1 /\ DOMAIN journal' = 1 .. n + 1
  BY JournalIs DEF Grows, TypeInv, Stores
<1>2. branch' # RootBranch => IsRewound(branch)'
  BY <1>1 DEF Grows, RewoundIn, IsRewound
<1>3. ASSUME NEW b \in 0 .. Len(journal'), b = RootBranch \/ RewoundIn(journal', b)
      PROVE  told'[b] = TurnsIn(journal', b)
  <2>1. CASE b \in 0 .. n
    <3>1. told[b] = TurnsIn(journal, b)
      BY <1>1, <1>3, <2>1, LineKept DEF BranchInv
    <3>2. TurnsIn(journal', b) = TurnsIn(journal, b) \cup
            IF journal'[Len(journal')].branch = b /\ journal'[Len(journal')].kind = "turn"
              THEN {Len(journal')} ELSE {}
      BY <1>1, <2>1, TurnsGrow
    <3>3. told'[b] = IF b = journal'[Len(journal')].branch /\ journal'[Len(journal')].kind = "turn"
                       THEN told[b] \cup {Len(journal')} ELSE told[b]
      BY <2>1
    <3> QED BY <3>1, <3>2, <3>3
  <2>2. CASE b = n + 1
    <3>1. journal'[n + 1].kind = "rewound"
      BY <1>1, <1>3, <2>2 DEF RewoundIn, RootBranch
    <3> QED BY <1>1, <2>2, <3>1, BranchBegins
  <2> QED BY <1>1, <2>1, <2>2
<1>4. ASSUME NEW c \in DOMAIN sidecar', sidecar'[c].saved
      PROVE  /\ sidecar'[c].branch \in 0 .. Len(journal') /\ sidecar'[c].cutoff \in 0 .. Len(journal')
             /\ sidecar'[c].told = TurnsUntil(journal', sidecar'[c].branch, sidecar'[c].cutoff)
  <2>1. c \in DOMAIN sidecar /\ sidecar'[c] = sidecar[c]
    BY <1>4 DEF TreeKept
  <2>2. /\ sidecar[c].branch \in 0 .. n /\ sidecar[c].cutoff \in 0 .. n
        /\ sidecar[c].told = TurnsUntil(journal, sidecar[c].branch, sidecar[c].cutoff)
    BY <1>4, <2>1 DEF BranchInv
  <2> QED BY <1>1, <2>1, <2>2, TurnsGrow
<1> QED BY <1>2, <1>3, <1>4 DEF BranchInv

\* A step that logs none.
LEMMA BranchQuiet ==
  ASSUME TypeInv, StartupInv, BranchInv, UNCHANGED <<journal, told>>, TreeKept,
         branch' \in {branch, manifest, RootBranch}
  PROVE  BranchInv'
<1>1. branch' # RootBranch => IsRewound(branch)'
  BY DEF BranchInv, StartupInv, IsRewound
<1> QED BY <1>1 DEF BranchInv, TreeKept

\* A turn.
LEMMA BranchTurn ==
  ASSUME TypeInv, StartupInv, BranchInv, Turn
  PROVE  BranchInv'
<1>1. Stores
  BY DEF TypeInv
<1>2. /\ Grows(journal, journal') /\ journal'[Len(journal')].kind = "turn"
      /\ UNCHANGED sidecar /\ branch' = manifest
      /\ told' = [told EXCEPT ![branch] = @ \cup {Len(journal')}]
  BY <1>1, TurnRecord DEF Grows, Turn
<1>3. journal' \in Seq(JournalRecord) /\ journal'[Len(journal')].branch = branch
  <2> DEFINE new == Record("turn", 0, 0)
  <2>1. new \in JournalRecord /\ new.branch = branch
    BY <1>1 DEF Record, JournalRecord, Stores
  <2>2. journal \in Seq(JournalRecord) /\ journal' = Append(journal, new)
    BY <1>1 DEF Turn, Stores
  <2> HIDE DEF new
  <2> QED BY <2>1, <2>2
<1>4. Len(journal) \in Nat /\ Len(journal) <= MaxRecords /\ MaxRecords \in Nat
      /\ told \in [0 .. MaxRecords -> SUBSET Nat]
  BY RewindAssumption, JournalIs DEF TypeInv, Stores, Room, RewindConfig
<1>5. \A b \in 0 .. Len(journal) :
        told'[b] = IF b = branch THEN told[b] \cup {Len(journal')} ELSE told[b]
  <2> TAKE b \in 0 .. Len(journal)
  <2>1. b \in DOMAIN told
    BY <1>4
  <2>2. told' = [a \in DOMAIN told |-> IF a = branch THEN told[a] \cup {Len(journal')} ELSE told[a]]
    BY <1>2
  <2> QED BY <2>1, <2>2, Zenon
<1>6. branch' # RootBranch => RewoundIn(journal, branch')
  BY <1>2 DEF StartupInv, IsRewound, RewoundIn
<1>7. Tree(journal')
  BY <1>2, <1>3, TreeGrows
<1> QED BY <1>2, <1>3, <1>5, <1>6, <1>7, BranchLogged DEF TreeKept

\* A checkpoint that is saved.
LEMMA BranchSaved ==
  ASSUME TypeInv, StartupInv, BranchInv, SaveSidecar
  PROVE  BranchInv'
<1> DEFINE cutoff == CommittedThrough(branch)
           new == [saved |-> TRUE, branch |-> branch, cutoff |-> cutoff,
                   review |-> ReviewOf(rewind.seen, rewind.from.tracker),
                   told |-> told[branch]]
<1>1. /\ UNCHANGED <<journal, branch, told>> /\ sidecar' = Append(sidecar, new)
      /\ sidecar \in Seq(SidecarRecord) /\ sidecar' \in Seq(SidecarRecord)
  BY SavedFacts DEF SaveSidecar, TypeInv, Stores
<1>2. branch \in 0 .. Len(journal) /\ Len(journal) \in Nat
  BY RecordFacts DEF TypeInv, Stores, Room
<1>3. cutoff \in 0 .. Len(journal) /\ \A e \in VisibleIn(journal, branch) : e <= cutoff
  BY CommittedLast, InJournal
<1>4. told[branch] = TurnsIn(journal, branch)
  BY <1>2, InJournal DEF BranchInv
<1>5. told[branch] = TurnsUntil(journal, branch, cutoff)
  BY <1>3, <1>4 DEF TurnsUntil, TurnsIn
<1>6. new.saved /\ new.branch = branch /\ new.cutoff = cutoff /\ new.told = told[branch]
  OBVIOUS
<1> HIDE DEF new, cutoff
<1>7. \A c \in DOMAIN sidecar' : sidecar'[c] = new \/ (c \in DOMAIN sidecar /\ sidecar'[c] = sidecar[c])
  <2>1. /\ Len(sidecar) \in Nat /\ DOMAIN sidecar = 1 .. Len(sidecar)
        /\ DOMAIN sidecar' = 1 .. Len(sidecar')
    BY <1>1, LenProperties
  <2>2. /\ Len(sidecar') = Len(sidecar) + 1 /\ \A c \in DOMAIN sidecar : sidecar'[c] = sidecar[c]
    BY SavedFacts
  <2>3. sidecar'[Len(sidecar) + 1] = new
    BY <1>1, AppendProperties DEF new
  <2> TAKE c \in DOMAIN sidecar'
  <2>4. c \in 1 .. Len(sidecar) + 1
    BY <2>1, <2>2
  <2>5. CASE c = Len(sidecar) + 1
    BY <2>3, <2>5
  <2>6. CASE c \in 1 .. Len(sidecar)
    BY <2>1, <2>2, <2>6
  <2> QED BY <2>1, <2>4, <2>5, <2>6
<1>8. branch' # RootBranch => IsRewound(branch)'
  BY <1>1 DEF BranchInv, IsRewound
<1>9. ASSUME NEW c \in DOMAIN sidecar', sidecar'[c].saved
      PROVE  /\ sidecar'[c].branch \in 0 .. Len(journal) /\ sidecar'[c].cutoff \in 0 .. Len(journal)
             /\ sidecar'[c].told = TurnsUntil(journal, sidecar'[c].branch, sidecar'[c].cutoff)
  BY <1>2, <1>3, <1>5, <1>6, <1>7, <1>9 DEF BranchInv
<1> QED BY <1>1, <1>8, <1>9 DEF BranchInv

\* The event of an operation.
LEMMA BranchCommitted ==
  ASSUME TypeInv, StartupInv, BranchInv, Commits("append"), ~BelongsElsewhere, Logs, TreeKept,
         UNCHANGED branch
  PROVE  BranchInv'
<1> DEFINE c == rewind.id
<1>1. Stores /\ InHand /\ (rewind.task = "rewind" => c \in DOMAIN sidecar /\ sidecar[c].saved)
  BY DEF TypeInv, StartupInv, RewindKept
<1>2. /\ journal' \in Seq(JournalRecord) /\ Grows(journal, journal')
      /\ journal'[Len(journal')].branch = branch
      /\ rewind.task = "create" => journal'[Len(journal')].kind = "created"
      /\ rewind.task = "rewind" =>
           /\ journal'[Len(journal')].kind = "rewound"
           /\ journal'[Len(journal')].cutoff = sidecar[c].cutoff
  BY <1>1, LogsFacts, LoggedRecord DEF Grows
<1>3. /\ Len(journal) \in Nat /\ Len(journal') = Len(journal) + 1
      /\ Len(journal) < MaxRecords /\ MaxRecords \in Nat
      /\ told \in [0 .. MaxRecords -> SUBSET Nat] /\ branch \in 0 .. Len(journal)
  BY <1>1, <1>2, RecordFacts, RewindAssumption
     DEF TypeInv, Stores, Room, RewindConfig, Commits, Grows
<1>4. rewind.task \in {"create", "rewind"}
  BY DEF Commits
<1>5. rewind.task = "rewind" =>
        /\ sidecar[c].branch = branch /\ sidecar[c].cutoff <= Len(journal)
        /\ sidecar[c].told = TurnsUntil(journal, branch, sidecar[c].cutoff)
  BY <1>1 DEF BelongsElsewhere, BranchInv
<1>6. /\ \A b \in 0 .. Len(journal) : told'[b] = told[b]
      /\ rewind.task = "rewind" => told'[Len(journal')] = sidecar[c].told
  BY <1>3, <1>4 DEF Logs
<1>7. Tree(journal')
  BY <1>2, <1>4, <1>5, TreeGrows
<1>8. branch' # RootBranch => RewoundIn(journal, branch')
  BY DEF BranchInv, IsRewound, RewoundIn
<1> QED BY <1>2, <1>4, <1>5, <1>6, <1>7, <1>8, BranchLogged

\* A commit that fails or is complete leaves the other checkpoints.
LEMMA ErrorKeeps ==
  ASSUME TypeInv, NEW step, Commits(step), NEW result, CommitError(result)
  PROVE  TreeKept
<1>1. sidecar \in Seq(SidecarRecord)
  BY DEF TypeInv, Stores
<1>2. CASE rewind.task = "create"
  <2>1. sidecar' = [sidecar EXCEPT ![rewind.id].saved = FALSE]
    BY <1>2 DEF CommitError
  <2>2. \A c \in DOMAIN sidecar : sidecar[c] \in SidecarRecord
    BY <1>1
  <2>3. ASSUME NEW c \in DOMAIN sidecar', sidecar'[c].saved
        PROVE  c \in DOMAIN sidecar /\ sidecar'[c] = sidecar[c]
    <3>1. c \in DOMAIN sidecar /\ "saved" \in DOMAIN sidecar[c]
      BY <1>1, <2>1, <2>2 DEF SidecarRecord
    <3>2. c # rewind.id
      BY <2>1, <2>3, <3>1
    <3> QED BY <2>1, <3>1, <3>2
  <2> QED BY <2>3 DEF TreeKept
<1>3. CASE rewind.task = "rewind"
  <2>1. UNCHANGED sidecar
    BY <1>3 DEF CommitError
  <2> QED BY <2>1 DEF TreeKept
<1> QED BY <1>2, <1>3 DEF Commits

\* A branch keeps its turns.
LEMMA BranchKept ==
  ASSUME TypeInv, StartupInv, BranchInv, [RewindNext]_rewindVars
  PROVE  BranchInv'
<1> DEFINE Quiet == UNCHANGED <<journal, told, sidecar>> /\ branch' \in {branch, manifest, RootBranch}
<1> USE DEF sessionVars
<1>1. Quiet => BranchInv'
  BY BranchQuiet DEF TreeKept
<1>2. CASE Turn
  BY <1>2, BranchTurn
<1>3. CASE \/ CreateCheckpoint \/ \E c \in DOMAIN sidecar : BeginRewind(c)
          \/ \E f \in Entry : ObserveWrite(f) \/ \E t \in Texts \cup {NoFile} : OutsideWrite(f, t)
  BY <1>1, <1>3 DEF CreateCheckpoint, BeginRewind, BeginOperation, ObserveWrite, OutsideWrite
<1>4. CASE SaveSidecar
  BY <1>4, BranchSaved
<1>5. CASE CaptureStep /\ ~SaveSidecar
  <2>1. Quiet
    BY <1>5 DEF CaptureStep, ReadEntry, CheckpointStale, StartRestore, StopFails, TargetReached,
                TargetStale, StopAgainFails, TrackerRestarted, RestartStale
  <2> QED BY <1>1, <2>1
<1>6. CASE RestoreStep
  <2>1. Quiet
    BY <1>6 DEF RestoreStep, PreflightEntry, PreflightStale, PreflightDone, ApplyEntry,
                ApplyRefused, ApplyFails, ApplyDone, RollbackEntry, RollbackFails, RollbackDone,
                At, Past
  <2> QED BY <1>1, <2>1
<1>7. CASE AppendEvent
  BY <1>7, BranchCommitted DEF AppendEvent, TreeKept
<1>8. CASE AppendFails
  <2>1. Commits("append") /\ ~BelongsElsewhere /\ UNCHANGED branch /\ TreeKept
    BY <1>8, ErrorKeeps DEF AppendFails
  <2>2. Logs \/ UNCHANGED <<journal, told>>
    BY <1>8 DEF AppendFails
  <2> QED BY <2>1, <2>2, BranchCommitted, BranchQuiet
<1>9. CASE CommitRefused \/ ManifestFails \/ RefreshFails
  <2>1. UNCHANGED <<journal, told, branch>> /\ TreeKept
    BY <1>9, ErrorKeeps DEF CommitRefused, ManifestFails, RefreshFails
  <2> QED BY <2>1, BranchQuiet
<1>10. CASE UpdateManifest \/ Refresh
  <2>1. Quiet
    BY <1>10 DEF UpdateManifest, Refresh
  <2> QED BY <1>1, <2>1
<1>11. CASE SessionStep
  <2>1. Quiet
    BY <1>11 DEF SessionStep, CloseSession, DieAnywhere, GoesDown, OpenSession, StartupRestored,
                 StartupStale
  <2> QED BY <1>1, <2>1
<1>12. CASE UNCHANGED rewindVars
  BY <1>1, <1>12 DEF rewindVars
<1> HIDE DEF Quiet
<1> QED
  BY <1>2, <1>3, <1>4, <1>5, <1>6, <1>7, <1>8, <1>9, <1>10, <1>11, <1>12
     DEF RewindNext, CommitStep

\* However often a session is rewound, and whatever fails or crashes, each of
\* its branches replays the turns its checkpoint was taken after and then its
\* own, and none that came after the checkpoint or belong to another branch.
THEOREM BranchesReplay == RewindSpec => []BranchReplays
<1>1. RewindInit => BranchInv
  <2> SUFFICES ASSUME RewindInit PROVE BranchInv
    OBVIOUS
  <2>1. journal = <<>> /\ sidecar = <<>> /\ branch = RootBranch
        /\ told = [b \in 0 .. MaxRecords |-> {}] /\ MaxRecords \in Nat
    BY RewindAssumption DEF RewindInit, RewindConfig
  <2>2. TurnsIn(<<>>, RootBranch) = {}
    BY DEF TurnsIn, VisibleIn
  <2> QED BY <2>1, <2>2 DEF BranchInv, Tree, RootBranch, RewoundIn
<1>2. TypeInv /\ StartupInv /\ BranchInv /\ [RewindNext]_rewindVars => BranchInv'
  BY BranchKept
<1>3. TypeInv /\ BranchInv => BranchReplays
  <2> SUFFICES ASSUME TypeInv, BranchInv,
                      NEW b \in {RootBranch} \cup {e \in DOMAIN journal : IsRewound(e)}
               PROVE  {e \in Visible(b) : journal[e].kind = "turn"} = told[b]
    BY DEF BranchReplays
  <2>1. b \in 0 .. Len(journal) /\ (b = RootBranch \/ RewoundIn(journal, b))
    BY InJournal, RecordFacts DEF TypeInv, RootBranch
  <2>2. told[b] = TurnsIn(journal, b)
    BY <2>1 DEF BranchInv
  <2> QED BY <2>2, InJournal DEF TurnsIn
<1> QED BY <1>1, <1>2, <1>3, StartupInvariant, PTL DEF RewindSpec
===============================================================================
