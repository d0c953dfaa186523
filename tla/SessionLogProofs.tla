--------------------------- MODULE SessionLogProofs ---------------------------
(***************************************************************************)
(* Both files of the journal keep what was acknowledged, and the records   *)
(* tell a sound story: contiguous, none ahead of the outbox, nothing       *)
(* behind an operation in doubt and a recovery event for what a crash      *)
(* left.  For every number of operations, crashes, power failures, failed  *)
(* appends and errors.                                                     *)
(***************************************************************************)
EXTENDS SessionLog, FiniteSetTheorems, TLAPS

-----------------------------------------------------------------------------
(* Sequences whose elements are left open. *)

IsSeq(s) == \E S : s \in Seq(S)

\* One more element, the others as they were.
LEMMA AppendFact ==
    ASSUME NEW s, NEW e, IsSeq(s)
    PROVE  /\ IsSeq(Append(s, e))
           /\ Len(Append(s, e)) = Len(s) + 1
           /\ SubSeq(Append(s, e), 1, Len(s)) = s
<1>1. PICK S : s \in Seq(S)
  BY DEF IsSeq
<1> DEFINE T == S \union {e}
<1>2. s \in Seq(T)
  BY <1>1
<1>3. Append(s, e) \in Seq(T) /\ Len(Append(s, e)) = Len(s) + 1
  BY <1>2
<1>4. SubSeq(Append(s, e), 1, Len(s)) = s
  BY <1>2
<1> QED
  BY <1>3, <1>4 DEF IsSeq

\* A prefix is a sequence of the length asked for.
LEMMA PrefixFact ==
    ASSUME NEW s, IsSeq(s), NEW n \in 0..Len(s)
    PROVE  IsSeq(SubSeq(s, 1, n)) /\ Len(SubSeq(s, 1, n)) = n
<1>1. PICK S : s \in Seq(S)
  BY DEF IsSeq
<1>2. SubSeq(s, 1, n) \in Seq(S) /\ Len(SubSeq(s, 1, n)) = n
  BY <1>1
<1> QED
  BY <1>2 DEF IsSeq

\* The length of a sequence is a natural number.
LEMMA LengthFact ==
    ASSUME NEW s, IsSeq(s)
    PROVE  Len(s) \in Nat /\ SubSeq(s, 1, Len(s)) = s /\ s \o <<>> = s
<1>1. PICK S : s \in Seq(S)
  BY DEF IsSeq
<1> QED
  BY <1>1

-----------------------------------------------------------------------------
(* The invariant. *)

\* A file: complete lines and at most one unterminated one; what was
\* acknowledged was synced, and what was synced is there.
FileInv(f) ==
    /\ IsSeq(file[f].lines)
    /\ file[f] = [lines |-> file[f].lines, tail |-> file[f].tail]
    /\ file[f].tail = <<>> \/ \E t : file[f].tail = <<t>>
    /\ acked[f] \in Nat /\ synced[f] \in Nat
    /\ acked[f] <= synced[f] /\ synced[f] <= Len(file[f].lines)

\* A file that the command at hand has written is synced to its last line and
\* is not written again.
JobInv ==
    /\ job.todo \in {<<>>, <<"records">>, <<"outbox", "records">>}
    /\ job.wrote \subseteq Files
    /\ \A f \in job.wrote : synced[f] = Len(file[f].lines)
    /\ "records" \in job.wrote => job.todo = <<>>
    /\ "outbox" \in job.wrote => job.todo # <<"outbox", "records">>

DurableInv ==
    /\ file = [f \in Files |-> file[f]]
    /\ synced = [f \in Files |-> synced[f]]
    /\ acked = [f \in Files |-> acked[f]]
    /\ \A f \in Files : FileInv(f)
    /\ DOMAIN job = {"command", "op", "todo", "records", "outbox", "through", "wrote"}
    /\ job = [x \in DOMAIN job |-> job[x]]
    /\ JobInv

\* What DurableLog allows, for a file f.
FileStep(f) ==
    \/ /\ Len(file'[f].lines) = Len(file[f].lines) + 1
       /\ SubSeq(file'[f].lines, 1, Len(file[f].lines)) = file[f].lines
       /\ acked'[f] = acked[f]
    \/ /\ acked'[f] \in acked[f]..Len(file[f].lines)
       /\ file'[f].lines = file[f].lines
    \/ /\ \E n \in acked[f]..Len(file[f].lines) :
             file'[f].lines = SubSeq(file[f].lines, 1, n)
       /\ acked'[f] = acked[f]

Good == DurableInv' /\ \A f \in Files : FileStep(f)

\* A step that leaves the files alone.
LEMMA FilesAlone ==
    ASSUME DurableInv, UNCHANGED <<file, acked>>
    PROVE  \A f \in Files : FileStep(f)
<1> TAKE f \in Files
<1>1. Len(file[f].lines) \in Nat /\ acked[f] \in Nat /\ acked[f] <= Len(file[f].lines)
  BY LengthFact DEF DurableInv, FileInv
<1> QED
  BY <1>1 DEF FileStep

\* append_frames writes one frame: the file grows by a line.
LEMMA WriteFrameGood ==
    ASSUME DurableInv, NEW f \in Files, WriteFrame(f)
    PROVE  Good
<1>1. f \notin job.wrote
  BY DEF DurableInv, JobInv, WriteFrame, Writing, Files
<1>2. PICK e : file' = [file EXCEPT ![f] = [lines |-> Append(file[f].lines, e), tail |-> <<>>]]
  BY DEF WriteFrame, AppendFrame
<1>3. \A g \in Files : file'[g] = IF g = f THEN [lines |-> Append(file[f].lines, e), tail |-> <<>>]
                                  ELSE file[g]
  BY <1>2 DEF DurableInv
<1>4. /\ IsSeq(file'[f].lines) /\ Len(file'[f].lines) = Len(file[f].lines) + 1
      /\ SubSeq(file'[f].lines, 1, Len(file[f].lines)) = file[f].lines
  <2>1. IsSeq(file[f].lines)
    BY DEF DurableInv, FileInv
  <2>2. file'[f].lines = Append(file[f].lines, e)
    BY <1>3
  <2> QED
    BY <2>1, <2>2, AppendFact
<1>5. \A g \in Files : Len(file[g].lines) \in Nat
  BY LengthFact DEF DurableInv, FileInv
<1>6. \A g \in Files : FileInv(g)'
  <2> TAKE g \in Files
  <2>1. FileInv(g) /\ acked' = acked /\ synced' = synced
    BY DEF DurableInv, WriteFrame
  <2>2. CASE g = f
    BY <1>3, <1>4, <1>5, <2>1, <2>2 DEF FileInv
  <2>3. CASE g # f
    BY <1>3, <2>1, <2>3 DEF FileInv
  <2> QED
    BY <2>2, <2>3
<1>7. job'.todo = job.todo /\ job'.wrote = job.wrote
      /\ DOMAIN job' = DOMAIN job /\ job' = [x \in DOMAIN job' |-> job'[x]]
  BY DEF DurableInv, WriteFrame, Files
<1>8. JobInv'
  BY <1>1, <1>3, <1>7 DEF DurableInv, JobInv, WriteFrame
<1>9. file' = [g \in Files |-> file'[g]]
  BY <1>2 DEF DurableInv
<1>10. \A g \in Files : FileStep(g)
  BY <1>3, <1>4, <1>5 DEF DurableInv, FileInv, FileStep, WriteFrame
<1> QED
  BY <1>6, <1>7, <1>8, <1>9, <1>10 DEF DurableInv, Good, WriteFrame

\* A step that changes neither the files nor what is known of them, and whose
\* job is a fresh or a finished one.
LEMMA JobChangeGood ==
    ASSUME DurableInv, UNCHANGED <<file, synced, acked>>,
           DOMAIN job' = DOMAIN job, job' = [x \in DOMAIN job' |-> job'[x]], JobInv'
    PROVE  Good
<1>1. \A f \in Files : FileInv(f)'
  BY DEF DurableInv, FileInv
<1> QED
  BY <1>1, FilesAlone DEF DurableInv, Good

\* An idle writer has nothing left to write.
LEMMA NoJobFact ==
    ASSUME DurableInv
    PROVE  DOMAIN NoJob = DOMAIN job /\ NoJob = [x \in DOMAIN NoJob |-> NoJob[x]]
           /\ NoJob.todo = <<>> /\ NoJob.wrote = {}
  BY DEF NoJob, DurableInv

\* The writer thread takes a command.
LEMMA TakeJobGood ==
    ASSUME DurableInv, NEW c, NEW o, NEW r, NEW b, NEW t, TakeJob(c, o, r, b, t)
    PROVE  Good
<1>1. DOMAIN job' = DOMAIN job /\ job' = [x \in DOMAIN job' |-> job'[x]]
      /\ job'.todo \in {<<"records">>, <<"outbox", "records">>} /\ job'.wrote = {}
  BY DEF TakeJob, AppendOrder, DurableInv
<1>2. JobInv'
  BY <1>1 DEF JobInv
<1> QED
  BY <1>1, <1>2, JobChangeGood DEF TakeJob

\* append_frames syncs the file it wrote.
LEMMA SyncFileGood ==
    ASSUME DurableInv, NEW f \in Files, SyncFile(f)
    PROVE  Good
<1>1. \A g \in Files : Len(file[g].lines) \in Nat
  BY LengthFact DEF DurableInv, FileInv
<1>2. \A g \in Files : synced'[g] = IF g = f THEN Len(file[f].lines) ELSE synced[g]
  BY DEF SyncFile, DurableInv
<1>3. synced' = [g \in Files |-> synced'[g]]
  BY DEF SyncFile, DurableInv
<1>4. \A g \in Files : FileInv(g)'
  <2> TAKE g \in Files
  <2>1. FileInv(g) /\ acked' = acked /\ file' = file
    BY DEF DurableInv, SyncFile
  <2> QED
    BY <1>1, <1>2, <2>1 DEF FileInv
<1>5. /\ DOMAIN job' = DOMAIN job /\ job' = [x \in DOMAIN job' |-> job'[x]]
      /\ job'.todo = Tail(job.todo) /\ job'.wrote = job.wrote \union {f}
  BY DEF DurableInv, SyncFile
<1>6. \/ f = "records" /\ job.todo = <<"records">> /\ job'.todo = <<>>
      \/ f = "outbox" /\ job.todo = <<"outbox", "records">> /\ job'.todo = <<"records">>
  <2>1. job.todo \in {<<"records">>, <<"outbox", "records">>} /\ Head(job.todo) = f
    BY DEF DurableInv, JobInv, SyncFile, Writing
  <2>2. CASE job.todo = <<"records">>
    BY <1>5, <2>1, <2>2
  <2>3. CASE job.todo = <<"outbox", "records">>
    <3>1. Head(job.todo) = "outbox" /\ Tail(job.todo) = <<"records">>
      BY <2>3
    <3> QED
      BY <1>5, <2>1, <2>3, <3>1
  <2> QED
    BY <2>1, <2>2, <2>3
<1>7. JobInv'
  <2>1. job'.wrote \subseteq Files
    BY <1>5 DEF DurableInv, JobInv
  <2>2. \A g \in job'.wrote : synced'[g] = Len(file'[g].lines)
    BY <1>2, <1>5, <2>1 DEF DurableInv, JobInv, SyncFile
  <2>3. "records" \in job'.wrote => job'.todo = <<>>
    BY <1>5, <1>6 DEF DurableInv, JobInv
  <2>4. job'.todo \in {<<>>, <<"records">>} /\ job'.todo # <<"outbox", "records">>
    <3>1. <<>> # <<"outbox", "records">> /\ <<"records">> # <<"outbox", "records">>
      OBVIOUS
    <3> QED
      BY <1>6, <3>1
  <2> QED
    BY <2>1, <2>2, <2>3, <2>4 DEF JobInv
<1>8. \A g \in Files : FileStep(g)
  BY FilesAlone DEF SyncFile
<1> QED
  BY <1>3, <1>4, <1>5, <1>7, <1>8 DEF DurableInv, Good, SyncFile

\* A command is acknowledged: every file it wrote was synced by then.
LEMMA ReplyGood ==
    ASSUME DurableInv, Reply
    PROVE  Good
<1>1. /\ acked' = [f \in Files |-> IF f \in job.wrote THEN Len(file[f].lines) ELSE acked[f]]
      /\ UNCHANGED <<file, synced>> /\ job' = NoJob
  BY DEF Reply
<1>2. \A f \in Files : Len(file[f].lines) \in Nat
  BY LengthFact DEF DurableInv, FileInv
<1>3. \A f \in Files : FileInv(f)' /\ acked[f] <= acked'[f] /\ acked'[f] <= Len(file[f].lines)
                       /\ acked'[f] \in Nat /\ acked[f] \in Nat
  <2> TAKE f \in Files
  <2>1. FileInv(f)
    BY DEF DurableInv
  <2>2. f \in job.wrote => synced[f] = Len(file[f].lines)
    BY DEF DurableInv, JobInv
  <2>3. acked'[f] = IF f \in job.wrote THEN Len(file[f].lines) ELSE acked[f]
    BY <1>1
  <2> QED
    BY <1>1, <1>2, <2>1, <2>2, <2>3 DEF FileInv
<1>4. \A f \in Files : FileStep(f)
  BY <1>1, <1>2, <1>3 DEF FileStep
<1>5. JobInv'
  BY <1>1, NoJobFact DEF JobInv
<1>6. acked' = [f \in Files |-> acked'[f]]
  BY <1>1
<1> QED
  BY <1>1, <1>3, <1>4, <1>5, <1>6, NoJobFact DEF DurableInv, Good

\* A command fails after its records are down: nothing is acknowledged.
LEMMA ReplyManifestErrorGood ==
    ASSUME DurableInv, ReplyManifestError
    PROVE  Good
<1>1. job' = NoJob /\ UNCHANGED <<file, synced, acked>>
  BY DEF ReplyManifestError
<1>2. JobInv'
  BY <1>1, NoJobFact DEF JobInv
<1> QED
  BY <1>1, <1>2, NoJobFact, JobChangeGood

\* The lines of a file stay; its tail may become something else.
LEMMA InterruptedGood ==
    ASSUME DurableInv, NEW f \in Files, NEW left \in Interrupted(f),
           file' = [file EXCEPT ![f] = left], job' = NoJob, UNCHANGED <<synced, acked>>
    PROVE  Good
<1>1. FileInv(f)
  BY DEF DurableInv
<1>2. left = [lines |-> file[f].lines, tail |-> left.tail]
      /\ (left.tail = <<>> \/ \E t : left.tail = <<t>>)
  BY <1>1 DEF Interrupted, PartialFrame, FileInv
<1>3. \A g \in Files : file'[g] = IF g = f THEN left ELSE file[g]
  BY DEF DurableInv
<1>4. \A g \in Files : FileInv(g)' /\ file'[g].lines = file[g].lines
  <2> TAKE g \in Files
  <2>1. FileInv(g)
    BY DEF DurableInv
  <2>2. CASE g = f
    BY <1>2, <1>3, <2>1, <2>2 DEF FileInv
  <2>3. CASE g # f
    BY <1>3, <2>1, <2>3 DEF FileInv
  <2> QED
    BY <2>2, <2>3
<1>5. \A g \in Files : FileStep(g)
  <2> TAKE g \in Files
  <2>1. Len(file[g].lines) \in Nat /\ acked[g] \in Nat /\ acked[g] <= Len(file[g].lines)
    BY LengthFact DEF DurableInv, FileInv
  <2> QED
    BY <1>4, <2>1 DEF FileStep
<1>6. JobInv'
  BY NoJobFact DEF JobInv
<1>7. file' = [g \in Files |-> file'[g]]
  BY DEF DurableInv
<1> QED
  BY <1>4, <1>5, <1>6, <1>7, NoJobFact DEF DurableInv, Good

\* repair_unterminated_tail keeps the complete lines.
LEMMA RepairGood ==
    ASSUME DurableInv, NEW f \in Files, Repair(f)
    PROVE  Good
<1>1. FileInv(f) /\ UNCHANGED <<acked, job>>
  BY DEF DurableInv, Repair
<1>2. Len(file[f].lines) \in Nat /\ file[f].lines \o <<>> = file[f].lines
  BY <1>1, LengthFact DEF FileInv
<1>3. \A g \in Files : file'[g] = IF g = f THEN RepairTail(file[f]) ELSE file[g]
  BY DEF Repair, DurableInv
<1>4. /\ file'[f] = [lines |-> file'[f].lines, tail |-> <<>>]
      /\ IsSeq(file'[f].lines)
      /\ \/ file'[f].lines = file[f].lines
         \/ /\ file[f].tail # <<>>
            /\ Len(file'[f].lines) = Len(file[f].lines) + 1
            /\ SubSeq(file'[f].lines, 1, Len(file[f].lines)) = file[f].lines
  <2>1. CASE file[f].tail = <<>>
    BY <1>1, <1>2, <1>3, <2>1 DEF RepairTail, FileInv
  <2>2. CASE file[f].tail # <<>> /\ ~Decodes(Head(file[f].tail))
    BY <1>1, <1>3, <2>2 DEF RepairTail, FileInv
  <2>3. CASE file[f].tail # <<>> /\ Decodes(Head(file[f].tail))
    <3>1. PICK t : file[f].tail = <<t>>
      BY <1>1, <2>3 DEF FileInv
    <3>2. file'[f] = [lines |-> file[f].lines \o <<t>>, tail |-> <<>>]
      BY <1>3, <2>3, <3>1 DEF RepairTail
    <3>3. file[f].lines \o <<t>> = Append(file[f].lines, t)
      <4>1. PICK S : file[f].lines \in Seq(S)
        BY <1>1 DEF FileInv, IsSeq
      <4>2. file[f].lines \in Seq(S \union {t})
        BY <4>1
      <4> QED
        BY <4>2
    <3>4. IsSeq(file[f].lines)
      BY <1>1 DEF FileInv
    <3>5. file'[f].lines = Append(file[f].lines, t)
      BY <3>2, <3>3
    <3>6. /\ IsSeq(file'[f].lines)
          /\ Len(file'[f].lines) = Len(file[f].lines) + 1
          /\ SubSeq(file'[f].lines, 1, Len(file[f].lines)) = file[f].lines
      BY <3>4, <3>5, AppendFact
    <3> QED
      BY <2>3, <3>2, <3>6
  <2> QED
    BY <2>1, <2>2, <2>3
<1>5. Len(file'[f].lines) \in Nat /\ Len(file'[f].lines) >= Len(file[f].lines)
  BY <1>2, <1>4
<1>6. \A g \in Files : synced'[g] = IF g = f /\ file[f].tail # <<>> THEN Len(file'[f].lines)
                                    ELSE synced[g]
  BY DEF Repair, DurableInv
<1>7. synced' = [g \in Files |-> synced'[g]] /\ file' = [g \in Files |-> file'[g]]
  BY DEF Repair, DurableInv
<1>8. \A g \in Files : FileInv(g)'
  <2> TAKE g \in Files
  <2>1. FileInv(g)
    BY DEF DurableInv
  <2>2. CASE g = f
    BY <1>1, <1>2, <1>3, <1>4, <1>5, <1>6, <2>1, <2>2 DEF FileInv
  <2>3. CASE g # f
    BY <1>1, <1>3, <1>6, <2>1, <2>3 DEF FileInv
  <2> QED
    BY <2>2, <2>3
<1>9. \A g \in Files : synced[g] = Len(file[g].lines) => synced'[g] = Len(file'[g].lines)
  BY <1>3, <1>4, <1>6
<1>10. JobInv'
  BY <1>1, <1>9 DEF DurableInv, JobInv
<1>11. \A g \in Files : FileStep(g)
  <2> TAKE g \in Files
  <2>1. Len(file[g].lines) \in Nat /\ acked[g] \in Nat /\ acked[g] <= Len(file[g].lines)
    BY LengthFact DEF DurableInv, FileInv
  <2>2. CASE g = f
    BY <1>1, <1>4, <2>1, <2>2 DEF FileStep
  <2>3. CASE g # f
    BY <1>1, <1>3, <2>1, <2>3 DEF FileStep
  <2> QED
    BY <2>2, <2>3
<1> QED
  BY <1>1, <1>7, <1>8, <1>10, <1>11 DEF DurableInv, Good

\* What a power failure leaves of a file has the synced lines.
LEMMA SurvivorFact ==
    ASSUME DurableInv, NEW f \in Files, NEW left \in Survivors(f)
    PROVE  /\ \E n \in synced[f]..Len(file[f].lines) : left.lines = SubSeq(file[f].lines, 1, n)
           /\ left = [lines |-> left.lines, tail |-> left.tail]
           /\ left.tail = <<>> \/ \E t : left.tail = <<t>>
<1>1. FileInv(f)
  BY DEF DurableInv
<1>2. Len(file[f].lines) \in Nat /\ SubSeq(file[f].lines, 1, Len(file[f].lines)) = file[f].lines
  BY <1>1, LengthFact DEF FileInv
<1>3. CASE \E n \in synced[f]..Len(file[f].lines) :
              left = [lines |-> SubSeq(file[f].lines, 1, n), tail |-> <<>>]
  BY <1>3
<1>4. CASE \E n \in synced[f]..(Len(file[f].lines) - 1) : \E t :
              left = [lines |-> SubSeq(file[f].lines, 1, n), tail |-> <<t>>]
  <2>1. PICK n \in synced[f]..(Len(file[f].lines) - 1) : \E t :
               left = [lines |-> SubSeq(file[f].lines, 1, n), tail |-> <<t>>]
    BY <1>4
  <2>2. n \in synced[f]..Len(file[f].lines)
    BY <1>1, <1>2 DEF FileInv
  <2> QED
    BY <2>1, <2>2
<1>5. CASE left = file[f] \/ left = [file[f] EXCEPT !.tail = <<Torn>>]
  <2>1. left.lines = SubSeq(file[f].lines, 1, Len(file[f].lines))
        /\ left = [lines |-> left.lines, tail |-> left.tail]
        /\ (left.tail = <<>> \/ \E t : left.tail = <<t>>)
    BY <1>1, <1>2, <1>5 DEF FileInv
  <2>2. Len(file[f].lines) \in synced[f]..Len(file[f].lines)
    BY <1>1, <1>2 DEF FileInv
  <2> QED
    BY <2>1, <2>2
<1> QED
  BY <1>3, <1>4, <1>5 DEF Survivors

\* A power failure takes only lines that were not synced.
LEMMA LosePowerGood ==
    ASSUME DurableInv, LosePower
    PROVE  Good
<1>1. PICK r \in Survivors("records"), b \in Survivors("outbox") :
             file' = [records |-> r, outbox |-> b]
  BY DEF LosePower
<1>2. \A f \in Files : file'[f] \in Survivors(f)
  BY <1>1 DEF Files
<1>3. file' = [f \in Files |-> file'[f]]
  BY <1>1 DEF Files
<1>4. /\ UNCHANGED <<acked, job>>
      /\ synced' = [f \in Files |-> synced'[f]]
      /\ \A f \in Files : synced'[f] = Len(file'[f].lines)
  BY DEF LosePower
<1>5. \A f \in Files : FileInv(f)' /\ FileStep(f)
  <2> TAKE f \in Files
  <2>1. FileInv(f)
    BY DEF DurableInv
  <2>2. PICK n \in synced[f]..Len(file[f].lines) : file'[f].lines = SubSeq(file[f].lines, 1, n)
    BY <1>2, SurvivorFact
  <2>3. Len(file[f].lines) \in Nat
    BY <2>1, LengthFact DEF FileInv
  <2>4. n \in 0..Len(file[f].lines) /\ n \in acked[f]..Len(file[f].lines)
    BY <2>1, <2>3 DEF FileInv
  <2>5. IsSeq(file'[f].lines) /\ Len(file'[f].lines) = n
    <3>1. IsSeq(file[f].lines)
      BY <2>1 DEF FileInv
    <3> QED
      BY <2>2, <2>4, <3>1, PrefixFact
  <2>6. /\ file'[f] = [lines |-> file'[f].lines, tail |-> file'[f].tail]
        /\ file'[f].tail = <<>> \/ \E t : file'[f].tail = <<t>>
    BY <1>2, SurvivorFact
  <2>7. FileInv(f)'
    BY <1>4, <2>1, <2>3, <2>4, <2>5, <2>6 DEF FileInv
  <2>8. FileStep(f)
    BY <1>4, <2>2, <2>4 DEF FileStep
  <2> QED
    BY <2>7, <2>8
<1>6. JobInv'
  BY <1>4 DEF DurableInv, JobInv
<1> QED
  BY <1>3, <1>4, <1>5, <1>6 DEF DurableInv, Good

\* The process ends: at most the tail of the file being written changes.
LEMMA DieGood ==
    ASSUME DurableInv, Die
    PROVE  Good
<1>1. job' = NoJob /\ UNCHANGED <<synced, acked>>
  BY DEF Die
<1>2. CASE job.todo = <<>>
  <2>1. file' = file
    BY <1>2 DEF Die
  <2>2. JobInv'
    BY <1>1, NoJobFact DEF JobInv
  <2> QED
    BY <1>1, <2>1, <2>2, NoJobFact, JobChangeGood
<1>3. CASE job.todo # <<>>
  <2>1. Head(job.todo) \in Files
    BY <1>3 DEF DurableInv, JobInv, Files
  <2>2. PICK left \in Interrupted(Head(job.todo)) : file' = [file EXCEPT ![Head(job.todo)] = left]
    BY <1>3 DEF Die
  <2> QED
    BY <1>1, <2>1, <2>2, InterruptedGood
<1> QED
  BY <1>2, <1>3

\* A step in which the journal does nothing with its files or its job.
LEMMA NoJournalGood ==
    ASSUME DurableInv, UNCHANGED <<file, synced, acked, job>>
    PROVE  Good
<1>1. JobInv' /\ \A f \in Files : FileInv(f)'
  BY DEF DurableInv, JobInv, FileInv
<1> QED
  BY <1>1, FilesAlone DEF DurableInv, Good

\* Every step of the session keeps the invariant and is a step that both
\* abstract logs allow.
LEMMA NextGood ==
    ASSUME DurableInv, Next
    PROVE  Good
<1>1. CASE \E b \in BOOLEAN : Open(b)
  BY <1>1, NoJournalGood DEF Open, journalVars
<1>2. CASE RepairRecords \/ RepairOutbox
  BY <1>2, RepairGood DEF RepairRecords, RepairOutbox, Files
<1>3. CASE ScanLogs \/ ScanRefused \/ Close
  BY <1>3, NoJournalGood DEF ScanLogs, ScanRefused, Close, GrantLease, DropLease
<1>4. CASE StartupRecovery
  <2>1. CASE UNCHANGED journalVars
    BY <2>1, NoJournalGood DEF journalVars
  <2>2. CASE \E c, o, r, b, t : TakeJob(c, o, r, b, t)
    BY <2>2, TakeJobGood
  <2> QED
    BY <1>4, <2>1, <2>2 DEF StartupRecovery
<1>5. CASE Begin \/ Abandon \/ DropSession \/ SkipTerminal
  BY <1>5, NoJournalGood DEF Begin, Abandon, DropSession, SkipTerminal, journalVars
<1>6. ASSUME NEW c, NEW o, NEW kinds, NEW n, NEW b, Submit(c, o, kinds, n, b)
      PROVE  Good
  BY <1>6, TakeJobGood DEF Submit
<1>7. CASE Checkpoint \/ AppendBeside \/ PersistTerminal
  BY <1>6, <1>7 DEF Checkpoint, AppendBeside, PersistTerminal
<1>8. CASE \E k \in 0..MaxMessages, end \in Ends : Finalize(k, end)
  BY <1>6, <1>8 DEF Finalize
<1>9. CASE \E end \in Ends : CommitName(end)
  BY <1>6, <1>9 DEF CommitName
<1>10. CASE \E o \in Roots : ResolveRecovery(o)
  BY <1>6, <1>10 DEF ResolveRecovery
<1>11. CASE \E o \in Roots, kind \in PendingKinds : RetryRecovery(o, kind)
  BY <1>6, <1>11 DEF RetryRecovery
<1>12. CASE Write
  BY <1>12, WriteFrameGood DEF Write
<1>13. CASE Sync
  BY <1>13, SyncFileGood DEF Sync
<1>14. CASE Answer
  BY <1>14, ReplyGood DEF Answer
<1>15. CASE AppendError
  BY <1>15, InterruptedGood DEF AppendError, AppendFails
<1>16. CASE ManifestError
  BY <1>16, ReplyManifestErrorGood DEF ManifestError
<1>17. CASE Crash
  BY <1>17, DieGood DEF Crash
<1>18. CASE PowerFailure
  BY <1>18, LosePowerGood DEF PowerFailure
<1> QED
  BY <1>1, <1>2, <1>3, <1>4, <1>5, <1>7, <1>8, <1>9, <1>10, <1>11, <1>12, <1>13,
     <1>14, <1>15, <1>16, <1>17, <1>18 DEF Next

\* The files of a fresh session satisfy the invariant.
LEMMA InitDurable == Init => DurableInv
<1> SUFFICES ASSUME Init PROVE DurableInv
  OBVIOUS
<1>1. file["records"] = CreatedLog /\ file["outbox"] = EmptyLog /\ DOMAIN file = Files
      /\ file = [f \in Files |-> file[f]]
  BY DEF Init, Files
<1>2. IsSeq(CreatedLog.lines) /\ Len(CreatedLog.lines) = 1
  <2>1. CreatedLog.lines \in Seq({Entry("created", 0, 0, 1)})
    BY DEF CreatedLog
  <2> QED
    BY <2>1 DEF CreatedLog, IsSeq
<1>3. IsSeq(EmptyLog.lines) /\ Len(EmptyLog.lines) = 0
  <2>1. EmptyLog.lines \in Seq({})
    BY DEF EmptyLog
  <2> QED
    BY <2>1 DEF EmptyLog, IsSeq
<1>4. synced = [f \in Files |-> Len(file[f].lines)] /\ acked = synced /\ job = NoJob
  BY DEF Init
<1>5. \A f \in Files : FileInv(f)
  BY <1>1, <1>2, <1>3, <1>4 DEF FileInv, Files, CreatedLog, EmptyLog
<1>6. JobInv
  BY <1>4 DEF JobInv, NoJob
<1> QED
  BY <1>1, <1>4, <1>5, <1>6 DEF DurableInv, NoJob

\* The invariant holds whatever happens to the process and the machine.
THEOREM Durability == Spec => []DurableInv
<1>1. DurableInv /\ [Next]_vars => DurableInv'
  <2> SUFFICES ASSUME DurableInv, [Next]_vars PROVE DurableInv'
    OBVIOUS
  <2>1. CASE Next
    BY <2>1, NextGood DEF Good
  <2>2. CASE UNCHANGED vars
    BY <2>2, NoJournalGood DEF vars, journalVars, Good
  <2> QED
    BY <2>1, <2>2
<1> QED
  BY <1>1, InitDurable, PTL DEF Spec

\* What the journal acknowledged stays in both of its files, through repairs,
\* failed appends, crashes and power failures.
THEOREM AcknowledgedKept == Spec => AckedKept
<1>1. Init => RecordsLog!Init /\ OutboxLog!Init
  <2>1. Init => /\ synced = [f \in Files |-> Len(file[f].lines)] /\ acked = synced
    BY DEF Init
  <2> QED
    BY <2>1 DEF RecordsLog!Init, OutboxLog!Init, Files
<1>2. DurableInv /\ [Next]_vars =>
         /\ [RecordsLog!Next]_<<file["records"].lines, acked["records"]>>
         /\ [OutboxLog!Next]_<<file["outbox"].lines, acked["outbox"]>>
  <2> SUFFICES ASSUME DurableInv, [Next]_vars
               PROVE  /\ [RecordsLog!Next]_<<file["records"].lines, acked["records"]>>
                      /\ [OutboxLog!Next]_<<file["outbox"].lines, acked["outbox"]>>
    OBVIOUS
  <2>1. CASE Next
    <3>1. FileStep("records") /\ FileStep("outbox")
      BY <2>1, NextGood DEF Good, Files
    <3> QED
      BY <3>1 DEF FileStep, RecordsLog!Next, RecordsLog!Extend, RecordsLog!Commit, RecordsLog!Lose,
                  OutboxLog!Next, OutboxLog!Extend, OutboxLog!Commit, OutboxLog!Lose
  <2>2. CASE UNCHANGED vars
    BY <2>2 DEF vars, journalVars
  <2> QED
    BY <2>1, <2>2
<1> QED
  BY <1>1, <1>2, Durability, PTL DEF Spec, AckedKept, RecordsLog!Spec, OutboxLog!Spec

-----------------------------------------------------------------------------
(* What the story of a session rests on, while no append has begun after a *)
(* failed one.                                                             *)

RecLines == file["records"].lines
OutLines == file["outbox"].lines

\* Among the first n records every operation before q that has started has
\* ended.
Below(q, n) ==
    \A k \in 1..n :
        RecLines[k].op \in Roots /\ RecLines[k].op < q /\ RecLines[k].kind = "started" =>
            \E m \in 1..n : RecLines[m].op = RecLines[k].op /\ RecLines[m].kind \in Ends

\* Record e fits behind the first n: the operations before its own are settled
\* there, and it starts one only if none of them is later.
FitsAt(e, n) ==
    e.op \in Roots =>
        /\ e.op <= ops /\ Below(e.op, n)
        /\ e.kind = "started" =>
              \A k \in 1..n : RecLines[k].op \in Roots => RecLines[k].op <= e.op

Answers(o, e) == o.kind \in Obligations(e) /\ o.op = e.op /\ o.n = e.n /\ o.seq >= e.seq
Met(e) == Obligations(e) = {} \/ \E j \in 1..synced["outbox"] : Answers(OutLines[j], e)
GoodAt(e, n) == e.seq = n + 1 /\ Met(e) /\ FitsAt(e, n)

\* Every record is good where it is; so is the last one without its newline,
\* unless it is torn.
RecordsGood ==
    /\ \A i \in DOMAIN RecLines : GoodAt(RecLines[i], i - 1)
    /\ file["records"].tail # <<>> =>
          \/ ~Decodes(Head(file["records"].tail))
          \/ GoodAt(Head(file["records"].tail), Len(RecLines))

\* The operation in flight, the command of the writer and the phase.
Live == phase \in {"startup", "open", "closing"}
ControlInv ==
    /\ next_sequence \in Nat /\ job.through + 1 \in Nat
    /\ ops \in 0..MaxOps /\ op \in {0, ops} /\ overrun \in BOOLEAN /\ failed \in BOOLEAN
    /\ op # 0 => phase = "open" /\ op \in mine
    /\ stage # "idle" => op # 0
    /\ job.command \in {"checkpoint", "finalize", "terminal"} => job.op # 0
    /\ job.command = "startup" => phase = "startup"
    /\ phase = "startup" => ~failed /\ (job = NoJob \/ job.command = "startup")
    /\ ~Live => job = NoJob /\ ~failed
    /\ IsSeq(job.records) /\ IsSeq(job.outbox)

\* A record of the command at hand: what holds of the operation it is about.
JobFrame(e) ==
    e.op \in Roots =>
        /\ e.op <= ops /\ Below(e.op, Len(RecLines))
        /\ e.kind = "started" => e.op = ops /\ e.op = job.op /\ e.op \in mine
                                 /\ (op = e.op \/ phase = "closing")

\* Its obligation is in the outbox, or will be when the outbox is synced.
Promised(e) ==
    \/ Met(e)
    \/ /\ job.todo = <<"outbox", "records">>
       /\ \/ \E i \in DOMAIN job.outbox : Answers(job.outbox[i], e)
          \/ \E j \in DOMAIN OutLines : Answers(OutLines[j], e)

Fresh == Live /\ ~failed
TailsGone ==
    /\ phase \in {"outbox", "scan"} \/ Fresh => file["records"].tail = <<>>
    /\ phase = "scan" \/ Fresh => file["outbox"].tail = <<>>
NumbersFit == Fresh /\ job.todo = <<>> => next_sequence = Len(RecLines) + 1
JobFits ==
    /\ job.todo = <<>> => job.records = <<>>
    /\ job.todo # <<>> =>
          /\ job.through = Len(RecLines) + Len(job.records)
          /\ \A i \in DOMAIN job.records :
                /\ job.records[i].seq = Len(RecLines) + i
                /\ JobFrame(job.records[i]) /\ Promised(job.records[i])
OpFits == op # 0 /\ ~failed => Below(op, Len(RecLines))
MarksFit ==
    /\ phase = "open" =>
          \A o \in InDoubt(RecLines) : o \in mine \/ Has(RecLines, o, PendingKinds)
    /\ phase = "startup" /\ job # NoJob =>
          \A o \in InDoubt(RecLines) :
              \/ Has(RecLines, o, PendingKinds)
              \/ \E i \in DOMAIN job.records :
                    job.records[i].op = o /\ job.records[i].kind \in PendingKinds
LeaseInv ==
    /\ failed => job = NoJob
    /\ TailsGone /\ NumbersFit /\ JobFits /\ OpFits /\ MarksFit

SessionInv == DurableInv /\ ControlInv /\ (~overrun => RecordsGood /\ LeaseInv)

-----------------------------------------------------------------------------
(* Records, one by one. *)

\* Which events oblige the session to publish something, and to what.
LEMMA ObligationFacts ==
    ASSUME NEW e
    PROVE  /\ e.kind \in {"started", "input", "message", "beside"} => Obligations(e) = {}
           /\ e.kind \in Ends /\ e.op = NamingOp => Obligations(e) = {}
           /\ e.kind \in Ends /\ e.op # NamingOp => Obligations(e) = {"session_write"}
           /\ e.kind \in {"resolved", "settled"} => Obligations(e) = {"resolution"}
           /\ e.kind = "terminal" => Obligations(e) = {"operation_terminal", "resolution"}
           /\ e.kind \in PendingKinds => Obligations(e) = {"recovery"}
  BY DEF Obligations, Ends, PendingKinds

\* A sequence has an element for every number up to its length.
LEMMA DomainFact ==
    ASSUME NEW s, IsSeq(s) PROVE DOMAIN s = 1..Len(s) /\ Len(s) \in Nat
  BY DEF IsSeq

\* The elements of a sequence with one more.
LEMMA AppendAt ==
    ASSUME NEW s, NEW e, IsSeq(s)
    PROVE  /\ DOMAIN Append(s, e) = 1..(Len(s) + 1)
           /\ \A i \in 1..Len(s) : Append(s, e)[i] = s[i]
           /\ Append(s, e)[Len(s) + 1] = e
<1>1. PICK S : s \in Seq(S)
  BY DEF IsSeq
<1>2. s \in Seq(S \union {e}) /\ e \in S \union {e}
  BY <1>1
<1> HIDE DEF IsSeq
<1> QED
  BY <1>2

LEMMA PrefixAt ==
    ASSUME NEW s, IsSeq(s), NEW n \in 0..Len(s)
    PROVE  DOMAIN SubSeq(s, 1, n) = 1..n /\ \A i \in 1..n : SubSeq(s, 1, n)[i] = s[i]
<1>1. PICK S : s \in Seq(S)
  BY DEF IsSeq
<1> QED
  BY <1>1

LEMMA TailAt ==
    ASSUME NEW s, IsSeq(s), s # <<>>
    PROVE  /\ Len(s) \in Nat \ {0} /\ Head(s) = s[1] /\ IsSeq(Tail(s))
           /\ Len(Tail(s)) = Len(s) - 1
           /\ DOMAIN Tail(s) = 1..(Len(s) - 1)
           /\ \A i \in 1..(Len(s) - 1) : Tail(s)[i] = s[i + 1]
<1>1. PICK S : s \in Seq(S)
  BY DEF IsSeq
<1>2. Tail(s) \in Seq(S) /\ Len(s) # 0 /\ Len(s) \in Nat
  BY <1>1
<1> QED
  BY <1>1, <1>2 DEF IsSeq

\* What fits behind n records does so as long as they stay.
LEMMA FitsKept ==
    ASSUME NEW e, NEW n \in Nat, FitsAt(e, n), ops \in Nat, ops' \in Nat, ops <= ops',
           \A k \in 1..n : RecLines'[k] = RecLines[k]
    PROVE  FitsAt(e, n)'
<1>1. \A q : Below(q, n) => Below(q, n)'
  BY DEF Below
<1> QED
  BY <1>1 DEF FitsAt, Roots

\* What is met stays met as long as the synced outbox does.
LEMMA MetKept ==
    ASSUME NEW e, Met(e), synced["outbox"] \in Nat, synced'["outbox"] \in Nat,
           synced["outbox"] <= synced'["outbox"],
           \A j \in 1..synced["outbox"] : OutLines'[j] = OutLines[j]
    PROVE  Met(e)'
  BY DEF Met, Answers

\* The lengths of the files.
LEMMA LengthsFact ==
    ASSUME DurableInv
    PROVE  /\ IsSeq(RecLines) /\ IsSeq(OutLines) /\ DOMAIN RecLines = 1..Len(RecLines)
           /\ DOMAIN OutLines = 1..Len(OutLines)
           /\ Len(RecLines) \in Nat /\ Len(OutLines) \in Nat /\ synced["outbox"] \in Nat
           /\ synced["outbox"] <= Len(OutLines)
           /\ synced["records"] \in Nat /\ synced["records"] <= Len(RecLines)
           /\ file = [file EXCEPT !["records"] = file["records"]]
<1>1. FileInv("records") /\ FileInv("outbox")
  BY DEF DurableInv, Files
<1>2. IsSeq(RecLines) /\ IsSeq(OutLines)
  BY <1>1 DEF FileInv, RecLines, OutLines
<1> QED
  BY <1>1, <1>2, DomainFact DEF FileInv, RecLines, OutLines, DurableInv

\* A function on 1..n is a sequence of length n.
LEMMA FunctionSeq ==
    ASSUME NEW n \in Nat, NEW f, f = [i \in 1..n |-> f[i]]
    PROVE  IsSeq(f) /\ Len(f) = n /\ DOMAIN f = 1..n
<1> DEFINE S == {f[i] : i \in 1..n}
<1>1. f \in [1..n -> S]
  OBVIOUS
<1> HIDE DEF S
<1>2. f \in Seq(S) /\ Len(f) = n /\ DOMAIN f = 1..n
  BY <1>1
<1> QED
  BY <1>2 DEF IsSeq

\* Two sequences, one behind the other.
LEMMA ConcatAt ==
    ASSUME NEW s, NEW t, IsSeq(s), IsSeq(t)
    PROVE  /\ IsSeq(s \o t) /\ Len(s \o t) = Len(s) + Len(t)
           /\ \A i \in 1..Len(s \o t) :
                 (s \o t)[i] = IF i <= Len(s) THEN s[i] ELSE t[i - Len(s)]
<1>1. PICK S : s \in Seq(S)
  BY DEF IsSeq
<1>2. PICK T : t \in Seq(T)
  BY DEF IsSeq
<1>3. s \in Seq(S \union T) /\ t \in Seq(S \union T)
  BY <1>1, <1>2
<1>4. s \o t \in Seq(S \union T) /\ Len(s \o t) = Len(s) + Len(t)
  BY <1>3
<1>5. IsSeq(s \o t)
  BY <1>4 DEF IsSeq
<1>6. \A i \in 1..Len(s \o t) : (s \o t)[i] = IF i <= Len(s) THEN s[i] ELSE t[i - Len(s)]
  BY <1>3, <1>4
<1> QED
  BY <1>4, <1>5, <1>6

\* prepare_events_locked numbers the events from the next number on.
LEMMA NumberedFact ==
    ASSUME NEW kinds, IsSeq(kinds), NEW o, NEW n, NEW first
    PROVE  LET s == Numbered(kinds, o, n, first) IN
           /\ IsSeq(s) /\ Len(s) = Len(kinds) /\ DOMAIN s = 1..Len(kinds)
           /\ \A i \in 1..Len(kinds) : s[i] = Entry(kinds[i], o, n, first + i - 1)
<1> DEFINE s == Numbered(kinds, o, n, first)
<1>1. DOMAIN kinds = 1..Len(kinds) /\ Len(kinds) \in Nat
  BY DomainFact
<1>2. s = [i \in 1..Len(kinds) |-> Entry(kinds[i], o, n, first + i - 1)]
  BY <1>1 DEF Numbered
<1> HIDE DEF s
<1>3. s = [i \in 1..Len(kinds) |-> s[i]]
  BY <1>2
<1>4. IsSeq(s) /\ Len(s) = Len(kinds) /\ DOMAIN s = 1..Len(kinds)
  BY <1>1, <1>3, FunctionSeq
<1> QED
  BY <1>2, <1>4 DEF s

\* What the writer thread takes when a command is submitted.
LEMMA SubmitFact ==
    ASSUME NEW c, NEW o, NEW kinds, NEW n, NEW outbox, IsSeq(kinds), IsSeq(outbox),
           Submit(c, o, kinds, n, outbox)
    PROVE  LET through == next_sequence + Len(kinds) - 1
               r == Numbered(kinds, o, n, next_sequence)
               b == [i \in DOMAIN outbox |-> Entry(outbox[i], o, n, through)]
           IN  /\ TakeJob(c, o, r, b, through)
               /\ job = NoJob /\ job'.command = c /\ job'.op = o
               /\ job'.todo = AppendOrder(b) /\ job'.wrote = {} /\ job'.through = through
               /\ job'.records = r /\ job'.outbox = b
               /\ IsSeq(r) /\ Len(r) = Len(kinds) /\ DOMAIN r = 1..Len(kinds)
               /\ \A i \in 1..Len(kinds) :
                     r[i] = Entry(kinds[i], o, n, next_sequence + i - 1)
               /\ IsSeq(b) /\ Len(b) = Len(outbox) /\ DOMAIN b = 1..Len(outbox)
<1> DEFINE through == next_sequence + Len(kinds) - 1
           r == Numbered(kinds, o, n, next_sequence)
           b == [i \in DOMAIN outbox |-> Entry(outbox[i], o, n, through)]
<1>1. TakeJob(c, o, r, b, through)
  BY DEF Submit
<1>2. IsSeq(r) /\ Len(r) = Len(kinds) /\ DOMAIN r = 1..Len(kinds)
      /\ \A i \in 1..Len(kinds) : r[i] = Entry(kinds[i], o, n, next_sequence + i - 1)
  BY NumberedFact
<1>3. IsSeq(b) /\ Len(b) = Len(outbox) /\ DOMAIN b = 1..Len(outbox)
  <2>1. DOMAIN outbox = 1..Len(outbox) /\ Len(outbox) \in Nat
    BY DomainFact
  <2>2. b = [i \in 1..Len(outbox) |-> b[i]]
    BY <2>1
  <2> HIDE DEF b
  <2> QED
    BY <2>1, <2>2, FunctionSeq
<1> HIDE DEF r, b, through
<1>4. /\ job = NoJob /\ job'.command = c /\ job'.op = o
      /\ job'.todo = AppendOrder(b) /\ job'.wrote = {} /\ job'.through = through
      /\ job'.records = r /\ job'.outbox = b
  BY <1>1 DEF TakeJob, Idle
<1> QED
  BY <1>1, <1>2, <1>3, <1>4 DEF r, b, through

-----------------------------------------------------------------------------
(* Control. *)

Uncontrolled == <<op, ops, mine, stage, phase, failed, next_sequence>>

\* A command is taken by a service that is open or starting.
LEMMA TakeControl ==
    ASSUME ControlInv, NEW c, NEW o, NEW r, NEW b, NEW t, TakeJob(c, o, r, b, t), IsSeq(r),
       IsSeq(b),
           t + 1 \in Nat, UNCHANGED <<op, ops, mine, stage, phase>>, Live,
           c \in {"checkpoint", "finalize", "terminal"} => o # 0,
           (c = "startup") <=> (phase = "startup")
    PROVE  ControlInv'
<1>1. job'.command = c /\ job'.op = o /\ job'.records = r /\ job'.outbox = b /\ job'.through = t
  BY DEF TakeJob
<1>2. UNCHANGED <<next_sequence, failed>> /\ overrun' = (overrun \/ failed)
  BY DEF TakeJob
<1> QED
  BY <1>1, <1>2 DEF ControlInv, Live

\* The same for the events of an operation.
LEMMA SubmitControl ==
    ASSUME ControlInv, NEW c, NEW o, NEW kinds, NEW n, NEW outbox, IsSeq(kinds), IsSeq(outbox),
           Len(kinds) # 0, Submit(c, o, kinds, n, outbox), c # "startup",
           UNCHANGED <<op, ops, mine, stage, phase>>, phase = "open",
           c \in {"checkpoint", "finalize", "terminal"} => o # 0
    PROVE  ControlInv'
<1> DEFINE through == next_sequence + Len(kinds) - 1
           r == Numbered(kinds, o, n, next_sequence)
           b == [i \in DOMAIN outbox |-> Entry(outbox[i], o, n, through)]
<1>1. TakeJob(c, o, r, b, through) /\ IsSeq(r) /\ IsSeq(b)
  BY SubmitFact
<1>2. through + 1 \in Nat
  <2>1. Len(kinds) \in Nat /\ next_sequence \in Nat
    BY DomainFact DEF ControlInv
  <2> QED
    BY <2>1
<1> HIDE DEF r, b, through
<1> QED
  BY <1>1, <1>2, TakeControl DEF Live

\* The lists of kinds that the commands write.
LEMMA KindsFact ==
    /\ IsSeq(<<"started", "input">>) /\ IsSeq(<<"beside">>) /\ IsSeq(<<"terminal">>)
    /\ IsSeq(<<"resolved", "settled", "terminal">>) /\ IsSeq(<<>>) /\ IsSeq(<<"session_write">>)
    /\ IsSeq(<<"operation_terminal">>) /\ IsSeq(<<"resolution">>) /\ IsSeq(<<"recovery">>)
    /\ \A kind : IsSeq(<<kind>>) /\ IsSeq(<<"started", kind>>)
<1>1. \A a, b, c : IsSeq(<<a>>) /\ IsSeq(<<a, b>>) /\ IsSeq(<<a, b, c>>)
  <2> TAKE a, b, c
  <2>1. <<a>> \in Seq({a, b, c}) /\ <<a, b>> \in Seq({a, b, c}) /\ <<a, b, c>> \in Seq({a, b, c})
    OBVIOUS
  <2> QED
    BY <2>1 DEF IsSeq
<1>2. IsSeq(<<>>)
  <2>1. <<>> \in Seq({})
    OBVIOUS
  <2> QED
    BY <2>1 DEF IsSeq
<1> QED
  BY <1>1, <1>2

\* The events with which an operation ends.
FinalKinds(k, end) ==
    (IF stage = "begun" THEN <<"started">> ELSE <<>>) \o Messages(k) \o <<end>>

LEMMA FinalFact ==
    ASSUME NEW k \in 0..MaxMessages, NEW end \in Ends
    PROVE  /\ IsSeq(FinalKinds(k, end)) /\ Len(FinalKinds(k, end)) # 0
           /\ \A i \in DOMAIN FinalKinds(k, end) :
                 \/ FinalKinds(k, end)[i] = "message"
                 \/ FinalKinds(k, end)[i] = "started" /\ stage = "begun"
                 \/ FinalKinds(k, end)[i] \in Ends
<1> DEFINE a == IF stage = "begun" THEN <<"started">> ELSE <<>>
           m == Messages(k)
           z == <<end>>
<1>1. IsSeq(a) /\ (\A i \in 1..Len(a) : a[i] = "started" /\ stage = "begun")
  <2>1. IsSeq(<<"started">>) /\ IsSeq(<<>>)
    BY KindsFact
  <2>2. CASE stage = "begun"
    BY <2>1, <2>2
  <2>3. CASE stage # "begun"
    BY <2>1, <2>3
  <2> QED
    BY <2>2, <2>3
<1>2. IsSeq(m) /\ Len(m) = k /\ \A i \in 1..Len(m) : m[i] = "message"
  <2>1. k \in Nat /\ m = [i \in 1..k |-> m[i]] /\ \A i \in 1..k : m[i] = "message"
    BY SessionConfigValid DEF Messages, SessionConfig
  <2> HIDE DEF m
  <2> QED
    BY <2>1, FunctionSeq
<1>3. IsSeq(z) /\ Len(z) = 1 /\ z[1] = end
  BY KindsFact
<1> HIDE DEF a, m, z
<1>4. IsSeq(a \o m) /\ Len(a \o m) = Len(a) + Len(m)
      /\ \A i \in 1..Len(a \o m) : (a \o m)[i] = IF i <= Len(a) THEN a[i] ELSE m[i - Len(a)]
  BY <1>1, <1>2, ConcatAt
<1> DEFINE am == a \o m
<1>5. Len(a) \in Nat /\ Len(m) \in Nat /\ Len(am) \in Nat
  BY <1>1, <1>2, <1>4, DomainFact
<1>6. \A i \in 1..Len(am) : am[i] = "message" \/ (am[i] = "started" /\ stage = "begun")
  BY <1>1, <1>2, <1>4, <1>5
<1>7. IsSeq(am)
  BY <1>4
<1> HIDE DEF am
<1>8. IsSeq(am \o z) /\ Len(am \o z) = Len(am) + Len(z)
      /\ \A i \in 1..Len(am \o z) : (am \o z)[i] = IF i <= Len(am) THEN am[i] ELSE z[i - Len(am)]
  BY <1>3, <1>7, ConcatAt
<1>9. FinalKinds(k, end) = am \o z
  BY DEF FinalKinds, am, a, m, z
<1>10. \A i \in 1..Len(am \o z) : ~(i <= Len(am)) => i - Len(am) = 1
  BY <1>3, <1>5, <1>8
<1>11. DOMAIN (am \o z) = 1..Len(am \o z) /\ Len(am \o z) # 0
  BY <1>3, <1>5, <1>8, DomainFact
<1> QED
  BY <1>3, <1>6, <1>8, <1>9, <1>10, <1>11

-----------------------------------------------------------------------------
(* The markers of the startup recovery. *)

\* In a finite set of numbers every rank up to its size is that of one of them.
LEMMA RankFact ==
    ASSUME NEW ids, IsFiniteSet(ids), ids \subseteq Nat
    PROVE  /\ Cardinality(ids) \in Nat
           /\ \A o \in ids : Cardinality({p \in ids : p <= o}) \in 1..Cardinality(ids)
           /\ \A i \in 1..Cardinality(ids) : \E o \in ids : Cardinality({p \in ids : p <= o}) = i
           /\ \A o, q \in ids :
                 Cardinality({p \in ids : p <= o}) = Cardinality({p \in ids : p <= q}) => o = q
<1> DEFINE upto(o) == {p \in ids : p <= o}
           rank == [o \in ids |-> Cardinality(upto(o))]
           n == Cardinality(ids)
<1>1. n \in Nat
  BY FS_CardinalityType
<1>2. \A o \in ids : IsFiniteSet(upto(o)) /\ Cardinality(upto(o)) \in Nat
                     /\ Cardinality(upto(o)) <= n
  <2> TAKE o \in ids
  <2>1. upto(o) \in SUBSET ids
    OBVIOUS
  <2> HIDE DEF upto
  <2> QED
    BY <2>1, FS_Subset, FS_CardinalityType
<1>3. \A o, q \in ids : o < q => Cardinality(upto(o)) < Cardinality(upto(q))
  <2> SUFFICES ASSUME NEW o \in ids, NEW q \in ids, o < q
               PROVE  Cardinality(upto(o)) < Cardinality(upto(q))
    OBVIOUS
  <2>1. upto(o) \in SUBSET upto(q) /\ q \in upto(q) /\ q \notin upto(o)
    <3>1. o \in Nat /\ q \in Nat
      OBVIOUS
    <3>2. \A p \in ids : p <= o => p <= q
      <4> TAKE p \in ids
      <4>1. p \in Nat
        OBVIOUS
      <4> QED
        BY <3>1, <4>1
    <3>3. q <= q /\ ~(q <= o)
      BY <3>1
    <3> QED
      BY <3>2, <3>3
  <2>2. IsFiniteSet(upto(q)) /\ Cardinality(upto(q)) \in Nat /\ Cardinality(upto(o)) \in Nat
    BY <1>2
  <2> HIDE DEF upto
  <2>3. Cardinality(upto(o)) <= Cardinality(upto(q))
        /\ Cardinality(upto(q)) # Cardinality(upto(o))
    BY <2>1, <2>2, FS_Subset
  <2> QED
    BY <2>2, <2>3
<1>4. \A o \in ids : Cardinality(upto(o)) >= 1
  <2> TAKE o \in ids
  <2>1. o \in upto(o)
    OBVIOUS
  <2> HIDE DEF upto
  <2> QED
    BY <1>2, <2>1, FS_EmptySet
<1>5. \A o \in ids : Cardinality(upto(o)) \in 1..n
  <2> HIDE DEF upto, n
  <2> QED
    BY <1>1, <1>2, <1>4
<1>6. \A o, q \in ids : Cardinality(upto(o)) = Cardinality(upto(q)) => o = q
  <2> TAKE o, q \in ids
  <2>1. o \in Nat /\ q \in Nat /\ Cardinality(upto(o)) \in Nat
    BY <1>2
  <2> HIDE DEF upto
  <2> QED
    BY <1>3, <2>1
<1>7. rank \in Injection(ids, 1..n)
  <2> HIDE DEF upto, n
  <2> QED
    BY <1>5, <1>6 DEF Injection, IsInjective
<1>8. IsFiniteSet(1..n) /\ Cardinality(1..n) = n
  <2> HIDE DEF n
  <2> QED
    BY <1>1, FS_Interval
<1>9. rank \in Surjection(ids, 1..n)
  <2> HIDE DEF rank
  <2> QED
    BY <1>7, <1>8, FS_Injection
<1>10. \A i \in 1..n : \E o \in ids : Cardinality(upto(o)) = i
  <2> HIDE DEF upto, n
  <2> QED
    BY <1>9 DEF Surjection
<1> QED
  BY <1>1, <1>5, <1>6, <1>10

\* The markers of finitely many operations: one for each of them.
LEMMA MarkedFact ==
    ASSUME NEW count, IsFiniteSet(DOMAIN count), DOMAIN count \subseteq Nat
    PROVE  LET m == Marked(count) IN
           /\ IsSeq(m) /\ Len(m) = Cardinality(DOMAIN count) /\ Len(m) \in Nat
           /\ \A i \in 1..Len(m) : m[i].op \in DOMAIN count
           /\ \A o \in DOMAIN count : \E i \in 1..Len(m) : m[i].op = o
<1> DEFINE ids == DOMAIN count
           m == Marked(count)
           n == Cardinality(ids)
           upto(o) == {p \in ids : p <= o}
           nth(i) == CHOOSE o \in ids : Cardinality(upto(o)) = i
<1>1. /\ n \in Nat
      /\ \A o \in ids : Cardinality(upto(o)) \in 1..n
      /\ \A i \in 1..n : \E o \in ids : Cardinality(upto(o)) = i
      /\ \A o, q \in ids : Cardinality(upto(o)) = Cardinality(upto(q)) => o = q
  BY RankFact
<1>2. m = [i \in 1..n |-> [op |-> nth(i), n |-> count[nth(i)]]]
  BY DEF Marked
<1> HIDE DEF ids, m, n, upto
<1>3. \A i \in 1..n : nth(i) \in ids /\ Cardinality(upto(nth(i))) = i
  BY <1>1
<1>4. \A o \in ids : nth(Cardinality(upto(o))) = o
  BY <1>1, <1>3
<1> HIDE DEF nth
<1>5. IsSeq(m) /\ Len(m) = n /\ \A i \in 1..n : m[i].op = nth(i)
  <2>1. m = [i \in 1..n |-> m[i]] /\ \A i \in 1..n : m[i].op = nth(i)
    BY <1>2
  <2> QED
    BY <1>1, <2>1, FunctionSeq
<1> QED
  BY <1>1, <1>3, <1>4, <1>5 DEF ids, m, n

\* The markers are about operations that have a line; an operation in doubt
\* gets one unless it has a recovery event.
LEMMA MarkersFact ==
    ASSUME NEW lines, NEW due \in SUBSET ScheduledRetries(lines), NEW markers,
           markers = IF InDoubt(lines) = {} THEN <<>> ELSE StartupMarkers(lines, due)
    PROVE  /\ IsSeq(markers) /\ Len(markers) \in Nat /\ DOMAIN markers = 1..Len(markers)
           /\ markers # <<>> => Len(markers) # 0
           /\ \A i \in 1..Len(markers) :
                 /\ markers[i].op \in 1..NamingOp
                 /\ \E k \in DOMAIN lines : lines[k].op = markers[i].op
           /\ \A o \in InDoubt(lines) :
                 \/ Has(lines, o, PendingKinds)
                 \/ \E i \in 1..Len(markers) : markers[i].op = o
<1> USE SessionConfigValid DEF SessionConfig
<1>1. CASE InDoubt(lines) = {}
  BY <1>1, KindsFact, DomainFact
<1>2. CASE InDoubt(lines) # {}
  <2> DEFINE fresh == {d \in InDoubt(lines) : ~Has(lines, d, PendingKinds)}
             a == [o \in fresh |-> 0]
             b == [o \in due |-> Attempts(lines, o) + 1]
  <2>1. \A o \in InDoubt(lines) : o \in Roots /\ \E k \in DOMAIN lines : lines[k].op = o
    BY DEF InDoubt
  <2>2. \A o \in due : o \in 1..NamingOp /\ \E k \in DOMAIN lines : lines[k].op = o
    BY DEF ScheduledRetries, Has
  <2>3. /\ DOMAIN a = fresh /\ DOMAIN b = due /\ fresh \subseteq Roots /\ due \subseteq 1..NamingOp
        /\ Roots \subseteq 1..NamingOp /\ markers = Marked(a) \o Marked(b)
    BY <1>2, <2>1, <2>2 DEF Roots, NamingOp, StartupMarkers
  <2>4. IsFiniteSet(1..NamingOp) /\ 1..NamingOp \subseteq Nat
    <3>1. 1 \in Int /\ NamingOp \in Int /\ 1..NamingOp \subseteq Nat
      BY DEF NamingOp
    <3>2. IsFiniteSet(1..NamingOp)
      BY <3>1, FS_Interval
    <3> QED
      BY <3>1, <3>2
  <2>5. IsFiniteSet(fresh) /\ IsFiniteSet(due) /\ fresh \subseteq Nat /\ due \subseteq Nat
    <3> HIDE DEF fresh
    <3>1. fresh \in SUBSET (1..NamingOp) /\ due \in SUBSET (1..NamingOp)
      BY <2>3
    <3> QED
      BY <2>4, <3>1, FS_Subset
  <2>6. \A o \in fresh : o \in InDoubt(lines)
    OBVIOUS
  <2>7. \A o \in InDoubt(lines) : Has(lines, o, PendingKinds) \/ o \in fresh
    OBVIOUS
  <2> HIDE DEF a, b, fresh
  <2> DEFINE s == Marked(a)
             t == Marked(b)
  <2>8. /\ IsSeq(s) /\ Len(s) \in Nat /\ \A i \in 1..Len(s) : s[i].op \in fresh
        /\ \A o \in fresh : \E i \in 1..Len(s) : s[i].op = o
    BY <2>3, <2>5, MarkedFact
  <2>9. IsSeq(t) /\ Len(t) \in Nat /\ \A i \in 1..Len(t) : t[i].op \in due
    BY <2>3, <2>5, MarkedFact
  <2>10. markers = s \o t
    BY <2>3
  <2> HIDE DEF s, t
  <2>11. /\ IsSeq(markers) /\ Len(markers) = Len(s) + Len(t)
         /\ \A i \in 1..Len(markers) :
               markers[i] = IF i <= Len(s) THEN s[i] ELSE t[i - Len(s)]
    <3>1. IsSeq(s) /\ IsSeq(t)
      BY <2>8, <2>9
    <3> QED
      BY <2>10, <3>1, ConcatAt
  <2>12. \A i \in 1..Len(markers) : markers[i].op \in fresh \/ markers[i].op \in due
    <3> TAKE i \in 1..Len(markers)
    <3>1. CASE i <= Len(s)
      BY <2>8, <2>9, <2>11, <3>1
    <3>2. CASE ~(i <= Len(s))
      <4>1. i - Len(s) \in 1..Len(t)
        BY <2>8, <2>9, <2>11, <3>2
      <4> QED
        BY <2>9, <2>11, <3>2, <4>1
    <3> QED
      BY <3>1, <3>2
  <2>13. \A o \in fresh : \E i \in 1..Len(markers) : markers[i].op = o
    <3> TAKE o \in fresh
    <3>1. PICK i \in 1..Len(s) : s[i].op = o
      BY <2>8
    <3>2. i \in 1..Len(markers) /\ markers[i] = s[i]
      BY <2>8, <2>9, <2>11, <3>1
    <3> QED
      BY <3>1, <3>2
  <2>14. \A i \in 1..Len(markers) : /\ markers[i].op \in 1..NamingOp
                                    /\ \E k \in DOMAIN lines : lines[k].op = markers[i].op
    BY <2>1, <2>2, <2>3, <2>6, <2>12
  <2>15. DOMAIN markers = 1..Len(markers) /\ Len(markers) \in Nat
    BY <2>11, DomainFact
  <2>16. markers # <<>> => Len(markers) # 0
    <3>1. PICK S : markers \in Seq(S)
      BY <2>11 DEF IsSeq
    <3> QED
      BY <3>1
  <2> QED
    BY <2>7, <2>11, <2>13, <2>14, <2>15, <2>16
<1> QED
  BY <1>1, <1>2

\* The writer at rest has nothing at hand.
LEMMA NoJobAt ==
    /\ NoJob.command = "none" /\ NoJob.op = 0 /\ NoJob.todo = <<>> /\ NoJob.records = <<>>
    /\ NoJob.outbox = <<>> /\ NoJob.through = 0 /\ NoJob.wrote = {}
  BY DEF NoJob

\* The journal is left alone.
LEMMA QuietControl ==
    ASSUME ControlInv, UNCHANGED journalVars,
           ops' \in 0..MaxOps, op' \in {0, ops'}, op' # 0 => phase' = "open" /\ op' \in mine',
           stage' # "idle" => op' # 0,
           phase' = "startup" <=> phase = "startup", Live <=> Live'
    PROVE  ControlInv'
  BY DEF ControlInv, journalVars, Live

\* The writer is done with its command: what it leaves in stage and phase.
LEMMA DoneControl ==
    ASSUME ControlInv, job' = NoJob, UNCHANGED <<next_sequence, overrun, ops, mine>>,
           op' \in {0, op}, stage' # "idle" => op' # 0, failed' \in BOOLEAN,
           phase' = phase \/ (phase = "startup" /\ phase' \in {"open", "closing"})
                   \/ phase' = "closing",
           op' # 0 => phase' = "open", phase' = "startup" => ~failed', Live, Live'
    PROVE  ControlInv'
<1>1. IsSeq(<<>>)
  BY KindsFact
<1> QED
  BY <1>1, NoJobAt DEF ControlInv, Live

LEMMA ControlStep ==
    ASSUME DurableInv, ControlInv, Next PROVE ControlInv'
<1> USE SessionConfigValid DEF SessionConfig
<1>1. CASE \E b \in BOOLEAN : Open(b)
  BY <1>1 DEF Open, journalVars, opVars, ControlInv, Live
<1>2. CASE RepairRecords \/ RepairOutbox
  <2>1. UNCHANGED <<job, failed, overrun, next_sequence, opVars>>
        /\ \/ phase = "records" /\ phase' = "outbox"
           \/ phase = "outbox" /\ phase' \in {"closed", "scan"}
    <3>1. CASE RepairRecords
      BY <3>1 DEF RepairRecords, Repair
    <3>2. CASE RepairOutbox
      BY <3>2 DEF RepairOutbox, Repair
    <3> QED
      BY <1>2, <3>1, <3>2
  <2> QED
    BY <2>1 DEF ControlInv, Live, opVars
<1>3. CASE ScanLogs
  <2>1. NextSessionSequence \in Nat
    <3>1. FileInv("records")
      BY DEF DurableInv, Files
    <3>2. IsSeq(file["records"].lines) /\ IsSeq(file["records"].tail)
      <4>1. IsSeq(<<>>) /\ \A t : IsSeq(<<t>>)
        BY KindsFact
      <4> QED
        BY <3>1, <4>1 DEF FileInv
    <3>3. IsSeq(VisitLines("records"))
      BY <3>2, ConcatAt DEF VisitLines
    <3>4. Len(VisitLines("records")) \in Nat
      BY <3>3, DomainFact
    <3> QED
      BY <3>4 DEF NextSessionSequence
  <2> QED
    BY <1>3, <2>1, NoJobAt DEF ScanLogs, GrantLease, ControlInv, Live
<1>4. CASE ScanRefused \/ Close
  <2>1. /\ next_sequence' = 0 /\ failed' = FALSE /\ phase' = "closed" /\ phase # "open"
        /\ UNCHANGED <<job, overrun, opVars>> /\ job = NoJob
    BY <1>4 DEF ScanRefused, Close, DropLease, Idle, ControlInv, Live
  <2> QED
    BY <2>1, NoJobAt DEF ControlInv, Live, opVars
<1>5. CASE StartupRecovery
  <2>1. CASE UNCHANGED journalVars
    <3>1. UNCHANGED <<job, next_sequence, overrun, failed, opVars>> /\ job = NoJob
          /\ phase = "startup" /\ phase' \in {"startup", "open"}
      BY <1>5, <2>1 DEF StartupRecovery, journalVars, Idle
    <3> QED
      BY <3>1, NoJobAt DEF ControlInv, Live, opVars
  <2>2. ASSUME NEW due \in SUBSET ScheduledRetries(VisitLines("records")),
               NEW markers,
               markers = (IF InDoubt(VisitLines("records")) = {} THEN <<>>
                          ELSE StartupMarkers(VisitLines("records"), due)),
               NEW through, through = next_sequence + Len(markers) - 1,
               markers # <<>>,
               TakeJob("startup", 0,
                       [i \in DOMAIN markers |->
                           Entry("recovery", markers[i].op, markers[i].n,
                                 next_sequence + i - 1)],
                       [i \in DOMAIN markers |->
                           Entry("recovery", markers[i].op, markers[i].n, through)],
                       through),
               UNCHANGED phase
        PROVE  ControlInv'
    <3>1. IsSeq(markers) /\ Len(markers) \in Nat \ {0}
      BY <2>2, MarkersFact
    <3>2. DOMAIN markers = 1..Len(markers)
      BY <2>2, MarkersFact
    <3> DEFINE r == [i \in DOMAIN markers |->
                       Entry("recovery", markers[i].op, markers[i].n, next_sequence + i - 1)]
               b == [i \in DOMAIN markers |->
                       Entry("recovery", markers[i].op, markers[i].n, through)]
    <3>3. r = [i \in 1..Len(markers) |-> r[i]] /\ b = [i \in 1..Len(markers) |-> b[i]]
      BY <3>2
    <3>4. TakeJob("startup", 0, r, b, through)
      BY <2>2
    <3> HIDE DEF r, b
    <3>5. IsSeq(r) /\ IsSeq(b)
      BY <3>1, <3>3, FunctionSeq
    <3>6. through + 1 \in Nat
      BY <2>2, <3>1 DEF ControlInv
    <3>7. phase = "startup" /\ UNCHANGED <<op, ops, mine, stage, phase>>
      BY <1>5, <2>2 DEF StartupRecovery, opVars
    <3> QED
      BY <3>4, <3>5, <3>6, <3>7, TakeControl DEF Live
  <2> QED
    BY <1>5, <2>1, <2>2 DEF StartupRecovery
<1>6. CASE Begin
  <2>1. ops + 1 \in 1..MaxOps
    BY <1>6 DEF Begin, ControlInv
  <2>2. UNCHANGED journalVars /\ phase' = phase /\ phase = "open" /\ ops' = ops + 1
        /\ op' = ops + 1 /\ mine' = mine \union {ops + 1}
    BY <1>6 DEF Begin, serviceVars
  <2> QED
    BY <2>1, <2>2, QuietControl DEF Live
<1>7. CASE Abandon \/ SkipTerminal
  <2>1. UNCHANGED journalVars /\ phase' = phase /\ op' = 0 /\ stage' = "idle" /\ ops' = ops
    BY <1>7 DEF Abandon, SkipTerminal, serviceVars
  <2> QED
    BY <2>1, QuietControl DEF Live, ControlInv
<1>8. CASE DropSession
  <2>1. UNCHANGED journalVars /\ phase' = "closing" /\ phase = "open" /\ op' = 0
        /\ stage' = "idle" /\ ops' = ops
    BY <1>8 DEF DropSession
  <2> QED
    BY <2>1, QuietControl DEF Live, ControlInv
<1>9. CASE Checkpoint \/ AppendBeside \/ PersistTerminal
      \/ (\E k \in 0..MaxMessages, end \in Ends : Finalize(k, end))
  <2>1. UNCHANGED <<op, ops, mine, stage, phase>> /\ phase = "open" /\ op # 0
    BY <1>9 DEF Checkpoint, AppendBeside, PersistTerminal, Finalize, serviceVars, opVars,
                ControlInv
  <2>2. CASE Checkpoint
    BY <2>1, <2>2, KindsFact, SubmitControl DEF Checkpoint
  <2>3. CASE AppendBeside
    BY <2>1, <2>3, KindsFact, SubmitControl DEF AppendBeside
  <2>4. CASE PersistTerminal
    BY <2>1, <2>4, KindsFact, SubmitControl DEF PersistTerminal
  <2>5. ASSUME NEW k \in 0..MaxMessages, NEW end \in Ends, Finalize(k, end) PROVE ControlInv'
    <3>1. Submit("finalize", op, FinalKinds(k, end), 0, <<"session_write">>)
      BY <2>5 DEF Finalize, FinalKinds
    <3>2. IsSeq(FinalKinds(k, end)) /\ Len(FinalKinds(k, end)) # 0 /\ IsSeq(<<"session_write">>)
      BY FinalFact, KindsFact
    <3> QED
      BY <2>1, <3>1, <3>2, SubmitControl
  <2> QED
    BY <1>9, <2>2, <2>3, <2>4, <2>5
<1>10. CASE (\E end \in Ends : CommitName(end)) \/ (\E o \in Roots : ResolveRecovery(o))
       \/ (\E o \in Roots, kind \in PendingKinds : RetryRecovery(o, kind))
  <2>1. UNCHANGED <<op, ops, mine, stage, phase>> /\ phase = "open"
    BY <1>10 DEF CommitName, ResolveRecovery, RetryRecovery, serviceVars, opVars
  <2>2. ASSUME NEW end \in Ends, CommitName(end) PROVE ControlInv'
    <3>1. Submit("naming", NamingOp, <<"started", end>>, 0, <<>>)
      BY <2>2 DEF CommitName
    <3>2. IsSeq(<<"started", end>>) /\ IsSeq(<<>>)
      BY KindsFact
    <3> QED
      BY <2>1, <3>1, <3>2, SubmitControl
  <2>3. ASSUME NEW o \in Roots, ResolveRecovery(o) PROVE ControlInv'
    BY <2>1, <2>3, KindsFact, SubmitControl DEF ResolveRecovery
  <2>4. ASSUME NEW o \in Roots, NEW kind \in PendingKinds, RetryRecovery(o, kind)
        PROVE  ControlInv'
    <3>1. PICK n : Submit("retry", o, <<kind>>, n, <<"recovery">>)
      BY <2>4 DEF RetryRecovery
    <3>2. IsSeq(<<kind>>) /\ IsSeq(<<"recovery">>)
      BY KindsFact
    <3>3. Len(<<kind>>) # 0 /\ "retry" # "startup"
      OBVIOUS
    <3> QED
      BY <2>1, <3>1, <3>2, <3>3, SubmitControl
  <2> QED
    BY <1>10, <2>2, <2>3, <2>4
<1>11. CASE Write
  <2>1. PICK f \in Files : WriteFrame(f)
    BY <1>11 DEF Write
  <2>2. /\ UNCHANGED <<failed, overrun, next_sequence, serviceVars, opVars>> /\ job # NoJob
        /\ job'.command = job.command /\ job'.op = job.op /\ job'.through = job.through
        /\ job' # NoJob \/ phase # "startup"
    <3>1. job.todo # <<>> /\ job'.todo = job.todo /\ UNCHANGED <<failed, overrun, next_sequence>>
          /\ job'.command = job.command /\ job'.op = job.op /\ job'.through = job.through
      BY <2>1 DEF WriteFrame, Writing, DurableInv, Files
    <3>2. UNCHANGED <<serviceVars, opVars>>
      BY <1>11 DEF Write
    <3> QED
      BY <3>1, <3>2, NoJobAt
  <2>3. IsSeq(job'.records) /\ IsSeq(job'.outbox)
    <3>1. job'.records = job.records \/ (job.records # <<>> /\ job'.records = Tail(job.records))
      BY <2>1 DEF WriteFrame, DurableInv, Files
    <3>2. job'.outbox = job.outbox \/ (job.outbox # <<>> /\ job'.outbox = Tail(job.outbox))
      BY <2>1 DEF WriteFrame, DurableInv, Files
    <3> QED
      BY <3>1, <3>2, TailAt DEF ControlInv
  <2> QED
    BY <2>2, <2>3 DEF ControlInv, Live, serviceVars, opVars
<1>12. CASE Sync
  <2>1. PICK f \in Files : SyncFile(f)
    BY <1>12 DEF Sync
  <2>2. /\ UNCHANGED <<failed, overrun, serviceVars, opVars>> /\ job # NoJob
        /\ job'.command = job.command /\ job'.op = job.op /\ job'.through = job.through
        /\ job'.records = job.records /\ job'.outbox = job.outbox
        /\ next_sequence' \in {next_sequence, job.through + 1}
    <3>1. job.todo # <<>> /\ UNCHANGED <<failed, overrun>>
          /\ job'.command = job.command /\ job'.op = job.op /\ job'.through = job.through
          /\ job'.records = job.records /\ job'.outbox = job.outbox
          /\ next_sequence' \in {next_sequence, job.through + 1}
      BY <2>1 DEF SyncFile, Writing, DurableInv, Files
    <3>2. UNCHANGED <<serviceVars, opVars>>
      BY <1>12 DEF Sync
    <3> QED
      BY <3>1, <3>2, NoJobAt
  <2> QED
    BY <2>2 DEF ControlInv, Live, serviceVars, opVars
<1>13. CASE Answer
  <2>1. job' = NoJob /\ UNCHANGED <<next_sequence, overrun, ops, mine, failed>> /\ job # NoJob
    BY <1>13, NoJobAt DEF Answer, Reply
  <2>2. op' \in {0, op} /\ phase' = (IF job.command = "startup" THEN "open" ELSE phase)
    BY <1>13 DEF Answer, Succeeded
  <2>3. stage' # "idle" => op' # 0
    BY <1>13 DEF Answer, Succeeded, Awaited, ControlInv
  <2>4. Live /\ Live' /\ (op' # 0 => phase' = "open") /\ (phase' = "startup" => ~failed')
    BY <2>1, <2>2 DEF ControlInv, Live
  <2> QED
    BY <2>1, <2>2, <2>3, <2>4, DoneControl DEF ControlInv
<1>14. CASE AppendError \/ ManifestError
  <2>1. job' = NoJob /\ UNCHANGED <<next_sequence, overrun, ops, mine>> /\ job # NoJob
        /\ (failed' = TRUE \/ failed' = failed) /\ Rejected
    BY <1>14, NoJobAt DEF AppendError, AppendFails, ManifestError, ReplyManifestError, Writing
  <2>2. op' \in {0, op} /\ phase' = (IF job.command = "startup" THEN "closing" ELSE phase)
        /\ (stage' = "idle" \/ (stage' = stage /\ op' = op))
    BY <2>1 DEF Rejected
  <2>3. Live /\ Live' /\ (op' # 0 => phase' = "open") /\ phase' # "startup"
        /\ (stage' # "idle" => op' # 0)
    BY <2>1, <2>2 DEF ControlInv, Live
  <2> QED
    BY <2>1, <2>2, <2>3, DoneControl DEF ControlInv
<1>15. CASE Crash
  <2>1. job' = NoJob /\ next_sequence' = 0 /\ failed' = FALSE /\ UNCHANGED <<overrun, ops, mine>>
        /\ phase' = "closed" /\ op' = 0 /\ stage' = "idle"
    BY <1>15 DEF Crash, Die
  <2>2. IsSeq(<<>>)
    BY KindsFact
  <2>3. /\ job'.command = "none" /\ IsSeq(job'.records) /\ IsSeq(job'.outbox)
        /\ job'.through + 1 \in Nat
    BY <2>1, <2>2, NoJobAt
  <2> QED
    BY <2>1, <2>3 DEF ControlInv, Live
<1>16. CASE PowerFailure
  BY <1>16 DEF PowerFailure, LosePower, ControlInv, Live, serviceVars, opVars
<1> QED
  BY <1>1, <1>2, <1>3, <1>4, <1>5, <1>6, <1>7, <1>8, <1>9, <1>10, <1>11, <1>12, <1>13, <1>14,
     <1>15, <1>16 DEF Next

-----------------------------------------------------------------------------
(* Commands. *)

Story == RecordsGood /\ LeaseInv


\* Behind an operation that has a line nothing earlier is left open.
LEMMA LineBelow ==
    ASSUME SessionInv, Story, NEW k \in 1..Len(RecLines), RecLines[k].op \in Roots
    PROVE  RecLines[k].op <= ops /\ Below(RecLines[k].op, Len(RecLines))
<1> DEFINE q == RecLines[k].op
<1>1. DOMAIN RecLines = 1..Len(RecLines) /\ Len(RecLines) \in Nat
  BY LengthsFact DEF SessionInv
<1>2. \A j \in 1..Len(RecLines) : FitsAt(RecLines[j], j - 1)
  BY <1>1 DEF Story, RecordsGood, GoodAt
<1>3. q \in Roots /\ q <= ops /\ Below(q, k - 1)
  BY <1>2 DEF FitsAt
<1>4. \A j \in 1..Len(RecLines) :
         RecLines[j].op \in Roots /\ RecLines[j].op < q /\ RecLines[j].kind = "started" => j < k
  <2> SUFFICES ASSUME NEW j \in 1..Len(RecLines), RecLines[j].op \in Roots, RecLines[j].op < q,
                      RecLines[j].kind = "started", ~(j < k)
               PROVE  FALSE
    OBVIOUS
  <2>1. q \in Nat /\ RecLines[j].op \in Nat
    BY <1>3 DEF Roots
  <2>2. CASE j = k
    BY <2>1, <2>2
  <2>3. CASE j # k
    <3>1. k \in 1..(j - 1)
      BY <1>1, <2>3
    <3>2. q <= RecLines[j].op
      BY <1>2, <1>3, <3>1 DEF FitsAt
    <3> QED
      BY <2>1, <3>2
  <2> QED
    BY <2>2, <2>3
<1> HIDE DEF q
<1>5. Below(q, Len(RecLines))
  <2> SUFFICES ASSUME NEW j \in 1..Len(RecLines), RecLines[j].op \in Roots, RecLines[j].op < q,
                      RecLines[j].kind = "started"
               PROVE  \E m \in 1..Len(RecLines) :
                         RecLines[m].op = RecLines[j].op /\ RecLines[m].kind \in Ends
    BY DEF Below
  <2>1. j \in 1..(k - 1)
    BY <1>1, <1>4
  <2>2. PICK m \in 1..(k - 1) : RecLines[m].op = RecLines[j].op /\ RecLines[m].kind \in Ends
    BY <1>3, <2>1 DEF Below
  <2>3. m \in 1..Len(RecLines)
    BY <1>1
  <2> QED
    BY <2>2, <2>3
<1> QED
  BY <1>3, <1>5 DEF q

\* What is asked of the i-th event of a command about operation o: its number,
\* its operation, and its obligation among the outbox records of the command.
FitsNow(e, o, i) ==
    /\ e.seq = next_sequence + i - 1
    /\ e.op \in Roots =>
          /\ e.op <= ops /\ Below(e.op, Len(RecLines))
          /\ e.kind = "started" => e.op = ops /\ e.op = o /\ e.op \in mine /\ op = e.op
Backed(e, b) == Obligations(e) = {} \/ \E j \in 1..Len(b) : Answers(b[j], e)

\* What is in doubt is marked, in the log or by the command.
MarksTaken(r) ==
    \A p \in InDoubt(RecLines) :
        \/ Has(RecLines, p, PendingKinds)
        \/ \E i \in 1..Len(r) : r[i].op = p /\ r[i].kind \in PendingKinds

\* The writer takes a command whose events are numbered on, fit and have their
\* obligations in its outbox.
LEMMA TakeGood ==
    ASSUME SessionInv, ~overrun', NEW c, NEW o, NEW r, NEW b, NEW t, TakeJob(c, o, r, b, t),
           UNCHANGED <<phase, op, ops, mine>>, Live, IsSeq(r), IsSeq(b),
           t = next_sequence + Len(r) - 1,
           \A i \in 1..Len(r) : FitsNow(r[i], o, i) /\ Backed(r[i], b),
           phase = "startup" => MarksTaken(r)
    PROVE  Story'
<1> USE DEF FitsNow, Backed
<1>1. /\ UNCHANGED <<file, synced, next_sequence, failed>> /\ ~failed /\ ~overrun
      /\ job = NoJob /\ job'.op = o /\ job'.records = r /\ job'.outbox = b
      /\ job'.through = t /\ job'.todo = AppendOrder(b) /\ job' # NoJob
  <2>1. job'.todo = AppendOrder(b) /\ AppendOrder(b) # <<>>
    BY DEF TakeJob, AppendOrder
  <2> QED
    BY <2>1, NoJobAt DEF TakeJob, Idle, SessionInv, ControlInv
<1>2. Story
  BY <1>1 DEF SessionInv, Story
<1>3. Len(RecLines) \in Nat /\ DOMAIN r = 1..Len(r) /\ DOMAIN b = 1..Len(b)
      /\ Len(r) \in Nat /\ Len(b) \in Nat
  BY LengthsFact, DomainFact DEF SessionInv
<1>4. next_sequence = Len(RecLines) + 1
  BY <1>1, <1>2, NoJobAt DEF Story, LeaseInv, NumbersFit, Fresh
<1>5. RecLines' = RecLines /\ OutLines' = OutLines
  BY <1>1 DEF RecLines, OutLines
<1>6. /\ \A e, n : (FitsAt(e, n) <=> FitsAt(e, n)') /\ (Below(e, n) <=> Below(e, n)')
      /\ \A e : Met(e) <=> Met(e)'
  BY <1>1, <1>5 DEF FitsAt, Met, Below
<1>7. RecordsGood'
  BY <1>1, <1>2, <1>5, <1>6 DEF Story, RecordsGood, GoodAt
<1>8. TailsGone' /\ NumbersFit' /\ OpFits'
  <2>1. job'.todo # <<>>
    BY <1>1 DEF AppendOrder
  <2> QED
    BY <1>1, <1>2, <1>5, <1>6, <2>1 DEF Story, LeaseInv, TailsGone, NumbersFit, OpFits, Fresh, Live
<1>9. JobFits'
  <2>1. job'.todo # <<>> /\ job'.through = Len(RecLines) + Len(r)
    BY <1>1, <1>3, <1>4 DEF AppendOrder
  <2>2. \A i \in 1..Len(r) : r[i].seq = Len(RecLines) + i
    BY <1>3, <1>4
  <2>3. \A i \in 1..Len(r) : JobFrame(r[i])'
    BY <1>1, <1>5, <1>6 DEF JobFrame
  <2>4. \A i \in 1..Len(r) : Promised(r[i])'
    <3> TAKE i \in 1..Len(r)
    <3>1. CASE Obligations(r[i]) = {}
      BY <3>1 DEF Promised, Met
    <3>2. ASSUME NEW j \in 1..Len(b), Answers(b[j], r[i]) PROVE Promised(r[i])'
      <4>1. b # <<>>
        BY <1>3
      <4>2. job'.todo = <<"outbox", "records">>
        BY <1>1, <4>1 DEF AppendOrder
      <4> QED
        BY <1>1, <1>3, <3>2, <4>2 DEF Promised, Answers
    <3> QED
      BY <3>1, <3>2
  <2> QED
    BY <1>1, <1>3, <1>5, <2>1, <2>2, <2>3, <2>4 DEF JobFits
<1>10. MarksFit'
  BY <1>1, <1>2, <1>3, <1>5 DEF Story, LeaseInv, MarksFit, MarksTaken
<1> QED
  BY <1>1, <1>7, <1>8, <1>9, <1>10 DEF Story, LeaseInv

\* The same for the events of one operation.
LEMMA SubmitGood ==
    ASSUME SessionInv, ~overrun', NEW c, NEW o, NEW kinds, NEW n, NEW outbox, IsSeq(kinds),
           IsSeq(outbox), Submit(c, o, kinds, n, outbox), phase = "open",
           UNCHANGED <<phase, op, ops, mine>>,
           o \in Roots => o <= ops /\ Below(o, Len(RecLines)),
           o \in Roots /\ (\E i \in 1..Len(kinds) : kinds[i] = "started") =>
               o = ops /\ o \in mine /\ op = o,
           \A i \in 1..Len(kinds) : \A s :
               LET e == Entry(kinds[i], o, n, s)
               IN  Obligations(e) = {} \/ \E j \in 1..Len(outbox) : outbox[j] \in Obligations(e)
    PROVE  Story'
<1> DEFINE through == next_sequence + Len(kinds) - 1
           r == Numbered(kinds, o, n, next_sequence)
           b == [i \in DOMAIN outbox |-> Entry(outbox[i], o, n, through)]
<1>1. /\ TakeJob(c, o, r, b, through) /\ IsSeq(r) /\ IsSeq(b) /\ Len(r) = Len(kinds)
      /\ Len(b) = Len(outbox) /\ DOMAIN b = 1..Len(outbox)
      /\ \A i \in 1..Len(kinds) : r[i] = Entry(kinds[i], o, n, next_sequence + i - 1)
  BY SubmitFact
<1>2. \A j \in 1..Len(outbox) : b[j] = Entry(outbox[j], o, n, through)
  BY <1>1
<1>3. Len(kinds) \in Nat /\ next_sequence \in Nat
  BY DomainFact DEF SessionInv, ControlInv
<1>4. through = next_sequence + Len(r) - 1
  BY <1>1
<1>5. \A i \in 1..Len(kinds) : through >= next_sequence + i - 1
  BY <1>3
<1> HIDE DEF r, b, through
<1>6. \A i \in 1..Len(r) :
         /\ r[i].seq = next_sequence + i - 1 /\ r[i].op = o /\ r[i].kind = kinds[i] /\ r[i].n = n
  <2> TAKE i \in 1..Len(r)
  <2>1. r[i] = Entry(kinds[i], o, n, next_sequence + i - 1)
    BY <1>1
  <2> QED
    BY <2>1 DEF Entry
<1>7. \A i \in 1..Len(r) :
         Obligations(r[i]) = {} \/ \E j \in 1..Len(b) : Answers(b[j], r[i])
  <2> TAKE i \in 1..Len(r)
  <2>1. r[i] = Entry(kinds[i], o, n, next_sequence + i - 1) /\ i \in 1..Len(kinds)
    BY <1>1
  <2>2. CASE Obligations(r[i]) # {}
    <3>1. PICK j \in 1..Len(outbox) : outbox[j] \in Obligations(r[i])
      BY <2>1, <2>2
    <3>2. b[j] = Entry(outbox[j], o, n, through) /\ j \in 1..Len(b)
      BY <1>1, <1>2
    <3>3. b[j].kind = outbox[j] /\ b[j].op = o /\ b[j].n = n /\ b[j].seq = through
      BY <3>2 DEF Entry
    <3>4. through >= r[i].seq
      BY <1>5, <1>6, <2>1
    <3> QED
      BY <1>6, <3>1, <3>2, <3>3, <3>4 DEF Answers
  <2> QED
    BY <2>2
<1>8. Live /\ phase # "startup"
  BY DEF Live
<1>9. \A i \in 1..Len(r) : FitsNow(r[i], o, i)
  BY <1>1, <1>6 DEF FitsNow
<1>10. \A i \in 1..Len(r) : FitsNow(r[i], o, i) /\ Backed(r[i], b)
  BY <1>7, <1>9 DEF Backed
<1> QED
  BY <1>1, <1>4, <1>8, <1>10, TakeGood

\* What an open service reads has no torn end.
LEMMA VisitNow ==
    ASSUME SessionInv, Story, phase = "open" \/ phase = "startup", ~failed
    PROVE  VisitLines("records") = RecLines
<1>1. file["records"].tail = <<>> /\ IsSeq(RecLines)
  BY LengthsFact DEF SessionInv, Story, LeaseInv, TailsGone, Fresh, Live
<1> QED
  BY <1>1, LengthFact DEF VisitLines, RecLines

\* An operation in doubt has a line.
LEMMA DoubtHasLine ==
    ASSUME SessionInv, Story, NEW o \in InDoubt(RecLines)
    PROVE  o \in Roots /\ o <= ops /\ Below(o, Len(RecLines))
<1>1. o \in Roots /\ \E k \in DOMAIN RecLines : RecLines[k].op = o
  BY DEF InDoubt
<1>2. DOMAIN RecLines = 1..Len(RecLines)
  BY LengthsFact DEF SessionInv
<1> QED
  BY <1>1, <1>2, LineBelow

\* The commands of an operation and of the service.
LEMMA CommandGood ==
    ASSUME SessionInv, ~overrun',
           \/ Checkpoint \/ AppendBeside \/ PersistTerminal
           \/ \E k \in 0..MaxMessages, end \in Ends : Finalize(k, end)
           \/ \E end \in Ends : CommitName(end)
           \/ \E o \in Roots : ResolveRecovery(o)
           \/ \E o \in Roots, kind \in PendingKinds : RetryRecovery(o, kind)
    PROVE  Story'
<1> USE SessionConfigValid DEF SessionConfig
<1>1. UNCHANGED <<op, ops, mine, stage, phase>> /\ phase = "open"
      /\ \E c, o, kinds, n, b : Submit(c, o, kinds, n, b)
  BY DEF Checkpoint, AppendBeside, PersistTerminal, Finalize, CommitName, ResolveRecovery,
         RetryRecovery, serviceVars, opVars, SessionInv, ControlInv
<1>2. overrun' = (overrun \/ failed)
  BY <1>1 DEF Submit, TakeJob
<1>3. ~failed /\ Story
  BY <1>2 DEF SessionInv, Story, ControlInv
<1>4. op # 0 => op \in Roots /\ op = ops /\ op \in mine /\ Below(op, Len(RecLines)) /\ op # NamingOp
  BY <1>3 DEF SessionInv, ControlInv, Story, LeaseInv, OpFits, Roots, NamingOp
<1>5. NamingOp \notin Roots
  BY DEF NamingOp, Roots
<1>6. op # 0 => ops <= ops
  BY DEF SessionInv, ControlInv
<1>7. CASE Checkpoint
  <2>1. Submit("checkpoint", op, <<"started", "input">>, 0, <<>>) /\ op # 0
    BY <1>7 DEF Checkpoint, SessionInv, ControlInv
  <2>2. \A i \in 1..Len(<<"started", "input">>) : \A s :
           Obligations(Entry(<<"started", "input">>[i], op, 0, s)) = {}
    <3> TAKE i \in 1..Len(<<"started", "input">>)
    <3> TAKE s
    <3>1. <<"started", "input">>[i] \in {"started", "input"}
      OBVIOUS
    <3> QED
      BY <3>1, ObligationFacts DEF Entry
  <2> QED
    BY <1>1, <1>4, <1>6, <2>1, <2>2, KindsFact, SubmitGood
<1>8. CASE AppendBeside
  <2>1. Submit("beside", op, <<"beside">>, 0, <<>>) /\ op # 0
    BY <1>8 DEF AppendBeside, SessionInv, ControlInv
  <2>2. \A i \in 1..Len(<<"beside">>) : \A s :
           <<"beside">>[i] = "beside" /\ Obligations(Entry(<<"beside">>[i], op, 0, s)) = {}
    <3> TAKE i \in 1..Len(<<"beside">>)
    <3> TAKE s
    <3>1. <<"beside">>[i] = "beside"
      OBVIOUS
    <3> QED
      BY <3>1, ObligationFacts DEF Entry
  <2> QED
    BY <1>1, <1>4, <1>6, <2>1, <2>2, KindsFact, SubmitGood
<1>9. CASE PersistTerminal
  <2>1. Submit("terminal", op, <<"terminal">>, 0, <<"operation_terminal">>) /\ op # 0
    BY <1>9 DEF PersistTerminal, SessionInv, ControlInv
  <2>2. \A i \in 1..Len(<<"terminal">>) : \A s :
           /\ <<"terminal">>[i] = "terminal"
           /\ \E j \in 1..Len(<<"operation_terminal">>) :
                 <<"operation_terminal">>[j] \in Obligations(Entry(<<"terminal">>[i], op, 0, s))
    <3> TAKE i \in 1..Len(<<"terminal">>)
    <3> TAKE s
    <3>1. <<"terminal">>[i] = "terminal" /\ 1 \in 1..Len(<<"operation_terminal">>)
          /\ <<"operation_terminal">>[1] = "operation_terminal"
      OBVIOUS
    <3>2. "operation_terminal" \in Obligations(Entry(<<"terminal">>[i], op, 0, s))
      BY <3>1, ObligationFacts DEF Entry
    <3> QED
      BY <3>1, <3>2
  <2> QED
    BY <1>1, <1>4, <1>6, <2>1, <2>2, KindsFact, SubmitGood
<1>10. ASSUME NEW k \in 0..MaxMessages, NEW end \in Ends, Finalize(k, end) PROVE Story'
  <2> DEFINE kinds == FinalKinds(k, end)
  <2>1. Submit("finalize", op, kinds, 0, <<"session_write">>) /\ op # 0
    BY <1>10 DEF Finalize, FinalKinds, SessionInv, ControlInv
  <2>2. /\ IsSeq(kinds)
        /\ \A i \in 1..Len(kinds) :
              kinds[i] \in {"message", "started"} \union Ends
    BY FinalFact, DomainFact
  <2>3. \A i \in 1..Len(kinds) : \A s :
           LET e == Entry(kinds[i], op, 0, s)
           IN  \/ Obligations(e) = {}
               \/ \E j \in 1..Len(<<"session_write">>) : <<"session_write">>[j] \in Obligations(e)
    <3> TAKE i \in 1..Len(kinds)
    <3> TAKE s
    <3>1. CASE kinds[i] \in {"message", "started"}
      BY <3>1, ObligationFacts DEF Entry
    <3>2. CASE kinds[i] \in Ends
      <4>1. Obligations(Entry(kinds[i], op, 0, s)) = {"session_write"}
        BY <1>4, <2>1, <3>2, ObligationFacts DEF Entry
      <4>2. 1 \in 1..Len(<<"session_write">>) /\ <<"session_write">>[1] = "session_write"
        OBVIOUS
      <4> QED
        BY <4>1, <4>2
    <3> QED
      BY <2>2, <3>1, <3>2
  <2>4. IsSeq(<<"session_write">>)
    BY KindsFact
  <2> HIDE DEF kinds
  <2> QED
    BY <1>1, <1>4, <1>6, <2>1, <2>2, <2>3, <2>4, SubmitGood
<1>11. ASSUME NEW end \in Ends, CommitName(end) PROVE Story'
  <2>1. Submit("naming", NamingOp, <<"started", end>>, 0, <<>>)
    BY <1>11 DEF CommitName
  <2>2. \A i \in 1..Len(<<"started", end>>) : \A s :
           Obligations(Entry(<<"started", end>>[i], NamingOp, 0, s)) = {}
    <3> TAKE i \in 1..Len(<<"started", end>>)
    <3> TAKE s
    <3>1. <<"started", end>>[i] = "started" \/ <<"started", end>>[i] = end
      OBVIOUS
    <3> QED
      BY <3>1, ObligationFacts DEF Entry
  <2>3. IsSeq(<<"started", end>>) /\ IsSeq(<<>>)
    BY KindsFact
  <2> QED
    BY <1>1, <1>5, <2>1, <2>2, <2>3, SubmitGood
<1>12. ASSUME NEW o \in Roots, ResolveRecovery(o) PROVE Story'
  <2> DEFINE kinds == <<"resolved", "settled", "terminal">>
  <2>1. Submit("resolve", o, kinds, 0, <<"resolution">>) /\ o \in InDoubt(RecLines)
    BY <1>1, <1>3, <1>12, VisitNow DEF ResolveRecovery
  <2>2. o <= ops /\ Below(o, Len(RecLines))
    BY <1>3, <2>1, DoubtHasLine
  <2>3. \A i \in 1..Len(kinds) : kinds[i] \in {"resolved", "settled", "terminal"}
    OBVIOUS
  <2>4. \A i \in 1..Len(kinds) : \A s :
           \E j \in 1..Len(<<"resolution">>) :
              <<"resolution">>[j] \in Obligations(Entry(kinds[i], o, 0, s))
    <3> TAKE i \in 1..Len(kinds)
    <3> TAKE s
    <3>1. "resolution" \in Obligations(Entry(kinds[i], o, 0, s))
      BY <2>3, ObligationFacts DEF Entry
    <3>2. 1 \in 1..Len(<<"resolution">>) /\ <<"resolution">>[1] = "resolution"
      OBVIOUS
    <3> QED
      BY <3>1, <3>2
  <2>5. IsSeq(kinds) /\ IsSeq(<<"resolution">>)
    BY KindsFact
  <2> HIDE DEF kinds
  <2> QED
    BY <1>1, <2>1, <2>2, <2>3, <2>4, <2>5, SubmitGood
<1>13. ASSUME NEW o \in Roots, NEW kind \in PendingKinds, RetryRecovery(o, kind) PROVE Story'
  <2>1. PICK n : Submit("retry", o, <<kind>>, n, <<"recovery">>)
    BY <1>13 DEF RetryRecovery
  <2>2. o \in InDoubt(RecLines)
    BY <1>1, <1>3, <1>13, VisitNow DEF RetryRecovery
  <2>3. o <= ops /\ Below(o, Len(RecLines))
    BY <1>3, <2>2, DoubtHasLine
  <2>4. \A i \in 1..Len(<<kind>>) : <<kind>>[i] = kind
    OBVIOUS
  <2>5. \A i \in 1..Len(<<kind>>) : \A s :
           \E j \in 1..Len(<<"recovery">>) :
              <<"recovery">>[j] \in Obligations(Entry(<<kind>>[i], o, n, s))
    <3> TAKE i \in 1..Len(<<kind>>)
    <3> TAKE s
    <3>1. "recovery" \in Obligations(Entry(<<kind>>[i], o, n, s))
      BY <2>4, ObligationFacts DEF Entry
    <3>2. 1 \in 1..Len(<<"recovery">>) /\ <<"recovery">>[1] = "recovery"
      OBVIOUS
    <3> QED
      BY <3>1, <3>2
  <2>6. IsSeq(<<kind>>) /\ IsSeq(<<"recovery">>) /\ kind # "started"
    BY KindsFact DEF PendingKinds
  <2> QED
    BY <1>1, <2>1, <2>3, <2>4, <2>5, <2>6, SubmitGood
<1> QED
  BY <1>7, <1>8, <1>9, <1>10, <1>11, <1>12, <1>13

\* The startup recovery takes the markers or, without any, opens the service.
LEMMA StartupGood ==
    ASSUME SessionInv, ~overrun', StartupRecovery
    PROVE  Story'
<1>1. PICK due \in SUBSET ScheduledRetries(VisitLines("records")) :
         LET lines == VisitLines("records")
             markers == IF InDoubt(lines) = {} THEN <<>> ELSE StartupMarkers(lines, due)
             through == next_sequence + Len(markers) - 1
         IN  IF markers = <<>>
             THEN phase' = "open" /\ UNCHANGED journalVars
             ELSE /\ TakeJob("startup", 0,
                             [i \in DOMAIN markers |->
                                 Entry("recovery", markers[i].op, markers[i].n,
                                       next_sequence + i - 1)],
                             [i \in DOMAIN markers |->
                                 Entry("recovery", markers[i].op, markers[i].n, through)],
                             through)
                  /\ UNCHANGED phase
  BY DEF StartupRecovery
<1>2. phase = "startup" /\ job = NoJob /\ UNCHANGED <<op, ops, mine>> /\ ~failed
  BY DEF StartupRecovery, Idle, opVars, SessionInv, ControlInv
<1>3. ~overrun
  <2>1. overrun' = overrun \/ overrun' = (overrun \/ failed)
    BY <1>1 DEF journalVars, TakeJob
  <2> QED
    BY <1>2, <2>1 DEF SessionInv, ControlInv
<1>4. Story /\ VisitLines("records") = RecLines
  BY <1>2, <1>3, VisitNow DEF SessionInv, Story
<1> DEFINE markers == IF InDoubt(RecLines) = {} THEN <<>> ELSE StartupMarkers(RecLines, due)
           through == next_sequence + Len(markers) - 1
           r == [i \in DOMAIN markers |->
                    Entry("recovery", markers[i].op, markers[i].n, next_sequence + i - 1)]
           b == [i \in DOMAIN markers |->
                    Entry("recovery", markers[i].op, markers[i].n, through)]
<1>5. IF markers = <<>> THEN phase' = "open" /\ UNCHANGED journalVars
      ELSE TakeJob("startup", 0, r, b, through) /\ UNCHANGED phase
  BY <1>1, <1>4
<1>6. due \in SUBSET ScheduledRetries(RecLines)
  BY <1>4
<1>7. markers = IF InDoubt(RecLines) = {} THEN <<>> ELSE StartupMarkers(RecLines, due)
  OBVIOUS
<1> HIDE DEF markers
<1>8. /\ IsSeq(markers) /\ Len(markers) \in Nat /\ DOMAIN markers = 1..Len(markers)
      /\ \A i \in 1..Len(markers) :
            /\ markers[i].op \in 1..NamingOp
            /\ \E k \in DOMAIN RecLines : RecLines[k].op = markers[i].op
      /\ \A o \in InDoubt(RecLines) :
            \/ Has(RecLines, o, PendingKinds)
            \/ \E i \in 1..Len(markers) : markers[i].op = o
  BY <1>6, <1>7, MarkersFact
<1>9. /\ \A i \in 1..Len(markers) :
            /\ r[i] = Entry("recovery", markers[i].op, markers[i].n, next_sequence + i - 1)
            /\ b[i] = Entry("recovery", markers[i].op, markers[i].n, through)
      /\ r = [i \in 1..Len(markers) |-> r[i]] /\ b = [i \in 1..Len(markers) |-> b[i]]
  BY <1>8
<1> HIDE DEF r, b
<1>10. IsSeq(r) /\ IsSeq(b) /\ Len(r) = Len(markers) /\ Len(b) = Len(markers)
  BY <1>8, <1>9, FunctionSeq
<1>11. next_sequence \in Nat
  BY DEF SessionInv, ControlInv
<1>12. through = next_sequence + Len(r) - 1 /\ \A i \in 1..Len(r) : through >= next_sequence + i - 1
  BY <1>8, <1>10, <1>11
<1> HIDE DEF through
<1>13. CASE markers = <<>>
  <2>1. UNCHANGED <<file, synced, next_sequence, failed, job>> /\ phase' = "open"
    BY <1>5, <1>13 DEF journalVars
  <2>2. RecLines' = RecLines /\ OutLines' = OutLines
    BY <2>1 DEF RecLines, OutLines
  <2>3. \A o \in InDoubt(RecLines) : Has(RecLines, o, PendingKinds)
    BY <1>8, <1>13
  <2>4. RecordsGood'
    <3>1. \A q, n : Below(q, n)' <=> Below(q, n)
      BY <2>2 DEF Below
    <3>2. \A e : Met(e)' <=> Met(e)
      BY <2>1, <2>2 DEF Met
    <3>3. \A e, n : FitsAt(e, n)' <=> FitsAt(e, n)
      BY <1>2, <2>2, <3>1 DEF FitsAt
    <3>4. \A e, n : GoodAt(e, n)' <=> GoodAt(e, n)
      BY <3>2, <3>3 DEF GoodAt
    <3> QED BY <1>4, <2>1, <2>2, <3>4 DEF Story, RecordsGood
  <2>5. TailsGone' /\ NumbersFit' /\ OpFits'
    BY <1>2, <1>4, <2>1, <2>2
       DEF Story, LeaseInv, TailsGone, NumbersFit, OpFits, Fresh, Live, Below
  <2>6. JobFits' /\ MarksFit'
    BY <1>2, <1>4, <2>1, <2>2, <2>3, NoJobAt DEF Story, LeaseInv, JobFits, MarksFit
  <2> QED
    BY <1>2, <2>1, <2>4, <2>5, <2>6 DEF Story, LeaseInv
<1>14. CASE markers # <<>>
  <2>1. TakeJob("startup", 0, r, b, through) /\ UNCHANGED phase
    BY <1>5, <1>14
  <2>2. \A i \in 1..Len(r) :
           /\ r[i].seq = next_sequence + i - 1
           /\ r[i].op \in Roots => r[i].op <= ops /\ Below(r[i].op, Len(RecLines))
           /\ r[i].kind = "recovery" /\ r[i].op = markers[i].op
           /\ Answers(b[i], r[i])
    <3> TAKE i \in 1..Len(r)
    <3>1. i \in 1..Len(markers)
      BY <1>10
    <3>2. /\ r[i].kind = "recovery" /\ r[i].op = markers[i].op /\ r[i].n = markers[i].n
          /\ r[i].seq = next_sequence + i - 1
          /\ b[i].kind = "recovery" /\ b[i].op = markers[i].op /\ b[i].n = markers[i].n
          /\ b[i].seq = through
      BY <1>9, <3>1 DEF Entry
    <3>3. Obligations(r[i]) = {"recovery"}
      BY <3>2, ObligationFacts DEF PendingKinds
    <3>4. Answers(b[i], r[i])
      BY <1>12, <3>2, <3>3 DEF Answers
    <3>5. DOMAIN RecLines = 1..Len(RecLines)
      BY LengthsFact DEF SessionInv
    <3>6. PICK k \in 1..Len(RecLines) : RecLines[k].op = markers[i].op
      BY <1>8, <3>1, <3>5
    <3>7. r[i].op \in Roots => r[i].op <= ops /\ Below(r[i].op, Len(RecLines))
      BY <1>4, <3>2, <3>6, LineBelow
    <3> QED
      BY <3>2, <3>4, <3>7
  <2>3. MarksTaken(r)
    BY <1>8, <1>10, <2>2 DEF PendingKinds, MarksTaken
  <2>4. \A i \in 1..Len(r) : FitsNow(r[i], 0, i) /\ Backed(r[i], b)
    BY <1>10, <2>2 DEF FitsNow, Backed
  <2>5. Live /\ UNCHANGED <<phase, op, ops, mine>>
    BY <1>2, <2>1 DEF Live
  <2>6. through = next_sequence + Len(r) - 1 /\ IsSeq(r) /\ IsSeq(b)
    BY <1>10, <1>12
  <2> QED
    BY <2>1, <2>3, <2>4, <2>5, <2>6, TakeGood
<1> QED
  BY <1>13, <1>14

-----------------------------------------------------------------------------
(* The writer and its files. *)

LinesGood == \A i \in 1..Len(RecLines) : GoodAt(RecLines[i], i - 1)

\* The step takes nothing away from the synced outbox and no operation back.
Kept ==
    /\ ops \in Nat /\ ops' \in Nat /\ ops <= ops'
    /\ synced["outbox"] \in Nat /\ synced'["outbox"] \in Nat
    /\ synced["outbox"] <= synced'["outbox"]
    /\ \A j \in 1..synced["outbox"] : OutLines'[j] = OutLines[j]

\* What is good behind n records stays so while they stay.
LEMMA GoodKept ==
    ASSUME NEW e, NEW n \in Nat, GoodAt(e, n), Kept, \A k \in 1..n : RecLines'[k] = RecLines[k]
    PROVE  GoodAt(e, n)'
<1>1. e.seq = n + 1 /\ FitsAt(e, n) /\ Met(e)
  BY DEF GoodAt
<1>2. FitsAt(e, n)'
  BY <1>1, FitsKept DEF Kept
<1>3. Met(e)'
  BY <1>1, MetKept DEF Kept
<1> QED
  BY <1>1, <1>2, <1>3 DEF GoodAt

\* So are the records of a prefix that stays.
LEMMA PrefixGood ==
    ASSUME LinesGood, Len(RecLines) \in Nat, NEW m \in 0..Len(RecLines), Kept,
           \A k \in 1..m : RecLines'[k] = RecLines[k]
    PROVE  \A i \in 1..m : GoodAt(RecLines[i], i - 1)'
<1> TAKE i \in 1..m
<1>1. i \in 1..Len(RecLines) /\ i - 1 \in Nat /\ \A k \in 1..(i - 1) : RecLines'[k] = RecLines[k]
  OBVIOUS
<1>2. PICK e : e = RecLines[i] /\ e = RecLines'[i]
  OBVIOUS
<1>3. GoodAt(e, i - 1)
  BY <1>1, <1>2 DEF LinesGood
<1>4. GoodAt(e, i - 1)'
  BY <1>1, <1>3, GoodKept
<1> QED
  BY <1>2, <1>4

\* One more good record.
LEMMA LineGood ==
    ASSUME LinesGood, IsSeq(RecLines), NEW n \in Nat, n = Len(RecLines), NEW e, GoodAt(e, n), Kept,
           RecLines' = Append(RecLines, e)
    PROVE  /\ Len(RecLines') = n + 1 /\ DOMAIN RecLines' = 1..(n + 1)
           /\ RecLines'[n + 1] = e /\ \A k \in 1..n : RecLines'[k] = RecLines[k]
           /\ \A i \in 1..(n + 1) : GoodAt(RecLines[i], i - 1)'
<1>1. /\ Len(RecLines') = n + 1 /\ DOMAIN RecLines' = 1..(n + 1)
      /\ RecLines'[n + 1] = e /\ \A k \in 1..n : RecLines'[k] = RecLines[k]
  BY DomainFact, AppendFact, AppendAt
<1>2. \A i \in 1..n : GoodAt(RecLines[i], i - 1)'
  <2>1. n \in 0..Len(RecLines)
    OBVIOUS
  <2> QED
    BY <1>1, <2>1, PrefixGood
<1>3. GoodAt(e, n)'
  BY <1>1, GoodKept
<1>4. \A i \in 1..(n + 1) : i \in 1..n \/ (i = n + 1 /\ i - 1 = n)
  OBVIOUS
<1>5. \A i : i = n + 1 /\ i - 1 = n => GoodAt(RecLines[i], i - 1)'
  BY <1>1, <1>3
<1> QED
  BY <1>1, <1>2, <1>4, <1>5

\* Which records put an operation in doubt.
LEMMA DoubtAppend ==
    ASSUME NEW lines, NEW e, IsSeq(lines), NEW o \in InDoubt(Append(lines, e))
    PROVE  o \in InDoubt(lines) \/ (o = e.op /\ e.kind = "started")
<1> DEFINE branch == {lines[i] : i \in {j \in DOMAIN lines : OnBranch(lines[j])}}
           more == Append(lines, e)
           after == {more[i] : i \in {j \in DOMAIN more : OnBranch(more[j])}}
<1>1. /\ DOMAIN more = 1..(Len(lines) + 1) /\ DOMAIN lines = 1..Len(lines) /\ Len(lines) \in Nat
      /\ \A i \in 1..Len(lines) : more[i] = lines[i]
      /\ more[Len(lines) + 1] = e
  BY AppendAt, DomainFact
<1>2. branch \subseteq after /\ \A x \in after : x \in branch \/ x = e
  BY <1>1
<1>3. /\ o \in Roots /\ (\E x \in after : x.op = o /\ x.kind \in {"started"})
      /\ ~(\E x \in after : x.op = o /\ x.kind \in Ends)
  BY DEF InDoubt
<1>4. o \in InDoubt(lines) <=>
         /\ o \in Roots /\ (\E x \in branch : x.op = o /\ x.kind \in {"started"})
         /\ ~(\E x \in branch : x.op = o /\ x.kind \in Ends)
  BY DEF InDoubt
<1> HIDE DEF branch, after
<1> QED
  BY <1>2, <1>3, <1>4

LEMMA HasAppend ==
    ASSUME NEW lines, NEW e, IsSeq(lines), NEW o, NEW kinds
    PROVE  /\ Has(lines, o, kinds) => Has(Append(lines, e), o, kinds)
           /\ e.op = o /\ e.kind \in kinds => Has(Append(lines, e), o, kinds)
<1>1. /\ DOMAIN Append(lines, e) = 1..(Len(lines) + 1) /\ DOMAIN lines = 1..Len(lines)
      /\ Len(lines) \in Nat /\ \A i \in 1..Len(lines) : Append(lines, e)[i] = lines[i]
      /\ Append(lines, e)[Len(lines) + 1] = e
  BY AppendAt, DomainFact
<1>2. Len(lines) + 1 \in 1..(Len(lines) + 1) /\ \A i \in 1..Len(lines) : i \in 1..(Len(lines) + 1)
  BY <1>1
<1> QED
  BY <1>1, <1>2 DEF Has

\* The writer has a file at hand: which, and in what state.
LEMMA WritingNow ==
    ASSUME SessionInv, ~overrun, job.todo # <<>>
    PROVE  /\ Story /\ Live /\ ~failed /\ job # NoJob /\ LinesGood
           /\ file["records"].tail = <<>> /\ file["outbox"].tail = <<>>
           /\ \/ job.todo = <<"records">> /\ Head(job.todo) = "records" /\ Tail(job.todo) = <<>>
                 /\ Len(job.todo) = 1 /\ job.todo # <<"outbox", "records">>
              \/ job.todo = <<"outbox", "records">> /\ Head(job.todo) = "outbox"
                 /\ Tail(job.todo) = <<"records">> /\ Len(job.todo) # 1
<1>1. Story /\ job # NoJob
  BY NoJobAt DEF SessionInv, Story
<1>2. Live /\ ~failed
  BY <1>1 DEF SessionInv, ControlInv, Story, LeaseInv
<1>3. file["records"].tail = <<>> /\ file["outbox"].tail = <<>>
  BY <1>1, <1>2 DEF Story, LeaseInv, TailsGone, Fresh
<1>4. LinesGood
  BY <1>1, LengthsFact DEF SessionInv, Story, RecordsGood, LinesGood
<1>5. job.todo \in {<<"records">>, <<"outbox", "records">>}
  BY DEF SessionInv, DurableInv, JobInv
<1>6. CASE job.todo = <<"records">>
  <2>1. Head(job.todo) = "records" /\ Tail(job.todo) = <<>> /\ Len(job.todo) = 1
        /\ job.todo # <<"outbox", "records">>
    BY <1>6
  <2> QED
    BY <1>1, <1>2, <1>3, <1>4, <1>6, <2>1
<1>7. CASE job.todo = <<"outbox", "records">>
  <2>1. Head(job.todo) = "outbox" /\ Tail(job.todo) = <<"records">> /\ Len(job.todo) # 1
    BY <1>7
  <2> QED
    BY <1>1, <1>2, <1>3, <1>4, <1>7, <2>1
<1> QED
  BY <1>5, <1>6, <1>7

\* The record that is written next is good where it goes.
LEMMA NextRecordGood ==
    ASSUME SessionInv, ~overrun, job.todo = <<"records">>, job.records # <<>>
    PROVE  /\ GoodAt(Head(job.records), Len(RecLines)) /\ Head(job.records) = job.records[1]
           /\ Head(job.records).op \in Roots /\ Head(job.records).kind = "started" =>
                 Head(job.records).op = ops /\ Head(job.records).op \in mine
                 /\ (op = Head(job.records).op \/ phase = "closing")
<1> DEFINE e == Head(job.records)
           n == Len(RecLines)
<1>1. job.todo # <<>> /\ job.todo # <<"outbox", "records">>
  OBVIOUS
<1>2. Story /\ LinesGood
  BY <1>1, WritingNow
<1>3. n \in Nat
  BY LengthsFact DEF SessionInv
<1>4. e = job.records[1] /\ 1 \in DOMAIN job.records
  <2>1. IsSeq(job.records)
    BY DEF SessionInv, ControlInv
  <2> QED
    BY <2>1, TailAt, DomainFact
<1> HIDE DEF e
<1>5. e.seq = n + 1 /\ JobFrame(e) /\ Met(e)
  BY <1>1, <1>2, <1>4 DEF Story, LeaseInv, JobFits, Promised
<1>6. FitsAt(e, n)
  <2>1. \A k \in 1..n : RecLines[k].op \in Roots => RecLines[k].op <= ops
    BY <1>2 DEF LinesGood, GoodAt, FitsAt
  <2> QED
    BY <1>5, <2>1 DEF JobFrame, FitsAt
<1> QED
  BY <1>4, <1>5, <1>6 DEF GoodAt, JobFrame, e

\* Nothing is taken from the outbox, and no operation begins.
LEMMA KeptNow ==
    ASSUME SessionInv, UNCHANGED ops, synced'["outbox"] \in Nat,
           synced["outbox"] <= synced'["outbox"],
           \A j \in 1..synced["outbox"] : OutLines'[j] = OutLines[j]
    PROVE  Kept
  BY SessionConfigValid, LengthsFact DEF SessionInv, ControlInv, Kept, SessionConfig

\* The writer adds a record.
LEMMA WriteRecord ==
    ASSUME SessionInv, ~overrun, WriteFrame("records"), UNCHANGED <<serviceVars, opVars>>
    PROVE  Story'
<1>1. job.todo # <<>> /\ Head(job.todo) = "records" /\ job.records # <<>>
  BY DEF WriteFrame, Writing
<1>2. /\ Story /\ Live /\ ~failed /\ LinesGood /\ job.todo = <<"records">>
      /\ job.todo # <<"outbox", "records">> /\ job # NoJob
      /\ file["records"].tail = <<>> /\ file["outbox"].tail = <<>>
  BY <1>1, WritingNow
<1> DEFINE e == Head(job.records)
<1>3. PICK n \in Nat : n = Len(RecLines)
  BY LengthsFact DEF SessionInv
<1>4. /\ GoodAt(e, n) /\ e = job.records[1]
      /\ e.op \in Roots /\ e.kind = "started" =>
            e.op = ops /\ e.op \in mine /\ (op = e.op \/ phase = "closing")
  BY <1>1, <1>2, <1>3, NextRecordGood
<1>5. /\ file' = [file EXCEPT !["records"] =
                       [lines |-> Append(file["records"].lines, e), tail |-> <<>>]]
      /\ UNCHANGED <<synced, next_sequence, failed, phase, op, ops, mine>>
      /\ job' = [job EXCEPT !["records"] = Tail(job.records)]
  BY <1>2 DEF WriteFrame, AppendFrame, serviceVars, opVars
<1>6. /\ RecLines' = Append(RecLines, e) /\ OutLines' = OutLines
      /\ file'["records"].tail = <<>> /\ file'["outbox"].tail = <<>>
  BY <1>2, <1>5 DEF RecLines, OutLines, SessionInv, DurableInv, Files
<1>7. /\ job'.todo = job.todo /\ job'.op = job.op /\ job'.through = job.through
      /\ job'.outbox = job.outbox /\ job'.records = Tail(job.records) /\ job'.command = job.command
  BY <1>5 DEF SessionInv, DurableInv
<1> HIDE DEF e
<1>8. Kept
  <2>1. synced["outbox"] \in Nat
    BY LengthsFact DEF SessionInv
  <2> QED
    BY <1>5, <1>6, <2>1, KeptNow
<1>9. IsSeq(RecLines) /\ DOMAIN RecLines = 1..n
  BY <1>3, LengthsFact DEF SessionInv
<1>10. /\ Len(RecLines') = n + 1 /\ DOMAIN RecLines' = 1..(n + 1)
       /\ RecLines'[n + 1] = e /\ \A k \in 1..n : RecLines'[k] = RecLines[k]
       /\ \A i \in 1..(n + 1) : GoodAt(RecLines[i], i - 1)'
  BY <1>2, <1>3, <1>4, <1>6, <1>8, <1>9, LineGood
<1>11. RecordsGood'
  BY <1>6, <1>10 DEF RecordsGood
<1>12. \A q \in Roots : q <= ops /\ Below(q, n) => Below(q, n + 1)'
  <2> SUFFICES ASSUME NEW q \in Roots, q <= ops, Below(q, n), NEW k \in 1..(n + 1),
                      RecLines'[k].op \in Roots, RecLines'[k].op < q, RecLines'[k].kind = "started"
               PROVE  \E m \in 1..(n + 1) :
                         RecLines'[m].op = RecLines'[k].op /\ RecLines'[m].kind \in Ends
    BY DEF Below
  <2>1. k \in 1..n
    <3>1. CASE k = n + 1
      <4>1. RecLines'[k] = e /\ e.op = ops /\ e.op < q
        BY <1>4, <1>10, <3>1
      <4>2. q \in Nat /\ ops \in Nat
        BY SessionConfigValid DEF Roots, SessionInv, ControlInv, SessionConfig
      <4> QED
        BY <4>1, <4>2
    <3> QED
      BY <3>1
  <2>2. RecLines'[k] = RecLines[k]
    BY <1>10, <2>1
  <2>3. PICK m \in 1..n : RecLines[m].op = RecLines[k].op /\ RecLines[m].kind \in Ends
    BY <2>1, <2>2 DEF Below
  <2>4. m \in 1..(n + 1) /\ RecLines'[m] = RecLines[m]
    BY <1>10, <2>3
  <2> QED
    BY <2>2, <2>3, <2>4
<1>13. TailsGone' /\ NumbersFit'
  BY <1>2, <1>5, <1>6, <1>7 DEF TailsGone, NumbersFit
<1>14. OpFits'
  <2>1. op # 0 => op \in Roots /\ op <= ops /\ Below(op, n)
    BY <1>2, <1>3, SessionConfigValid
       DEF Story, LeaseInv, OpFits, SessionInv, ControlInv, Roots, SessionConfig
  <2> QED
    BY <1>5, <1>10, <1>12, <2>1 DEF OpFits
<1>15. /\ DOMAIN Tail(job.records) = 1..(Len(job.records) - 1)
       /\ DOMAIN job.records = 1..Len(job.records)
       /\ Len(Tail(job.records)) = Len(job.records) - 1 /\ Len(job.records) \in Nat \ {0}
       /\ \A i \in 1..(Len(job.records) - 1) : Tail(job.records)[i] = job.records[i + 1]
  <2>1. IsSeq(job.records)
    BY DEF SessionInv, ControlInv
  <2> QED
    BY <1>1, <2>1, TailAt, DomainFact
<1>16. JobFits'
  <2>1. /\ job.through = n + Len(job.records)
        /\ \A i \in 1..Len(job.records) :
              /\ job.records[i].seq = n + i
              /\ JobFrame(job.records[i]) /\ Promised(job.records[i])
    BY <1>1, <1>2, <1>3, <1>15 DEF Story, LeaseInv, JobFits
  <2>2. job'.through = (n + 1) + Len(Tail(job.records))
    BY <1>7, <1>15, <2>1
  <2>3. ASSUME NEW i \in 1..(Len(job.records) - 1), NEW x, x = job.records[i + 1]
        PROVE  x.seq = (n + 1) + i /\ JobFrame(x)' /\ Promised(x)'
    <3>1. i + 1 \in 1..Len(job.records)
      BY <1>15
    <3>2. x.seq = n + (i + 1) /\ JobFrame(x) /\ Promised(x)
      BY <2>1, <2>3, <3>1
    <3>3. x.seq = (n + 1) + i
      BY <3>2
    <3>4. Met(x)'
      <4>1. Met(x)
        BY <1>2, <3>2 DEF Promised
      <4> QED
        BY <1>8, <4>1, MetKept DEF Kept
    <3>5. JobFrame(x)'
      BY <1>3, <1>5, <1>7, <1>10, <1>12, <3>2 DEF JobFrame
    <3> QED
      BY <3>3, <3>4, <3>5 DEF Promised
  <2>4. \A i \in 1..(Len(job.records) - 1) :
           /\ (job'.records)[i].seq = (n + 1) + i
           /\ (JobFrame(job.records[i]) /\ Promised(job.records[i]))'
    <3> TAKE i \in 1..(Len(job.records) - 1)
    <3>1. PICK x : x = job.records[i + 1]
      OBVIOUS
    <3>2. (job'.records)[i] = x
      BY <1>7, <1>15, <3>1
    <3> QED
      BY <2>3, <3>1, <3>2
  <2> QED
    BY <1>1, <1>7, <1>10, <1>15, <2>2, <2>4 DEF JobFits
<1>17. \A o \in InDoubt(RecLines') : o \in InDoubt(RecLines) \/ (o = e.op /\ e.kind = "started")
  BY <1>6, <1>9, DoubtAppend
<1>18. \A o : /\ Has(RecLines, o, PendingKinds) => Has(RecLines', o, PendingKinds)
              /\ e.op = o /\ e.kind \in PendingKinds => Has(RecLines', o, PendingKinds)
  BY <1>6, <1>9, HasAppend
<1>19. \A o \in InDoubt(RecLines') : o \in Roots
  BY DEF InDoubt
<1>20. MarksFit'
  <2>1. ASSUME phase = "open", NEW o \in InDoubt(RecLines')
        PROVE  o \in mine \/ Has(RecLines', o, PendingKinds)
    BY <1>2, <1>4, <1>17, <1>18, <1>19, <2>1 DEF Story, LeaseInv, MarksFit
  <2>2. ASSUME phase = "startup", NEW o \in InDoubt(RecLines')
        PROVE  \/ Has(RecLines', o, PendingKinds)
               \/ \E i \in DOMAIN job'.records :
                     (job'.records)[i].op = o /\ (job'.records)[i].kind \in PendingKinds
    <3>1. o \in InDoubt(RecLines)
      <4>1. op = 0
        BY <2>2 DEF SessionInv, ControlInv
      <4>2. 0 \notin Roots
        BY DEF Roots
      <4> QED
        BY <1>4, <1>17, <1>19, <2>2, <4>1, <4>2
    <3>2. CASE Has(RecLines, o, PendingKinds)
      BY <1>18, <3>2
    <3>3. ASSUME NEW i \in DOMAIN job.records, job.records[i].op = o,
       job.records[i].kind \in PendingKinds
          PROVE  \/ Has(RecLines', o, PendingKinds)
                 \/ \E j \in DOMAIN job'.records :
                       (job'.records)[j].op = o /\ (job'.records)[j].kind \in PendingKinds
      <4>1. CASE i = 1
        BY <1>4, <1>18, <3>3, <4>1
      <4>2. CASE i # 1
        <5>1. i - 1 \in 1..(Len(job.records) - 1) /\ (i - 1) + 1 = i
          BY <1>15, <4>2
        <5>2. i - 1 \in DOMAIN job'.records /\ (job'.records)[i - 1] = job.records[i]
          BY <1>7, <1>15, <5>1
        <5> QED
          BY <3>3, <5>2
      <4> QED
        BY <4>1, <4>2
    <3> QED
      BY <1>2, <2>2, <3>1, <3>2, <3>3 DEF Story, LeaseInv, MarksFit
  <2> QED
    BY <1>5, <2>1, <2>2 DEF MarksFit
<1> QED
  BY <1>2, <1>5, <1>11, <1>13, <1>14, <1>16, <1>20 DEF Story, LeaseInv

\* The records stay good while they stay.
LEMMA RecordsStay ==
    ASSUME SessionInv, RecordsGood, Kept, file'["records"] = file["records"]
    PROVE  RecordsGood'
<1>1. RecLines' = RecLines
  BY DEF RecLines
<1>2. \A x, n : n \in Nat /\ GoodAt(x, n) => GoodAt(x, n)'
  BY <1>1, GoodKept
<1>3. DOMAIN RecLines = 1..Len(RecLines) /\ Len(RecLines) \in Nat
  BY LengthsFact DEF SessionInv
<1>4. \A i \in 1..Len(RecLines) : i - 1 \in Nat
  BY <1>3
<1> QED
  BY <1>1, <1>2, <1>3, <1>4 DEF RecordsGood

\* The writer adds an outbox record.
LEMMA WriteOutbox ==
    ASSUME SessionInv, ~overrun, WriteFrame("outbox"), UNCHANGED <<serviceVars, opVars>>
    PROVE  Story'
<1>1. job.todo # <<>> /\ Head(job.todo) = "outbox" /\ job.outbox # <<>>
  BY DEF WriteFrame, Writing
<1>2. /\ Story /\ Live /\ ~failed /\ job.todo = <<"outbox", "records">> /\ job # NoJob
      /\ file["records"].tail = <<>> /\ file["outbox"].tail = <<>>
  BY <1>1, WritingNow
<1> DEFINE e == Head(job.outbox)
<1>3. /\ file' = [file EXCEPT !["outbox"] =
                       [lines |-> Append(file["outbox"].lines, e), tail |-> <<>>]]
      /\ UNCHANGED <<synced, next_sequence, failed, phase, op, ops, mine>>
      /\ job' = [job EXCEPT !["outbox"] = Tail(job.outbox)]
  BY <1>2 DEF WriteFrame, AppendFrame, serviceVars, opVars
<1>4. /\ OutLines' = Append(OutLines, e) /\ RecLines' = RecLines
      /\ file'["records"] = file["records"] /\ file'["outbox"].tail = <<>>
  BY <1>3 DEF RecLines, OutLines, SessionInv, DurableInv, Files
<1>5. /\ job'.todo = job.todo /\ job'.op = job.op /\ job'.through = job.through
      /\ job'.records = job.records /\ job'.outbox = Tail(job.outbox) /\ job'.command = job.command
  BY <1>3 DEF SessionInv, DurableInv
<1>6. /\ IsSeq(OutLines) /\ DOMAIN OutLines = 1..Len(OutLines) /\ Len(OutLines) \in Nat
      /\ synced["outbox"] \in Nat /\ synced["outbox"] <= Len(OutLines)
  BY LengthsFact DEF SessionInv
<1>7. /\ DOMAIN OutLines' = 1..(Len(OutLines) + 1) /\ OutLines'[Len(OutLines) + 1] = e
      /\ \A j \in 1..Len(OutLines) : OutLines'[j] = OutLines[j]
  BY <1>4, <1>6, AppendAt
<1>8. Kept
  <2>1. \A j \in 1..synced["outbox"] : OutLines'[j] = OutLines[j]
    BY <1>6, <1>7
  <2> QED
    BY <1>3, <1>6, <2>1, KeptNow
<1>9. /\ DOMAIN Tail(job.outbox) = 1..(Len(job.outbox) - 1)
      /\ DOMAIN job.outbox = 1..Len(job.outbox)
      /\ Len(job.outbox) \in Nat \ {0} /\ e = job.outbox[1]
      /\ \A i \in 1..(Len(job.outbox) - 1) : Tail(job.outbox)[i] = job.outbox[i + 1]
  <2>1. IsSeq(job.outbox)
    BY DEF SessionInv, ControlInv
  <2> QED
    BY <1>1, <2>1, TailAt, DomainFact
<1> HIDE DEF e
<1>10. \A x : Promised(x) => Promised(x)'
  <2> SUFFICES ASSUME NEW x, Promised(x) PROVE Promised(x)'
    OBVIOUS
  <2>1. CASE Met(x)
    BY <1>8, <2>1, MetKept DEF Kept, Promised
  <2>2. ASSUME NEW i \in DOMAIN job.outbox, Answers(job.outbox[i], x) PROVE Promised(x)'
    <3>1. CASE i = 1
      <4>1. Len(OutLines) + 1 \in DOMAIN OutLines' /\ Answers(OutLines'[Len(OutLines) + 1], x)
        BY <1>6, <1>7, <1>9, <2>2, <3>1
      <4> QED
        BY <1>2, <1>5, <4>1 DEF Promised, Answers
    <3>2. CASE i # 1
      <4>1. i - 1 \in 1..(Len(job.outbox) - 1) /\ (i - 1) + 1 = i
        BY <1>9, <3>2
      <4>2. i - 1 \in DOMAIN job'.outbox /\ Answers((job'.outbox)[i - 1], x)
        BY <1>5, <1>9, <2>2, <4>1
      <4> QED
        BY <1>2, <1>5, <4>2 DEF Promised, Answers
    <3> QED
      BY <3>1, <3>2
  <2>3. ASSUME NEW j \in DOMAIN OutLines, Answers(OutLines[j], x) PROVE Promised(x)'
    <3>1. j \in DOMAIN OutLines' /\ Answers(OutLines'[j], x)
      BY <1>6, <1>7, <2>3
    <3> QED
      BY <1>2, <1>5, <3>1 DEF Promised, Answers
  <2> QED
    BY <2>1, <2>2, <2>3 DEF Promised
<1>11. \A x, n : (Below(x, n) <=> Below(x, n)')
  BY <1>4 DEF Below
<1>12. \A x : JobFrame(x) => JobFrame(x)'
  BY <1>3, <1>4, <1>5, <1>11 DEF JobFrame
<1>13. RecordsGood'
  BY <1>2, <1>4, <1>8, RecordsStay DEF Story
<1>14. TailsGone' /\ NumbersFit' /\ OpFits'
  BY <1>1, <1>2, <1>3, <1>4, <1>5, <1>11 DEF Story, LeaseInv, TailsGone, NumbersFit, OpFits
<1>15. JobFits'
  BY <1>1, <1>2, <1>4, <1>5, <1>10, <1>12 DEF Story, LeaseInv, JobFits
<1>16. MarksFit'
  BY <1>2, <1>3, <1>4, <1>5 DEF Story, LeaseInv, MarksFit
<1> QED
  BY <1>2, <1>3, <1>13, <1>14, <1>15, <1>16 DEF Story, LeaseInv

\* A file is synced: behind the outbox the promises are kept, behind the
\* records the lease advances.
LEMMA SyncStory ==
    ASSUME SessionInv, ~overrun, NEW f \in Files, SyncFile(f), UNCHANGED <<serviceVars, opVars>>
    PROVE  Story'
<1>1. job.todo # <<>> /\ Head(job.todo) = f /\ job[f] = <<>>
  BY DEF SyncFile, Writing
<1>2. Story /\ Live /\ ~failed /\ job # NoJob
  BY <1>1, WritingNow
<1>3. /\ UNCHANGED <<file, failed, phase, op, ops, mine>>
      /\ RecLines' = RecLines /\ OutLines' = OutLines
      /\ job'.todo = Tail(job.todo) /\ job'.op = job.op /\ job'.through = job.through
      /\ job'.records = job.records /\ job'.outbox = job.outbox /\ job'.command = job.command
      /\ next_sequence' = (IF Len(job.todo) = 1 THEN job.through + 1 ELSE next_sequence)
      /\ synced'["outbox"] = (IF f = "outbox" THEN Len(OutLines) ELSE synced["outbox"])
  BY DEF SyncFile, serviceVars, opVars, SessionInv, DurableInv, RecLines, OutLines, Files
<1>4. /\ DOMAIN OutLines = 1..Len(OutLines) /\ Len(OutLines) \in Nat /\ synced["outbox"] \in Nat
      /\ synced["outbox"] <= Len(OutLines) /\ DOMAIN RecLines = 1..Len(RecLines)
      /\ Len(RecLines) \in Nat
  BY LengthsFact DEF SessionInv
<1>5. Kept
  BY <1>3, <1>4, KeptNow
<1>6. \A x, n : (Below(x, n) <=> Below(x, n)')
  BY <1>3 DEF Below
<1>7. \A x : JobFrame(x) => JobFrame(x)'
  BY <1>3, <1>6 DEF JobFrame
<1>8. RecordsGood'
  BY <1>2, <1>3, <1>5, RecordsStay DEF Story
<1>9. TailsGone' /\ OpFits'
  BY <1>2, <1>3, <1>6 DEF Story, LeaseInv, TailsGone, OpFits, Fresh, Live
<1>10. MarksFit'
  <2>1. job' # NoJob \/ phase # "startup" \/ job.command = "startup"
    BY <1>2 DEF SessionInv, ControlInv
  <2> QED
    BY <1>2, <1>3, <2>1 DEF Story, LeaseInv, MarksFit
<1>11. CASE job.todo = <<"records">>
  <2>1. f = "records" /\ job'.todo = <<>> /\ Len(job.todo) = 1
    BY <1>1, <1>3, <1>11
  <2>2. job.records = <<>> /\ Len(job.records) = 0
    BY <1>1, <2>1
  <2>3. next_sequence' = Len(RecLines) + 1
    BY <1>1, <1>2, <1>3, <1>4, <2>1, <2>2 DEF Story, LeaseInv, JobFits
  <2>4. NumbersFit' /\ JobFits'
    BY <1>3, <2>1, <2>2, <2>3 DEF NumbersFit, JobFits
  <2> QED
    BY <1>2, <1>3, <1>8, <1>9, <1>10, <2>4 DEF Story, LeaseInv
<1>12. CASE job.todo = <<"outbox", "records">>
  <2>1. f = "outbox" /\ job'.todo = <<"records">> /\ job'.todo # <<>>
    BY <1>1, <1>3, <1>12
  <2>2. job.outbox = <<>> /\ DOMAIN job.outbox = {}
    BY <1>1, <2>1
  <2>3. \A x : Promised(x) => Promised(x)'
    <3> SUFFICES ASSUME NEW x, Promised(x) PROVE Met(x)'
      BY DEF Promised
    <3>1. CASE Met(x)
      BY <1>5, <3>1, MetKept DEF Kept
    <3>2. ASSUME NEW j \in DOMAIN OutLines, Answers(OutLines[j], x) PROVE Met(x)'
      <4>1. j \in 1..synced'["outbox"]
        BY <1>3, <1>4, <2>1
      <4> QED
        BY <1>3, <3>2, <4>1 DEF Met, Answers
    <3> QED
      BY <2>2, <3>1, <3>2 DEF Promised
  <2>4. NumbersFit' /\ JobFits'
    BY <1>1, <1>2, <1>3, <1>7, <2>1, <2>3 DEF Story, LeaseInv, NumbersFit, JobFits
  <2> QED
    BY <1>2, <1>3, <1>8, <1>9, <1>10, <2>4 DEF Story, LeaseInv
<1> QED
  BY <1>1, <1>11, <1>12, WritingNow

\* Without a service that uses them only the files matter.
LEMMA RestStory ==
    ASSUME RecordsGood', TailsGone', ControlInv', job' = NoJob,
           phase' \notin {"startup", "open", "closing"}
    PROVE  Story'
<1>1. ~Fresh' /\ NumbersFit' /\ MarksFit' /\ JobFits'
  BY NoJobAt DEF Fresh, Live, NumbersFit, MarksFit, JobFits
<1>2. OpFits'
  BY DEF OpFits, ControlInv
<1> QED
  BY <1>1, <1>2 DEF Story, LeaseInv

\* The writer is done with its command.
LEMMA DoneStory ==
    ASSUME SessionInv, ~overrun, job # NoJob, job.todo = <<>>, job' = NoJob,
           UNCHANGED <<file, synced, next_sequence, failed, ops, mine>>, op' \in {0, op},
           \/ phase' = phase /\ phase # "startup"
           \/ phase' = "closing"
           \/ phase = "startup" /\ phase' = "open"
    PROVE  Story'
<1>1. Story /\ Live /\ ~failed
  BY DEF SessionInv, ControlInv, Story, LeaseInv
<1>2. RecLines' = RecLines
  BY DEF RecLines
<1>3. RecordsGood'
  <2>1. OutLines' = OutLines /\ synced["outbox"] \in Nat
    BY LengthsFact DEF SessionInv, OutLines
  <2>2. Kept
    BY <2>1, KeptNow
  <2> QED
    BY <1>1, <2>2, RecordsStay DEF Story
<1>4. TailsGone' /\ NumbersFit' /\ JobFits'
  BY <1>1, <1>2, NoJobAt DEF Story, LeaseInv, TailsGone, NumbersFit, JobFits, Fresh, Live
<1>5. OpFits'
  BY <1>1, <1>2 DEF Story, LeaseInv, OpFits, Below
<1>6. MarksFit'
  <2>1. phase' = "open" /\ phase # "open" => phase = "startup"
    OBVIOUS
  <2>2. job.records = <<>> /\ DOMAIN job.records = {}
    BY <1>1 DEF Story, LeaseInv, JobFits
  <2>3. phase' # "startup"
    BY DEF Live
  <2> QED
    BY <1>1, <1>2, <2>1, <2>2, <2>3 DEF Story, LeaseInv, MarksFit
<1> QED
  BY <1>3, <1>4, <1>5, <1>6 DEF Story, LeaseInv

\* The bytes that a stopped append leaves.
LEMMA LeftFact ==
    ASSUME DurableInv, NEW f \in Files, NEW left \in Interrupted(f)
    PROVE  /\ left.lines = file[f].lines
           /\ \/ left.tail = file[f].tail \/ left.tail = <<Torn>>
              \/ job[f] # <<>> /\ left.tail = <<Head(job[f])>>
<1>1. file[f] = [lines |-> file[f].lines, tail |-> file[f].tail]
  BY DEF DurableInv, FileInv
<1>2. left = file[f] \/ left = [file[f] EXCEPT !.tail = <<Torn>>]
      \/ (job[f] # <<>> /\ left = [file[f] EXCEPT !.tail = <<Head(job[f])>>])
  BY DEF Interrupted, PartialFrame
<1> QED
  BY <1>1, <1>2

\* What an append leaves that does not finish: the frame without its newline,
\* torn bytes or nothing.
LEMMA InterruptedRecords ==
    ASSUME SessionInv, ~overrun, job.todo # <<>>, NEW left \in Interrupted(Head(job.todo)),
           file' = [file EXCEPT ![Head(job.todo)] = left], UNCHANGED <<synced, ops>>
    PROVE  RecordsGood' /\ RecLines' = RecLines
<1>1. /\ Story /\ LinesGood /\ file["records"].tail = <<>> /\ file["outbox"].tail = <<>>
      /\ \/ job.todo = <<"records">> /\ Head(job.todo) = "records"
         \/ job.todo = <<"outbox", "records">> /\ Head(job.todo) = "outbox"
  BY WritingNow
<1>2. left.lines = file[Head(job.todo)].lines
  BY <1>1, LeftFact DEF SessionInv, Files
<1>3. RecLines' = RecLines /\ OutLines' = OutLines
  BY <1>1, <1>2 DEF RecLines, OutLines, SessionInv, DurableInv, Files
<1>4. Kept
  <2>1. synced["outbox"] \in Nat
    BY LengthsFact DEF SessionInv
  <2> QED
    BY <1>3, <2>1, KeptNow
<1>5. CASE Head(job.todo) = "outbox"
  <2>1. file'["records"] = file["records"]
    BY <1>5 DEF SessionInv, DurableInv, Files
  <2> QED
    BY <1>1, <1>3, <1>4, <2>1, RecordsStay DEF Story
<1>6. CASE Head(job.todo) = "records"
  <2>1. PICK n \in Nat : n = Len(RecLines)
    BY LengthsFact DEF SessionInv
  <2>2. \A i \in DOMAIN RecLines : GoodAt(RecLines[i], i - 1)'
    <3>1. n \in 0..Len(RecLines) /\ DOMAIN RecLines = 1..n
      BY <2>1, LengthsFact DEF SessionInv
    <3> QED
      BY <1>1, <1>3, <1>4, <2>1, <3>1, PrefixGood
  <2>3. file'["records"].tail = left.tail
    BY <1>6 DEF SessionInv, DurableInv, Files
  <2>4. \/ left.tail = <<>> \/ left.tail = <<Torn>>
        \/ job.records # <<>> /\ left.tail = <<Head(job.records)>>
    <3>1. job["records"] = job.records
      OBVIOUS
    <3> QED
      BY <1>1, <1>6, <3>1, LeftFact DEF SessionInv, Files
  <2>5. CASE left.tail = <<>>
    BY <1>3, <2>2, <2>3, <2>5 DEF RecordsGood
  <2>6. CASE left.tail = <<Torn>>
    <3>1. Head(left.tail) = Torn /\ ~Decodes(Torn)
      BY <2>6 DEF Torn, Decodes
    <3> QED
      BY <1>3, <2>2, <2>3, <3>1 DEF RecordsGood, Decodes
  <2>7. CASE job.records # <<>> /\ left.tail = <<Head(job.records)>>
    <3>1. PICK e : e = Head(job.records)
      OBVIOUS
    <3>2. GoodAt(e, n)
      BY <1>1, <1>6, <2>1, <2>7, <3>1, NextRecordGood
    <3>3. GoodAt(e, n)'
      BY <1>3, <1>4, <3>2, GoodKept
    <3>4. Head(left.tail) = e
      BY <2>7, <3>1
    <3> QED
      BY <1>3, <2>1, <2>2, <2>3, <3>3, <3>4 DEF RecordsGood
  <2> QED
    BY <2>4, <2>5, <2>6, <2>7
<1> QED
  BY <1>1, <1>3, <1>5, <1>6

\* An append returns an error.
LEMMA AppendErrorStory ==
    ASSUME SessionInv, ~overrun, AppendError
    PROVE  Story'
<1>1. PICK f \in Files : AppendFails(f)
  BY DEF AppendError
<1>2. /\ job.todo # <<>> /\ Head(job.todo) = f /\ job' = NoJob /\ failed' = TRUE
      /\ UNCHANGED <<synced, next_sequence, ops, mine>>
  BY <1>1 DEF AppendFails, Writing, AppendError
<1>3. PICK left \in Interrupted(f) : file' = [file EXCEPT ![f] = left]
  BY <1>1 DEF AppendFails
<1>4. Story /\ Live /\ job # NoJob
  BY <1>2, WritingNow
<1>5. RecordsGood' /\ RecLines' = RecLines
  BY <1>2, <1>3, InterruptedRecords
<1>6. phase' = (IF job.command = "startup" THEN "closing" ELSE phase)
  BY DEF AppendError, Rejected
<1>7. TailsGone' /\ NumbersFit' /\ JobFits' /\ OpFits'
  BY <1>2, <1>4, <1>6, NoJobAt DEF TailsGone, NumbersFit, JobFits, OpFits, Fresh, Live
<1>8. MarksFit'
  BY <1>2, <1>4, <1>5, <1>6, NoJobAt DEF Story, LeaseInv, MarksFit
<1> QED
  BY <1>2, <1>5, <1>7, <1>8 DEF Story, LeaseInv

\* The process ends.
LEMMA CrashStory ==
    ASSUME SessionInv, ~overrun, Crash, ControlInv'
    PROVE  Story'
<1>1. /\ job' = NoJob /\ UNCHANGED <<synced, ops>> /\ phase' = "closed"
  BY DEF Crash, Die
<1>2. RecordsGood'
  <2>1. CASE job.todo = <<>>
    <3>1. file' = file
      BY <2>1 DEF Crash, Die
    <3>2. Kept
      <4>1. OutLines' = OutLines /\ synced["outbox"] \in Nat
        BY <3>1, LengthsFact DEF SessionInv, OutLines
      <4> QED
        BY <1>1, <4>1, KeptNow
    <3> QED
      BY <3>1, <3>2, RecordsStay DEF SessionInv
  <2>2. CASE job.todo # <<>>
    <3>1. PICK left \in Interrupted(Head(job.todo)) : file' = [file EXCEPT ![Head(job.todo)] = left]
      BY <2>2 DEF Crash, Die
    <3> QED
      BY <1>1, <2>2, <3>1, InterruptedRecords
  <2> QED
    BY <2>1, <2>2
<1>3. TailsGone'
  BY <1>1 DEF TailsGone, Fresh, Live
<1> QED
  BY <1>1, <1>2, <1>3, RestStory

-----------------------------------------------------------------------------
(* Opening, closing, and the machine going down. *)

\* The tail of the records is repaired: a whole frame becomes a line.
LEMMA RepairRecordsStory ==
    ASSUME SessionInv, ~overrun, RepairRecords, ControlInv'
    PROVE  Story'
<1>1. /\ phase = "records" /\ phase' = "outbox" /\ UNCHANGED <<job, ops>> /\ job = NoJob
      /\ file' = [file EXCEPT !["records"] = RepairTail(file["records"])]
  BY DEF RepairRecords, Repair, opVars, SessionInv, ControlInv, Live
<1>2. /\ file'["records"] = RepairTail(file["records"]) /\ file'["outbox"] = file["outbox"]
      /\ synced'["outbox"] = synced["outbox"]
  BY DEF RepairRecords, Repair, SessionInv, DurableInv, Files
<1>3. RecordsGood /\ LinesGood
  BY LengthsFact DEF SessionInv, RecordsGood, LinesGood
<1>4. PICK n \in Nat : n = Len(RecLines)
  BY LengthsFact DEF SessionInv
<1>5. IsSeq(RecLines) /\ DOMAIN RecLines = 1..n /\ synced["outbox"] \in Nat
  BY <1>4, LengthsFact DEF SessionInv
<1>6. OutLines' = OutLines /\ Kept
  <2>1. OutLines' = OutLines
    BY <1>2 DEF OutLines
  <2> QED
    BY <1>1, <1>2, <1>5, <2>1, KeptNow
<1>7. file'["records"].tail = <<>>
  BY <1>2 DEF RepairTail
<1>8. FileInv("records")
  BY DEF SessionInv, DurableInv, Files
<1>9. RecordsGood'
  <2>1. CASE file["records"].tail = <<>> \/ ~Decodes(Head(file["records"].tail))
    <3>1. RecLines' = RecLines
      <4>1. CASE file["records"].tail = <<>>
        BY <1>2, <1>5, <4>1, LengthFact DEF RepairTail, RecLines
      <4>2. CASE file["records"].tail # <<>> /\ ~Decodes(Head(file["records"].tail))
        BY <1>2, <4>2 DEF RepairTail, RecLines
      <4> QED
        BY <2>1, <4>1, <4>2
    <3>2. n \in 0..Len(RecLines)
      BY <1>4
    <3>3. \A i \in 1..n : GoodAt(RecLines[i], i - 1)'
      BY <1>3, <1>4, <1>6, <3>1, <3>2, PrefixGood
    <3> QED
      BY <1>5, <1>7, <3>1, <3>3 DEF RecordsGood
  <2>2. CASE file["records"].tail # <<>> /\ Decodes(Head(file["records"].tail))
    <3>1. PICK e : file["records"].tail = <<e>>
      BY <1>8, <2>2 DEF FileInv
    <3>2. GoodAt(e, n)
      BY <1>3, <1>4, <2>2, <3>1 DEF RecordsGood
    <3>3. RecLines' = RecLines \o <<e>>
      BY <1>2, <2>2, <3>1 DEF RepairTail, RecLines
    <3>4. RecLines' = Append(RecLines, e)
      <4>1. PICK S : RecLines \in Seq(S)
        BY <1>5 DEF IsSeq
      <4>2. RecLines \in Seq(S \union {e})
        BY <4>1
      <4> QED
        BY <3>3, <4>2
    <3>5. /\ DOMAIN RecLines' = 1..(n + 1)
          /\ \A i \in 1..(n + 1) : GoodAt(RecLines[i], i - 1)'
      BY <1>3, <1>4, <1>5, <1>6, <3>2, <3>4, LineGood
    <3> QED
      BY <1>7, <3>5 DEF RecordsGood
  <2> QED
    BY <2>1, <2>2
<1>10. TailsGone'
  BY <1>1, <1>7 DEF TailsGone, Fresh, Live
<1> QED
  BY <1>1, <1>9, <1>10, RestStory

\* The tail of the outbox is repaired.
LEMMA RepairOutboxStory ==
    ASSUME SessionInv, ~overrun, RepairOutbox, ControlInv'
    PROVE  Story'
<1>1. /\ phase = "outbox" /\ phase' \in {"closed", "scan"} /\ UNCHANGED <<job, ops>> /\ job = NoJob
      /\ file' = [file EXCEPT !["outbox"] = RepairTail(file["outbox"])]
  BY DEF RepairOutbox, Repair, opVars, SessionInv, ControlInv, Live
<1>2. /\ file'["outbox"] = RepairTail(file["outbox"]) /\ file'["records"] = file["records"]
      /\ synced' = (IF file["outbox"].tail = <<>> THEN synced
                    ELSE [synced EXCEPT !["outbox"] = Len(file'["outbox"].lines)])
  BY DEF RepairOutbox, Repair, SessionInv, DurableInv, Files
<1>3. RecordsGood /\ TailsGone
  BY DEF SessionInv, LeaseInv
<1>4. file'["outbox"].tail = <<>> /\ file'["records"].tail = <<>>
  BY <1>1, <1>2, <1>3 DEF RepairTail, TailsGone
<1>5. /\ IsSeq(OutLines) /\ Len(OutLines) \in Nat /\ synced["outbox"] \in Nat
      /\ synced["outbox"] <= Len(OutLines) /\ FileInv("outbox")
  BY LengthsFact DEF SessionInv, DurableInv, Files
<1>6. Kept
  <2>1. CASE file["outbox"].tail = <<>>
    <3>1. OutLines' = OutLines /\ synced' = synced
      BY <1>2, <1>5, <2>1, LengthFact DEF RepairTail, OutLines
    <3> QED
      BY <1>1, <1>5, <3>1, KeptNow
  <2>2. CASE file["outbox"].tail # <<>>
    <3>1. PICK e : file["outbox"].tail = <<e>>
      BY <1>5, <2>2 DEF FileInv
    <3>2. OutLines' = OutLines \/ OutLines' = OutLines \o <<e>>
      BY <1>2, <2>2, <3>1 DEF RepairTail, OutLines
    <3>3. IsSeq(<<e>>) /\ Len(<<e>>) = 1
      BY KindsFact
    <3>4. /\ Len(OutLines') \in Nat /\ Len(OutLines) <= Len(OutLines')
          /\ \A j \in 1..Len(OutLines) : OutLines'[j] = OutLines[j]
      BY <1>5, <3>2, <3>3, ConcatAt
    <3>5. synced'["outbox"] = Len(OutLines')
      BY <1>2, <2>2 DEF SessionInv, DurableInv, Files, OutLines
    <3>6. \A j \in 1..synced["outbox"] : OutLines'[j] = OutLines[j]
      BY <1>5, <3>4
    <3>7. synced'["outbox"] \in Nat /\ synced["outbox"] <= synced'["outbox"]
      BY <1>5, <3>4, <3>5
    <3> QED
      BY <1>1, <3>6, <3>7, KeptNow
  <2> QED
    BY <2>1, <2>2
<1>7. RecordsGood'
  BY <1>2, <1>3, <1>6, RecordsStay
<1>8. TailsGone'
  BY <1>4 DEF TailsGone
<1> QED
  BY <1>1, <1>7, <1>8, RestStory

\* A power failure leaves a prefix of the records and at most the next one
\* without its newline.
LEMMA PowerStory ==
    ASSUME SessionInv, ~overrun, PowerFailure, ControlInv'
    PROVE  Story'
<1>1. /\ phase = "closed" /\ phase' = "closed" /\ UNCHANGED <<job, ops>> /\ job = NoJob
      /\ synced' = [f \in Files |-> Len(file'[f].lines)]
  BY DEF PowerFailure, LosePower, serviceVars, opVars, SessionInv, ControlInv, Live
<1>2. PICK r \in Survivors("records"), b \in Survivors("outbox") :
         file' = [records |-> r, outbox |-> b]
  BY DEF PowerFailure, LosePower
<1>3. RecLines' = r.lines /\ OutLines' = b.lines /\ file'["records"] = r
      /\ synced'["outbox"] = Len(OutLines')
  BY <1>1, <1>2 DEF RecLines, OutLines, Files
<1>4. /\ IsSeq(RecLines) /\ IsSeq(OutLines) /\ Len(RecLines) \in Nat /\ Len(OutLines) \in Nat
      /\ synced["outbox"] \in Nat /\ synced["outbox"] <= Len(OutLines)
      /\ synced["records"] \in Nat /\ synced["records"] <= Len(RecLines)
      /\ DOMAIN RecLines = 1..Len(RecLines)
  BY LengthsFact DEF SessionInv
<1>5. Kept
  <2>1. PICK m \in synced["outbox"]..Len(OutLines) : b.lines = SubSeq(OutLines, 1, m)
    BY SurvivorFact DEF SessionInv, Files, OutLines
  <2>2. m \in 0..Len(OutLines)
    BY <1>4, <2>1
  <2>3. Len(OutLines') = m /\ \A j \in 1..m : OutLines'[j] = OutLines[j]
    BY <1>3, <1>4, <2>1, <2>2, PrefixFact, PrefixAt
  <2>4. synced'["outbox"] \in Nat /\ synced["outbox"] <= synced'["outbox"]
        /\ \A j \in 1..synced["outbox"] : OutLines'[j] = OutLines[j]
    BY <1>3, <1>4, <2>1, <2>3
  <2> QED
    BY <1>1, <2>4, KeptNow
<1>6. RecordsGood /\ LinesGood
  BY <1>4 DEF SessionInv, RecordsGood, LinesGood
<1>7. ASSUME NEW n \in 0..Len(RecLines), r.lines = SubSeq(RecLines, 1, n)
      PROVE  /\ DOMAIN RecLines' = 1..n /\ Len(RecLines') = n
             /\ \A i \in 1..n : GoodAt(RecLines[i], i - 1)'
             /\ \A k \in 1..n : RecLines'[k] = RecLines[k]
  <2>1. DOMAIN RecLines' = 1..n /\ Len(RecLines') = n /\ \A k \in 1..n : RecLines'[k] = RecLines[k]
    BY <1>3, <1>4, <1>7, PrefixAt, PrefixFact
  <2> QED
    BY <1>4, <1>5, <1>6, <2>1, PrefixGood
<1>8. ~Decodes(Torn) /\ Head(<<Torn>>) = Torn /\ ~Decodes(Head(<<Torn>>))
  BY DEF Torn, Decodes
<1>9. CASE \E n \in synced["records"]..Len(RecLines) :
              r = [lines |-> SubSeq(RecLines, 1, n), tail |-> <<>>]
  <2>1. PICK n \in synced["records"]..Len(RecLines) :
              r = [lines |-> SubSeq(RecLines, 1, n), tail |-> <<>>]
    BY <1>9
  <2>2. n \in 0..Len(RecLines) /\ r.lines = SubSeq(RecLines, 1, n) /\ file'["records"].tail = <<>>
    BY <1>3, <1>4, <2>1
  <2>3. RecordsGood'
    BY <1>7, <2>2 DEF RecordsGood
  <2> QED
    BY <1>1, <2>3, RestStory DEF TailsGone, Fresh, Live
<1>10. CASE \E n \in synced["records"]..(Len(RecLines) - 1) :
              r = [lines |-> SubSeq(RecLines, 1, n), tail |-> <<Torn>>]
  <2>1. PICK n \in synced["records"]..(Len(RecLines) - 1) :
              r = [lines |-> SubSeq(RecLines, 1, n), tail |-> <<Torn>>]
    BY <1>10
  <2>2. n \in 0..Len(RecLines) /\ r.lines = SubSeq(RecLines, 1, n)
        /\ file'["records"].tail = <<Torn>>
    BY <1>3, <1>4, <2>1
  <2>3. ~Decodes(Head(file["records"].tail))'
    BY <1>8, <2>2 DEF Decodes
  <2>4. RecordsGood'
    BY <1>7, <2>2, <2>3 DEF RecordsGood
  <2> QED
    BY <1>1, <2>4, RestStory DEF TailsGone, Fresh, Live
<1>11. CASE \E n \in synced["records"]..(Len(RecLines) - 1) :
              r = [lines |-> SubSeq(RecLines, 1, n), tail |-> <<RecLines[n + 1]>>]
  <2>1. PICK n \in synced["records"]..(Len(RecLines) - 1) :
              r = [lines |-> SubSeq(RecLines, 1, n), tail |-> <<RecLines[n + 1]>>]
    BY <1>11
  <2>2. PICK e : e = RecLines[n + 1]
    OBVIOUS
  <2>3. n \in 0..Len(RecLines) /\ r.lines = SubSeq(RecLines, 1, n)
        /\ file'["records"].tail = <<e>> /\ n + 1 \in 1..Len(RecLines) /\ (n + 1) - 1 = n
    BY <1>3, <1>4, <2>1, <2>2
  <2>4. GoodAt(e, n)
    BY <1>6, <2>2, <2>3 DEF LinesGood
  <2>5. GoodAt(e, n)'
    BY <1>5, <1>7, <2>3, <2>4, GoodKept
  <2>6. Head(file'["records"].tail) = e
    BY <2>3
  <2>7. GoodAt(Head(file["records"].tail), Len(RecLines))'
    BY <1>7, <2>3, <2>5, <2>6
  <2>8. RecordsGood'
    BY <1>7, <2>3, <2>7 DEF RecordsGood
  <2> QED
    BY <1>1, <2>8, RestStory DEF TailsGone, Fresh, Live
<1>12. CASE r = file["records"] \/ r = [file["records"] EXCEPT !.tail = <<Torn>>]
  <2>1. file["records"] = [lines |-> file["records"].lines, tail |-> file["records"].tail]
    BY DEF SessionInv, DurableInv, Files, FileInv
  <2>2. /\ RecLines' = RecLines
        /\ file'["records"] = file["records"] \/ file'["records"].tail = <<Torn>>
    BY <1>3, <1>12, <2>1 DEF RecLines
  <2>3. CASE file'["records"] = file["records"]
    <3>1. RecordsGood'
      BY <1>5, <1>6, <2>3, RecordsStay
    <3> QED
      BY <1>1, <3>1, RestStory DEF TailsGone, Fresh, Live
  <2>4. CASE file'["records"].tail = <<Torn>>
    <3>1. PICK n \in Nat : n = Len(RecLines)
      BY <1>4
    <3>2. n \in 0..Len(RecLines)
      BY <3>1
    <3>3. \A i \in 1..n : GoodAt(RecLines[i], i - 1)'
      BY <1>4, <1>5, <1>6, <2>2, <3>1, <3>2, PrefixGood
    <3>4. ~Decodes(Head(file["records"].tail))'
      BY <1>8, <2>4 DEF Decodes
    <3>5. RecordsGood'
      BY <1>4, <2>2, <3>1, <3>3, <3>4 DEF RecordsGood
    <3> QED
      BY <1>1, <3>5, RestStory DEF TailsGone, Fresh, Live
  <2> QED
    BY <2>2, <2>3, <2>4
<1> QED
  BY <1>9, <1>10, <1>11, <1>12 DEF Survivors, RecLines

\* The lease is granted behind the last record.
LEMMA ScanStory ==
    ASSUME SessionInv, ~overrun, ScanLogs
    PROVE  Story'
<1>1. /\ phase = "scan" /\ phase' = "startup" /\ failed' = FALSE /\ job = NoJob
      /\ UNCHANGED <<file, synced, job, op, ops>> /\ next_sequence' = Len(VisitLines("records")) + 1
  BY DEF ScanLogs, GrantLease, NextSessionSequence, SessionInv, ControlInv, Live
<1>2. /\ RecordsGood /\ file["records"].tail = <<>> /\ file["outbox"].tail = <<>> /\ op = 0
  BY <1>1 DEF SessionInv, LeaseInv, TailsGone, ControlInv
<1>3. VisitLines("records") = RecLines
  BY <1>2, LengthsFact, LengthFact DEF SessionInv, VisitLines, RecLines
<1>4. Kept
  <2>1. OutLines' = OutLines /\ synced["outbox"] \in Nat
    BY <1>1, LengthsFact DEF SessionInv, OutLines
  <2> QED
    BY <1>1, <2>1, KeptNow
<1>5. RecordsGood'
  BY <1>1, <1>2, <1>4, RecordsStay
<1>6. TailsGone' /\ NumbersFit' /\ JobFits' /\ OpFits' /\ MarksFit'
  BY <1>1, <1>2, <1>3, NoJobAt DEF TailsGone, NumbersFit, JobFits, OpFits, MarksFit, RecLines
<1> QED
  BY <1>1, <1>5, <1>6 DEF Story, LeaseInv

\* An operation begins behind operations that have ended.
LEMMA BeginStory ==
    ASSUME SessionInv, ~overrun, Begin
    PROVE  Story'
<1>1. /\ phase = "open" /\ op = 0 /\ ops' = ops + 1 /\ op' = ops + 1
      /\ mine' = mine \union {ops + 1}
      /\ UNCHANGED <<file, synced, next_sequence, failed, job, phase>>
      /\ InDoubt(VisitLines("records")) = {}
  BY DEF Begin, EnsureWriteAdmission, journalVars, serviceVars
<1>2. Story /\ ops \in Nat
  BY SessionConfigValid DEF SessionInv, Story, ControlInv, SessionConfig
<1>3. RecLines' = RecLines /\ OutLines' = OutLines
  BY <1>1 DEF RecLines, OutLines
<1>4. /\ synced["outbox"] \in Nat /\ DOMAIN RecLines = 1..Len(RecLines)
  BY LengthsFact DEF SessionInv
<1>5. Kept
  BY <1>1, <1>2, <1>3, <1>4 DEF Kept
<1>6. RecordsGood'
  BY <1>1, <1>2, <1>5, RecordsStay DEF Story
<1>7. \A q, n : Below(q, n) <=> Below(q, n)'
  BY <1>3 DEF Below
<1>8. TailsGone' /\ NumbersFit' /\ MarksFit'
  BY <1>1, <1>2, <1>3 DEF Story, LeaseInv, TailsGone, NumbersFit, MarksFit, Fresh, Live
<1>9. OpFits'
  <2> SUFFICES ASSUME ~failed PROVE Below(ops + 1, Len(RecLines))
    BY <1>1, <1>3, <1>7 DEF OpFits
  <2>1. InDoubt(RecLines) = {}
    BY <1>1, <1>2, VisitNow
  <2> SUFFICES ASSUME NEW k \in 1..Len(RecLines), RecLines[k].op \in Roots,
                      RecLines[k].kind = "started"
               PROVE  \E m \in 1..Len(RecLines) :
                         RecLines[m].op = RecLines[k].op /\ RecLines[m].kind \in Ends
    BY DEF Below
  <2> DEFINE branch == {RecLines[i] : i \in {j \in DOMAIN RecLines : OnBranch(RecLines[j])}}
  <2>2. RecLines[k] \in branch
    BY <1>4 DEF OnBranch
  <2>3. \A x \in branch : \E m \in 1..Len(RecLines) : x = RecLines[m]
    BY <1>4
  <2>4. RecLines[k].op \notin InDoubt(RecLines)
    BY <2>1
  <2>5. RecLines[k].op \in InDoubt(RecLines) <=>
           /\ RecLines[k].op \in Roots
           /\ \E x \in branch : x.op = RecLines[k].op /\ x.kind \in {"started"}
           /\ ~(\E x \in branch : x.op = RecLines[k].op /\ x.kind \in Ends)
    BY DEF InDoubt
  <2> HIDE DEF branch
  <2> QED
    BY <2>2, <2>3, <2>4, <2>5
<1>10. JobFits'
  <2>1. \A x : JobFrame(x) => JobFrame(x)'
    <3> SUFFICES ASSUME NEW x, JobFrame(x), x.op \in Roots PROVE JobFrame(x)'
      BY DEF JobFrame
    <3>1. x.op <= ops /\ Below(x.op, Len(RecLines))
      BY DEF JobFrame
    <3>2. x.kind # "started"
      BY <1>1 DEF JobFrame, Roots
    <3>3. x.op <= ops + 1
      BY <1>2, <3>1 DEF Roots
    <3> QED
      BY <1>1, <1>3, <1>7, <3>1, <3>2, <3>3 DEF JobFrame
  <2>2. \A x : Promised(x) => Promised(x)'
    BY <1>1, <1>3 DEF Promised, Met, Answers
  <2> QED
    BY <1>1, <1>2, <1>3, <2>1, <2>2 DEF Story, LeaseInv, JobFits
<1> QED
  BY <1>1, <1>2, <1>6, <1>8, <1>9, <1>10 DEF Story, LeaseInv

\* The operation in flight is let go, or the session with it.
LEMMA LeaveStory ==
    ASSUME SessionInv, ~overrun, Abandon \/ SkipTerminal \/ DropSession
    PROVE  Story'
<1>1. /\ op' = 0 /\ UNCHANGED <<file, synced, next_sequence, failed, job, ops, mine>>
      /\ \/ phase' = phase /\ (job = NoJob \/ job.op # op) /\ op # 0
         \/ phase = "open" /\ phase' = "closing"
  BY DEF Abandon, SkipTerminal, DropSession, journalVars, serviceVars, Idle, SessionInv, ControlInv
<1>2. Story
  BY DEF SessionInv, Story
<1>3. RecLines' = RecLines /\ OutLines' = OutLines /\ Kept
  <2>1. RecLines' = RecLines /\ OutLines' = OutLines /\ synced["outbox"] \in Nat
    BY <1>1, LengthsFact DEF SessionInv, RecLines, OutLines
  <2> QED
    BY <1>1, <2>1, KeptNow
<1>4. RecordsGood'
  BY <1>1, <1>2, <1>3, RecordsStay DEF Story
<1>5. \A q, n : Below(q, n) <=> Below(q, n)'
  BY <1>3 DEF Below
<1>6. TailsGone' /\ NumbersFit'
  BY <1>1, <1>2, <1>3 DEF Story, LeaseInv, TailsGone, NumbersFit, Fresh, Live
<1>7. OpFits' /\ MarksFit'
  BY <1>1, <1>2, <1>3 DEF Story, LeaseInv, OpFits, MarksFit
<1>8. JobFits'
  <2>1. CASE job = NoJob
    BY <1>1, <2>1, NoJobAt DEF JobFits
  <2>2. CASE job # NoJob
    <3>1. \A x : JobFrame(x) => JobFrame(x)'
      <4> SUFFICES ASSUME NEW x, JobFrame(x), x.op \in Roots PROVE JobFrame(x)'
        BY DEF JobFrame
      <4>1. CASE phase' = "closing"
        BY <1>1, <1>3, <1>5, <4>1 DEF JobFrame
      <4>2. CASE phase' = phase /\ job.op # op /\ op # 0
        <5>1. phase = "open"
          BY <4>2 DEF SessionInv, ControlInv
        <5>2. x.kind # "started"
          BY <4>2, <5>1 DEF JobFrame
        <5> QED
          BY <1>1, <1>3, <1>5, <5>2 DEF JobFrame
      <4> QED
        BY <1>1, <2>2, <4>1, <4>2
    <3>2. \A x : Promised(x) => Promised(x)'
      BY <1>1, <1>3 DEF Promised, Met, Answers
    <3> QED
      BY <1>1, <1>2, <1>3, <3>1, <3>2 DEF Story, LeaseInv, JobFits
  <2> QED
    BY <2>1, <2>2
<1> QED
  BY <1>1, <1>2, <1>4, <1>6, <1>7, <1>8 DEF Story, LeaseInv

\* A step that leaves the files and the operations alone, without a service
\* behind it.
LEMMA RestedStory ==
    ASSUME SessionInv, ~overrun, UNCHANGED <<file, synced, ops, job>>, job = NoJob, ControlInv',
           phase' \in {"records", "closed"}
    PROVE  Story'
<1>1. Kept
  <2>1. OutLines' = OutLines /\ synced["outbox"] \in Nat
    BY LengthsFact DEF SessionInv, OutLines
  <2> QED
    BY <2>1, KeptNow
<1>2. RecordsGood'
  BY <1>1, RecordsStay DEF SessionInv
<1>3. TailsGone'
  BY DEF TailsGone, Fresh, Live
<1> QED
  BY <1>2, <1>3, RestStory

-----------------------------------------------------------------------------
(* The story of a session. *)

LEMMA StoryStep ==
    ASSUME SessionInv, Next, ~overrun', ControlInv'
    PROVE  Story'
<1>1. ~overrun
  <2>1. overrun' = overrun \/ overrun' = (overrun \/ failed)
    BY DEF Next, Open, RepairRecords, RepairOutbox, Repair, ScanLogs, GrantLease, ScanRefused,
           DropLease, StartupRecovery, Close, Begin, Checkpoint, AppendBeside, Abandon, DropSession,
           Finalize, PersistTerminal, SkipTerminal, CommitName, ResolveRecovery, RetryRecovery,
           Submit, TakeJob, Write, WriteFrame, Sync, SyncFile, Answer, Reply, AppendError,
           AppendFails, ManifestError, ReplyManifestError, Crash, Die, PowerFailure, LosePower,
           journalVars
  <2> QED
    BY <2>1 DEF SessionInv, ControlInv
<1>2. CASE \E b \in BOOLEAN : Open(b)
  <2>1. UNCHANGED <<file, synced, ops, job>> /\ job = NoJob /\ phase' = "records"
    BY <1>2 DEF Open, journalVars, opVars, SessionInv, ControlInv, Live
  <2> QED
    BY <1>1, <2>1, RestedStory
<1>3. CASE RepairRecords
  BY <1>1, <1>3, RepairRecordsStory
<1>4. CASE RepairOutbox
  BY <1>1, <1>4, RepairOutboxStory
<1>5. CASE ScanLogs
  BY <1>1, <1>5, ScanStory
<1>6. CASE ScanRefused \/ Close
  <2>1. UNCHANGED <<file, synced, ops, job>> /\ job = NoJob /\ phase' = "closed"
    BY <1>6 DEF ScanRefused, Close, DropLease, Idle, opVars, SessionInv, ControlInv, Live
  <2> QED
    BY <1>1, <2>1, RestedStory
<1>7. CASE StartupRecovery
  BY <1>7, StartupGood
<1>8. CASE Begin
  BY <1>1, <1>8, BeginStory
<1>9. CASE Abandon \/ SkipTerminal \/ DropSession
  BY <1>1, <1>9, LeaveStory
<1>10. CASE \/ Checkpoint \/ AppendBeside \/ PersistTerminal
            \/ \E k \in 0..MaxMessages, end \in Ends : Finalize(k, end)
            \/ \E end \in Ends : CommitName(end)
            \/ \E o \in Roots : ResolveRecovery(o)
            \/ \E o \in Roots, kind \in PendingKinds : RetryRecovery(o, kind)
  BY <1>10, CommandGood
<1>11. CASE Write
  <2>1. WriteFrame("records") \/ WriteFrame("outbox")
    BY <1>11 DEF Write, Files
  <2>2. UNCHANGED <<serviceVars, opVars>>
    BY <1>11 DEF Write
  <2> QED
    BY <1>1, <2>1, <2>2, WriteRecord, WriteOutbox
<1>12. CASE Sync
  <2>1. PICK f \in Files : SyncFile(f)
    BY <1>12 DEF Sync
  <2>2. UNCHANGED <<serviceVars, opVars>>
    BY <1>12 DEF Sync
  <2> QED
    BY <1>1, <2>1, <2>2, SyncStory
<1>13. CASE Answer
  <2>1. /\ job # NoJob /\ job.todo = <<>> /\ job' = NoJob
        /\ UNCHANGED <<file, synced, next_sequence, failed, ops, mine>>
    BY <1>13, NoJobAt DEF Answer, Reply
  <2>2. op' \in {0, op} /\ phase' = (IF job.command = "startup" THEN "open" ELSE phase)
    BY <1>13 DEF Answer, Succeeded
  <2>3. phase = "startup" <=> job.command = "startup"
    BY <2>1 DEF SessionInv, ControlInv
  <2> QED
    BY <1>1, <2>1, <2>2, <2>3, DoneStory
<1>14. CASE ManifestError
  <2>1. /\ job # NoJob /\ job.todo = <<>> /\ job' = NoJob
        /\ UNCHANGED <<file, synced, next_sequence, failed, ops, mine>>
    BY <1>14, NoJobAt DEF ManifestError, ReplyManifestError
  <2>2. op' \in {0, op} /\ phase' = (IF job.command = "startup" THEN "closing" ELSE phase)
    BY <1>14 DEF ManifestError, Rejected
  <2>3. phase = "startup" => job.command = "startup"
    BY <2>1 DEF SessionInv, ControlInv
  <2> QED
    BY <1>1, <2>1, <2>2, <2>3, DoneStory
<1>15. CASE AppendError
  BY <1>1, <1>15, AppendErrorStory
<1>16. CASE Crash
  BY <1>1, <1>16, CrashStory
<1>17. CASE PowerFailure
  BY <1>1, <1>17, PowerStory
<1> QED
  BY <1>2, <1>3, <1>4, <1>5, <1>6, <1>7, <1>8, <1>9, <1>10, <1>11, <1>12, <1>13, <1>14, <1>15,
     <1>16, <1>17 DEF Next

LEMMA InitSession == Init => SessionInv
<1> SUFFICES ASSUME Init PROVE SessionInv
  OBVIOUS
<1>1. DurableInv
  BY InitDurable
<1>2. /\ job = NoJob /\ phase = "closed" /\ op = 0 /\ ops = 0 /\ stage = "idle"
      /\ next_sequence = 0 /\ failed = FALSE /\ overrun = FALSE
  BY DEF Init
<1>3. ControlInv
  <2>1. IsSeq(<<>>)
    BY KindsFact
  <2>2. 0 \in 0..MaxOps
    BY SessionConfigValid DEF SessionConfig
  <2>3. /\ job.command = "none" /\ IsSeq(job.records) /\ IsSeq(job.outbox)
        /\ job.through + 1 \in Nat
    BY <1>2, <2>1, NoJobAt
  <2> QED
    BY <1>2, <2>2, <2>3 DEF ControlInv, Live
<1>4. RecLines = <<Entry("created", 0, 0, 1)>> /\ file["records"].tail = <<>>
  BY DEF Init, CreatedLog, RecLines, Files
<1>5. RecordsGood
  <2>1. DOMAIN RecLines = {1} /\ RecLines[1] = Entry("created", 0, 0, 1)
    BY <1>4
  <2>2. PICK e : e = RecLines[1]
    OBVIOUS
  <2>3. e.seq = 1 /\ e.op = 0 /\ e.kind = "created"
    BY <2>1, <2>2 DEF Entry
  <2>4. Obligations(e) = {}
    BY <2>3 DEF Obligations, PendingKinds, Ends
  <2>5. e.op \notin Roots
    BY <2>3 DEF Roots
  <2>6. GoodAt(e, 0)
    BY <2>3, <2>4, <2>5 DEF GoodAt, Met, FitsAt
  <2> QED
    BY <1>4, <2>1, <2>2, <2>6 DEF RecordsGood
<1>6. LeaseInv
  BY <1>2, NoJobAt DEF LeaseInv, TailsGone, NumbersFit, JobFits, OpFits, MarksFit, Fresh, Live
<1> QED
  BY <1>1, <1>3, <1>5, <1>6 DEF SessionInv

\* The session invariant: the records fit, and the command, the operation and
\* the lease fit the records.
THEOREM SessionInvariant == Spec => []SessionInv
<1>1. SessionInv /\ [Next]_vars => SessionInv'
  <2> SUFFICES ASSUME SessionInv, [Next]_vars PROVE SessionInv'
    OBVIOUS
  <2>1. CASE Next
    <3>1. DurableInv' /\ ControlInv'
      BY <2>1, NextGood, ControlStep DEF SessionInv, Good
    <3>2. ~overrun' => Story'
      BY <2>1, <3>1, StoryStep
    <3> QED
      BY <3>1, <3>2 DEF SessionInv, Story
  <2>2. CASE UNCHANGED vars
    <3>1. DurableInv'
      BY <2>2, NoJournalGood DEF SessionInv, vars, journalVars, Good
    <3>2. ControlInv'
      BY <2>2 DEF SessionInv, vars, journalVars, serviceVars, opVars, ControlInv, Live
    <3>3. ~overrun' => Story'
      <4>1. UNCHANGED <<file, synced, next_sequence, failed, overrun, job, phase, op, ops, mine>>
        BY <2>2 DEF vars, journalVars, serviceVars, opVars
      <4>2. RecLines' = RecLines /\ OutLines' = OutLines
        BY <4>1 DEF RecLines, OutLines
      <4>3. /\ \A q, n : Below(q, n) <=> Below(q, n)'
            /\ \A x, n : GoodAt(x, n) <=> GoodAt(x, n)'
            /\ \A x : Promised(x) <=> Promised(x)'
        BY <4>1, <4>2 DEF Below, GoodAt, FitsAt, Met, Promised, Answers
      <4>4. \A x : JobFrame(x) <=> JobFrame(x)'
        BY <4>1, <4>2, <4>3 DEF JobFrame
      <4>5. RecordsGood <=> RecordsGood'
        BY <4>1, <4>2, <4>3 DEF RecordsGood
      <4>6. LeaseInv <=> LeaseInv'
        BY <4>1, <4>2, <4>3, <4>4
           DEF LeaseInv, TailsGone, NumbersFit, JobFits, OpFits, MarksFit, Fresh, Live
      <4> QED
        BY <4>1, <4>5, <4>6 DEF SessionInv, Story
    <3> QED
      BY <3>1, <3>2, <3>3 DEF SessionInv, Story
  <2> QED
    BY <2>1, <2>2
<1> QED
  BY <1>1, InitSession, PTL DEF Spec

\* Whatever crashes, fails and is repaired, the records are contiguous and
\* none of them is ahead of the outbox.
THEOREM JournalIsSound == Spec => []JournalSound
<1>1. SessionInv => JournalSound
  <2> SUFFICES ASSUME SessionInv, ~overrun PROVE Contiguous(RecLines) /\ ObligationFirst
    BY DEF JournalSound, RecordsContiguous, ObligationFirst, RecLines
  <2>1. \A i \in DOMAIN RecLines : GoodAt(RecLines[i], i - 1) /\ i \in Nat
    BY LengthsFact DEF SessionInv, RecordsGood
  <2>2. Contiguous(RecLines)
    BY <2>1 DEF Contiguous, GoodAt
  <2>3. \A i \in DOMAIN RecLines : Met(RecLines[i])
    BY <2>1 DEF GoodAt
  <2>4. ObligationFirst
    BY <2>3 DEF ObligationFirst, Met, Answers, RecLines, OutLines
  <2> QED
    BY <2>2, <2>4
<1> QED
  BY <1>1, SessionInvariant, PTL

\* Nothing is written of an operation while an earlier one is in doubt.
THEOREM NothingFollowsDoubt == Spec => []NothingAfterDoubt
<1>1. SessionInv => NothingAfterDoubt
  <2> SUFFICES ASSUME SessionInv, ~overrun, NEW p \in InDoubt(RecLines), NEW q \in Roots, q > p,
                      NEW i \in DOMAIN RecLines, RecLines[i].op = q
               PROVE  FALSE
    BY DEF NothingAfterDoubt, RecLines
  <2>1. Story /\ DOMAIN RecLines = 1..Len(RecLines)
    BY LengthsFact DEF SessionInv, Story
  <2>2. Below(q, Len(RecLines))
    BY <2>1, LineBelow
  <2> DEFINE branch == {RecLines[k] : k \in {j \in DOMAIN RecLines : OnBranch(RecLines[j])}}
  <2>3. /\ p \in Roots /\ (\E x \in branch : x.op = p /\ x.kind \in {"started"})
        /\ ~(\E x \in branch : x.op = p /\ x.kind \in Ends)
    BY DEF InDoubt
  <2>4. PICK k \in 1..Len(RecLines) : RecLines[k].op = p /\ RecLines[k].kind = "started"
    BY <2>1, <2>3
  <2>5. PICK m \in 1..Len(RecLines) : RecLines[m].op = p /\ RecLines[m].kind \in Ends
    BY <2>2, <2>3, <2>4 DEF Below, Roots
  <2>6. RecLines[m] \in branch
    BY <2>1, <2>3, <2>5 DEF OnBranch
  <2> HIDE DEF branch
  <2> QED
    BY <2>3, <2>5, <2>6
<1> QED
  BY <1>1, SessionInvariant, PTL

\* An open session has a recovery event for what an earlier process left in
\* doubt.
THEOREM CrashesAreMarked == Spec => []CrashedOpsMarked
<1>1. SessionInv => CrashedOpsMarked
  BY DEF SessionInv, LeaseInv, MarksFit, CrashedOpsMarked, RecLines
<1> QED
  BY <1>1, SessionInvariant, PTL

=============================================================================
