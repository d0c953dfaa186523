----------------------------- MODULE EventJournal -----------------------------
(***************************************************************************)
(* The append-only journal (crates/event-journal): two files of frames,    *)
(* one per line, a writer lease with the next sequence number, the append  *)
(* of a checkpoint (outbox first, then records, each flushed and synced)   *)
(* and the repair of a torn last line.                                     *)
(*                                                                         *)
(* A frame is a record [kind, op, n, seq]; its bytes are left out.  A line *)
(* that does not decode is Garbage, an incomplete last line Torn.  The     *)
(* whole frame may also be there without its newline.                      *)
(***************************************************************************)
EXTENDS Naturals, Sequences, FiniteSets

Files == {"records", "outbox"}

Garbage == [kind |-> "garbage", op |-> 0, n |-> 0, seq |-> 0]
Torn == [kind |-> "torn", op |-> 0, n |-> 0, seq |-> 0]

VARIABLES
    file,               \* what a reader finds: complete lines, unterminated tail
    synced,             \* how many lines of a file are on stable storage
    acked,              \* history: how many were there at the last acknowledgement
    next_sequence,      \* JournalWriteLease.next_sequence
    failed,             \* history: an append of this lease has failed
    overrun,            \* history: an append began after one had failed
    job                 \* the command the writer thread executes

journalVars == <<file, synced, acked, next_sequence, failed, overrun, job>>

NoJob == [command |-> "none", op |-> 0, todo |-> <<>>, records |-> <<>>,
          outbox |-> <<>>, through |-> 0, wrote |-> {}]
Idle == job = NoJob

-----------------------------------------------------------------------------
(* Reading. *)

\* The frame's checksum and schema hold.
Decodes(frame) == frame.seq # 0

\* visit_lines: an unterminated last line is visited like the others.
VisitLines(f) == file[f].lines \o file[f].tail

\* next_session_sequence: every line decodes and carries its own number.
Contiguous(lines) == \A i \in DOMAIN lines : lines[i].seq = i

-----------------------------------------------------------------------------
(* Writing. *)

\* A frame and its newline added at the end, behind whatever is there.
AppendFrame(f, frame) ==
    [lines |-> Append(f.lines, IF f.tail = <<>> THEN frame ELSE Garbage),
     tail |-> <<>>]

\* What a write that does not finish may leave of a frame.
PartialFrame(f, frame) ==
    {f, [f EXCEPT !.tail = <<Torn>>]}
        \union (IF f.tail = <<>> THEN {[f EXCEPT !.tail = <<frame>>]} ELSE {})

\* repair_unterminated_tail: a frame without newline gets it, a torn one is
\* cut off.
RepairTail(f) ==
    IF f.tail = <<>> \/ Decodes(Head(f.tail))
    THEN [lines |-> f.lines \o f.tail, tail |-> <<>>]
    ELSE [lines |-> f.lines, tail |-> <<>>]

\* Without a tail to repair nothing is synced either.
Repair(f) ==
    /\ file' = [file EXCEPT ![f] = RepairTail(@)]
    /\ synced' = IF file[f].tail = <<>> THEN synced
                 ELSE [synced EXCEPT ![f] = Len(file'[f].lines)]
    /\ UNCHANGED <<acked, next_sequence, failed, overrun, job>>

\* Mutant: the records are written first.
AppendOrder_RecordsFirst(outbox) ==
    IF outbox = <<>> THEN <<"records">> ELSE <<"records", "outbox">>

\* append_checkpoint: the outbox is written before the records.
AppendOrder(outbox) ==
    IF outbox = <<>> THEN <<"records">> ELSE <<"outbox", "records">>

\* The writer thread takes a command; its events end with number through.
TakeJob(command, op, records, outbox, through) ==
    /\ Idle
    /\ job' = [command |-> command, op |-> op, todo |-> AppendOrder(outbox),
               records |-> records, outbox |-> outbox, through |-> through, wrote |-> {}]
    /\ overrun' = (overrun \/ failed)
    /\ UNCHANGED <<file, synced, acked, next_sequence, failed>>

Writing(f) == job.todo # <<>> /\ Head(job.todo) = f

\* append_frames writes the frames of a file one by one...
WriteFrame(f) ==
    /\ Writing(f)
    /\ job[f] # <<>>
    /\ file' = [file EXCEPT ![f] = AppendFrame(@, Head(job[f]))]
    /\ job' = [job EXCEPT ![f] = Tail(@)]
    /\ UNCHANGED <<synced, acked, next_sequence, failed, overrun>>

\* Mutant: the sync is left out.
SyncFile_Unsynced(f) ==
    /\ Writing(f)
    /\ job[f] = <<>>
    /\ job' = [job EXCEPT !.todo = Tail(@), !.wrote = @ \union {f}]
    /\ next_sequence' = IF Len(job.todo) = 1 THEN job.through + 1 ELSE next_sequence
    /\ UNCHANGED <<file, synced, acked, failed, overrun>>

\* ... and syncs it; after the last file the lease advances.
SyncFile(f) ==
    /\ Writing(f)
    /\ job[f] = <<>>
    /\ synced' = [synced EXCEPT ![f] = Len(file[f].lines)]
    /\ job' = [job EXCEPT !.todo = Tail(@), !.wrote = @ \union {f}]
    /\ next_sequence' = IF Len(job.todo) = 1 THEN job.through + 1 ELSE next_sequence
    /\ UNCHANGED <<file, acked, failed, overrun>>

\* The command succeeded and its sender is told so.
Reply ==
    /\ job.command # "none" /\ job.todo = <<>>
    /\ acked' = [f \in Files |-> IF f \in job.wrote THEN Len(file[f].lines) ELSE acked[f]]
    /\ job' = NoJob
    /\ UNCHANGED <<file, synced, next_sequence, failed, overrun>>

\* The manifest could not be written: the records are there, the sender gets
\* an error.
ReplyManifestError ==
    /\ job.command \notin {"none", "checkpoint"} /\ job.todo = <<>>
    /\ job' = NoJob
    /\ UNCHANGED <<file, synced, acked, next_sequence, failed, overrun>>

\* The bytes that a stopped append leaves in the file.
Interrupted(f) ==
    IF job[f] = <<>> THEN {file[f]} ELSE PartialFrame(file[f], Head(job[f]))

\* append_frames returns an error from a write or from the sync: the lease
\* does not advance and the writer thread waits for the next command.
AppendFails(f) ==
    /\ Writing(f)
    /\ \E left \in Interrupted(f) : file' = [file EXCEPT ![f] = left]
    /\ job' = NoJob
    /\ failed' = TRUE
    /\ UNCHANGED <<synced, acked, next_sequence, overrun>>

-----------------------------------------------------------------------------
(* The lease and the ends of the process. *)

\* Mutant: the lease starts at the last number in use.
NextSessionSequence_OffByOne == Len(VisitLines("records"))

\* next_session_sequence of a log that was found contiguous.
NextSessionSequence == Len(VisitLines("records")) + 1

GrantLease ==
    /\ next_sequence' = NextSessionSequence
    /\ failed' = FALSE
    /\ UNCHANGED <<file, synced, acked, overrun, job>>

\* The lease is dropped, the lock of the file with it.
DropLease ==
    /\ next_sequence' = 0
    /\ failed' = FALSE
    /\ UNCHANGED <<file, synced, acked, overrun, job>>

\* The process ends in the middle of whatever it was doing.
Die ==
    /\ IF job.todo = <<>> THEN UNCHANGED file
       ELSE LET f == Head(job.todo)
            IN  \E left \in Interrupted(f) : file' = [file EXCEPT ![f] = left]
    /\ job' = NoJob
    /\ next_sequence' = 0
    /\ failed' = FALSE
    /\ UNCHANGED <<synced, acked, overrun>>

\* What a power failure may leave of a file: at least what was synced.
Survivors(f) ==
    LET lines == file[f].lines
    IN  {[lines |-> SubSeq(lines, 1, n), tail |-> <<>>] : n \in synced[f]..Len(lines)}
        \union {[lines |-> SubSeq(lines, 1, m), tail |-> <<Torn>>] :
                    m \in synced[f]..(Len(lines) - 1)}
        \union {[lines |-> SubSeq(lines, 1, m), tail |-> <<lines[m + 1]>>] :
                    m \in synced[f]..(Len(lines) - 1)}
        \union (IF file[f].tail = <<>> THEN {}
                ELSE {file[f], [file[f] EXCEPT !.tail = <<Torn>>]})

LosePower ==
    /\ \E r \in Survivors("records"), o \in Survivors("outbox") :
          file' = [records |-> r, outbox |-> o]
    /\ synced' = [f \in Files |-> Len(file'[f].lines)]
    /\ UNCHANGED <<acked, next_sequence, failed, overrun, job>>

=============================================================================
