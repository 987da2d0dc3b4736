--------------------------- MODULE RawCaptureSpool ---------------------------
(***************************************************************************)
(* The raw capture spool (research/nave/raw_capture_spool.py): one writer  *)
(* under an exclusive lock appends batches of frames to numbered segment   *)
(* files and acknowledges a batch after fsync of the file and of the       *)
(* directory; a replay reads a segment from a byte offset.                 *)
(*                                                                         *)
(* A line is the number of its frame, its length, and whether it is whole: *)
(* a fragment is what an interrupted write leaves of a line.  A segment    *)
(* file is the lines the operating system holds, how many of them are on   *)
(* the disk, and whether its directory entry is on the disk.  A process    *)
(* crash loses the writer's buffer; a power loss loses what no fsync has   *)
(* reached.  The root directory's own entry is taken to be on the disk:    *)
(* the code makes the directory and does not sync its parent.              *)
(***************************************************************************)
EXTENDS Integers, Sequences, SequencesExt, FiniteSetsExt

CONSTANTS
  SegmentBytes,  \* segment_bytes
  MaxBytes,      \* max_bytes
  LineSizes,     \* the lengths of an encoded line
  BatchSizes,    \* the numbers of frames in a batch
  MaxFrames,     \* bound: frames ever submitted
  MaxStarts      \* bound: writers ever started

ASSUME SpoolAssumption ==
  /\ SegmentBytes \in Nat \ {0}
  /\ MaxBytes \in Nat \ {0}
  /\ LineSizes \subseteq Nat \ {0, 1}
  /\ BatchSizes \subseteq Nat \ {0}
  /\ MaxFrames \in Nat
  /\ MaxStarts \in Nat

VARIABLES
  segs,      \* segment number -> file
  pc,        \* "down", "idle", or the next step of append_batch
  handle,    \* number of the open segment, or -1
  number,    \* of the next segment
  used,      \* bytes the writer accounts for
  failed,    \* the writer refuses to append
  batch,     \* lines of the batch being appended
  buffer,    \* lines written to the handle and not yet flushed
  receipts,  \* every receipt returned to a caller
  sent,      \* frames submitted so far
  starts     \* writers started so far

vars == <<segs, pc, handle, number, used, failed, batch, buffer, receipts,
          sent, starts>>

-----------------------------------------------------------------------------
Bytes(lines) == FoldLeft(LAMBDA a, line : a + line.size, 0, lines)

\* tell() and st_size of a file, and the offset at which its i-th line starts.
FileSize(file) == Bytes(file.lines)
Offset(lines, i) == Bytes(SubSeq(lines, 1, i - 1))

NewFile == [lines |-> <<>>, synced |-> 0, linked |-> FALSE]
WithFile(new) ==
  [n \in DOMAIN segs \cup {new} |-> IF n = new THEN NewFile ELSE segs[n]]

NextNumber == IF DOMAIN segs = {} THEN 0 ELSE Max(DOMAIN segs) + 1

DiskBytes == FoldSet(LAMBDA n, a : a + FileSize(segs[n]), 0, DOMAIN segs)

\* A fragment is one byte long: its length matters only to the disk bound.
Fragment(line) == [line EXCEPT !.size = 1, !.whole = FALSE]
EndsTorn(lines) == lines # <<>> /\ ~Last(lines).whole

\* Buffered lines reach a file behind what is there, completing a fragment
\* that an interrupted flush left of the first of them.
Extended(lines, more) ==
  IF EndsTorn(lines) /\ more # <<>> /\ Last(lines).frame = more[1].frame
  THEN Front(lines) \o more ELSE lines \o more

\* What can have reached the file when writing `lines` behind `before` stops
\* half way: the first n of them, and perhaps a fragment of the next.
Partial(before, lines) ==
  {Extended(before, SubSeq(lines, 1, n)) : n \in 0..Len(lines)} \cup
  {Extended(before, Append(SubSeq(lines, 1, n), Fragment(lines[n + 1]))) :
     n \in 0..(Len(lines) - 1)}

NeedsSegment ==
  handle = -1 \/ FileSize(segs[handle]) + Bytes(batch) > SegmentBytes

Init ==
  /\ segs = <<>> /\ pc = "down" /\ handle = -1 /\ number = 0 /\ used = 0
  /\ failed = FALSE /\ batch = <<>> /\ buffer = <<>>
  /\ receipts = {} /\ sent = 0 /\ starts = 0

-----------------------------------------------------------------------------
(* The writer.                                                              *)

\* RawCaptureSpool(root): the lock is free; what is on the disk is measured,
\* and writing will start in a segment of its own.
StartWriter ==
  /\ pc = "down"
  /\ starts < MaxStarts
  /\ starts' = starts + 1
  /\ pc' = "idle"
  /\ used' = DiskBytes
  /\ number' = NextNumber
  /\ handle' = -1 /\ failed' = FALSE /\ batch' = <<>> /\ buffer' = <<>>
  /\ UNCHANGED <<segs, receipts, sent>>

\* append_batch up to its try block.  A batch refused by these bounds, or by
\* the reserve of free disk space, changes nothing.
Submit(lines) ==
  /\ pc = "idle"
  /\ ~failed
  /\ sent + Len(lines) <= MaxFrames
  /\ Bytes(lines) <= SegmentBytes
  /\ used + Bytes(lines) <= MaxBytes
  /\ batch' = lines
  /\ sent' = sent + Len(lines)
  /\ pc' = "open"
  /\ UNCHANGED <<segs, handle, number, used, failed, buffer, receipts, starts>>

\* Faulty variant: a restarted writer goes on in the last segment.
OpenLastSegment ==
  /\ pc = "open"
  /\ IF NeedsSegment
     THEN /\ handle' = IF DOMAIN segs = {} THEN 0 ELSE Max(DOMAIN segs)
          /\ number' = number + 1
          /\ segs' = IF DOMAIN segs = {} THEN WithFile(0) ELSE segs
     ELSE UNCHANGED <<segs, handle, number>>
  /\ pc' = "write"
  /\ UNCHANGED <<used, failed, batch, buffer, receipts, sent, starts>>

\* Faulty variant: the new segment is chosen and its file not created.
OpenNothing ==
  /\ pc = "open"
  /\ IF NeedsSegment
     THEN handle' = number /\ number' = number + 1
     ELSE UNCHANGED <<handle, number>>
  /\ pc' = "write"
  /\ UNCHANGED <<segs, used, failed, batch, buffer, receipts, sent, starts>>

\* A new segment when there is none or the batch does not fit.
OpenSegment ==
  /\ pc = "open"
  /\ IF NeedsSegment
     THEN /\ number \notin DOMAIN segs
          /\ segs' = WithFile(number)
          /\ handle' = number
          /\ number' = number + 1
     ELSE UNCHANGED <<segs, handle, number>>
  /\ pc' = "write"
  /\ UNCHANGED <<used, failed, batch, buffer, receipts, sent, starts>>

WriteLines ==
  /\ pc = "write"
  /\ buffer' = batch
  /\ pc' = "flush"
  /\ UNCHANGED <<segs, handle, number, used, failed, batch, receipts, sent,
                 starts>>

FlushBuffer ==
  /\ pc = "flush"
  /\ segs' = [segs EXCEPT ![handle].lines = Extended(@, buffer)]
  /\ buffer' = <<>>
  /\ pc' = "sync"
  /\ UNCHANGED <<handle, number, used, failed, batch, receipts, sent, starts>>

SyncFile ==
  /\ pc = "sync"
  /\ segs' = [segs EXCEPT ![handle].synced = Len(segs[handle].lines)]
  /\ pc' = "link"
  /\ UNCHANGED <<handle, number, used, failed, batch, buffer, receipts, sent,
                 starts>>

\* The receipts of the batch, in the segment where it was just written.
ReceiptsOf(lines) ==
  LET file  == segs[handle]
      first == Len(file.lines) - Len(lines)
  IN  {[segment |-> handle, frame |-> lines[i].frame,
        offset |-> Offset(file.lines, first + i),
        next |-> Offset(file.lines, first + i + 1)] : i \in DOMAIN lines}

\* Faulty variant: a batch is not added to the bytes used.
AcknowledgeUncounted ==
  /\ pc = "link"
  /\ segs' = [n \in DOMAIN segs |-> [segs[n] EXCEPT !.linked = TRUE]]
  /\ receipts' = receipts \cup ReceiptsOf(batch)
  /\ batch' = <<>>
  /\ pc' = "idle"
  /\ UNCHANGED <<handle, number, used, failed, buffer, sent, starts>>

\* Faulty variant: the directory is not synced.
AcknowledgeUnlinked ==
  /\ pc = "link"
  /\ used' = used + Bytes(batch)
  /\ receipts' = receipts \cup ReceiptsOf(batch)
  /\ batch' = <<>>
  /\ pc' = "idle"
  /\ UNCHANGED <<segs, handle, number, failed, buffer, sent, starts>>

\* fsync of the directory, then the receipts are returned.
Acknowledge ==
  /\ pc = "link"
  /\ segs' = [n \in DOMAIN segs |-> [segs[n] EXCEPT !.linked = TRUE]]
  /\ used' = used + Bytes(batch)
  /\ receipts' = receipts \cup ReceiptsOf(batch)
  /\ batch' = <<>>
  /\ pc' = "idle"
  /\ UNCHANGED <<handle, number, failed, buffer, sent, starts>>

\* An exception between opening the segment and the end of the directory
\* fsync: the writer is failed.  A write that fails has buffered a part of
\* the batch; a flush that fails has handed over a part of the buffer, whose
\* rest stays buffered.
AppendFails ==
  /\ pc \in {"open", "write", "flush", "sync", "link"}
  /\ failed' = TRUE
  /\ pc' = "idle"
  /\ batch' = <<>>
  /\ \/ UNCHANGED <<segs, buffer>>
     \/ /\ pc = "write"
        /\ \E n \in 1..Len(batch) : buffer' = SubSeq(batch, 1, n)
        /\ UNCHANGED segs
     \/ /\ pc = "flush"
        /\ \E n \in 1..Len(buffer) :
             /\ segs' = [segs EXCEPT ![handle].lines =
                  Extended(@, Append(SubSeq(buffer, 1, n - 1),
                                     Fragment(buffer[n])))]
             /\ buffer' = SubSeq(buffer, n, Len(buffer))
  /\ UNCHANGED <<handle, number, used, receipts, sent, starts>>

WriterGone == pc' = "down" /\ handle' = -1 /\ buffer' = <<>> /\ batch' = <<>>

\* close(): closing the handle flushes what a failed append left buffered.
CloseWriter ==
  /\ pc = "idle"
  /\ WriterGone
  /\ segs' = IF handle = -1 THEN segs
             ELSE [segs EXCEPT ![handle].lines = Extended(@, buffer)]
  /\ UNCHANGED <<number, used, failed, receipts, sent, starts>>

-----------------------------------------------------------------------------
(* The environment.                                                         *)

\* The process is killed: any part of its buffer may have reached the file.
ProcessCrash ==
  /\ pc # "down"
  /\ \/ handle = -1 /\ UNCHANGED segs
     \/ /\ handle # -1
        /\ \E lines \in Partial(segs[handle].lines, buffer) :
             segs' = [segs EXCEPT ![handle].lines = lines]
  /\ WriterGone
  /\ UNCHANGED <<number, used, failed, receipts, sent, starts>>

\* What the disk can hold of a file after a power loss: what was synced, and
\* any part of what the operating system had besides.
Survivors(file) ==
  LET kept == SubSeq(file.lines, 1, file.synced)
      rest == SubSeq(file.lines, file.synced + 1, Len(file.lines))
  IN  {[file EXCEPT !.lines = lines] : lines \in Partial(kept, rest)}

\* A file whose directory entry was not synced may be gone altogether.
PowerLoss ==
  /\ \E kept \in SUBSET DOMAIN segs :
       /\ \A n \in DOMAIN segs : segs[n].linked => n \in kept
       /\ \E after \in [kept -> UNION {Survivors(segs[n]) : n \in kept}] :
            /\ \A n \in kept : after[n] \in Survivors(segs[n])
            /\ segs' = after
  /\ WriterGone
  /\ UNCHANGED <<number, used, failed, receipts, sent, starts>>

\* The batches a caller can submit: the next frames, with lines of any size.
Batches ==
  UNION {{[i \in 1..n |-> [frame |-> sent + i, size |-> sizes[i],
                           whole |-> TRUE]] : sizes \in [1..n -> LineSizes]} :
         n \in BatchSizes}

Next ==
  \/ StartWriter
  \/ \E lines \in Batches : Submit(lines)
  \/ OpenSegment \/ WriteLines \/ FlushBuffer \/ SyncFile \/ Acknowledge
  \/ AppendFails \/ CloseWriter
  \/ ProcessCrash \/ PowerLoss

Spec == Init /\ [][Next]_vars

-----------------------------------------------------------------------------
(* replay_segment.                                                          *)

\* The number of the line at a byte offset, if the cursor is one that
\* replay_segment accepts: within the file and behind the end of a line.
LinesAt(file, offset) ==
  {i \in 1..(Len(file.lines) + 1) :
     /\ Offset(file.lines, i) = offset
     /\ i > 1 => file.lines[i - 1].whole}

\* The frames it yields before the end of the file or the first broken line.
Replay(file, offset) ==
  LET first == CHOOSE i \in LinesAt(file, offset) : TRUE
      broken == {i \in first..Len(file.lines) : ~file.lines[i].whole}
      last == IF broken = {} THEN Len(file.lines) ELSE Min(broken) - 1
  IN  [i \in 1..(last - first + 1) |-> file.lines[first + i - 1].frame]

-----------------------------------------------------------------------------
(* Properties.                                                              *)

Line == [frame : Nat, size : Nat, whole : BOOLEAN]

\* The segments hold whole lines or fragments, and an append under way has its
\* segment file.
TypeOK ==
  /\ DOMAIN segs \subseteq Nat
  /\ \A n \in DOMAIN segs :
       /\ segs[n].lines \in Seq(Line)
       /\ segs[n].synced \in 0..Len(segs[n].lines)
       /\ segs[n].linked \in BOOLEAN
  /\ pc \in {"down", "idle", "open", "write", "flush", "sync", "link"}
  /\ handle \in Nat \cup {-1} /\ {number, used, sent, starts} \subseteq Nat
  /\ pc \in {"write", "flush", "sync", "link"} => handle \in DOMAIN segs
  /\ failed \in BOOLEAN /\ batch \in Seq(Line) /\ buffer \in Seq(Line)

\* "An acknowledgement means the raw record survived fsync": whatever crashes
\* follow, the frame of a receipt is a whole line of a file the disk has.
AckedIsDurable ==
  \A r \in receipts :
    /\ r.segment \in DOMAIN segs
    /\ segs[r.segment].linked
    /\ \E i \in 1..segs[r.segment].synced :
         /\ segs[r.segment].lines[i].frame = r.frame
         /\ segs[r.segment].lines[i].whole

\* Every offset handed out stays a cursor that replay_segment accepts, the
\* replay from there starts with the receipt's frame, and a replay of the
\* whole segment reaches it: no broken line can come to lie before it.
ReceiptsReplay ==
  \A r \in receipts :
    LET file == segs[r.segment]
    IN  /\ LinesAt(file, r.offset) # {} /\ LinesAt(file, r.next) # {}
        /\ Replay(file, r.offset) # <<>>
        /\ Replay(file, r.offset)[1] = r.frame
        /\ Contains(Replay(file, 0), r.frame)

\* Over any number of restarts and failures the files stay within the bounds
\* of the disk policy, although `used` is only this writer's account.
DiskIsBounded ==
  /\ DiskBytes <= MaxBytes
  /\ \A n \in DOMAIN segs : FileSize(segs[n]) <= SegmentBytes

\* A segment holds consecutive frames, and later segments later frames: a
\* replay of the segments in the order of their names is in receive order.
SegmentsAreOrdered ==
  /\ \A n \in DOMAIN segs : \A i \in 2..Len(segs[n].lines) :
       segs[n].lines[i].frame = segs[n].lines[i - 1].frame + 1
  /\ \A n, m \in DOMAIN segs :
       n < m /\ segs[n].lines # <<>> /\ segs[m].lines # <<>> =>
         Last(segs[n].lines).frame < segs[m].lines[1].frame

\* What was acknowledged is on the disk and can be replayed: from every receipt,
\* and as a whole in receive order.
RecordReplays == AckedIsDurable /\ ReceiptsReplay /\ SegmentsAreOrdered

\* The frames that no crash can take away: whole lines of the synced part of a
\* file with a directory entry.
DurableFrames ==
  UNION {{segs[n].lines[i].frame :
            i \in {j \in 1..segs[n].synced : segs[n].lines[j].whole}} :
         n \in {m \in DOMAIN segs : segs[m].linked}}

Log == INSTANCE FrameLog WITH
  received <- sent,
  durable <- DurableFrames,
  acked <- {r.frame : r \in receipts}

\* The writer, its files and their crashes implement FrameLog: frames become
\* durable in the order received and stay so, and receipts are returned for
\* whole batches that are durable.
LogSpec == Log!Spec
=============================================================================
