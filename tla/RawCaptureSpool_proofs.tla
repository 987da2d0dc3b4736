----------------------- MODULE RawCaptureSpool_proofs -----------------------
(***************************************************************************)
(* What a captured record is worth, for every segment size, disk bound,    *)
(* batch size and number of crashes.  An acknowledged frame survives: the  *)
(* lines of a batch are found in the synced part of a linked file when its *)
(* receipts are returned, and no later step removes them.  Every receipt   *)
(* stays a cursor that a replay accepts, the segments hold the frames in   *)
(* receive order, and the files stay within the bounds.                    *)
(*                                                                         *)
(* The last three are carried by the files as they would become if what    *)
(* the writer still holds reached them (Finals).  Only opening a segment   *)
(* for a batch changes those, by adding the lines that the bounds were     *)
(* checked for; every other step, failure and crash leaves them, or cuts   *)
(* of them: the first lines and perhaps a fragment of the next.            *)
(*                                                                         *)
(* At last the spool is shown to implement FrameLog.                       *)
(***************************************************************************)
EXTENDS RawCaptureSpool, SequenceTheorems, FiniteSetTheorems,
        WellFoundedInduction, TLAPS

\* A whole line of the given frame among the first n lines of a file.
HasFrame(lines, n, frame) ==
  \E i \in 1..n : lines[i].frame = frame /\ lines[i].whole

File == [lines : Seq(Line), synced : Nat, linked : BOOLEAN]

GoodFile(file) == file \in File /\ file.synced <= Len(file.lines)

Files == \A n \in DOMAIN segs : GoodFile(segs[n])

\* A file after a step still has every whole line that was on the disk.
Keeps(old, new) ==
  /\ old.linked => new.linked
  /\ old.synced <= new.synced
  /\ \A i \in 1..old.synced :
       old.lines[i].whole => new.lines[i] = old.lines[i]

SegsKept ==
  \A n \in DOMAIN segs :
    segs[n].linked => n \in DOMAIN segs' /\ Keeps(segs[n], segs'[n])

\* Where the lines of the batch are at each step of append_batch.
BatchInv ==
  /\ sent \in Nat /\ batch \in Seq(Line) /\ buffer \in Seq(Line)
  /\ \A i \in 1..Len(batch) : batch[i].whole
  /\ handle = -1 \/ handle \in DOMAIN segs
  /\ pc \in {"write", "flush", "sync", "link"} => handle \in DOMAIN segs
  /\ pc = "flush" => buffer = batch
  /\ pc = "sync" => \A i \in 1..Len(batch) :
       HasFrame(segs[handle].lines, Len(segs[handle].lines), batch[i].frame)
  /\ pc = "link" => \A i \in 1..Len(batch) :
       HasFrame(segs[handle].lines, segs[handle].synced, batch[i].frame)

SpoolInv == Files /\ BatchInv /\ AckedIsDurable

-----------------------------------------------------------------------------
(* Lines put behind other lines.                                            *)

LEMMA ConcatLines ==
  ASSUME NEW a \in Seq(Line), NEW b \in Seq(Line)
  PROVE  /\ a \o b \in Seq(Line) /\ Len(a \o b) = Len(a) + Len(b)
         /\ Len(a) \in Nat /\ Len(b) \in Nat
         /\ \A i \in 1..Len(a) : (a \o b)[i] = a[i]
         /\ \A i \in 1..Len(b) : (a \o b)[Len(a) + i] = b[i]
<1>. DEFINE both == a \o b
            k == Len(a)
            n == Len(b)
<1>1. /\ both \in Seq(Line) /\ Len(both) = k + n
      /\ \A i \in 1..(k + n) :
           both[i] = IF i <= k THEN a[i] ELSE b[i - k]
  BY ConcatProperties
<1>2. k \in Nat /\ n \in Nat
  OBVIOUS
<1>. HIDE DEF both, k, n
<1>3. \A i \in 1..k : i \in 1..(k + n) /\ i <= k
  BY <1>2
<1>4. \A i \in 1..n : k + i \in 1..(k + n) /\ ~(k + i <= k) /\ (k + i) - k = i
  BY <1>2
<1>5. \A i \in 1..k : both[i] = a[i]
  BY <1>1, <1>3
<1>6. \A i \in 1..n : both[k + i] = b[i]
  BY <1>1, <1>4
<1>. QED BY <1>1, <1>2, <1>5, <1>6 DEF both, k, n

\* Whole lines keep their place when more lines are written behind them, and
\* whole lines written are there afterwards.
LEMMA ExtendedFacts ==
  ASSUME NEW lines \in Seq(Line), NEW more \in Seq(Line)
  PROVE  /\ Extended(lines, more) \in Seq(Line)
         /\ Len(lines) <= Len(Extended(lines, more))
         /\ \A i \in 1..Len(lines) :
              lines[i].whole => Extended(lines, more)[i] = lines[i]
         /\ \A k \in 1..Len(more) :
              \E i \in 1..Len(Extended(lines, more)) :
                Extended(lines, more)[i] = more[k]
<1>1. Len(lines) \in Nat /\ Len(more) \in Nat
  OBVIOUS
<1>2. CASE ~(EndsTorn(lines) /\ more # <<>>
             /\ Last(lines).frame = more[1].frame)
  <2>1. Extended(lines, more) = lines \o more
    BY <1>2 DEF Extended
  <2>2. /\ lines \o more \in Seq(Line)
        /\ Len(lines \o more) = Len(lines) + Len(more)
        /\ \A i \in 1..Len(lines) : (lines \o more)[i] = lines[i]
        /\ \A k \in 1..Len(more) : (lines \o more)[Len(lines) + k] = more[k]
    BY ConcatLines
  <2>3. \A k \in 1..Len(more) : Len(lines) + k \in 1..Len(lines \o more)
    BY <1>1, <2>2
  <2>. QED BY <1>1, <2>1, <2>2, <2>3
<1>3. CASE EndsTorn(lines) /\ more # <<>>
           /\ Last(lines).frame = more[1].frame
  <2>1. /\ Extended(lines, more) = Front(lines) \o more
        /\ lines # <<>> /\ more # <<>> /\ ~Last(lines).whole
    BY <1>3 DEF Extended, EndsTorn
  <2>2. Len(lines) >= 1 /\ Len(more) >= 1
    BY <1>1, <2>1, EmptySeq
  <2>3. /\ Front(lines) \in Seq(Line)
        /\ Len(Front(lines)) = Len(lines) - 1
        /\ \A i \in 1..(Len(lines) - 1) : Front(lines)[i] = lines[i]
    <3>. DEFINE m == Len(lines) - 1
    <3>1. m \in Nat /\ \A i \in 1..m : lines[i] \in Line
      BY <1>1, <2>2, ElementOfSeq
    <3>2. /\ SubSeq(lines, 1, m) \in Seq(Line)
          /\ Len(SubSeq(lines, 1, m)) = IF 1 <= m THEN m - 1 + 1 ELSE 0
          /\ \A i \in 1..(m - 1 + 1) :
               SubSeq(lines, 1, m)[i] = lines[1 + i - 1]
      BY <3>1, SubSeqProperties
    <3>3. Front(lines) = SubSeq(lines, 1, m)
      BY DEF Front
    <3>. HIDE DEF m
    <3>4. /\ Front(lines) \in Seq(Line)
          /\ Len(Front(lines)) = m
          /\ \A i \in 1..m : Front(lines)[i] = lines[i]
      BY <3>1, <3>2, <3>3
    <3>. QED BY <3>4 DEF m
  <2>. DEFINE front == Front(lines)
              both == front \o more
  <2>. HIDE DEF front
  <2>4. /\ both \in Seq(Line)
        /\ Len(both) = Len(lines) - 1 + Len(more)
        /\ \A i \in 1..(Len(lines) - 1 + Len(more)) :
             both[i] = IF i <= Len(lines) - 1 THEN front[i]
                       ELSE more[i - (Len(lines) - 1)]
    <3>1. front \in Seq(Line) /\ Len(front) = Len(lines) - 1
      BY <2>3 DEF front
    <3>2. /\ front \o more \in Seq(Line)
          /\ Len(front \o more) = Len(front) + Len(more)
          /\ \A i \in 1..(Len(front) + Len(more)) : (front \o more)[i] =
               IF i <= Len(front) THEN front[i] ELSE more[i - Len(front)]
      BY <3>1, ConcatProperties
    <3>. QED BY <3>1, <3>2
  <2>. HIDE DEF both
  <2>5. \A i \in 1..Len(lines) : lines[i].whole => i \in 1..(Len(lines) - 1)
    BY <1>1, <2>1, <2>2 DEF Last
  <2>6. \A i \in 1..(Len(lines) - 1) : both[i] = lines[i]
    <3>1. \A i \in 1..(Len(lines) - 1) : front[i] = lines[i]
      BY <2>3 DEF front
    <3>2. \A i \in 1..(Len(lines) - 1) :
            i \in 1..(Len(lines) - 1 + Len(more)) /\ i <= Len(lines) - 1
      BY <1>1, <2>2
    <3>. QED BY <2>4, <3>1, <3>2
  <2>7. \A k \in 1..Len(more) : /\ Len(lines) - 1 + k \in 1..Len(both)
                                /\ both[Len(lines) - 1 + k] = more[k]
    BY <1>1, <2>2, <2>4
  <2>8. Extended(lines, more) = both
    BY <2>1 DEF both, front
  <2>9. Len(lines) <= Len(both)
    BY <1>1, <2>2, <2>4
  <2>10. \A i \in 1..Len(lines) : lines[i].whole => both[i] = lines[i]
    BY <2>5, <2>6
  <2>. QED BY <2>4, <2>7, <2>8, <2>9, <2>10
<1>. QED BY <1>2, <1>3

\* A part of the lines, and a fragment, are lines.
LEMMA PartTypes ==
  ASSUME NEW lines \in Seq(Line), NEW n \in 0..Len(lines)
  PROVE  /\ SubSeq(lines, 1, n) \in Seq(Line)
         /\ Len(SubSeq(lines, 1, n)) = n
         /\ \A i \in 1..n : SubSeq(lines, 1, n)[i] = lines[i]
         /\ n < Len(lines) =>
              Append(SubSeq(lines, 1, n), Fragment(lines[n + 1])) \in Seq(Line)
<1>1. \A i \in 1..n : lines[i] \in Line
  BY ElementOfSeq
<1>2. /\ SubSeq(lines, 1, n) \in Seq(Line)
      /\ Len(SubSeq(lines, 1, n)) = IF 1 <= n THEN n - 1 + 1 ELSE 0
      /\ \A i \in 1..(n - 1 + 1) : SubSeq(lines, 1, n)[i] = lines[1 + i - 1]
  BY <1>1, SubSeqProperties
<1>3. ASSUME n < Len(lines)
      PROVE  Append(SubSeq(lines, 1, n), Fragment(lines[n + 1])) \in Seq(Line)
  <2>1. lines[n + 1] \in Line
    BY <1>3, ElementOfSeq
  <2>2. Fragment(lines[n + 1]) \in Line
    BY <2>1 DEF Fragment, Line
  <2>. QED BY <1>2, <2>2, AppendProperties
<1>. QED BY <1>2, <1>3

\* A write that stops half way keeps the whole lines before it.
LEMMA PartialFacts ==
  ASSUME NEW before \in Seq(Line), NEW lines \in Seq(Line),
         NEW result \in Partial(before, lines)
  PROVE  /\ result \in Seq(Line)
         /\ Len(before) <= Len(result)
         /\ \A i \in 1..Len(before) :
              before[i].whole => result[i] = before[i]
<1>1. ASSUME NEW n \in 0..Len(lines),
             result = Extended(before, SubSeq(lines, 1, n))
      PROVE  \E more \in Seq(Line) : result = Extended(before, more)
  BY <1>1, PartTypes
<1>2. ASSUME NEW n \in 0..(Len(lines) - 1),
             result = Extended(before, Append(SubSeq(lines, 1, n),
                                              Fragment(lines[n + 1])))
      PROVE  \E more \in Seq(Line) : result = Extended(before, more)
  <2>1. n \in 0..Len(lines) /\ n < Len(lines)
    OBVIOUS
  <2>. QED BY <1>2, <2>1, PartTypes
<1>3. \E more \in Seq(Line) : result = Extended(before, more)
  BY <1>1, <1>2 DEF Partial
<1>. QED BY <1>3, ExtendedFacts

-----------------------------------------------------------------------------
(* One file, changed by writing behind its lines.                           *)

\* New lines behind those of a file keep what it has on the disk.
LEMMA WrittenFile ==
  ASSUME NEW file, GoodFile(file), NEW lines \in Seq(Line),
         Len(file.lines) <= Len(lines),
         \A i \in 1..Len(file.lines) :
           file.lines[i].whole => lines[i] = file.lines[i]
  PROVE  /\ GoodFile([file EXCEPT !.lines = lines])
         /\ Keeps(file, [file EXCEPT !.lines = lines])
         /\ [file EXCEPT !.lines = lines].lines = lines
<1>. DEFINE new == [file EXCEPT !.lines = lines]
<1>1. file \in File /\ file.synced \in Nat /\ file.synced <= Len(file.lines)
  BY DEF GoodFile, File
<1>2. /\ new \in File /\ new.lines = lines
      /\ new.synced = file.synced /\ new.linked = file.linked
  BY <1>1 DEF File
<1>. HIDE DEF new
<1>3. Len(file.lines) \in Nat /\ Len(lines) \in Nat
  BY <1>1 DEF File
<1>4. \A i \in 1..file.synced : i \in 1..Len(file.lines)
  BY <1>1, <1>3
<1>5. GoodFile(new)
  BY <1>1, <1>2, <1>3 DEF GoodFile
<1>6. Keeps(file, new)
  BY <1>1, <1>2, <1>4 DEF Keeps
<1>. QED BY <1>2, <1>5, <1>6 DEF new

\* A power loss leaves a file with everything its fsyncs reached.
LEMMA SurvivorFile ==
  ASSUME NEW file, GoodFile(file), NEW new \in Survivors(file)
  PROVE  GoodFile(new) /\ Keeps(file, new)
<1>. DEFINE kept == SubSeq(file.lines, 1, file.synced)
            rest == SubSeq(file.lines, file.synced + 1, Len(file.lines))
<1>1. /\ file \in File /\ file.synced \in Nat /\ file.lines \in Seq(Line)
      /\ file.synced \in 0..Len(file.lines) /\ Len(file.lines) \in Nat
  BY DEF GoodFile, File
<1>2. /\ kept \in Seq(Line) /\ Len(kept) = file.synced
      /\ \A i \in 1..file.synced : kept[i] = file.lines[i]
  BY <1>1, PartTypes
<1>3. rest \in Seq(Line)
  <2>1. \A i \in (file.synced + 1)..Len(file.lines) : file.lines[i] \in Line
    BY <1>1, ElementOfSeq
  <2>2. file.synced + 1 \in Int /\ Len(file.lines) \in Int
    BY <1>1
  <2>. QED BY <2>1, <2>2, SubSeqProperties
<1>4. PICK lines \in Partial(kept, rest) : new = [file EXCEPT !.lines = lines]
  BY DEF Survivors
<1>. HIDE DEF kept, rest
<1>5. /\ lines \in Seq(Line) /\ Len(kept) <= Len(lines)
      /\ \A i \in 1..Len(kept) : kept[i].whole => lines[i] = kept[i]
  BY <1>2, <1>3, PartialFacts
<1>6. /\ new \in File /\ new.lines = lines
      /\ new.synced = file.synced /\ new.linked = file.linked
  BY <1>1, <1>4, <1>5 DEF File
<1>7. GoodFile(new)
  BY <1>2, <1>5, <1>6 DEF GoodFile
<1>8. \A i \in 1..file.synced :
        file.lines[i].whole => lines[i] = file.lines[i]
  BY <1>2, <1>5
<1>9. Keeps(file, new)
  BY <1>1, <1>6, <1>8 DEF Keeps
<1>. QED BY <1>7, <1>9

Durable(r) ==
  /\ r.segment \in DOMAIN segs
  /\ segs[r.segment].linked
  /\ HasFrame(segs[r.segment].lines, segs[r.segment].synced, r.frame)

\* What no step may undo: a receipt stays good as long as the files it names
\* keep what they have on the disk.
LEMMA ReceiptsStayGood ==
  ASSUME Files, AckedIsDurable, SegsKept, Files'
  PROVE  \A r \in receipts : Durable(r)'
<1>. SUFFICES ASSUME NEW r \in receipts
     PROVE  /\ r.segment \in DOMAIN segs'
            /\ segs'[r.segment].linked
            /\ \E i \in 1..segs'[r.segment].synced :
                 /\ segs'[r.segment].lines[i].frame = r.frame
                 /\ segs'[r.segment].lines[i].whole
  BY DEF Durable, HasFrame
<1>. DEFINE n == r.segment
<1>1. n \in DOMAIN segs /\ segs[n].linked
  BY DEF AckedIsDurable
<1>2. n \in DOMAIN segs' /\ Keeps(segs[n], segs'[n])
  BY <1>1 DEF SegsKept
<1>3. PICK i \in 1..segs[n].synced :
        segs[n].lines[i].frame = r.frame /\ segs[n].lines[i].whole
  BY DEF AckedIsDurable
<1>4. segs'[n].lines[i] = segs[n].lines[i]
  BY <1>2, <1>3 DEF Keeps
<1>5. segs[n].synced \in Nat /\ segs'[n].synced \in Nat
  BY <1>1, <1>2 DEF Files, GoodFile, File
<1>6. i \in 1..segs'[n].synced
  BY <1>2, <1>3, <1>5 DEF Keeps
<1>. QED BY <1>1, <1>2, <1>3, <1>4, <1>6 DEF Keeps

LEMMA ReceiptsKept ==
  ASSUME Files, AckedIsDurable, SegsKept, Files', receipts' = receipts
  PROVE  AckedIsDurable'
<1>1. \A r \in receipts' : Durable(r)'
  BY ReceiptsStayGood
<1>. QED BY <1>1 DEF AckedIsDurable, Durable, HasFrame

\* The open segment gets new lines, the other files stay.
LEMMA HandleWritten ==
  ASSUME Files, handle \in DOMAIN segs, NEW lines \in Seq(Line),
         Len(segs[handle].lines) <= Len(lines),
         \A i \in 1..Len(segs[handle].lines) :
           segs[handle].lines[i].whole => lines[i] = segs[handle].lines[i],
         segs' = [segs EXCEPT ![handle].lines = lines]
  PROVE  /\ Files' /\ SegsKept /\ DOMAIN segs' = DOMAIN segs
         /\ segs'[handle].lines = lines
<1>1. /\ DOMAIN segs' = DOMAIN segs
      /\ segs'[handle] = [segs[handle] EXCEPT !.lines = lines]
      /\ \A n \in DOMAIN segs : n # handle => segs'[n] = segs[n]
  OBVIOUS
<1>2. GoodFile(segs[handle])
  BY DEF Files
<1>3. /\ GoodFile(segs'[handle]) /\ Keeps(segs[handle], segs'[handle])
      /\ segs'[handle].lines = lines
  BY <1>1, <1>2, WrittenFile
<1>4. \A n \in DOMAIN segs : GoodFile(segs[n]) /\ Keeps(segs[n], segs[n])
  BY DEF Files, GoodFile, File, Keeps
<1>5. \A n \in DOMAIN segs : GoodFile(segs'[n]) /\ Keeps(segs[n], segs'[n])
  BY <1>1, <1>3, <1>4
<1>. QED BY <1>1, <1>3, <1>5 DEF Files, SegsKept

LEMMA SegsUnchanged ==
  ASSUME Files, segs' = segs
  PROVE  Files' /\ SegsKept
<1>1. \A n \in DOMAIN segs : GoodFile(segs[n]) /\ Keeps(segs[n], segs[n])
  BY DEF Files, GoodFile, File, Keeps
<1>. QED BY <1>1 DEF Files, SegsKept

-----------------------------------------------------------------------------
(* Every step keeps what was acknowledged.                                  *)

LEMMA InitGood == Init => SpoolInv
<1>. SUFFICES ASSUME Init PROVE SpoolInv
  OBVIOUS
<1>1. DOMAIN segs = {}
  BY DEF Init
<1>2. <<>> \in Seq(Line) /\ Len(<<>>) = 0
  OBVIOUS
<1>3. \A i \in 1..Len(batch) : batch[i].whole
  BY <1>2 DEF Init
<1>. QED BY <1>1, <1>2, <1>3
     DEF Init, SpoolInv, Files, BatchInv, AckedIsDurable

\* Steps that put an end to the writer, or start one.
LEMMA IdleBatch ==
  ASSUME sent' \in Nat, batch' = <<>>, buffer' \in Seq(Line),
         handle' = -1 \/ handle' \in DOMAIN segs', pc' \in {"idle", "down"}
  PROVE  BatchInv'
<1>1. batch' \in Seq(Line) /\ Len(batch') = 0
  OBVIOUS
<1>. QED BY <1>1 DEF BatchInv

LEMMA StartWriterStep ==
  ASSUME SpoolInv, StartWriter
  PROVE  SpoolInv' /\ SegsKept
<1>1. Files' /\ SegsKept
  BY SegsUnchanged DEF SpoolInv, StartWriter
<1>2. AckedIsDurable'
  BY <1>1, ReceiptsKept DEF SpoolInv, StartWriter
<1>3. <<>> \in Seq(Line)
  OBVIOUS
<1>4. BatchInv'
  BY <1>3, IdleBatch DEF SpoolInv, BatchInv, StartWriter
<1>. QED BY <1>1, <1>2, <1>4 DEF SpoolInv

LEMMA SubmitStep ==
  ASSUME SpoolInv, NEW lines \in Batches, Submit(lines)
  PROVE  SpoolInv' /\ SegsKept
<1>1. Files' /\ SegsKept
  BY SegsUnchanged DEF SpoolInv, Submit
<1>2. AckedIsDurable'
  BY <1>1, ReceiptsKept DEF SpoolInv, Submit
<1>3. PICK n \in BatchSizes : \E sizes \in [1..n -> LineSizes] :
        lines = [i \in 1..n |-> [frame |-> sent + i, size |-> sizes[i],
                                 whole |-> TRUE]]
  BY DEF Batches
<1>4. PICK sizes \in [1..n -> LineSizes] :
        lines = [i \in 1..n |-> [frame |-> sent + i, size |-> sizes[i],
                                 whole |-> TRUE]]
  BY <1>3
<1>5. n \in Nat /\ sent \in Nat /\ \A i \in 1..n : sizes[i] \in Nat
  BY SpoolAssumption DEF SpoolInv, BatchInv
<1>6. \A i \in 1..n : lines[i] \in Line /\ lines[i].whole
  BY <1>4, <1>5 DEF Line
<1>7. lines \in Seq(Line) /\ Len(lines) = n
  <2>1. lines \in [1..n -> Line]
    BY <1>4, <1>6
  <2>. QED BY <1>5, <2>1
<1>8. /\ batch' = lines /\ pc' = "open" /\ sent' = sent + Len(lines)
      /\ buffer' = buffer /\ handle' = handle /\ segs' = segs
  BY DEF Submit
<1>9. BatchInv'
  BY <1>5, <1>6, <1>7, <1>8 DEF SpoolInv, BatchInv
<1>. QED BY <1>1, <1>2, <1>9 DEF SpoolInv

LEMMA OpenSegmentStep ==
  ASSUME SpoolInv, OpenSegment
  PROVE  SpoolInv' /\ SegsKept
<1>1. CASE ~NeedsSegment
  <2>1. segs' = segs /\ handle' = handle
    BY <1>1 DEF OpenSegment
  <2>2. Files' /\ SegsKept
    BY <2>1, SegsUnchanged DEF SpoolInv
  <2>3. AckedIsDurable'
    BY <2>2, ReceiptsKept DEF SpoolInv, OpenSegment
  <2>4. handle \in DOMAIN segs
    BY <1>1 DEF NeedsSegment, SpoolInv, BatchInv
  <2>5. BatchInv'
    BY <2>1, <2>4 DEF SpoolInv, BatchInv, OpenSegment
  <2>. QED BY <2>2, <2>3, <2>5 DEF SpoolInv
<1>2. CASE NeedsSegment
  <2>1. /\ number \notin DOMAIN segs
        /\ segs' = WithFile(number)
        /\ handle' = number
    BY <1>2 DEF OpenSegment
  <2>2. /\ DOMAIN segs' = DOMAIN segs \cup {number}
        /\ \A n \in DOMAIN segs : segs'[n] = segs[n]
        /\ segs'[number] = NewFile
    BY <2>1 DEF WithFile
  <2>3. GoodFile(NewFile)
    <3>1. <<>> \in Seq(Line) /\ Len(<<>>) = 0
      OBVIOUS
    <3>. QED BY <3>1 DEF GoodFile, File, NewFile
  <2>4. \A n \in DOMAIN segs : GoodFile(segs[n]) /\ Keeps(segs[n], segs[n])
    BY DEF SpoolInv, Files, GoodFile, File, Keeps
  <2>5. Files' /\ SegsKept
    BY <2>2, <2>3, <2>4 DEF Files, SegsKept
  <2>6. AckedIsDurable'
    BY <2>5, ReceiptsKept DEF SpoolInv, OpenSegment
  <2>7. BatchInv'
    BY <2>1, <2>2 DEF SpoolInv, BatchInv, OpenSegment
  <2>. QED BY <2>5, <2>6, <2>7 DEF SpoolInv
<1>. QED BY <1>1, <1>2

LEMMA WriteLinesStep ==
  ASSUME SpoolInv, WriteLines
  PROVE  SpoolInv' /\ SegsKept
<1>1. Files' /\ SegsKept
  BY SegsUnchanged DEF SpoolInv, WriteLines
<1>2. AckedIsDurable'
  BY <1>1, ReceiptsKept DEF SpoolInv, WriteLines
<1>3. BatchInv'
  BY DEF SpoolInv, BatchInv, WriteLines
<1>. QED BY <1>1, <1>2, <1>3 DEF SpoolInv

LEMMA FlushBufferStep ==
  ASSUME SpoolInv, FlushBuffer
  PROVE  SpoolInv' /\ SegsKept
<1>. DEFINE old   == segs[handle].lines
            lines == Extended(old, buffer)
<1>1. /\ handle \in DOMAIN segs /\ buffer = batch /\ buffer \in Seq(Line)
      /\ \A i \in 1..Len(batch) : batch[i].whole
  BY DEF SpoolInv, BatchInv, FlushBuffer
<1>2. old \in Seq(Line)
  BY <1>1 DEF SpoolInv, Files, GoodFile, File
<1>. HIDE DEF old
<1>3. /\ lines \in Seq(Line)
      /\ Len(old) <= Len(lines)
      /\ \A i \in 1..Len(old) : old[i].whole => lines[i] = old[i]
      /\ \A k \in 1..Len(batch) :
           \E i \in 1..Len(lines) : lines[i] = batch[k]
  <2>1. /\ lines \in Seq(Line)
        /\ Len(old) <= Len(lines)
        /\ \A i \in 1..Len(old) : old[i].whole => lines[i] = old[i]
        /\ \A k \in 1..Len(buffer) :
             \E i \in 1..Len(lines) : lines[i] = buffer[k]
    BY <1>1, <1>2, ExtendedFacts
  <2>. QED BY <1>1, <2>1
<1>4. segs' = [segs EXCEPT ![handle].lines = lines]
  BY DEF FlushBuffer, old
<1>5. handle' = handle /\ batch' = batch /\ buffer' = <<>> /\ pc' = "sync"
      /\ sent' = sent /\ receipts' = receipts
  BY DEF FlushBuffer
<1>. HIDE DEF lines
<1>6. /\ Files' /\ SegsKept /\ DOMAIN segs' = DOMAIN segs
      /\ segs'[handle].lines = lines
  BY <1>1, <1>3, <1>4, HandleWritten DEF SpoolInv, old
<1>7. AckedIsDurable'
  BY <1>5, <1>6, ReceiptsKept DEF SpoolInv
<1>8. \A k \in 1..Len(batch) : HasFrame(lines, Len(lines), batch[k].frame)
  BY <1>1, <1>3 DEF HasFrame
<1>9. <<>> \in Seq(Line)
  OBVIOUS
<1>10. BatchInv'
  BY <1>1, <1>5, <1>6, <1>8, <1>9 DEF SpoolInv, BatchInv
<1>. QED BY <1>6, <1>7, <1>10 DEF SpoolInv

LEMMA SyncFileStep ==
  ASSUME SpoolInv, SyncFile
  PROVE  SpoolInv' /\ SegsKept
<1>1. handle \in DOMAIN segs /\ GoodFile(segs[handle])
  BY DEF SpoolInv, BatchInv, Files, SyncFile
<1>2. /\ DOMAIN segs' = DOMAIN segs
      /\ segs'[handle] = [segs[handle] EXCEPT
                            !.synced = Len(segs[handle].lines)]
      /\ \A n \in DOMAIN segs : n # handle => segs'[n] = segs[n]
  BY <1>1 DEF SyncFile
<1>3. /\ segs'[handle] \in File /\ segs'[handle].lines = segs[handle].lines
      /\ segs'[handle].synced = Len(segs[handle].lines)
      /\ segs'[handle].linked = segs[handle].linked
  BY <1>1, <1>2 DEF GoodFile, File
<1>4. GoodFile(segs'[handle]) /\ Keeps(segs[handle], segs'[handle])
  BY <1>1, <1>3 DEF GoodFile, File, Keeps
<1>5. \A n \in DOMAIN segs : GoodFile(segs[n]) /\ Keeps(segs[n], segs[n])
  BY DEF SpoolInv, Files, GoodFile, File, Keeps
<1>6. \A n \in DOMAIN segs : GoodFile(segs'[n]) /\ Keeps(segs[n], segs'[n])
  BY <1>2, <1>4, <1>5
<1>7. Files' /\ SegsKept
  BY <1>2, <1>6 DEF Files, SegsKept
<1>8. AckedIsDurable'
  BY <1>7, ReceiptsKept DEF SpoolInv, SyncFile
<1>9. handle' = handle /\ batch' = batch /\ buffer' = buffer /\ pc' = "link"
      /\ sent' = sent /\ pc = "sync"
  BY DEF SyncFile
<1>10. BatchInv'
  BY <1>1, <1>2, <1>3, <1>9 DEF SpoolInv, BatchInv
<1>. QED BY <1>7, <1>8, <1>10 DEF SpoolInv

LEMMA AcknowledgeStep ==
  ASSUME SpoolInv, Acknowledge
  PROVE  SpoolInv' /\ SegsKept
<1>1. /\ handle \in DOMAIN segs
      /\ \A i \in 1..Len(batch) :
           HasFrame(segs[handle].lines, segs[handle].synced, batch[i].frame)
  BY DEF SpoolInv, BatchInv, Acknowledge
<1>2. /\ DOMAIN segs' = DOMAIN segs
      /\ \A n \in DOMAIN segs : segs'[n] = [segs[n] EXCEPT !.linked = TRUE]
  BY DEF Acknowledge
<1>3. ASSUME NEW n \in DOMAIN segs
      PROVE  /\ GoodFile(segs'[n]) /\ Keeps(segs[n], segs'[n])
             /\ segs'[n].lines = segs[n].lines
             /\ segs'[n].synced = segs[n].synced /\ segs'[n].linked
  <2>1. GoodFile(segs[n])
    BY DEF SpoolInv, Files
  <2>2. /\ segs'[n] \in File /\ segs'[n].lines = segs[n].lines
        /\ segs'[n].synced = segs[n].synced /\ segs'[n].linked
    BY <1>2, <2>1 DEF GoodFile, File
  <2>. QED BY <2>1, <2>2 DEF GoodFile, File, Keeps
<1>4. Files' /\ SegsKept
  BY <1>2, <1>3 DEF Files, SegsKept
<1>5. \A r \in receipts : Durable(r)'
  BY <1>4, ReceiptsStayGood DEF SpoolInv
<1>6. ASSUME NEW r \in ReceiptsOf(batch)
      PROVE  Durable(r)'
  <2>1. PICK i \in DOMAIN batch :
          r.segment = handle /\ r.frame = batch[i].frame
    BY DEF ReceiptsOf
  <2>2. i \in 1..Len(batch)
    BY <2>1 DEF SpoolInv, BatchInv
  <2>. QED BY <1>1, <1>2, <1>3, <2>1, <2>2 DEF Durable
<1>7. receipts' = receipts \cup ReceiptsOf(batch)
  BY DEF Acknowledge
<1>8. \A r \in receipts' : Durable(r)'
  BY <1>5, <1>6, <1>7
<1>9. AckedIsDurable'
  BY <1>8 DEF AckedIsDurable, Durable, HasFrame
<1>10. BatchInv'
  BY <1>2, IdleBatch DEF SpoolInv, BatchInv, Acknowledge
<1>. QED BY <1>4, <1>9, <1>10 DEF SpoolInv

\* The open segment is extended, or stays: what failing, closing and a crash
\* do to the files.
LEMMA ExtendOpenSegment ==
  ASSUME SpoolInv, handle \in DOMAIN segs, NEW more \in Seq(Line),
         segs' = [segs EXCEPT ![handle].lines =
                    Extended(segs[handle].lines, more)]
  PROVE  Files' /\ SegsKept /\ DOMAIN segs' = DOMAIN segs
<1>. DEFINE old   == segs[handle].lines
            lines == Extended(old, more)
<1>1. old \in Seq(Line)
  BY DEF SpoolInv, Files, GoodFile, File
<1>2. /\ lines \in Seq(Line)
      /\ Len(old) <= Len(lines)
      /\ \A i \in 1..Len(old) : old[i].whole => lines[i] = old[i]
  BY <1>1, ExtendedFacts
<1>. HIDE DEF lines
<1>3. segs' = [segs EXCEPT ![handle].lines = lines]
  BY DEF lines
<1>. QED BY <1>2, <1>3, HandleWritten DEF SpoolInv

LEMMA AppendFailsStep ==
  ASSUME SpoolInv, AppendFails
  PROVE  SpoolInv' /\ SegsKept
<1>1. /\ pc' = "idle" /\ batch' = <<>> /\ handle' = handle /\ sent' = sent
      /\ receipts' = receipts
  BY DEF AppendFails
<1>2. batch \in Seq(Line) /\ buffer \in Seq(Line) /\ sent \in Nat
  BY DEF SpoolInv, BatchInv
<1>3. Files' /\ SegsKept /\ DOMAIN segs' = DOMAIN segs
      /\ buffer' \in Seq(Line)
  <2>1. CASE UNCHANGED <<segs, buffer>>
    BY <1>2, <2>1, SegsUnchanged DEF SpoolInv
  <2>2. CASE /\ pc = "write"
             /\ \E n \in 1..Len(batch) : buffer' = SubSeq(batch, 1, n)
             /\ UNCHANGED segs
    <3>1. PICK n \in 1..Len(batch) : buffer' = SubSeq(batch, 1, n)
      BY <2>2
    <3>2. n \in 0..Len(batch)
      OBVIOUS
    <3>3. buffer' \in Seq(Line)
      BY <1>2, <3>1, <3>2, PartTypes
    <3>. QED BY <2>2, <3>3, SegsUnchanged DEF SpoolInv
  <2>3. CASE /\ pc = "flush"
             /\ \E n \in 1..Len(buffer) :
                  /\ segs' = [segs EXCEPT ![handle].lines =
                       Extended(@, Append(SubSeq(buffer, 1, n - 1),
                                          Fragment(buffer[n])))]
                  /\ buffer' = SubSeq(buffer, n, Len(buffer))
    <3>1. PICK n \in 1..Len(buffer) :
            /\ segs' = [segs EXCEPT ![handle].lines =
                 Extended(segs[handle].lines,
                          Append(SubSeq(buffer, 1, n - 1),
                                 Fragment(buffer[n])))]
            /\ buffer' = SubSeq(buffer, n, Len(buffer))
      BY <2>3
    <3>2. /\ n - 1 \in 0..Len(buffer) /\ n - 1 < Len(buffer)
          /\ (n - 1) + 1 = n
      BY <1>2
    <3>3. Append(SubSeq(buffer, 1, n - 1), Fragment(buffer[n])) \in Seq(Line)
      <4>1. Append(SubSeq(buffer, 1, n - 1),
                   Fragment(buffer[(n - 1) + 1])) \in Seq(Line)
        BY <1>2, <3>2, PartTypes
      <4>. QED BY <3>2, <4>1
    <3>4. handle \in DOMAIN segs
      BY <2>3 DEF SpoolInv, BatchInv
    <3>5. Files' /\ SegsKept /\ DOMAIN segs' = DOMAIN segs
      BY <3>1, <3>3, <3>4, ExtendOpenSegment
    <3>6. \A i \in n..Len(buffer) : buffer[i] \in Line
      BY <1>2, ElementOfSeq
    <3>7. SubSeq(buffer, n, Len(buffer)) \in Seq(Line)
      BY <1>2, <3>6, SubSeqProperties
    <3>. QED BY <3>1, <3>5, <3>7
  <2>. QED BY <2>1, <2>2, <2>3 DEF AppendFails
<1>4. AckedIsDurable'
  BY <1>1, <1>3, ReceiptsKept DEF SpoolInv
<1>5. BatchInv'
  BY <1>1, <1>2, <1>3, IdleBatch DEF SpoolInv, BatchInv
<1>. QED BY <1>3, <1>4, <1>5 DEF SpoolInv

LEMMA CloseWriterStep ==
  ASSUME SpoolInv, CloseWriter
  PROVE  SpoolInv' /\ SegsKept
<1>1. /\ pc' = "down" /\ batch' = <<>> /\ buffer' = <<>> /\ handle' = -1
      /\ sent' = sent /\ receipts' = receipts
  BY DEF CloseWriter, WriterGone
<1>2. Files' /\ SegsKept
  <2>1. CASE handle = -1
    BY <2>1, SegsUnchanged DEF SpoolInv, CloseWriter
  <2>2. CASE handle # -1
    <3>1. handle \in DOMAIN segs /\ buffer \in Seq(Line)
      BY <2>2 DEF SpoolInv, BatchInv
    <3>2. segs' = [segs EXCEPT ![handle].lines =
                     Extended(segs[handle].lines, buffer)]
      BY <2>2 DEF CloseWriter
    <3>. QED BY <3>1, <3>2, ExtendOpenSegment
  <2>. QED BY <2>1, <2>2
<1>3. AckedIsDurable'
  BY <1>1, <1>2, ReceiptsKept DEF SpoolInv
<1>4. <<>> \in Seq(Line)
  OBVIOUS
<1>5. BatchInv'
  BY <1>1, <1>4, IdleBatch DEF SpoolInv, BatchInv
<1>. QED BY <1>2, <1>3, <1>5 DEF SpoolInv

LEMMA ProcessCrashStep ==
  ASSUME SpoolInv, ProcessCrash
  PROVE  SpoolInv' /\ SegsKept
<1>1. /\ pc' = "down" /\ batch' = <<>> /\ buffer' = <<>> /\ handle' = -1
      /\ sent' = sent /\ receipts' = receipts
  BY DEF ProcessCrash, WriterGone
<1>2. Files' /\ SegsKept
  <2>1. CASE handle = -1 /\ UNCHANGED segs
    BY <2>1, SegsUnchanged DEF SpoolInv
  <2>2. CASE /\ handle # -1
             /\ \E lines \in Partial(segs[handle].lines, buffer) :
                  segs' = [segs EXCEPT ![handle].lines = lines]
    <3>1. handle \in DOMAIN segs /\ buffer \in Seq(Line)
      BY <2>2 DEF SpoolInv, BatchInv
    <3>2. segs[handle].lines \in Seq(Line)
      BY <3>1 DEF SpoolInv, Files, GoodFile, File
    <3>3. PICK lines \in Partial(segs[handle].lines, buffer) :
            segs' = [segs EXCEPT ![handle].lines = lines]
      BY <2>2
    <3>4. /\ lines \in Seq(Line)
          /\ Len(segs[handle].lines) <= Len(lines)
          /\ \A i \in 1..Len(segs[handle].lines) :
               segs[handle].lines[i].whole
                 => lines[i] = segs[handle].lines[i]
      BY <3>1, <3>2, PartialFacts
    <3>. QED BY <3>1, <3>3, <3>4, HandleWritten DEF SpoolInv
  <2>. QED BY <2>1, <2>2 DEF ProcessCrash
<1>3. AckedIsDurable'
  BY <1>1, <1>2, ReceiptsKept DEF SpoolInv
<1>4. <<>> \in Seq(Line)
  OBVIOUS
<1>5. BatchInv'
  BY <1>1, <1>4, IdleBatch DEF SpoolInv, BatchInv
<1>. QED BY <1>2, <1>3, <1>5 DEF SpoolInv

LEMMA PowerLossStep ==
  ASSUME SpoolInv, PowerLoss
  PROVE  SpoolInv' /\ SegsKept
<1>1. /\ pc' = "down" /\ batch' = <<>> /\ buffer' = <<>> /\ handle' = -1
      /\ sent' = sent /\ receipts' = receipts
  BY DEF PowerLoss, WriterGone
<1>2. PICK kept \in SUBSET DOMAIN segs :
        /\ \A n \in DOMAIN segs : segs[n].linked => n \in kept
        /\ \E after \in [kept -> UNION {Survivors(segs[n]) : n \in kept}] :
             /\ \A n \in kept : after[n] \in Survivors(segs[n])
             /\ segs' = after
  BY DEF PowerLoss
<1>3. DOMAIN segs' = kept /\ \A n \in kept : segs'[n] \in Survivors(segs[n])
  BY <1>2
<1>4. \A n \in kept : GoodFile(segs'[n]) /\ Keeps(segs[n], segs'[n])
  BY <1>3, SurvivorFile DEF SpoolInv, Files
<1>5. Files' /\ SegsKept
  BY <1>2, <1>3, <1>4 DEF Files, SegsKept
<1>6. AckedIsDurable'
  BY <1>1, <1>5, ReceiptsKept DEF SpoolInv
<1>7. <<>> \in Seq(Line)
  OBVIOUS
<1>8. BatchInv'
  BY <1>1, <1>7, IdleBatch DEF SpoolInv, BatchInv
<1>. QED BY <1>5, <1>6, <1>8 DEF SpoolInv

LEMMA StutterStep ==
  ASSUME SpoolInv, UNCHANGED vars
  PROVE  SpoolInv' /\ SegsKept
<1>1. Files' /\ SegsKept
  BY SegsUnchanged DEF SpoolInv, vars
<1>. QED BY <1>1 DEF SpoolInv, Files, BatchInv, AckedIsDurable, vars

\* Every step keeps SpoolInv, and what is on the disk.
LEMMA SpoolStep ==
  ASSUME SpoolInv, [Next]_vars
  PROVE  SpoolInv' /\ SegsKept
<1>1. CASE StartWriter                           BY <1>1, StartWriterStep
<1>2. CASE \E lines \in Batches : Submit(lines)  BY <1>2, SubmitStep
<1>3. CASE OpenSegment                           BY <1>3, OpenSegmentStep
<1>4. CASE WriteLines                            BY <1>4, WriteLinesStep
<1>5. CASE FlushBuffer                           BY <1>5, FlushBufferStep
<1>6. CASE SyncFile                              BY <1>6, SyncFileStep
<1>7. CASE Acknowledge                           BY <1>7, AcknowledgeStep
<1>8. CASE AppendFails                           BY <1>8, AppendFailsStep
<1>9. CASE CloseWriter                           BY <1>9, CloseWriterStep
<1>10. CASE ProcessCrash                         BY <1>10, ProcessCrashStep
<1>11. CASE PowerLoss                            BY <1>11, PowerLossStep
<1>12. CASE UNCHANGED vars                       BY <1>12, StutterStep
<1>. QED BY <1>1, <1>2, <1>3, <1>4, <1>5, <1>6, <1>7, <1>8, <1>9, <1>10,
            <1>11, <1>12 DEF Next

\* Of every reachable state: an acknowledged frame is a whole line in the
\* synced part of a file whose name is on the disk (the promise in the first
\* lines of raw_capture_spool.py), through any failures and crashes.
THEOREM AcknowledgedSurvives == Spec => []AckedIsDurable
<1>1. Init => SpoolInv
  BY InitGood
<1>2. SpoolInv /\ [Next]_vars => SpoolInv'
  BY SpoolStep
<1>3. SpoolInv => AckedIsDurable
  BY DEF SpoolInv
<1>. QED BY <1>1, <1>2, <1>3, PTL DEF Spec

-----------------------------------------------------------------------------
(* Sums over a finite set.  A recursive definition is reasoned about by     *)
(* induction on the set of the arguments for which a claim holds.           *)

\* A set with 0 and the successor of each of its numbers has all of them: a
\* least one that it lacks would have no predecessor.
LEMMA NatSetInduction ==
  ASSUME NEW T, 0 \in T, \A n \in Nat : n \in T => n + 1 \in T
  PROVE  Nat \subseteq T
<1>. DEFINE less == OpToRel(<, Nat)
            U == Nat \ T
<1>. SUFFICES ASSUME U # {} PROVE FALSE
  OBVIOUS
<1>1. IsWellFoundedOn(less, Nat)
  BY NatLessThanWellFounded
<1>2. \A x, y \in Nat : x < y => <<x, y>> \in less
  BY DEF OpToRel
<1>. HIDE DEF less
<1>3. PICK x \in U : \A y \in U : ~(<<y, x>> \in less)
  BY <1>1, WFMin
<1>4. x \in Nat /\ x # 0
  OBVIOUS
<1>5. x - 1 \in Nat /\ x - 1 < x /\ (x - 1) + 1 = x
  BY <1>4
<1>6. x - 1 \notin T
  BY <1>4, <1>5
<1>. QED BY <1>2, <1>3, <1>4, <1>5, <1>6

\* Induction over the subsets of a finite set.
LEMMA SubsetInduction ==
  ASSUME NEW S, IsFiniteSet(S), NEW T,
         \A s \in SUBSET S : (\A x \in s : s \ {x} \in T) => s \in T
  PROVE  SUBSET S \subseteq T
<1>. DEFINE N == {n \in Nat : \A s \in SUBSET S : Cardinality(s) = n => s \in T}
<1>1. \A s \in SUBSET S : IsFiniteSet(s) /\ Cardinality(s) \in Nat
  BY FS_Subset, FS_CardinalityType
<1>2. 0 \in N
  <2>1. \A s \in SUBSET S : Cardinality(s) = 0 => s = {}
    BY <1>1, FS_EmptySet
  <2>. QED BY <2>1
<1>3. ASSUME NEW n \in Nat, n \in N
      PROVE  n + 1 \in N
  <2>1. ASSUME NEW s \in SUBSET S, Cardinality(s) = n + 1
        PROVE  s \in T
    <3>1. ASSUME NEW x \in s PROVE s \ {x} \in T
      <4>1. Cardinality(s \ {x}) = n
        BY <1>1, <2>1, FS_RemoveElement
      <4>2. s \ {x} \in SUBSET S
        OBVIOUS
      <4>. QED BY <1>3, <4>1, <4>2
    <3>. QED BY <3>1
  <2>. QED BY <2>1
<1>. HIDE DEF N
<1>4. Nat \subseteq N
  BY <1>2, <1>3, NatSetInduction
<1>. QED BY <1>1, <1>4 DEF N

\* The same, with the hypothesis for every smaller subset.
LEMMA SmallerSubsets ==
  ASSUME NEW S, IsFiniteSet(S), NEW T,
         \A s \in SUBSET S : (\A t \in SUBSET s : t # s => t \in T) => s \in T
  PROVE  SUBSET S \subseteq T
<1>. DEFINE U == {s \in SUBSET S : SUBSET s \subseteq T}
<1>1. ASSUME NEW s \in SUBSET S, \A x \in s : s \ {x} \in U
      PROVE  s \in U
  <2>1. ASSUME NEW t \in SUBSET s, t # s
        PROVE  t \in T
    <3>1. PICK x \in s : x \notin t
      BY <2>1
    <3>2. t \in SUBSET (s \ {x})
      BY <3>1
    <3>. QED BY <1>1, <3>2
  <2>. QED BY <2>1
<1>. HIDE DEF U
<1>2. SUBSET S \subseteq U
  BY <1>1, SubsetInduction
<1>. QED BY <1>2 DEF U

\* A finite number of things, each with a size.
Sizes(w) == IsFiniteSet(DOMAIN w) /\ w \in [DOMAIN w -> Nat]

\* g gives for every set of them what their sizes add up to.
IsSum(g, w) ==
  /\ g \in [SUBSET DOMAIN w -> Nat]
  /\ g[{}] = 0
  /\ \A s \in SUBSET DOMAIN w : \A x \in s : g[s] = g[s \ {x}] + w[x]

\* g adds them up in the order in which c takes them.
IsChoice(c, S) == \A s \in SUBSET S : s # {} => c[s] \in s
AddsUp(g, c, w) ==
  g = [s \in SUBSET DOMAIN w |->
         IF s = {} THEN 0 ELSE g[s \ {c[s]}] + w[c[s]]]

Total(w) == (CHOOSE g : IsSum(g, w))[DOMAIN w]

LEMMA AddingUpEnds ==
  ASSUME NEW w, Sizes(w), NEW c, IsChoice(c, DOMAIN w)
  PROVE  \E g : AddsUp(g, c, w)
<1>. DEFINE S == DOMAIN w
            Upto(n) == {s \in SUBSET S : Cardinality(s) <= n}
            Good(g, n) == g = [s \in Upto(n) |->
              IF s = {} THEN 0 ELSE g[s \ {c[s]}] + w[c[s]]]
            N == {n \in Nat : \E g : Good(g, n)}
<1>1. /\ IsFiniteSet(S)
      /\ \A s \in SUBSET S : IsFiniteSet(s) /\ Cardinality(s) \in Nat
                             /\ Cardinality(s) <= Cardinality(S)
  BY FS_Subset, FS_CardinalityType DEF Sizes
<1>2. \A s \in SUBSET S : s # {} =>
        /\ c[s] \in s /\ s \ {c[s]} \in SUBSET S
        /\ Cardinality(s) = Cardinality(s \ {c[s]}) + 1
  <2>. SUFFICES ASSUME NEW s \in SUBSET S, s # {}
       PROVE  c[s] \in s /\ s \ {c[s]} \in SUBSET S
              /\ Cardinality(s) = Cardinality(s \ {c[s]}) + 1
    OBVIOUS
  <2>1. c[s] \in s
    BY DEF IsChoice
  <2>2. Cardinality(s \ {c[s]}) = Cardinality(s) - 1
    BY <1>1, <2>1, FS_RemoveElement
  <2>. QED BY <1>1, <2>1, <2>2
<1>3. 0 \in N
  <2>1. \A s \in Upto(0) : s = {}
    BY <1>1, FS_EmptySet
  <2>2. Good([s \in Upto(0) |-> 0], 0)
    BY <2>1
  <2>. QED BY <2>2
<1>4. ASSUME NEW n \in Nat, n \in N
      PROVE  n + 1 \in N
  <2>1. PICK g : Good(g, n)
    BY <1>4
  <2>. DEFINE h == [s \in Upto(n + 1) |->
                IF s = {} THEN 0 ELSE g[s \ {c[s]}] + w[c[s]]]
  <2>2. \A s \in Upto(n) : s \in Upto(n + 1) /\ h[s] = g[s]
    <3>1. \A s \in Upto(n) : s \in Upto(n + 1)
      BY <1>1
    <3>2. \A s \in Upto(n) :
            g[s] = IF s = {} THEN 0 ELSE g[s \ {c[s]}] + w[c[s]]
      BY <2>1
    <3>. QED BY <3>1, <3>2
  <2>3. \A s \in Upto(n + 1) : s # {} => s \ {c[s]} \in Upto(n)
    BY <1>1, <1>2
  <2>4. \A s \in Upto(n + 1) : s # {} => h[s \ {c[s]}] = g[s \ {c[s]}]
    BY <2>2, <2>3
  <2>5. \A s \in Upto(n + 1) : h[s] =
          IF s = {} THEN 0 ELSE h[s \ {c[s]}] + w[c[s]]
    BY <2>4
  <2>6. h = [s \in Upto(n + 1) |-> h[s]]
    OBVIOUS
  <2>. HIDE DEF h
  <2>7. Good(h, n + 1)
    BY <2>5, <2>6
  <2>. HIDE DEF Good
  <2>. QED BY <2>7
<1>. HIDE DEF N
<1>5. Nat \subseteq N
  BY <1>3, <1>4, NatSetInduction
<1>6. Cardinality(S) \in N
  BY <1>1, <1>5
<1>7. PICK g : Good(g, Cardinality(S))
  BY <1>6 DEF N
<1>8. Upto(Cardinality(S)) = SUBSET DOMAIN w
  BY <1>1
<1>9. AddsUp(g, c, w)
  BY <1>7, <1>8 DEF AddsUp
<1>. QED BY <1>9

\* Whatever the order, the sum is the same.
LEMMA AnyOrder ==
  ASSUME NEW w, Sizes(w), NEW c, IsChoice(c, DOMAIN w), NEW g, AddsUp(g, c, w)
  PROVE  IsSum(g, w)
<1>. DEFINE S == DOMAIN w
            T == {s \in SUBSET S : /\ g[s] \in Nat
                                   /\ \A x \in s : g[s] = g[s \ {x}] + w[x]}
<1>1. /\ DOMAIN g = SUBSET S /\ g[{}] = 0
      /\ \A s \in SUBSET S : s # {} => g[s] = g[s \ {c[s]}] + w[c[s]]
  BY DEF AddsUp
<1>2. \A x \in S : w[x] \in Nat
  BY DEF Sizes
<1>3. ASSUME NEW s \in SUBSET S, \A t \in SUBSET s : t # s => t \in T
      PROVE  s \in T
  <2>1. CASE s = {}
    BY <1>1, <2>1
  <2>2. CASE s # {}
    <3>. DEFINE y == c[s]
    <3>1. y \in s /\ w[y] \in Nat /\ g[s] = g[s \ {y}] + w[y]
      BY <1>1, <1>2, <2>2 DEF IsChoice
    <3>. HIDE DEF y
    <3>2. g[s \ {y}] \in Nat
      BY <1>3, <3>1
    <3>3. ASSUME NEW x \in s, x # y PROVE g[s] = g[s \ {x}] + w[x]
      <4>. DEFINE r == s \ {x, y}
      <4>1. /\ s \ {x} \in T /\ s \ {y} \in T /\ r \in T
            /\ y \in s \ {x} /\ x \in s \ {y}
        BY <1>3, <3>1, <3>3
      <4>2. (s \ {x}) \ {y} = r /\ (s \ {y}) \ {x} = r
        OBVIOUS
      <4>. HIDE DEF r
      <4>3. g[s \ {x}] = g[r] + w[y] /\ g[s \ {y}] = g[r] + w[x]
        BY <4>1, <4>2
      <4>4. g[r] \in Nat /\ w[x] \in Nat
        BY <1>2, <4>1
      <4>. QED BY <3>1, <4>3, <4>4
    <3>4. g[s] \in Nat
      BY <3>1, <3>2
    <3>5. \A x \in s : g[s] = g[s \ {x}] + w[x]
      BY <3>1, <3>3
    <3>. QED BY <3>4, <3>5
  <2>. QED BY <2>1, <2>2
<1>. HIDE DEF T
<1>4. SUBSET S \subseteq T
  <2>1. IsFiniteSet(S)
    BY DEF Sizes
  <2>2. \A s \in SUBSET S : (\A t \in SUBSET s : t # s => t \in T) => s \in T
    BY <1>3
  <2>. HIDE DEF S
  <2>. QED BY <2>1, <2>2, SmallerSubsets
<1>5. \A s \in SUBSET S : g[s] \in Nat
  BY <1>4 DEF T
<1>6. \A s \in SUBSET S : \A x \in s : g[s] = g[s \ {x}] + w[x]
  BY <1>4 DEF T
<1>7. g \in [SUBSET S -> Nat]
  BY <1>1, <1>5 DEF AddsUp
<1>. QED BY <1>1, <1>6, <1>7 DEF IsSum

LEMMA SumsAgree ==
  ASSUME NEW w, Sizes(w), NEW v, Sizes(v), NEW g, IsSum(g, w), NEW h, IsSum(h, v),
         NEW S, S \subseteq DOMAIN w, S \subseteq DOMAIN v,
         \A x \in S : w[x] <= v[x]
  PROVE  \A s \in SUBSET S : g[s] \in Nat /\ h[s] \in Nat /\ g[s] <= h[s]
<1>. DEFINE T == {s \in SUBSET S : g[s] <= h[s]}
<1>1. IsFiniteSet(S)
  BY FS_Subset DEF Sizes
<1>2. \A s \in SUBSET S : g[s] \in Nat /\ h[s] \in Nat
  BY DEF IsSum
<1>3. ASSUME NEW s \in SUBSET S, \A x \in s : s \ {x} \in T
      PROVE  s \in T
  <2>1. CASE s = {}
    BY <2>1 DEF IsSum
  <2>2. CASE s # {}
    <3>1. PICK x \in s : TRUE
      BY <2>2
    <3>2. /\ g[s] = g[s \ {x}] + w[x] /\ h[s] = h[s \ {x}] + v[x]
          /\ w[x] \in Nat /\ v[x] \in Nat /\ w[x] <= v[x]
      BY DEF IsSum, Sizes
    <3>3. /\ g[s \ {x}] <= h[s \ {x}]
          /\ g[s \ {x}] \in Nat /\ h[s \ {x}] \in Nat
      BY <1>2, <1>3
    <3>. QED BY <3>2, <3>3
  <2>. QED BY <2>1, <2>2
<1>. HIDE DEF T
<1>4. SUBSET S \subseteq T
  BY <1>1, <1>3, SubsetInduction
<1>. QED BY <1>2, <1>4 DEF T

\* There is a sum.
LEMMA SumExists ==
  ASSUME NEW w, Sizes(w)
  PROVE  IsSum(CHOOSE g : IsSum(g, w), w)
<1>. DEFINE c == [s \in SUBSET DOMAIN w |-> CHOOSE x \in s : TRUE]
<1>1. IsChoice(c, DOMAIN w)
  BY DEF IsChoice
<1>. HIDE DEF c
<1>2. PICK g : AddsUp(g, c, w)
  BY <1>1, AddingUpEnds
<1>3. IsSum(g, w)
  BY <1>1, <1>2, AnyOrder
<1>. QED BY <1>3

LEMMA TotalIs ==
  ASSUME NEW w, Sizes(w), NEW g, IsSum(g, w)
  PROVE  Total(w) = g[DOMAIN w]
<1>. DEFINE h == CHOOSE f : IsSum(f, w)
<1>1. IsSum(h, w)
  BY SumExists
<1>2. \A x \in DOMAIN w : w[x] <= w[x]
  BY DEF Sizes
<1>. HIDE DEF h
<1>3. /\ g[DOMAIN w] \in Nat /\ h[DOMAIN w] \in Nat
      /\ g[DOMAIN w] <= h[DOMAIN w] /\ h[DOMAIN w] <= g[DOMAIN w]
  <2>1. DOMAIN w \in SUBSET DOMAIN w
    OBVIOUS
  <2>. QED BY <1>1, <1>2, <2>1, SumsAgree
<1>4. g[DOMAIN w] = h[DOMAIN w]
  BY <1>3
<1>. QED BY <1>4 DEF Total, h

LEMMA TotalType ==
  ASSUME NEW w, Sizes(w)
  PROVE  Total(w) \in Nat /\ (DOMAIN w = {} => Total(w) = 0)
BY SumExists DEF Total, IsSum

\* The total of some of the sizes, each at most the corresponding one.
LEMMA TotalGrows ==
  ASSUME NEW w, Sizes(w), NEW v, Sizes(v), DOMAIN w \subseteq DOMAIN v,
         \A x \in DOMAIN w : w[x] <= v[x]
  PROVE  Total(w) <= Total(v)
<1>. DEFINE g == CHOOSE f : IsSum(f, w)
            h == CHOOSE f : IsSum(f, v)
            D == DOMAIN w
            T == {s \in SUBSET DOMAIN v : h[s \cap D] <= h[s]}
<1>1. IsSum(g, w) /\ IsSum(h, v)
  BY SumExists
<1>2. Total(w) = g[D] /\ Total(v) = h[DOMAIN v]
  BY DEF Total
<1>. HIDE DEF g, h
<1>3. g[D] \in Nat /\ h[D] \in Nat /\ g[D] <= h[D]
  <2>1. D \subseteq DOMAIN w /\ D \in SUBSET D
    OBVIOUS
  <2>. QED BY <1>1, <2>1, SumsAgree
<1>4. \A s \in SUBSET DOMAIN v : h[s] \in Nat
  BY <1>1 DEF IsSum
<1>5. ASSUME NEW s \in SUBSET DOMAIN v, \A x \in s : s \ {x} \in T
      PROVE  s \in T
  <2>1. CASE s \subseteq D
    <3>1. s \cap D = s
      BY <2>1
    <3>2. h[s] \in Nat
      BY <1>4
    <3>. HIDE DEF D
    <3>. QED BY <3>1, <3>2
  <2>2. CASE ~(s \subseteq D)
    <3>1. PICK x \in s : x \notin D
      BY <2>2
    <3>2. (s \ {x}) \cap D = s \cap D
      BY <3>1
    <3>3. h[s] = h[s \ {x}] + v[x] /\ v[x] \in Nat
      BY <1>1 DEF IsSum, Sizes
    <3>4. h[(s \ {x}) \cap D] <= h[s \ {x}]
      BY <1>5
    <3>5. h[s \ {x}] \in Nat /\ h[s] \in Nat /\ h[s \cap D] \in Nat
      <4>1. s \ {x} \in SUBSET DOMAIN v /\ s \cap D \in SUBSET DOMAIN v
        OBVIOUS
      <4>. QED BY <1>4, <4>1
    <3>. QED BY <3>2, <3>3, <3>4, <3>5
  <2>. QED BY <2>1, <2>2
<1>. HIDE DEF T
<1>6. SUBSET DOMAIN v \subseteq T
  BY <1>5, SubsetInduction DEF Sizes
<1>7. h[DOMAIN v \cap D] <= h[DOMAIN v]
  BY <1>6 DEF T
<1>8. DOMAIN v \cap D = D
  OBVIOUS
<1>9. h[DOMAIN v] \in Nat
  BY <1>4
<1>. QED BY <1>2, <1>3, <1>7, <1>8, <1>9

\* One more or one less.
LEMMA TotalWithout ==
  ASSUME NEW w, Sizes(w), NEW v, Sizes(v), NEW x \in DOMAIN w,
         DOMAIN v = DOMAIN w \ {x}, \A y \in DOMAIN v : v[y] = w[y]
  PROVE  Total(w) = Total(v) + w[x]
<1>. DEFINE g == CHOOSE f : IsSum(f, w)
            h == CHOOSE f : IsSum(f, v)
            D == DOMAIN v
<1>1. IsSum(g, w) /\ IsSum(h, v)
  BY SumExists
<1>2. Total(w) = g[DOMAIN w] /\ Total(v) = h[D]
  BY DEF Total
<1>. HIDE DEF g, h
<1>3. \A y \in D : w[y] <= v[y] /\ v[y] <= w[y]
  BY DEF Sizes
<1>4. /\ g[D] \in Nat /\ h[D] \in Nat
      /\ g[D] <= h[D] /\ h[D] <= g[D]
  <2>1. D \subseteq DOMAIN w /\ D \subseteq DOMAIN v /\ D \in SUBSET D
    OBVIOUS
  <2>2. g[D] \in Nat /\ h[D] \in Nat /\ g[D] <= h[D]
    BY <1>1, <1>3, <2>1, SumsAgree
  <2>3. h[D] <= g[D]
    BY <1>1, <1>3, <2>1, SumsAgree
  <2>. QED BY <2>2, <2>3
<1>5. g[DOMAIN w] = g[D] + w[x]
  BY <1>1 DEF IsSum
<1>. QED BY <1>2, <1>4, <1>5

\* A finite set of integers that is not empty has a greatest and a least one.
LEMMA MaxFacts ==
  ASSUME NEW S, S \subseteq Int, IsFiniteSet(S), S # {}
  PROVE  Max(S) \in S /\ \A y \in S : Max(S) >= y
<1>. DEFINE T == {s \in SUBSET S : s # {} => \E x \in s : \A y \in s : x >= y}
<1>1. ASSUME NEW s \in SUBSET S, \A x \in s : s \ {x} \in T
      PROVE  s \in T
  <2>. SUFFICES ASSUME s # {} PROVE \E x \in s : \A y \in s : x >= y
    OBVIOUS
  <2>1. PICK x \in s : TRUE
    OBVIOUS
  <2>2. CASE s \ {x} = {}
    BY <2>2
  <2>3. CASE s \ {x} # {}
    <3>1. PICK z \in s \ {x} : \A y \in s \ {x} : z >= y
      BY <1>1, <2>3
    <3>2. x \in Int /\ z \in Int
      OBVIOUS
    <3>3. CASE z >= x
      BY <3>1, <3>3
    <3>4. CASE x > z
      <4>1. \A y \in s : x >= y
        BY <3>1, <3>2, <3>4
      <4>. QED BY <4>1
    <3>. QED BY <3>2, <3>3, <3>4
  <2>. QED BY <2>2, <2>3
<1>. HIDE DEF T
<1>2. SUBSET S \subseteq T
  BY <1>1, SubsetInduction
<1>3. \E x \in S : \A y \in S : x >= y
  BY <1>2 DEF T
<1>. QED BY <1>3 DEF Max

LEMMA MinFacts ==
  ASSUME NEW S, S \subseteq Int, IsFiniteSet(S), S # {}
  PROVE  Min(S) \in S /\ \A y \in S : Min(S) <= y
<1>. DEFINE T == {s \in SUBSET S : s # {} => \E x \in s : \A y \in s : x =< y}
<1>1. ASSUME NEW s \in SUBSET S, \A x \in s : s \ {x} \in T
      PROVE  s \in T
  <2>. SUFFICES ASSUME s # {} PROVE \E x \in s : \A y \in s : x =< y
    OBVIOUS
  <2>1. PICK x \in s : TRUE
    OBVIOUS
  <2>2. CASE s \ {x} = {}
    BY <2>2
  <2>3. CASE s \ {x} # {}
    <3>1. PICK z \in s \ {x} : \A y \in s \ {x} : z =< y
      BY <1>1, <2>3
    <3>2. x \in Int /\ z \in Int
      OBVIOUS
    <3>3. CASE z =< x
      BY <3>1, <3>3
    <3>4. CASE x < z
      <4>1. \A y \in s : x =< y
        BY <3>1, <3>2, <3>4
      <4>. QED BY <4>1
    <3>. QED BY <3>2, <3>3, <3>4
  <2>. QED BY <2>2, <2>3
<1>. HIDE DEF T
<1>2. SUBSET S \subseteq T
  BY <1>1, SubsetInduction
<1>3. \E x \in S : \A y \in S : x =< y
  BY <1>2 DEF T
<1>. QED BY <1>3 DEF Min

-----------------------------------------------------------------------------
(* The length of a file.                                                    *)

SizesOf(lines) == [i \in DOMAIN lines |-> lines[i].size]

\* The fold that Bytes is computes a total.
LEMMA BytesIsTotal ==
  ASSUME NEW lines \in Seq(Line)
  PROVE  Sizes(SizesOf(lines)) /\ Bytes(lines) = Total(SizesOf(lines))
<1>. DEFINE D == DOMAIN lines
            w == SizesOf(lines)
            c == [s \in SUBSET D |-> Max(s)]
            Folds(g) == g = [s \in SUBSET D |->
              IF s = {} THEN 0 ELSE g[s \ {Max(s)}] + lines[Max(s)].size]
            f == CHOOSE g : Folds(g)
<1>1. D = 1..Len(lines) /\ Len(lines) \in Nat
  OBVIOUS
<1>2. IsFiniteSet(D) /\ D \subseteq Int
  BY <1>1, FS_Interval
<1>3. Sizes(w) /\ DOMAIN w = D /\ \A x \in D : w[x] = lines[x].size
  <2>1. \A x \in D : lines[x].size \in Nat
    <3>1. \A x \in 1..Len(lines) : lines[x] \in Line
      BY ElementOfSeq
    <3>. QED BY <1>1, <3>1 DEF Line
  <2>. QED BY <1>2, <2>1 DEF Sizes, SizesOf
<1>4. \A s \in SUBSET D : s # {} => Max(s) \in s
  BY <1>2, MaxFacts, FS_Subset
<1>5. IsChoice(c, D)
  BY <1>4 DEF IsChoice
<1>6. \A g : Folds(g) <=> AddsUp(g, c, w)
  BY <1>3, <1>4 DEF AddsUp
<1>7. Bytes(lines) = f[D]
  BY DEF Bytes, FoldLeft, MapThenFoldSet
<1>. HIDE DEF D, w, c, Folds
<1>8. \E g : AddsUp(g, c, w)
  BY <1>3, <1>5, AddingUpEnds
<1>9. Folds(f)
  BY <1>6, <1>8
<1>10. IsSum(f, w)
  BY <1>3, <1>5, <1>6, <1>9, AnyOrder
<1>. HIDE DEF f
<1>11. Total(w) = f[D]
  BY <1>3, <1>10, TotalIs
<1>. QED BY <1>3, <1>7, <1>11 DEF w

LEMMA BytesType ==
  ASSUME NEW lines \in Seq(Line)
  PROVE  Bytes(lines) \in Nat
BY BytesIsTotal, TotalType

LEMMA BytesEmpty == Bytes(<<>>) = 0
<1>1. <<>> \in Seq(Line) /\ DOMAIN SizesOf(<<>>) = {}
  BY DEF SizesOf
<1>. QED BY <1>1, BytesIsTotal, TotalType

\* More lines, or longer ones.
LEMMA BytesGrow ==
  ASSUME NEW a \in Seq(Line), NEW b \in Seq(Line), Len(a) <= Len(b),
         \A i \in 1..Len(a) : a[i].size <= b[i].size
  PROVE  Bytes(a) <= Bytes(b)
<1>1. /\ DOMAIN SizesOf(a) = 1..Len(a) /\ DOMAIN SizesOf(b) = 1..Len(b)
      /\ \A i \in 1..Len(a) : SizesOf(a)[i] = a[i].size
      /\ \A i \in 1..Len(b) : SizesOf(b)[i] = b[i].size
  BY DEF SizesOf
<1>2. 1..Len(a) \subseteq 1..Len(b)
  OBVIOUS
<1>. QED BY <1>1, <1>2, BytesIsTotal, TotalGrows

\* A part of a file up to a line.
LEMMA UpTo ==
  ASSUME NEW lines \in Seq(Line), NEW n \in 0..Len(lines)
  PROVE  /\ SubSeq(lines, 1, n) \in Seq(Line)
         /\ Len(SubSeq(lines, 1, n)) = n
         /\ \A i \in 1..n : SubSeq(lines, 1, n)[i] = lines[i]
BY PartTypes

LEMMA OffsetStep ==
  ASSUME NEW lines \in Seq(Line), NEW i \in 1..Len(lines)
  PROVE  /\ Offset(lines, i) \in Nat
         /\ lines[i].size \in Nat
         /\ Offset(lines, i + 1) = Offset(lines, i) + lines[i].size
<1>. DEFINE a == SubSeq(lines, 1, i)
            b == SubSeq(lines, 1, i - 1)
<1>1. i \in 0..Len(lines) /\ i - 1 \in 0..Len(lines) /\ (i + 1) - 1 = i
  OBVIOUS
<1>2. /\ a \in Seq(Line) /\ Len(a) = i
      /\ \A k \in 1..i : a[k] = lines[k]
  BY <1>1, UpTo
<1>3. /\ b \in Seq(Line) /\ Len(b) = i - 1
      /\ \A k \in 1..(i - 1) : b[k] = lines[k]
  BY <1>1, UpTo
<1>4. Offset(lines, i + 1) = Bytes(a) /\ Offset(lines, i) = Bytes(b)
  BY <1>1 DEF Offset
<1>5. lines[i] \in Line
  BY ElementOfSeq
<1>. HIDE DEF a, b
<1>6. /\ DOMAIN SizesOf(a) = 1..i /\ DOMAIN SizesOf(b) = 1..(i - 1)
      /\ \A k \in 1..i : SizesOf(a)[k] = a[k].size
      /\ \A k \in 1..(i - 1) : SizesOf(b)[k] = b[k].size
  BY <1>2, <1>3 DEF SizesOf
<1>7. /\ i \in DOMAIN SizesOf(a)
      /\ DOMAIN SizesOf(b) = DOMAIN SizesOf(a) \ {i}
      /\ \A k \in DOMAIN SizesOf(b) : SizesOf(b)[k] = SizesOf(a)[k]
      /\ SizesOf(a)[i] = lines[i].size
  BY <1>2, <1>3, <1>6
<1>8. Total(SizesOf(a)) = Total(SizesOf(b)) + lines[i].size
  BY <1>2, <1>3, <1>7, BytesIsTotal, TotalWithout
<1>9. Bytes(b) \in Nat /\ lines[i].size \in Nat
  BY <1>3, <1>5, BytesType DEF Line
<1>. QED BY <1>2, <1>3, <1>4, <1>8, <1>9, BytesIsTotal

LEMMA OffsetEnds ==
  ASSUME NEW lines \in Seq(Line)
  PROVE  Offset(lines, 1) = 0 /\ Offset(lines, Len(lines) + 1) = Bytes(lines)
<1>1. SubSeq(lines, 1, 0) = <<>>
  OBVIOUS
<1>2. SubSeq(lines, 1, Len(lines)) = lines
  <2>1. Len(lines) \in 0..Len(lines)
    OBVIOUS
  <2>. QED BY <2>1, UpTo, SeqEqual
<1>3. 1 - 1 = 0 /\ (Len(lines) + 1) - 1 = Len(lines)
  OBVIOUS
<1>. QED BY <1>1, <1>2, <1>3, BytesEmpty DEF Offset

\* An offset depends on the lines before it alone.
LEMMA OffsetOfPrefix ==
  ASSUME NEW a \in Seq(Line), NEW b \in Seq(Line), NEW n \in Nat,
         n <= Len(a), n <= Len(b), \A k \in 1..n : a[k] = b[k]
  PROVE  \A i \in 1..(n + 1) : Offset(a, i) = Offset(b, i)
<1>. SUFFICES ASSUME NEW i \in 1..(n + 1)
     PROVE  Offset(a, i) = Offset(b, i)
  OBVIOUS
<1>1. i - 1 \in 0..Len(a) /\ i - 1 \in 0..Len(b) /\ 1..(i - 1) \subseteq 1..n
  OBVIOUS
<1>2. SubSeq(a, 1, i - 1) = SubSeq(b, 1, i - 1)
  <2>1. /\ SubSeq(a, 1, i - 1) \in Seq(Line) /\ Len(SubSeq(a, 1, i - 1)) = i - 1
        /\ \A k \in 1..(i - 1) : SubSeq(a, 1, i - 1)[k] = a[k]
    BY <1>1, UpTo
  <2>2. /\ SubSeq(b, 1, i - 1) \in Seq(Line) /\ Len(SubSeq(b, 1, i - 1)) = i - 1
        /\ \A k \in 1..(i - 1) : SubSeq(b, 1, i - 1)[k] = b[k]
    BY <1>1, UpTo
  <2>. QED BY <1>1, <2>1, <2>2, SeqEqual
<1>. QED BY <1>2 DEF Offset

\* No two lines start at the same offset.
LEMMA OffsetsGrow ==
  ASSUME NEW lines \in Seq(Line), \A i \in 1..Len(lines) : lines[i].size >= 1
  PROVE  \A i, j \in 1..(Len(lines) + 1) :
           i < j => Offset(lines, i) < Offset(lines, j)
<1>. DEFINE N == {n \in Nat : \A i, j \in 1..(Len(lines) + 1) :
                    i < j /\ j <= n => Offset(lines, i) < Offset(lines, j)}
<1>1. 0 \in N
  OBVIOUS
<1>2. ASSUME NEW n \in Nat, n \in N
      PROVE  n + 1 \in N
  <2>. SUFFICES ASSUME NEW i \in 1..(Len(lines) + 1),
                       NEW j \in 1..(Len(lines) + 1), i < j, j <= n + 1
       PROVE  Offset(lines, i) < Offset(lines, j)
    OBVIOUS
  <2>1. /\ j - 1 \in 1..Len(lines) /\ (j - 1) + 1 = j
        /\ j - 1 \in 1..(Len(lines) + 1) /\ i \in 1..Len(lines)
    OBVIOUS
  <2>2. /\ Offset(lines, j - 1) \in Nat /\ lines[j - 1].size \in Nat
        /\ Offset(lines, (j - 1) + 1) = Offset(lines, j - 1) + lines[j - 1].size
    BY <2>1, OffsetStep
  <2>3. Offset(lines, j) = Offset(lines, j - 1) + lines[j - 1].size
    BY <2>1, <2>2
  <2>4. Offset(lines, j - 1) < Offset(lines, j)
    BY <2>1, <2>2, <2>3
  <2>5. CASE i = j - 1
    BY <2>4, <2>5
  <2>6. CASE i # j - 1
    <3>1. i < j - 1 /\ j - 1 <= n
      BY <2>1, <2>6
    <3>2. Offset(lines, i) < Offset(lines, j - 1)
      BY <1>2, <2>1, <3>1
    <3>3. Offset(lines, i) \in Nat
      BY <2>1, OffsetStep
    <3>. QED BY <2>2, <2>3, <2>4, <3>2, <3>3
  <2>. QED BY <2>5, <2>6
<1>. HIDE DEF N
<1>3. Nat \subseteq N
  BY <1>1, <1>2, NatSetInduction
<1>4. Len(lines) + 1 \in N
  BY <1>3
<1>. QED BY <1>4 DEF N

\* Lines behind lines.
LEMMA BytesConcat ==
  ASSUME NEW a \in Seq(Line), NEW b \in Seq(Line)
  PROVE  Bytes(a \o b) = Bytes(a) + Bytes(b)
<1>. DEFINE ab == a \o b
            N == {n \in Nat : n <= Len(b) =>
                    Offset(ab, Len(a) + n + 1) = Bytes(a) + Offset(b, n + 1)}
<1>1. /\ ab \in Seq(Line) /\ Len(ab) = Len(a) + Len(b)
      /\ \A i \in 1..Len(a) : ab[i] = a[i]
      /\ \A i \in 1..Len(b) : ab[Len(a) + i] = b[i]
      /\ Len(a) \in Nat /\ Len(b) \in Nat
  BY ConcatLines
<1>2. Bytes(a) \in Nat
  BY BytesType
<1>. HIDE DEF ab
<1>3. 0 \in N
  <2>1. Offset(b, 1) = 0
    BY OffsetEnds
  <2>2. \A i \in 1..(Len(a) + 1) : Offset(ab, i) = Offset(a, i)
    <3>1. Len(a) <= Len(ab) /\ Len(a) <= Len(a)
      BY <1>1
    <3>. QED BY <1>1, <3>1, OffsetOfPrefix
  <2>3. Offset(ab, Len(a) + 1) = Offset(a, Len(a) + 1)
    BY <1>1, <2>2
  <2>4. Offset(a, Len(a) + 1) = Bytes(a)
    BY OffsetEnds
  <2>. QED BY <1>1, <1>2, <2>1, <2>3, <2>4
<1>4. ASSUME NEW n \in Nat, n \in N
      PROVE  n + 1 \in N
  <2>. SUFFICES ASSUME n + 1 <= Len(b)
       PROVE  Offset(ab, Len(a) + (n + 1) + 1) = Bytes(a) + Offset(b, (n + 1) + 1)
    OBVIOUS
  <2>1. Offset(ab, Len(a) + n + 1) = Bytes(a) + Offset(b, n + 1)
    BY <1>1, <1>4
  <2>2. n + 1 \in 1..Len(b) /\ Len(a) + (n + 1) \in 1..Len(ab)
    BY <1>1
  <2>3. /\ Offset(b, n + 1) \in Nat /\ b[n + 1].size \in Nat
        /\ Offset(b, (n + 1) + 1) = Offset(b, n + 1) + b[n + 1].size
    BY <2>2, OffsetStep
  <2>4. Offset(ab, (Len(a) + (n + 1)) + 1)
          = Offset(ab, Len(a) + (n + 1)) + ab[Len(a) + (n + 1)].size
    BY <1>1, <2>2, OffsetStep
  <2>5. ab[Len(a) + (n + 1)] = b[n + 1] /\ Len(a) + (n + 1) = Len(a) + n + 1
    BY <1>1, <2>2
  <2>. QED BY <1>2, <2>1, <2>3, <2>4, <2>5
<1>. HIDE DEF N
<1>5. Nat \subseteq N
  BY <1>3, <1>4, NatSetInduction
<1>6. Len(b) \in N
  BY <1>1, <1>5
<1>7. Offset(ab, Len(a) + Len(b) + 1) = Bytes(a) + Offset(b, Len(b) + 1)
  BY <1>1, <1>6 DEF N
<1>8. Offset(b, Len(b) + 1) = Bytes(b) /\ Offset(ab, Len(ab) + 1) = Bytes(ab)
  BY <1>1, OffsetEnds
<1>. QED BY <1>1, <1>7, <1>8 DEF ab

-----------------------------------------------------------------------------
(* Files that are parts of other files.                                     *)

\* a is what can be found of b after a write that stopped half way: the first
\* of its lines, and perhaps a fragment of the next.
Cut(a, b) ==
  /\ a \in Seq(Line) /\ Len(a) <= Len(b)
  /\ \A i \in 1..Len(a) :
       a[i] = b[i] \/ (i = Len(a) /\ a[i] = Fragment(b[i]))

\* Consecutive frames, whole but for the last, and no line without a byte.
GoodLines(lines) ==
  /\ lines \in Seq(Line)
  /\ \A i \in 1..Len(lines) :
       /\ lines[i].size >= 1 /\ lines[i].frame >= 1
       /\ lines[i].frame = lines[1].frame + (i - 1)
       /\ lines[i].whole \/ (i = Len(lines) /\ lines[i].size = 1)

LEMMA FragmentFacts ==
  ASSUME NEW line \in Line
  PROVE  /\ Fragment(line) \in Line /\ Fragment(line).frame = line.frame
         /\ Fragment(line).size = 1 /\ ~Fragment(line).whole
         /\ Fragment(Fragment(line)) = Fragment(line)
         /\ \A x \in Line : x.frame = line.frame /\ x.size = 1 /\ ~x.whole
              => x = Fragment(line)
BY DEF Line, Fragment

LEMMA CutItself ==
  ASSUME NEW a \in Seq(Line)
  PROVE  Cut(a, a)
BY DEF Cut

LEMMA CutAgain ==
  ASSUME NEW a, NEW b, NEW c \in Seq(Line), Cut(a, b), Cut(b, c)
  PROVE  Cut(a, c)
<1>1. /\ a \in Seq(Line) /\ b \in Seq(Line) /\ Len(a) \in Nat /\ Len(b) \in Nat
      /\ Len(c) \in Nat /\ Len(a) <= Len(b) /\ Len(b) <= Len(c)
  BY DEF Cut
<1>2. ASSUME NEW i \in 1..Len(a)
      PROVE  a[i] = c[i] \/ (i = Len(a) /\ a[i] = Fragment(c[i]))
  <2>1. i \in 1..Len(b) /\ i \in 1..Len(c) /\ (i = Len(b) => i = Len(a))
    BY <1>1
  <2>2. /\ a[i] = b[i] \/ (i = Len(a) /\ a[i] = Fragment(b[i]))
        /\ b[i] = c[i] \/ (i = Len(b) /\ b[i] = Fragment(c[i]))
    BY <2>1 DEF Cut
  <2>3. Fragment(Fragment(c[i])) = Fragment(c[i])
    BY <2>1, FragmentFacts, ElementOfSeq
  <2>. QED BY <2>1, <2>2, <2>3
<1>. QED BY <1>1, <1>2 DEF Cut

\* A cut has the frames of what it is cut from, and is not longer.
LEMMA CutLines ==
  ASSUME NEW a, NEW b, Cut(a, b), GoodLines(b)
  PROVE  /\ GoodLines(a)
         /\ \A i \in 1..Len(a) : i \in 1..Len(b) /\ a[i].frame = b[i].frame
         /\ Bytes(a) <= Bytes(b)
<1>1. /\ a \in Seq(Line) /\ b \in Seq(Line) /\ Len(a) \in Nat /\ Len(b) \in Nat
      /\ Len(a) <= Len(b)
  BY DEF Cut, GoodLines
<1>2. ASSUME NEW i \in 1..Len(a)
      PROVE  /\ i \in 1..Len(b)
             /\ a[i].frame = b[i].frame /\ a[i].size >= 1
             /\ a[i].size <= b[i].size
             /\ a[i].whole \/ (i = Len(a) /\ a[i].size = 1)
  <2>1. i \in 1..Len(b) /\ (i = Len(b) => i = Len(a))
    BY <1>1
  <2>2. /\ b[i] \in Line /\ b[i].size >= 1 /\ b[i].size \in Nat
        /\ b[i].whole \/ (i = Len(b) /\ b[i].size = 1)
    <3>1. b[i] \in Line
      BY <1>1, <2>1, ElementOfSeq
    <3>. QED BY <2>1, <3>1 DEF GoodLines, Line
  <2>3. CASE a[i] = b[i]
    BY <2>1, <2>2, <2>3
  <2>4. CASE i = Len(a) /\ a[i] = Fragment(b[i])
    BY <2>1, <2>2, <2>4, FragmentFacts
  <2>. QED BY <2>3, <2>4 DEF Cut
<1>3. GoodLines(a)
  <2>1. ASSUME NEW i \in 1..Len(a)
        PROVE  a[i].frame = a[1].frame + (i - 1)
    <3>1. 1 \in 1..Len(a) /\ i \in 1..Len(b)
      BY <1>1
    <3>2. b[i].frame = b[1].frame + (i - 1)
      BY <3>1 DEF GoodLines
    <3>3. a[i].frame = b[i].frame /\ a[1].frame = b[1].frame
      BY <1>2, <3>1
    <3>. QED BY <3>2, <3>3
  <2>. QED BY <1>1, <1>2, <2>1 DEF GoodLines
<1>4. Bytes(a) <= Bytes(b)
  BY <1>1, <1>2, BytesGrow
<1>. QED BY <1>2, <1>3, <1>4

-----------------------------------------------------------------------------
(* Lines put behind a file, exactly.                                        *)

\* r is the first k lines of before, and more behind them.
IsJoin(r, before, k, more) ==
  /\ r \in Seq(Line) /\ Len(r) = k + Len(more)
  /\ \A i \in 1..k : r[i] = before[i]
  /\ \A i \in 1..Len(more) : r[k + i] = more[i]

KeptLen(lines) == IF EndsTorn(lines) THEN Len(lines) - 1 ELSE Len(lines)

\* What is coming behind a torn line starts with the rest of that line, so
\* that Extended completes it.
Ready(before, more) ==
  EndsTorn(before) => more # <<>> /\ Last(before) = Fragment(more[1])

LEMMA KeptLenType ==
  ASSUME NEW lines \in Seq(Line)
  PROVE  KeptLen(lines) \in 0..Len(lines) /\ KeptLen(lines) >= Len(lines) - 1
<1>1. EndsTorn(lines) => Len(lines) >= 1
  BY EmptySeq DEF EndsTorn
<1>. QED BY <1>1 DEF KeptLen

LEMMA ExtendedJoin ==
  ASSUME NEW before \in Seq(Line), NEW more \in Seq(Line),
         EndsTorn(before) => more # <<>> /\ Last(before).frame = more[1].frame
  PROVE  IsJoin(Extended(before, more), before, KeptLen(before), more)
<1>1. CASE ~EndsTorn(before)
  <2>1. Extended(before, more) = before \o more /\ KeptLen(before) = Len(before)
    BY <1>1 DEF Extended, KeptLen
  <2>2. IsJoin(before \o more, before, Len(before), more)
    BY ConcatLines DEF IsJoin
  <2>. QED BY <2>1, <2>2
<1>2. CASE EndsTorn(before)
  <2>. DEFINE k == Len(before) - 1
              front == SubSeq(before, 1, k)
  <2>1. /\ Extended(before, more) = front \o more
        /\ KeptLen(before) = k
    BY <1>2 DEF Extended, Front, KeptLen
  <2>2. k \in 0..Len(before)
    BY <1>2, <2>1, KeptLenType
  <2>3. front \in Seq(Line) /\ Len(front) = k /\ \A i \in 1..k : front[i] = before[i]
    BY <2>2, UpTo
  <2>. HIDE DEF k, front
  <2>4. k \in Nat
    BY <2>2
  <2>5. /\ front \o more \in Seq(Line)
        /\ Len(front \o more) = k + Len(more)
        /\ \A i \in 1..k : (front \o more)[i] = before[i]
        /\ \A i \in 1..Len(more) : (front \o more)[k + i] = more[i]
    <3>1. /\ front \o more \in Seq(Line)
          /\ Len(front \o more) = Len(front) + Len(more)
          /\ \A i \in 1..Len(front) : (front \o more)[i] = front[i]
          /\ \A i \in 1..Len(more) : (front \o more)[Len(front) + i] = more[i]
      BY <2>3, ConcatLines
    <3>. QED BY <2>3, <3>1
  <2>. QED BY <2>1, <2>5 DEF IsJoin
<1>. QED BY <1>1, <1>2

LEMMA ReadyJoin ==
  ASSUME NEW before \in Seq(Line), NEW more \in Seq(Line), Ready(before, more)
  PROVE  IsJoin(Extended(before, more), before, KeptLen(before), more)
<1>1. ASSUME EndsTorn(before)
      PROVE  more # <<>> /\ Last(before).frame = more[1].frame
  <2>1. more # <<>> /\ Last(before) = Fragment(more[1])
    BY <1>1 DEF Ready
  <2>2. 1 \in 1..Len(more)
    BY <2>1, EmptySeq
  <2>3. more[1] \in Line
    BY <2>2, ElementOfSeq
  <2>. QED BY <2>1, <2>3, FragmentFacts
<1>. QED BY <1>1, ExtendedJoin

\* Two joins are the same file if the same lines are joined.
LEMMA SameJoin ==
  ASSUME NEW r, NEW q, NEW before, NEW k \in Nat, NEW more \in Seq(Line),
         IsJoin(r, before, k, more), IsJoin(q, before, k, more)
  PROVE  r = q
<1>1. /\ r \in Seq(Line) /\ q \in Seq(Line) /\ Len(r) = Len(q)
      /\ Len(r) = k + Len(more) /\ Len(more) \in Nat
  BY DEF IsJoin
<1>2. ASSUME NEW i \in 1..Len(r) PROVE r[i] = q[i]
  <2>1. CASE i <= k
    BY <2>1 DEF IsJoin
  <2>2. CASE i > k
    <3>1. i - k \in 1..Len(more) /\ k + (i - k) = i
      BY <1>1, <2>2
    <3>. QED BY <3>1 DEF IsJoin
  <2>. QED BY <1>1, <2>1, <2>2
<1>. QED BY <1>1, <1>2, SeqEqual

\* A file is a cut of what it becomes.
LEMMA BeforeIsCut ==
  ASSUME NEW before \in Seq(Line), NEW more \in Seq(Line), Ready(before, more)
  PROVE  Cut(before, Extended(before, more))
<1>. DEFINE r == Extended(before, more)
            k == KeptLen(before)
<1>1. IsJoin(r, before, k, more) /\ k \in 0..Len(before) /\ k >= Len(before) - 1
  BY ReadyJoin, KeptLenType
<1>2. CASE EndsTorn(before)
  <2>1. /\ more # <<>> /\ Last(before) = Fragment(more[1])
        /\ k = Len(before) - 1 /\ Len(before) >= 1 /\ Len(more) >= 1
    BY <1>2, EmptySeq DEF Ready, EndsTorn, KeptLen
  <2>2. 1 \in 1..Len(more)
    BY <2>1
  <2>. HIDE DEF r, k
  <2>3. r[k + 1] = more[1]
    BY <1>1, <2>2 DEF IsJoin
  <2>4. before[Len(before)] = Fragment(r[Len(before)])
    BY <2>1, <2>3 DEF Last
  <2>5. \A i \in 1..Len(before) : i = Len(before) \/ i \in 1..k
    BY <2>1
  <2>6. Len(r) = k + Len(more) /\ \A i \in 1..k : r[i] = before[i]
    BY <1>1 DEF IsJoin
  <2>7. Cut(before, r)
    BY <2>1, <2>4, <2>5, <2>6 DEF Cut
  <2>. QED BY <2>7 DEF r
<1>3. CASE ~EndsTorn(before)
  <2>1. k = Len(before)
    BY <1>3 DEF KeptLen
  <2>. HIDE DEF r, k
  <2>2. Cut(before, r)
    BY <1>1, <2>1 DEF Cut, IsJoin
  <2>. QED BY <2>2 DEF r
<1>. QED BY <1>2, <1>3

\* A write that stops half way leaves a cut of what it would have written.
LEMMA PartialIsCut ==
  ASSUME NEW before \in Seq(Line), NEW more \in Seq(Line), Ready(before, more),
         NEW p \in Partial(before, more)
  PROVE  Cut(p, Extended(before, more))
<1>. DEFINE r == Extended(before, more)
            k == KeptLen(before)
<1>1. IsJoin(r, before, k, more) /\ k \in 0..Len(before)
  BY ReadyJoin, KeptLenType
<1>2. ASSUME NEW part, Cut(part, more), p = Extended(before, part)
      PROVE  Cut(p, r)
  <2>1. part \in Seq(Line) /\ Len(part) \in Nat /\ Len(more) \in Nat
        /\ Len(part) <= Len(more)
    BY <1>2 DEF Cut
  <2>2. CASE part = <<>>
    <3>1. Extended(before, part) = before
      BY <2>2 DEF Extended
    <3>. QED BY <1>2, <3>1, BeforeIsCut
  <2>3. CASE part # <<>>
    <3>1. Len(part) >= 1 /\ 1 \in 1..Len(part) /\ 1 \in 1..Len(more)
      BY <2>1, <2>3, EmptySeq
    <3>2. more[1] \in Line
      BY <3>1, ElementOfSeq
    <3>3. part[1].frame = more[1].frame
      BY <1>2, <3>1, <3>2, FragmentFacts DEF Cut
    <3>4. EndsTorn(before) => Last(before).frame = more[1].frame
      BY <3>2, FragmentFacts DEF Ready
    <3>5. IsJoin(p, before, k, part)
      BY <1>2, <2>1, <2>3, <3>3, <3>4, ExtendedJoin
    <3>. HIDE DEF r, k
    <3>6. p \in Seq(Line) /\ Len(p) = k + Len(part) /\ Len(r) = k + Len(more)
      BY <1>1, <3>5 DEF IsJoin
    <3>7. ASSUME NEW i \in 1..Len(p)
          PROVE  p[i] = r[i] \/ (i = Len(p) /\ p[i] = Fragment(r[i]))
      <4>1. CASE i <= k
        BY <1>1, <3>5, <4>1 DEF IsJoin
      <4>2. CASE i > k
        <5>1. /\ i - k \in 1..Len(part) /\ i - k \in 1..Len(more)
              /\ k + (i - k) = i /\ (i - k = Len(part) => i = Len(p))
          BY <1>1, <2>1, <3>6, <4>2
        <5>2. p[i] = part[i - k] /\ r[i] = more[i - k]
          BY <1>1, <3>5, <5>1 DEF IsJoin
        <5>3. part[i - k] = more[i - k]
              \/ (i - k = Len(part) /\ part[i - k] = Fragment(more[i - k]))
          BY <1>2, <5>1 DEF Cut
        <5>. QED BY <5>1, <5>2, <5>3
      <4>. QED BY <1>1, <3>6, <4>1, <4>2
    <3>. QED BY <1>1, <2>1, <3>6, <3>7 DEF Cut
  <2>. QED BY <2>2, <2>3
<1>. HIDE DEF r
<1>3. ASSUME NEW n \in 0..Len(more)
      PROVE  Cut(SubSeq(more, 1, n), more)
  BY UpTo DEF Cut
<1>4. ASSUME NEW n \in 0..(Len(more) - 1)
      PROVE  Cut(Append(SubSeq(more, 1, n), Fragment(more[n + 1])), more)
  <2>. DEFINE a == SubSeq(more, 1, n)
              b == Append(a, Fragment(more[n + 1]))
  <2>1. n \in 0..Len(more) /\ n + 1 \in 1..Len(more)
    OBVIOUS
  <2>2. a \in Seq(Line) /\ Len(a) = n /\ \A i \in 1..n : a[i] = more[i]
    BY <2>1, UpTo
  <2>3. Fragment(more[n + 1]) \in Line
    BY <2>1, ElementOfSeq, FragmentFacts
  <2>. HIDE DEF a
  <2>4. /\ b \in Seq(Line) /\ Len(b) = n + 1
        /\ \A i \in 1..n : b[i] = more[i]
        /\ b[n + 1] = Fragment(more[n + 1])
    BY <2>2, <2>3, AppendProperties
  <2>. HIDE DEF b
  <2>5. \A i \in 1..Len(b) : i \in 1..n \/ (i = n + 1 /\ i = Len(b))
    BY <2>4
  <2>6. Cut(b, more)
    BY <2>1, <2>4, <2>5 DEF Cut
  <2>. QED BY <2>6 DEF a, b
<1>5. Cut(p, r)
  BY <1>2, <1>3, <1>4 DEF Partial
<1>. QED BY <1>5 DEF r

-----------------------------------------------------------------------------
(* All the files.                                                           *)

TotalBytes(F) == Total([n \in DOMAIN F |-> Bytes(F[n])])

\* Finitely many files of consecutive frames, a later file with later frames,
\* within the bounds.
FilesGood(F) ==
  /\ IsFiniteSet(DOMAIN F) /\ DOMAIN F \subseteq Nat
  /\ \A n \in DOMAIN F : GoodLines(F[n]) /\ Bytes(F[n]) <= SegmentBytes
  /\ \A n, m \in DOMAIN F : n < m =>
       \A i \in 1..Len(F[n]), j \in 1..Len(F[m]) : F[n][i].frame < F[m][j].frame
  /\ TotalBytes(F) <= MaxBytes

LEMMA FilesHaveSizes ==
  ASSUME NEW F, IsFiniteSet(DOMAIN F), \A n \in DOMAIN F : F[n] \in Seq(Line)
  PROVE  /\ Sizes([n \in DOMAIN F |-> Bytes(F[n])])
         /\ TotalBytes(F) \in Nat
<1>1. \A n \in DOMAIN F : Bytes(F[n]) \in Nat
  BY BytesType
<1>2. Sizes([n \in DOMAIN F |-> Bytes(F[n])])
  BY <1>1 DEF Sizes
<1>. QED BY <1>2, TotalType DEF TotalBytes

\* Files that are cuts of some of the files of F.
CutFiles(G, F) == DOMAIN G \subseteq DOMAIN F /\ \A n \in DOMAIN G : Cut(G[n], F[n])

LEMMA CutFilesGood ==
  ASSUME NEW F, FilesGood(F), NEW G, CutFiles(G, F)
  PROVE  /\ FilesGood(G) /\ TotalBytes(G) <= TotalBytes(F)
         /\ \A n \in DOMAIN G : \A i \in 1..Len(G[n]) :
              i \in 1..Len(F[n]) /\ G[n][i].frame = F[n][i].frame
<1>1. /\ IsFiniteSet(DOMAIN F) /\ DOMAIN F \subseteq Nat
      /\ \A n \in DOMAIN F : GoodLines(F[n]) /\ Bytes(F[n]) <= SegmentBytes
                             /\ F[n] \in Seq(Line)
      /\ TotalBytes(F) <= MaxBytes
  BY DEF FilesGood, GoodLines
<1>2. DOMAIN G \subseteq DOMAIN F /\ \A n \in DOMAIN G : Cut(G[n], F[n])
  BY DEF CutFiles
<1>3. \A n \in DOMAIN G : /\ GoodLines(G[n]) /\ G[n] \in Seq(Line)
                          /\ \A i \in 1..Len(G[n]) :
                               i \in 1..Len(F[n]) /\ G[n][i].frame = F[n][i].frame
                          /\ Bytes(G[n]) <= Bytes(F[n])
  BY <1>1, <1>2, CutLines DEF GoodLines
<1>4. IsFiniteSet(DOMAIN G)
  BY <1>1, <1>2, FS_Subset
<1>5. \A n \in DOMAIN G : Bytes(G[n]) <= SegmentBytes
  BY <1>1, <1>2, <1>3, BytesType, SpoolAssumption
<1>6. TotalBytes(G) <= TotalBytes(F)
  <2>. DEFINE g == [n \in DOMAIN G |-> Bytes(G[n])]
              f == [n \in DOMAIN F |-> Bytes(F[n])]
  <2>1. Sizes(g) /\ Sizes(f)
    BY <1>1, <1>3, <1>4, FilesHaveSizes
  <2>2. DOMAIN g = DOMAIN G /\ DOMAIN f = DOMAIN F
        /\ \A n \in DOMAIN g : g[n] <= f[n]
    BY <1>2, <1>3
  <2>. HIDE DEF g, f
  <2>3. Total(g) <= Total(f)
    BY <1>2, <2>1, <2>2, TotalGrows
  <2>. QED BY <2>3 DEF TotalBytes, g, f
<1>7. TotalBytes(G) \in Nat /\ TotalBytes(F) \in Nat
  BY <1>1, <1>3, <1>4, FilesHaveSizes
<1>8. \A n, m \in DOMAIN G : n < m =>
        \A i \in 1..Len(G[n]), j \in 1..Len(G[m]) : G[n][i].frame < G[m][j].frame
  <2>. SUFFICES ASSUME NEW n \in DOMAIN G, NEW m \in DOMAIN G, n < m,
                       NEW i \in 1..Len(G[n]), NEW j \in 1..Len(G[m])
       PROVE  G[n][i].frame < G[m][j].frame
    OBVIOUS
  <2>1. /\ i \in 1..Len(F[n]) /\ G[n][i].frame = F[n][i].frame
        /\ j \in 1..Len(F[m]) /\ G[m][j].frame = F[m][j].frame
    BY <1>3
  <2>2. n \in DOMAIN F /\ m \in DOMAIN F
    BY <1>2
  <2>3. F[n][i].frame < F[m][j].frame
    BY <2>1, <2>2 DEF FilesGood
  <2>. QED BY <2>1, <2>3
<1>9. FilesGood(G)
  <2>1. TotalBytes(G) <= MaxBytes
    BY <1>1, <1>6, <1>7, SpoolAssumption
  <2>. QED BY <1>1, <1>2, <1>3, <1>4, <1>5, <1>8, <2>1 DEF FilesGood
<1>. QED BY <1>3, <1>6, <1>9

\* A file that is new or has other lines.
LEMMA TotalOfOther ==
  ASSUME NEW F, IsFiniteSet(DOMAIN F), \A n \in DOMAIN F : F[n] \in Seq(Line),
         NEW G, NEW m, DOMAIN G = DOMAIN F \cup {m}, G[m] \in Seq(Line),
         \A n \in DOMAIN F : n # m => G[n] = F[n], NEW extra \in Nat,
         Bytes(G[m]) = (IF m \in DOMAIN F THEN Bytes(F[m]) ELSE 0) + extra
  PROVE  TotalBytes(G) = TotalBytes(F) + extra
<1>. DEFINE lines == G[m]
            R == [n \in DOMAIN F \ {m} |-> F[n]]
            g == [n \in DOMAIN G |-> Bytes(G[n])]
            f == [n \in DOMAIN F |-> Bytes(F[n])]
            r == [n \in DOMAIN R |-> Bytes(R[n])]
<1>1. /\ DOMAIN G = DOMAIN F \cup {m} /\ DOMAIN R = DOMAIN F \ {m}
      /\ \A n \in DOMAIN G : G[n] \in Seq(Line)
      /\ \A n \in DOMAIN R : R[n] \in Seq(Line)
      /\ G[m] = lines /\ \A n \in DOMAIN R : R[n] = F[n] /\ G[n] = F[n]
  OBVIOUS
<1>2. IsFiniteSet(DOMAIN G) /\ IsFiniteSet(DOMAIN R)
  BY <1>1, FS_AddElement, FS_Subset
<1>. HIDE DEF R, lines
<1>3. Sizes(g) /\ Sizes(f) /\ Sizes(r)
  BY <1>1, <1>2, FilesHaveSizes
<1>4. /\ DOMAIN g = DOMAIN F \cup {m} /\ DOMAIN r = DOMAIN F \ {m}
      /\ DOMAIN f = DOMAIN F
      /\ g[m] = Bytes(lines)
      /\ \A n \in DOMAIN r : r[n] = g[n] /\ r[n] = f[n]
      /\ m \in DOMAIN F => f[m] = Bytes(F[m])
  BY <1>1
<1>. HIDE DEF g, f, r
<1>5. Total(g) = Total(r) + Bytes(lines)
  <2>1. m \in DOMAIN g /\ DOMAIN r = DOMAIN g \ {m}
    BY <1>4
  <2>. QED BY <1>3, <1>4, <2>1, TotalWithout
<1>6. Total(g) \in Nat /\ Total(f) \in Nat /\ Total(r) \in Nat
  BY <1>3, TotalType
<1>7. CASE m \in DOMAIN F
  <2>1. Total(f) = Total(r) + Bytes(F[m])
    BY <1>3, <1>4, <1>7, TotalWithout
  <2>2. Bytes(F[m]) \in Nat
    BY <1>7, BytesType
  <2>. USE DEF lines
  <2>3. Total(g) = Total(f) + extra
    BY <1>5, <1>6, <1>7, <2>1, <2>2
  <2>. QED BY <2>3 DEF TotalBytes, g, f
<1>8. CASE m \notin DOMAIN F
  <2>1. \A n \in DOMAIN f : f[n] <= r[n] /\ r[n] <= f[n]
    BY <1>3, <1>4, <1>8 DEF Sizes
  <2>2. Total(f) <= Total(r) /\ Total(r) <= Total(f)
    BY <1>3, <1>4, <1>8, <2>1, TotalGrows
  <2>. USE DEF lines
  <2>3. Total(g) = Total(f) + extra
    BY <1>5, <1>6, <1>8, <2>2
  <2>. QED BY <2>3 DEF TotalBytes, g, f
<1>. QED BY <1>7, <1>8

\* What DiskBytes folds over the files is their total.
LinesOf == [n \in DOMAIN segs |-> segs[n].lines]

LEMMA DiskIsTotal ==
  ASSUME IsFiniteSet(DOMAIN segs),
         \A n \in DOMAIN segs : segs[n].lines \in Seq(Line)
  PROVE  DiskBytes = TotalBytes(LinesOf)
<1>. DEFINE D == DOMAIN segs
            w == [n \in DOMAIN LinesOf |-> Bytes(LinesOf[n])]
            c == [s \in SUBSET D |-> CHOOSE x \in s : TRUE]
            Folds(g) == g = [s \in SUBSET D |->
              IF s = {} THEN 0
              ELSE g[s \ {CHOOSE x \in s : TRUE}]
                     + FileSize(segs[CHOOSE x \in s : TRUE])]
            f == CHOOSE g : Folds(g)
<1>1. DOMAIN LinesOf = D /\ \A n \in D : LinesOf[n] = segs[n].lines
  BY DEF LinesOf
<1>2. Sizes(w)
  BY <1>1, FilesHaveSizes
<1>3. DOMAIN w = D /\ \A n \in D : w[n] = FileSize(segs[n])
  BY <1>1 DEF FileSize
<1>4. IsChoice(c, D)
  BY DEF IsChoice
<1>5. DiskBytes = f[D]
  BY DEF DiskBytes, FoldSet, MapThenFoldSet
<1>6. \A g : Folds(g) <=> AddsUp(g, c, w)
  <2>1. \A s \in SUBSET D : s # {} => (CHOOSE x \in s : TRUE) \in D
    OBVIOUS
  <2>. HIDE DEF w
  <2>. QED BY <1>3, <2>1 DEF AddsUp
<1>. HIDE DEF D, w, c, Folds
<1>7. \E g : AddsUp(g, c, w)
  BY <1>2, <1>3, <1>4, AddingUpEnds
<1>8. Folds(f)
  BY <1>6, <1>7
<1>9. IsSum(f, w)
  BY <1>2, <1>3, <1>4, <1>6, <1>8, AnyOrder
<1>. HIDE DEF f
<1>10. Total(w) = f[D]
  BY <1>2, <1>3, <1>9, TotalIs
<1>. QED BY <1>5, <1>10 DEF TotalBytes, w

-----------------------------------------------------------------------------
(* What the writer still holds of its files.                                *)

Appending == pc \in {"open", "write", "flush", "sync", "link"}

\* The lines that may yet reach the open segment, and the files as they would
\* be then.
Coming == IF pc = "write" THEN batch ELSE buffer
Finals ==
  [n \in DOMAIN segs |->
     IF n = handle THEN Extended(segs[n].lines, Coming) ELSE segs[n].lines]

\* The last frame that the files may have then.
Base == IF pc = "open" THEN sent - Len(batch) ELSE sent

\* Whole lines of the frames that follow base.
NextFrames(lines, base) ==
  /\ lines \in Seq(Line) /\ Len(lines) >= 1
  /\ \A i \in 1..Len(lines) :
       lines[i].frame = base + i /\ lines[i].size >= 1 /\ lines[i].whole

FramesUpTo(F, base) ==
  \A n \in DOMAIN F : \A i \in 1..Len(F[n]) : F[n][i].frame <= base

EndsWith(lines, base) == lines # <<>> => Last(lines).frame = base

TailIs(lines, more) ==
  /\ Len(more) <= Len(lines)
  /\ \A i \in 1..Len(more) : lines[Len(lines) - Len(more) + i] = more[i]

Numbers ==
  /\ pc \in {"down", "idle", "open", "write", "flush", "sync", "link"}
  /\ failed \in BOOLEAN
  /\ number \in Nat /\ used \in Nat /\ starts \in Nat
  /\ pc = "down" => handle = -1
  /\ pc # "down" => \A n \in DOMAIN segs : n < number
  /\ handle # -1 => \A n \in DOMAIN segs : n <= handle

\* The batch on its way, and the buffer.
Queue ==
  /\ Appending => ~failed /\ NextFrames(batch, sent - Len(batch))
                  /\ Len(batch) <= sent
  /\ ~Appending => batch = <<>>
  /\ pc # "flush" /\ (pc = "idle" => ~failed) => buffer = <<>>
  /\ pc = "flush" => buffer = batch
  /\ handle # -1 => Ready(segs[handle].lines, Coming)
  /\ handle # -1 /\ ~failed => ~EndsTorn(segs[handle].lines)

Frames ==
  /\ FramesUpTo(Finals, Base)
  /\ handle # -1 /\ ~failed => EndsWith(Finals[handle], Base)
  /\ pc \in {"sync", "link"} => TailIs(segs[handle].lines, batch)

\* What an fsync has reached is whole.
Synced ==
  /\ pc = "link" => segs[handle].synced = Len(segs[handle].lines)
  /\ \A n \in DOMAIN segs : \A i \in 1..segs[n].synced : segs[n].lines[i].whole

\* The writer's account of the disk, unless it failed.
Account ==
  /\ pc # "down" /\ ~failed =>
       /\ TotalBytes(Finals) <=
            used + (IF pc \in {"write", "flush", "sync", "link"}
                    THEN Bytes(batch) ELSE 0)
       /\ used + Bytes(batch) <= MaxBytes
  /\ pc = "open" => Bytes(batch) <= SegmentBytes

\* Where the line of a receipt is.
Place(r) ==
  LET lines == segs[r.segment].lines
  IN  \E i \in 1..segs[r.segment].synced :
        /\ lines[i].frame = r.frame
        /\ Offset(lines, i) = r.offset
        /\ Offset(lines, i + 1) = r.next
Located == \A r \in receipts : Place(r)

RecordInv ==
  /\ SpoolInv
  /\ Numbers /\ Queue /\ FilesGood(Finals) /\ Frames /\ Synced /\ Account
  /\ Located

-----------------------------------------------------------------------------
(* What follows from the parts of RecordInv.                                *)

LEMMA ExtendedByNone ==
  ASSUME NEW lines \in Seq(Line)
  PROVE  Extended(lines, <<>>) = lines
BY DEF Extended

\* The files, and that they are cuts of what they would be.
LEMMA FileFacts ==
  ASSUME SpoolInv, Queue, FilesGood(Finals)
  PROVE  /\ IsFiniteSet(DOMAIN segs) /\ DOMAIN segs \subseteq Nat
         /\ \A n \in DOMAIN segs : /\ segs[n] \in File
                                   /\ segs[n].lines \in Seq(Line)
                                   /\ segs[n].synced \in 0..Len(segs[n].lines)
         /\ handle # -1 => handle \in DOMAIN segs
         /\ Coming \in Seq(Line)
         /\ DOMAIN Finals = DOMAIN segs /\ DOMAIN LinesOf = DOMAIN segs
         /\ \A n \in DOMAIN segs : Finals[n] \in Seq(Line)
         /\ CutFiles(LinesOf, Finals)
<1>1. /\ DOMAIN Finals = DOMAIN segs /\ DOMAIN LinesOf = DOMAIN segs
      /\ \A n \in DOMAIN segs : LinesOf[n] = segs[n].lines
      /\ \A n \in DOMAIN segs : n # handle => Finals[n] = segs[n].lines
      /\ handle \in DOMAIN segs =>
           Finals[handle] = Extended(segs[handle].lines, Coming)
  BY DEF Finals, LinesOf
<1>2. \A n \in DOMAIN segs : /\ segs[n] \in File
                             /\ segs[n].lines \in Seq(Line)
                             /\ segs[n].synced \in 0..Len(segs[n].lines)
  BY DEF SpoolInv, Files, GoodFile, File
<1>3. (handle # -1 => handle \in DOMAIN segs) /\ Coming \in Seq(Line)
  BY DEF SpoolInv, BatchInv, Coming
<1>4. IsFiniteSet(DOMAIN segs) /\ DOMAIN segs \subseteq Nat
      /\ \A n \in DOMAIN segs : Finals[n] \in Seq(Line)
  BY <1>1 DEF FilesGood, GoodLines
<1>5. ASSUME NEW n \in DOMAIN segs PROVE Cut(LinesOf[n], Finals[n])
  <2>1. CASE n # handle
    BY <1>1, <1>2, <2>1, CutItself
  <2>2. CASE n = handle
    <3>1. handle # -1
      BY <1>4, <2>2
    <3>2. Ready(segs[handle].lines, Coming)
      BY <3>1 DEF Queue
    <3>3. Cut(segs[handle].lines, Extended(segs[handle].lines, Coming))
      BY <1>2, <1>3, <2>2, <3>2, BeforeIsCut
    <3>. QED BY <1>1, <2>2, <3>3
  <2>. QED BY <2>1, <2>2
<1>6. CutFiles(LinesOf, Finals)
  BY <1>1, <1>5 DEF CutFiles
<1>. QED BY <1>1, <1>2, <1>3, <1>4, <1>6

\* The files are within the bounds, and so is what is coming.
LEMMA DiskFacts ==
  ASSUME SpoolInv, Queue, FilesGood(Finals)
  PROVE  /\ FilesGood(LinesOf)
         /\ DiskBytes = TotalBytes(LinesOf)
         /\ TotalBytes(LinesOf) \in Nat /\ TotalBytes(Finals) \in Nat
         /\ TotalBytes(LinesOf) <= TotalBytes(Finals)
<1>1. /\ IsFiniteSet(DOMAIN segs)
      /\ \A n \in DOMAIN segs : segs[n].lines \in Seq(Line)
      /\ DOMAIN Finals = DOMAIN segs /\ DOMAIN LinesOf = DOMAIN segs
      /\ \A n \in DOMAIN segs : Finals[n] \in Seq(Line)
      /\ CutFiles(LinesOf, Finals)
  BY FileFacts
<1>2. \A n \in DOMAIN LinesOf : LinesOf[n] \in Seq(Line)
  BY <1>1 DEF LinesOf
<1>3. TotalBytes(LinesOf) \in Nat /\ TotalBytes(Finals) \in Nat
  BY <1>1, <1>2, FilesHaveSizes
<1>. QED BY <1>1, <1>3, CutFilesGood, DiskIsTotal

\* With nothing on its way, the files are as they will be.
LEMMA NothingComing ==
  ASSUME SpoolInv, DOMAIN segs \subseteq Nat, handle = -1 \/ Coming = <<>>
  PROVE  Finals = LinesOf
<1>1. ASSUME NEW n \in DOMAIN segs
      PROVE  (IF n = handle THEN Extended(segs[n].lines, Coming)
              ELSE segs[n].lines) = segs[n].lines
  <2>1. segs[n].lines \in Seq(Line)
    BY DEF SpoolInv, Files, GoodFile, File
  <2>2. CASE n # handle
    BY <2>2
  <2>3. CASE n = handle
    <3>1. Coming = <<>>
      BY <2>3
    <3>. QED BY <2>1, <2>3, <3>1, ExtendedByNone
  <2>. QED BY <2>2, <2>3
<1>. QED BY <1>1 DEF Finals, LinesOf

\* The next lines can be put into segment h, the last one, which has the lines
\* of old or is new; G are the files then.
CanJoin(F, h, base, lines, old) ==
  /\ FilesGood(F) /\ h \in Nat /\ \A n \in DOMAIN F : n <= h
  /\ base \in Nat /\ FramesUpTo(F, base) /\ NextFrames(lines, base)
  /\ old = (IF h \in DOMAIN F THEN F[h] ELSE <<>>)
  /\ ~EndsTorn(old) /\ EndsWith(old, base)
  /\ Bytes(old) + Bytes(lines) <= SegmentBytes
  /\ TotalBytes(F) + Bytes(lines) <= MaxBytes
Joined(G, F, h, old, lines) ==
  G = [n \in DOMAIN F \cup {h} |-> IF n = h THEN old \o lines ELSE F[n]]

LEMMA BatchJoins ==
  ASSUME NEW F, NEW h, NEW base, NEW lines, NEW old,
         CanJoin(F, h, base, lines, old),
         NEW G, Joined(G, F, h, old, lines)
  PROVE  /\ FilesGood(G)
         /\ TotalBytes(G) = TotalBytes(F) + Bytes(lines)
         /\ FramesUpTo(G, base + Len(lines))
         /\ EndsWith(G[h], base + Len(lines))
<1>. USE DEF CanJoin, Joined
<1>. DEFINE new == old \o lines
            k == Len(old)
<1>1. /\ IsFiniteSet(DOMAIN F) /\ DOMAIN F \subseteq Nat
      /\ \A n \in DOMAIN F : /\ GoodLines(F[n]) /\ F[n] \in Seq(Line)
                             /\ Bytes(F[n]) <= SegmentBytes
  BY DEF FilesGood, GoodLines
<1>2. /\ lines \in Seq(Line) /\ Len(lines) \in Nat /\ Len(lines) >= 1
      /\ \A i \in 1..Len(lines) :
           lines[i].frame = base + i /\ lines[i].size >= 1 /\ lines[i].whole
  BY DEF NextFrames
<1>3. GoodLines(old) /\ old \in Seq(Line) /\ k \in Nat
  <2>1. GoodLines(<<>>)
    BY DEF GoodLines
  <2>2. GoodLines(old)
    BY <1>1, <2>1
  <2>. QED BY <2>2 DEF GoodLines
<1>4. /\ new \in Seq(Line) /\ Len(new) = k + Len(lines)
      /\ \A i \in 1..k : new[i] = old[i]
      /\ \A i \in 1..Len(lines) : new[k + i] = lines[i]
  BY <1>2, <1>3, ConcatLines
<1>5. Bytes(new) = Bytes(old) + Bytes(lines) /\ Bytes(lines) \in Nat
      /\ Bytes(old) \in Nat
  BY <1>2, <1>3, BytesConcat, BytesType
<1>6. DOMAIN G = DOMAIN F \cup {h} /\ G[h] = new
      /\ \A n \in DOMAIN F : n # h => G[n] = F[n]
  OBVIOUS
<1>. HIDE DEF new, k
<1>7. \A i \in 1..Len(new) : i \in 1..k \/ (i - k \in 1..Len(lines) /\ k + (i - k) = i)
  BY <1>2, <1>3, <1>4
<1>8. \A i \in 1..k : old[i].whole /\ old[i].size >= 1
                      /\ old[i].frame = old[1].frame + (i - 1)
  <2>1. k >= 1 => old # <<>> /\ Last(old) = old[k]
    BY DEF k, Last
  <2>2. k >= 1 => old[k].whole
    BY <2>1 DEF EndsTorn
  <2>. QED BY <1>3, <2>2 DEF GoodLines, k
<1>9. k >= 1 => old[k].frame = base /\ k \in 1..k /\ 1 \in 1..k
  BY <1>3 DEF EndsWith, Last, k
<1>10. \A i \in 1..k : old[i] \in Line /\ old[i].frame \in Nat
  <2>1. \A i \in 1..Len(old) : old[i] \in Line
    BY <1>3, ElementOfSeq
  <2>. QED BY <2>1 DEF k, Line
<1>11. ASSUME NEW i \in 1..Len(new)
       PROVE  /\ new[i].size >= 1 /\ new[i].whole
              /\ new[i].frame = base + (i - k)
  <2>1. CASE i \in 1..k
    <3>1. new[i] = old[i] /\ old[i].frame = old[1].frame + (i - 1)
          /\ old[k].frame = old[1].frame + (k - 1)
      BY <1>3, <1>4, <1>8, <1>9, <2>1
    <3>2. old[1].frame \in Nat
      BY <1>3, <1>9, <1>10, <2>1
    <3>3. k >= 1 /\ old[k].frame = base /\ old[i].whole /\ old[i].size >= 1
      BY <1>3, <1>8, <1>9, <2>1
    <3>4. new[i].frame = base + (i - k)
      <4>. DEFINE z == old[1].frame
      <4>1. z \in Int /\ k \in Int /\ i \in Int
        BY <1>3, <2>1, <3>2
      <4>2. new[i].frame = z + (i - 1) /\ base = z + (k - 1)
        BY <3>1, <3>3
      <4>. HIDE DEF z
      <4>. QED BY <4>1, <4>2
    <3>. QED BY <3>1, <3>3, <3>4
  <2>2. CASE i - k \in 1..Len(lines) /\ k + (i - k) = i
    <3>1. new[k + (i - k)] = lines[i - k]
      BY <1>4, <2>2
    <3>. QED BY <1>2, <2>2, <3>1
  <2>. QED BY <1>7, <2>1, <2>2
<1>12. GoodLines(new)
  <2>1. ASSUME NEW i \in 1..Len(new)
        PROVE  new[i].frame = new[1].frame + (i - 1)
    <3>1. 1 \in 1..Len(new)
      BY <1>2, <1>3, <1>4
    <3>. QED BY <1>3, <1>11, <3>1
  <2>2. ASSUME NEW i \in 1..Len(new)
        PROVE  new[i].frame >= 1
    <3>1. CASE i \in 1..k
      <4>1. old[i].frame >= 1
        BY <1>3, <3>1 DEF GoodLines, k
      <4>. QED BY <1>4, <3>1, <4>1
    <3>2. CASE i - k \in 1..Len(lines)
      BY <1>2, <1>11, <2>2, <3>2
    <3>. QED BY <1>7, <2>2, <3>1, <3>2
  <2>. QED BY <1>4, <1>11, <2>1, <2>2 DEF GoodLines
<1>13. TotalBytes(G) = TotalBytes(F) + Bytes(lines)
  <2>1. Bytes(new) = (IF h \in DOMAIN F THEN Bytes(F[h]) ELSE 0) + Bytes(lines)
    BY <1>5, BytesEmpty
  <2>2. IsFiniteSet(DOMAIN F) /\ \A n \in DOMAIN F : F[n] \in Seq(Line)
    BY <1>1
  <2>. QED BY <1>4, <1>5, <1>6, <2>1, <2>2, TotalOfOther
<1>14. IsFiniteSet(DOMAIN G) /\ DOMAIN G \subseteq Nat
  BY <1>1, <1>6, FS_AddElement
<1>15. \A n \in DOMAIN G : GoodLines(G[n]) /\ Bytes(G[n]) <= SegmentBytes
  BY <1>1, <1>5, <1>6, <1>12
<1>16. \A n, m \in DOMAIN G : n < m =>
         \A i \in 1..Len(G[n]), j \in 1..Len(G[m]) : G[n][i].frame < G[m][j].frame
  <2>. SUFFICES ASSUME NEW n \in DOMAIN G, NEW m \in DOMAIN G, n < m,
                       NEW i \in 1..Len(G[n]), NEW j \in 1..Len(G[m])
       PROVE  G[n][i].frame < G[m][j].frame
    OBVIOUS
  <2>1. n # h /\ n \in DOMAIN F /\ G[n] = F[n]
    <3>1. n \in Nat /\ m \in Nat /\ m <= h
      BY <1>6, <1>14
    <3>. QED BY <1>6, <3>1
  <2>2. CASE m # h
    BY <1>6, <2>1, <2>2 DEF FilesGood
  <2>3. CASE m = h
    <3>1. G[m] = new
      BY <1>6, <2>3
    <3>2. CASE j \in 1..k
      <4>1. h \in DOMAIN F /\ old = F[h] /\ new[j] = old[j]
        <5>1. old # <<>>
          BY <3>2 DEF k
        <5>. QED BY <1>4, <3>2, <5>1
      <4>2. F[n][i].frame < F[h][j].frame
        BY <2>1, <2>3, <3>2, <4>1 DEF FilesGood, k
      <4>. QED BY <2>1, <3>1, <4>1, <4>2
    <3>3. CASE j - k \in 1..Len(lines) /\ k + (j - k) = j
      <4>1. new[j].frame = base + (j - k)
        BY <1>11, <3>1
      <4>2. F[n][i].frame <= base
        BY <2>1 DEF FramesUpTo
      <4>3. F[n][i].frame \in Nat
        <5>1. F[n][i] \in Line
          BY <1>1, <2>1, ElementOfSeq
        <5>. QED BY <5>1 DEF Line
      <4>4. j - k >= 1 /\ j - k \in Int
        BY <3>3
      <4>5. F[n][i].frame < new[j].frame
        BY <4>1, <4>2, <4>3, <4>4
      <4>. QED BY <2>1, <3>1, <4>5
    <3>. QED BY <1>7, <3>1, <3>2, <3>3
  <2>. QED BY <2>2, <2>3
<1>17. FilesGood(G)
  <2>1. TotalBytes(G) <= MaxBytes
    BY <1>13
  <2>. QED BY <1>14, <1>15, <1>16, <2>1 DEF FilesGood
<1>18. FramesUpTo(G, base + Len(lines))
  <2>. SUFFICES ASSUME NEW n \in DOMAIN G, NEW i \in 1..Len(G[n])
       PROVE  G[n][i].frame <= base + Len(lines)
    BY DEF FramesUpTo
  <2>1. CASE n # h
    <3>1. n \in DOMAIN F /\ G[n] = F[n]
      BY <1>6, <2>1
    <3>2. F[n][i].frame <= base
      BY <3>1 DEF FramesUpTo
    <3>3. F[n][i] \in Line
      BY <1>1, <3>1, ElementOfSeq
    <3>. QED BY <1>2, <3>1, <3>2, <3>3 DEF Line
  <2>2. CASE n = h
    <3>1. G[n] = new
      BY <1>6, <2>2
    <3>2. new[i].frame = base + (i - k) /\ i <= k + Len(lines)
      BY <1>4, <1>11, <3>1
    <3>. QED BY <1>2, <1>3, <3>1, <3>2
  <2>. QED BY <2>1, <2>2
<1>19. EndsWith(G[h], base + Len(lines))
  <2>1. Len(new) \in 1..Len(new) /\ Len(new) - k = Len(lines)
    BY <1>2, <1>3, <1>4
  <2>2. Last(new).frame = base + Len(lines)
    BY <1>11, <2>1 DEF Last
  <2>. QED BY <1>6, <2>2 DEF EndsWith
<1>. QED BY <1>13, <1>17, <1>18, <1>19

-----------------------------------------------------------------------------
(* What a step has to keep of RecordInv.                                    *)

LEMMA RecordParts ==
  ASSUME RecordInv
  PROVE  /\ SpoolInv /\ Numbers /\ Queue /\ FilesGood(Finals) /\ Frames
         /\ Synced /\ Account /\ Located
         /\ Files /\ BatchInv /\ AckedIsDurable
         /\ sent \in Nat /\ used \in Nat /\ number \in Nat
         /\ Base \in Nat /\ Base <= sent
<1>1. sent \in Nat /\ used \in Nat /\ number \in Nat
  BY DEF RecordInv, SpoolInv, BatchInv, Numbers
<1>2. Base \in Nat /\ Base <= sent
  <2>1. CASE pc = "open"
    <3>1. Len(batch) <= sent /\ batch \in Seq(Line)
      BY <2>1 DEF RecordInv, Queue, Appending, SpoolInv, BatchInv
    <3>2. Len(batch) \in Nat
      BY <3>1
    <3>. QED BY <1>1, <2>1, <3>1, <3>2 DEF Base
  <2>2. CASE pc # "open"
    BY <1>1, <2>2 DEF Base
  <2>. QED BY <2>1, <2>2
<1>. QED BY <1>1, <1>2 DEF RecordInv, SpoolInv

\* The line of a receipt stays where it is as long as what is on the disk is
\* kept.
LEMMA PlacesKept ==
  ASSUME RecordInv, Files', SegsKept
  PROVE  \A r \in receipts : Place(r)'
<1>. SUFFICES ASSUME NEW r \in receipts
     PROVE  LET lines == segs'[r.segment].lines
            IN  \E i \in 1..segs'[r.segment].synced :
                  /\ lines[i].frame = r.frame
                  /\ Offset(lines, i) = r.offset
                  /\ Offset(lines, i + 1) = r.next
  BY DEF Place
<1>. DEFINE n == r.segment
            a == segs[n].lines
            b == segs'[n].lines
            k == segs[n].synced
<1>1. n \in DOMAIN segs /\ segs[n].linked
  BY DEF RecordInv, SpoolInv, AckedIsDurable
<1>2. n \in DOMAIN segs' /\ Keeps(segs[n], segs'[n])
  BY <1>1 DEF SegsKept
<1>3. /\ a \in Seq(Line) /\ k \in Nat /\ k <= Len(a)
      /\ b \in Seq(Line) /\ segs'[n].synced \in Nat
      /\ segs'[n].synced <= Len(b) /\ k <= segs'[n].synced
  BY <1>1, <1>2 DEF RecordInv, SpoolInv, Files, GoodFile, File, Keeps
<1>4. \A i \in 1..k : a[i].whole /\ b[i] = a[i]
  BY <1>1, <1>2 DEF RecordInv, Synced, Keeps
<1>5. PICK i \in 1..k : /\ a[i].frame = r.frame
                        /\ Offset(a, i) = r.offset
                        /\ Offset(a, i + 1) = r.next
  BY DEF RecordInv, Located, Place
<1>. HIDE DEF a, b, k
<1>6. \A j \in 1..(k + 1) : Offset(a, j) = Offset(b, j)
  <2>1. Len(a) \in Nat /\ Len(b) \in Nat /\ k <= Len(b)
    BY <1>3
  <2>. QED BY <1>3, <1>4, <2>1, OffsetOfPrefix
<1>7. i \in 1..(k + 1) /\ i + 1 \in 1..(k + 1) /\ i \in 1..segs'[n].synced
  BY <1>3, <1>5
<1>8. b[i].frame = r.frame /\ Offset(b, i) = r.offset /\ Offset(b, i + 1) = r.next
  BY <1>4, <1>5, <1>6, <1>7
<1>. QED BY <1>7, <1>8 DEF b

LEMMA LocatedKept ==
  ASSUME RecordInv, Files', SegsKept, receipts' = receipts
  PROVE  Located'
<1>1. \A r \in receipts' : Place(r)'
  BY PlacesKept
<1>. QED BY <1>1 DEF Located, Place

\* The synced part of every file stays.
SyncedStays ==
  \A n \in DOMAIN segs' :
    /\ n \in DOMAIN segs /\ segs'[n].synced = segs[n].synced
    /\ \A i \in 1..segs[n].synced :
         segs[n].lines[i].whole => segs'[n].lines[i] = segs[n].lines[i]

LEMMA SyncedKept ==
  ASSUME RecordInv, SyncedStays, pc' # "link"
  PROVE  Synced'
<1>1. \A n \in DOMAIN segs : \A i \in 1..segs[n].synced : segs[n].lines[i].whole
  BY DEF RecordInv, Synced
<1>2. \A n \in DOMAIN segs' : \A i \in 1..segs'[n].synced : segs'[n].lines[i].whole
  BY <1>1 DEF SyncedStays
<1>. QED BY <1>2 DEF Synced

LEMMA SameSynced ==
  ASSUME segs' = segs
  PROVE  SyncedStays
BY DEF SyncedStays

\* Other lines in the open segment, behind what is whole of it.
LEMMA WrittenSegment ==
  ASSUME Files, handle \in DOMAIN segs, NEW lines \in Seq(Line),
         \A i \in 1..Len(segs[handle].lines) :
           segs[handle].lines[i].whole => lines[i] = segs[handle].lines[i],
         segs' = [segs EXCEPT ![handle].lines = lines]
  PROVE  /\ DOMAIN segs' = DOMAIN segs
         /\ segs'[handle].lines = lines
         /\ segs'[handle].synced = segs[handle].synced
         /\ \A n \in DOMAIN segs : n # handle => segs'[n] = segs[n]
         /\ SyncedStays
<1>1. /\ segs[handle] \in File /\ segs[handle].synced \in Nat
      /\ segs[handle].lines \in Seq(Line)
      /\ segs[handle].synced <= Len(segs[handle].lines)
  BY DEF Files, GoodFile, File
<1>2. /\ DOMAIN segs' = DOMAIN segs
      /\ segs'[handle] = [segs[handle] EXCEPT !.lines = lines]
      /\ \A n \in DOMAIN segs : n # handle => segs'[n] = segs[n]
  OBVIOUS
<1>3. segs'[handle].lines = lines /\ segs'[handle].synced = segs[handle].synced
  BY <1>1, <1>2 DEF File
<1>4. \A i \in 1..segs[handle].synced : i \in 1..Len(segs[handle].lines)
  BY <1>1
<1>5. SyncedStays
  BY <1>2, <1>3, <1>4 DEF SyncedStays
<1>. QED BY <1>2, <1>3, <1>5

LEMMA WholeLinesStay ==
  ASSUME NEW before \in Seq(Line), NEW more \in Seq(Line), Ready(before, more)
  PROVE  \A i \in 1..Len(before) :
           before[i].whole => Extended(before, more)[i] = before[i]
BY ExtendedFacts

\* Steps that end the writing, or the writer: the files are cuts of what they
\* would have become.
LEMMA AfterCut ==
  ASSUME RecordInv, CutFiles(Finals', Finals), sent' = sent,
         (pc' = "down" /\ handle' = -1) \/ (pc' = "idle" /\ failed')
  PROVE  FilesGood(Finals)' /\ Frames' /\ Account'
<1>1. /\ FilesGood(Finals') /\ DOMAIN Finals' \subseteq DOMAIN Finals
      /\ \A n \in DOMAIN Finals' : \A i \in 1..Len(Finals'[n]) :
           /\ i \in 1..Len(Finals[n])
           /\ Finals'[n][i].frame = Finals[n][i].frame
  BY CutFilesGood DEF RecordInv, CutFiles
<1>2. Base' = sent /\ Base <= sent /\ Base \in Nat /\ sent \in Nat
  BY RecordParts DEF Base
<1>3. FramesUpTo(Finals', Base')
  <2>1. \A n \in DOMAIN Finals : \A i \in 1..Len(Finals[n]) :
          Finals[n][i].frame <= Base /\ Finals[n][i].frame \in Nat
    <3>1. \A n \in DOMAIN Finals : Finals[n] \in Seq(Line)
      BY DEF RecordInv, FilesGood, GoodLines
    <3>2. \A n \in DOMAIN Finals : \A i \in 1..Len(Finals[n]) :
            Finals[n][i] \in Line
      BY <3>1, ElementOfSeq
    <3>. QED BY <3>2 DEF RecordInv, Frames, FramesUpTo, Line
  <2>. SUFFICES ASSUME NEW n \in DOMAIN Finals', NEW i \in 1..Len(Finals'[n])
       PROVE  Finals'[n][i].frame <= Base'
    BY DEF FramesUpTo
  <2>. QED BY <1>1, <1>2, <2>1
<1>4. Frames'
  BY <1>3 DEF Frames
<1>5. Account'
  BY DEF Account
<1>. QED BY <1>1, <1>4, <1>5

\* Steps that leave the files as they will be, and the account of them.
LEMMA SameFiles ==
  ASSUME RecordInv, Finals' = Finals
  PROVE  FilesGood(Finals)' /\ TotalBytes(Finals') = TotalBytes(Finals)
BY DEF RecordInv

-----------------------------------------------------------------------------
(* Every step keeps RecordInv.                                              *)

LEMMA RecordInit == Init => RecordInv
<1>. SUFFICES ASSUME Init PROVE RecordInv
  OBVIOUS
<1>1. SpoolInv
  BY InitGood
<1>2. DOMAIN segs = {} /\ DOMAIN Finals = {}
  BY DEF Init, Finals
<1>3. Numbers /\ Queue /\ Synced /\ Located
  <2>1. Numbers
    BY <1>2 DEF Init, Numbers
  <2>2. Queue
    BY DEF Init, Queue, Appending
  <2>3. Synced /\ Located
    BY <1>2 DEF Init, Synced, Located
  <2>. QED BY <2>1, <2>2, <2>3
<1>4. FilesGood(Finals)
  <2>1. IsFiniteSet({})
    BY FS_EmptySet
  <2>2. Sizes([n \in DOMAIN Finals |-> Bytes(Finals[n])])
    BY <1>2, <2>1 DEF Sizes
  <2>3. TotalBytes(Finals) = 0
    BY <1>2, <2>2, TotalType DEF TotalBytes
  <2>. QED BY <1>2, <2>1, <2>3, SpoolAssumption DEF FilesGood
<1>5. Frames /\ Account
  BY <1>2 DEF Init, Frames, FramesUpTo, Account
<1>. QED BY <1>1, <1>3, <1>4, <1>5 DEF RecordInv

LEMMA RecordStartWriter ==
  ASSUME RecordInv, StartWriter
  PROVE  RecordInv'
<1>1. /\ SpoolInv /\ Numbers /\ Queue /\ FilesGood(Finals) /\ Frames
      /\ sent \in Nat
  BY RecordParts
<1>2. SpoolInv' /\ SegsKept /\ Files'
  BY <1>1, StartWriterStep DEF SpoolInv
<1>3. /\ pc = "down" /\ pc' = "idle" /\ handle' = -1 /\ failed' = FALSE
      /\ batch' = <<>> /\ buffer' = <<>> /\ segs' = segs /\ sent' = sent
      /\ receipts' = receipts /\ number' = NextNumber /\ used' = DiskBytes
      /\ starts' = starts + 1
  BY DEF StartWriter
<1>4. /\ IsFiniteSet(DOMAIN segs) /\ DOMAIN segs \subseteq Nat
      /\ DiskBytes = TotalBytes(LinesOf) /\ TotalBytes(LinesOf) \in Nat
  BY <1>1, FileFacts, DiskFacts
<1>5. handle = -1
  BY <1>1, <1>3 DEF Numbers
<1>6. Finals = LinesOf
  BY <1>1, <1>4, <1>5, NothingComing
<1>7. Finals' = Finals
  BY <1>3, <1>4, <1>5 DEF Finals
<1>8. NextNumber \in Nat /\ \A n \in DOMAIN segs : n < NextNumber
  <2>1. CASE DOMAIN segs = {}
    BY <2>1 DEF NextNumber
  <2>2. CASE DOMAIN segs # {}
    <3>1. Max(DOMAIN segs) \in DOMAIN segs
          /\ \A n \in DOMAIN segs : Max(DOMAIN segs) >= n
      BY <1>4, <2>2, MaxFacts
    <3>. HIDE DEF Max
    <3>2. NextNumber = Max(DOMAIN segs) + 1
      BY <2>2 DEF NextNumber
    <3>. QED BY <1>4, <3>1, <3>2
  <2>. QED BY <2>1, <2>2
<1>9. Numbers'
  <2>1. starts \in Nat
    BY <1>1 DEF Numbers
  <2>. HIDE DEF NextNumber, DiskBytes
  <2>2. failed' \in BOOLEAN
    BY <1>3
  <2>3. number' \in Nat /\ used' \in Nat /\ starts' \in Nat
    BY <1>3, <1>4, <1>8, <2>1
  <2>4. \A n \in DOMAIN segs' : n < number'
    BY <1>3, <1>8
  <2>. QED BY <1>3, <2>2, <2>3, <2>4 DEF Numbers
<1>10. Queue'
  BY <1>3 DEF Queue, Appending
<1>11. FilesGood(Finals)' /\ TotalBytes(Finals') = TotalBytes(Finals)
  BY <1>7, SameFiles
<1>12. Base' = sent /\ Base = sent
  BY <1>3 DEF Base
<1>13. Frames'
  BY <1>1, <1>3, <1>7, <1>12 DEF Frames
<1>14. Synced'
  BY <1>3, SameSynced, SyncedKept
<1>15. Account'
  <2>1. TotalBytes(Finals) <= MaxBytes
    BY <1>1 DEF FilesGood
  <2>2. used' \in Nat /\ used' = TotalBytes(Finals') /\ used' <= MaxBytes
    BY <1>3, <1>4, <1>6, <1>11, <2>1
  <2>. HIDE DEF DiskBytes
  <2>. QED BY <1>3, <2>2, BytesEmpty, SpoolAssumption DEF Account
<1>16. Located'
  BY <1>2, <1>3, LocatedKept
<1>. QED BY <1>2, <1>9, <1>10, <1>11, <1>13, <1>14, <1>15, <1>16 DEF RecordInv

\* The batches that can be submitted hold the next frames.
LEMMA BatchesAreNext ==
  ASSUME sent \in Nat, NEW lines \in Batches
  PROVE  NextFrames(lines, sent) /\ Len(lines) \in Nat
<1>1. PICK n \in BatchSizes : \E sizes \in [1..n -> LineSizes] :
        lines = [i \in 1..n |-> [frame |-> sent + i, size |-> sizes[i],
                                 whole |-> TRUE]]
  BY DEF Batches
<1>2. PICK sizes \in [1..n -> LineSizes] :
        lines = [i \in 1..n |-> [frame |-> sent + i, size |-> sizes[i],
                                 whole |-> TRUE]]
  BY <1>1
<1>3. n \in Nat /\ n >= 1 /\ \A i \in 1..n : sizes[i] \in Nat /\ sizes[i] >= 1
  <2>1. n \in Nat /\ n # 0
    BY SpoolAssumption
  <2>2. \A size \in LineSizes : size \in Nat /\ size # 0
    BY SpoolAssumption
  <2>3. \A i \in 1..n : sizes[i] \in LineSizes
    OBVIOUS
  <2>4. \A i \in 1..n : sizes[i] \in Nat /\ sizes[i] # 0
    BY <2>2, <2>3
  <2>. QED BY <2>1, <2>4
<1>4. \A i \in 1..n : /\ lines[i] \in Line /\ lines[i].frame = sent + i
                      /\ lines[i].size >= 1 /\ lines[i].whole
  BY <1>2, <1>3 DEF Line
<1>5. lines \in Seq(Line) /\ Len(lines) = n
  <2>1. lines \in [1..n -> Line]
    BY <1>2, <1>4
  <2>. QED BY <1>3, <2>1
<1>. QED BY <1>3, <1>4, <1>5 DEF NextFrames

LEMMA RecordSubmit ==
  ASSUME RecordInv, NEW lines \in Batches, Submit(lines)
  PROVE  RecordInv'
<1>1. /\ SpoolInv /\ Numbers /\ Queue /\ FilesGood(Finals) /\ Frames /\ Account
      /\ sent \in Nat /\ used \in Nat
  BY RecordParts
<1>2. SpoolInv' /\ SegsKept /\ Files'
  BY <1>1, SubmitStep DEF SpoolInv
<1>3. /\ pc = "idle" /\ ~failed /\ pc' = "open" /\ failed' = failed
      /\ handle' = handle /\ number' = number /\ used' = used
      /\ starts' = starts /\ buffer' = buffer /\ batch' = lines
      /\ segs' = segs /\ receipts' = receipts /\ sent' = sent + Len(lines)
      /\ Bytes(lines) <= SegmentBytes /\ used + Bytes(lines) <= MaxBytes
  BY DEF Submit
<1>4. NextFrames(lines, sent) /\ Len(lines) \in Nat
  BY <1>1, BatchesAreNext
<1>5. buffer = <<>>
  BY <1>1, <1>3 DEF Queue
<1>6. Coming = <<>> /\ Coming' = <<>>
  BY <1>3, <1>5 DEF Coming
<1>7. Finals' = Finals
  BY <1>3, <1>6 DEF Finals
<1>8. sent' - Len(batch') = sent /\ Base' = sent /\ Base = sent
      /\ Len(batch') <= sent'
  BY <1>1, <1>3, <1>4 DEF Base
<1>9. Numbers'
  BY <1>1, <1>3 DEF Numbers
<1>10. Queue'
  <2>1. NextFrames(batch', sent' - Len(batch'))
    BY <1>3, <1>4, <1>8
  <2>2. handle' # -1 => Ready(segs'[handle'].lines, Coming')
    BY <1>1, <1>3, <1>6 DEF Queue
  <2>3. handle' # -1 /\ ~failed' => ~EndsTorn(segs'[handle'].lines)
    BY <1>1, <1>3 DEF Queue
  <2>. QED BY <1>3, <1>5, <1>8, <2>1, <2>2, <2>3 DEF Queue, Appending
<1>11. FilesGood(Finals)' /\ TotalBytes(Finals') = TotalBytes(Finals)
  BY <1>7, SameFiles
<1>12. Frames'
  BY <1>1, <1>3, <1>7, <1>8 DEF Frames
<1>13. Synced'
  BY <1>3, SameSynced, SyncedKept
<1>14. Account'
  BY <1>1, <1>3, <1>11 DEF Account
<1>15. Located'
  BY <1>2, <1>3, LocatedKept
<1>. QED BY <1>2, <1>9, <1>10, <1>11, <1>12, <1>13, <1>14, <1>15 DEF RecordInv

\* A file of an unfailed writer that awaits nothing ends in a whole line.
LEMMA NotTorn ==
  ASSUME NEW lines, Ready(lines, <<>>)
  PROVE  ~EndsTorn(lines)
BY DEF Ready

LEMMA RecordOpenSegment ==
  ASSUME RecordInv, OpenSegment
  PROVE  RecordInv'
<1>. DEFINE h == handle'
            base == sent - Len(batch)
            old == IF h \in DOMAIN Finals THEN Finals[h] ELSE <<>>
            G == [n \in DOMAIN Finals \cup {h} |->
                    IF n = h THEN old \o batch ELSE Finals[n]]
<1>1. /\ SpoolInv /\ Numbers /\ Queue /\ FilesGood(Finals) /\ Frames /\ Account
      /\ sent \in Nat /\ used \in Nat /\ number \in Nat /\ Base \in Nat
  BY RecordParts
<1>2. SpoolInv' /\ SegsKept /\ Files'
  BY <1>1, OpenSegmentStep DEF SpoolInv
<1>3. /\ pc = "open" /\ pc' = "write" /\ used' = used /\ failed' = failed
      /\ batch' = batch /\ buffer' = buffer /\ receipts' = receipts
      /\ sent' = sent /\ starts' = starts
  BY DEF OpenSegment
<1>4. /\ ~failed /\ NextFrames(batch, base) /\ Len(batch) <= sent
      /\ batch \in Seq(Line) /\ Len(batch) \in Nat
      /\ buffer = <<>> /\ Bytes(batch) \in Nat
  <2>1. ~failed /\ NextFrames(batch, base) /\ Len(batch) <= sent /\ buffer = <<>>
    BY <1>1, <1>3 DEF Queue, Appending
  <2>2. batch \in Seq(Line) /\ Len(batch) \in Nat
    BY <2>1 DEF NextFrames
  <2>. QED BY <2>1, <2>2, BytesType
<1>5. Coming = <<>> /\ Coming' = batch
  BY <1>3, <1>4 DEF Coming
<1>6. /\ IsFiniteSet(DOMAIN segs) /\ DOMAIN segs \subseteq Nat
      /\ \A n \in DOMAIN segs : segs[n].lines \in Seq(Line)
      /\ handle # -1 => handle \in DOMAIN segs
      /\ DOMAIN Finals = DOMAIN segs
  BY <1>1, FileFacts
<1>7. Finals = LinesOf
  BY <1>1, <1>5, <1>6, NothingComing
<1>8. \A n \in DOMAIN segs : Finals[n] = segs[n].lines
  BY <1>7 DEF LinesOf
<1>9. Base = base /\ Base' = base + Len(batch) /\ base \in Nat
  BY <1>1, <1>3, <1>4 DEF Base
<1>10. /\ h \in Nat /\ \A n \in DOMAIN segs : n <= h
       /\ DOMAIN segs' = DOMAIN segs \cup {h}
       /\ \A n \in DOMAIN segs : segs'[n] = segs[n]
       /\ segs'[h].lines = old /\ old \in Seq(Line)
       /\ ~EndsTorn(old) /\ EndsWith(old, base)
       /\ Bytes(old) + Bytes(batch) <= SegmentBytes
       /\ number' \in Nat /\ \A n \in DOMAIN segs' : n < number' /\ n <= h
       /\ \A n \in DOMAIN segs' \ DOMAIN segs : segs'[n] = NewFile
  <2>1. CASE NeedsSegment
    <3>1. /\ number \notin DOMAIN segs /\ segs' = WithFile(number)
          /\ h = number /\ number' = number + 1
      BY <2>1 DEF OpenSegment
    <3>2. \A n \in DOMAIN segs : n < number /\ n \in Nat
      BY <1>1, <1>3, <1>6 DEF Numbers
    <3>3. /\ DOMAIN segs' = DOMAIN segs \cup {number}
          /\ \A n \in DOMAIN segs : segs'[n] = segs[n]
          /\ segs'[number] = NewFile
      BY <3>1 DEF WithFile
    <3>4. old = <<>>
      BY <1>6, <3>1
    <3>5. segs'[h].lines = <<>>
      BY <3>1, <3>3 DEF NewFile
    <3>6. ~EndsTorn(<<>>) /\ EndsWith(<<>>, base)
      BY DEF EndsTorn, EndsWith
    <3>7. Bytes(<<>>) + Bytes(batch) <= SegmentBytes
      BY <1>1, <1>3, <1>4, BytesEmpty DEF Account
    <3>. HIDE DEF old, base
    <3>8. <<>> \in Seq(Line)
      OBVIOUS
    <3>9. number' \in Nat /\ \A n \in DOMAIN segs' : n < number' /\ n <= h
      BY <1>1, <3>1, <3>2, <3>3
    <3>. QED BY <1>1, <3>1, <3>2, <3>3, <3>4, <3>5, <3>6, <3>7, <3>8, <3>9
  <2>2. CASE ~NeedsSegment
    <3>1. segs' = segs /\ h = handle /\ number' = number
      BY <2>2 DEF OpenSegment
    <3>2. handle # -1 /\ Bytes(segs[handle].lines) + Bytes(batch) <= SegmentBytes
          /\ handle \in DOMAIN segs
      <4>1. handle # -1 /\ ~(FileSize(segs[handle]) + Bytes(batch) > SegmentBytes)
        BY <2>2 DEF NeedsSegment
      <4>2. handle \in DOMAIN segs
        BY <1>6, <4>1
      <4>3. FileSize(segs[handle]) \in Nat
        BY <1>6, <4>2, BytesType DEF FileSize
      <4>. QED BY <1>4, <4>1, <4>2, <4>3, SpoolAssumption DEF FileSize
    <3>3. old = segs[handle].lines
      BY <1>6, <1>8, <3>1, <3>2
    <3>4. Ready(segs[handle].lines, <<>>)
      BY <1>1, <1>5, <3>2 DEF Queue
    <3>5. ~EndsTorn(old)
      BY <3>3, <3>4, NotTorn
    <3>6. EndsWith(old, base)
      BY <1>1, <1>4, <1>8, <1>9, <3>2, <3>3 DEF Frames
    <3>7. \A n \in DOMAIN segs : n <= handle /\ n < number
      BY <1>1, <1>3, <3>2 DEF Numbers
    <3>8. handle \in Nat /\ DOMAIN segs \cup {handle} = DOMAIN segs
      BY <1>6, <3>2
    <3>. HIDE DEF old, base
    <3>. QED BY <1>1, <1>6, <3>1, <3>2, <3>3, <3>5, <3>6, <3>7, <3>8
  <2>. QED BY <2>1, <2>2
<1>11. Finals' = G
  <2>1. Extended(old, batch) = old \o batch
    BY <1>10 DEF Extended
  <2>2. Finals' = [n \in DOMAIN segs' |->
                     IF n = h THEN Extended(segs'[n].lines, batch)
                     ELSE segs'[n].lines]
    BY <1>5 DEF Finals
  <2>3. \A n \in DOMAIN segs' : n # h => n \in DOMAIN segs
                                         /\ segs'[n].lines = Finals[n]
    BY <1>8, <1>10
  <2>4. DOMAIN segs' = DOMAIN Finals \cup {h}
    BY <1>6, <1>10
  <2>. HIDE DEF old, h
  <2>. QED BY <1>10, <2>1, <2>2, <2>3, <2>4
<1>12. /\ TotalBytes(Finals) + Bytes(batch) <= MaxBytes
       /\ TotalBytes(Finals) \in Nat
       /\ TotalBytes(Finals) <= used /\ used + Bytes(batch) <= MaxBytes
  <2>1. TotalBytes(Finals) \in Nat
    BY <1>1, DiskFacts
  <2>2. TotalBytes(Finals) <= used + 0 /\ used + Bytes(batch) <= MaxBytes
    BY <1>1, <1>3, <1>4 DEF Account
  <2>. QED BY <1>1, <1>4, <2>1, <2>2, SpoolAssumption
<1>13. /\ FilesGood(G) /\ TotalBytes(G) = TotalBytes(Finals) + Bytes(batch)
       /\ FramesUpTo(G, base + Len(batch))
       /\ EndsWith(G[h], base + Len(batch))
  <2>1. \A n \in DOMAIN Finals : n <= h
    BY <1>6, <1>10
  <2>2. FramesUpTo(Finals, base)
    BY <1>1, <1>9 DEF Frames
  <2>3. old = IF h \in DOMAIN Finals THEN Finals[h] ELSE <<>>
    OBVIOUS
  <2>4. Joined(G, Finals, h, old, batch)
    BY DEF Joined
  <2>. HIDE DEF G, old, base, h
  <2>5. CanJoin(Finals, h, base, batch, old)
    BY <1>1, <1>4, <1>9, <1>10, <1>12, <2>1, <2>2, <2>3 DEF CanJoin
  <2>. QED BY <2>4, <2>5, BatchJoins
<1>. HIDE DEF G, old, h
<1>14. Numbers'
  <2>1. starts' \in Nat /\ failed' \in BOOLEAN
    BY <1>1, <1>3 DEF Numbers
  <2>. QED BY <1>1, <1>3, <1>10, <2>1 DEF Numbers, h
<1>15. Queue'
  <2>1. Ready(segs'[h].lines, Coming')
    BY <1>4, <1>5, <1>10 DEF Ready, NextFrames
  <2>2. NextFrames(batch', sent' - Len(batch'))
    BY <1>3, <1>4
  <2>3. ~EndsTorn(segs'[h].lines)
    BY <1>10
  <2>. HIDE DEF base
  <2>. QED BY <1>3, <1>4, <2>1, <2>2, <2>3 DEF Queue, Appending, h
<1>16. FilesGood(Finals)'
  BY <1>11, <1>13
<1>17. Frames'
  BY <1>3, <1>9, <1>11, <1>13 DEF Frames, h
<1>18. Synced'
  <2>1. <<>> \in Seq(Line) /\ NewFile.synced = 0
    BY DEF NewFile
  <2>2. \A n \in DOMAIN segs : \A i \in 1..segs[n].synced : segs[n].lines[i].whole
    BY DEF RecordInv, Synced
  <2>3. \A n \in DOMAIN segs' : \A i \in 1..segs'[n].synced :
          segs'[n].lines[i].whole
    BY <1>10, <2>1, <2>2
  <2>. QED BY <1>3, <2>3 DEF Synced
<1>19. Account'
  <2>1. TotalBytes(Finals') <= used + Bytes(batch)
    BY <1>1, <1>4, <1>11, <1>12, <1>13
  <2>. QED BY <1>3, <1>12, <2>1 DEF Account
<1>20. Located'
  BY <1>2, <1>3, LocatedKept
<1>. QED BY <1>2, <1>14, <1>15, <1>16, <1>17, <1>18, <1>19, <1>20 DEF RecordInv

LEMMA RecordWriteLines ==
  ASSUME RecordInv, WriteLines
  PROVE  RecordInv'
<1>1. /\ SpoolInv /\ Numbers /\ Queue /\ FilesGood(Finals) /\ Frames /\ Account
  BY RecordParts
<1>2. SpoolInv' /\ SegsKept /\ Files'
  BY <1>1, WriteLinesStep DEF SpoolInv
<1>3. /\ pc = "write" /\ pc' = "flush" /\ buffer' = batch /\ batch' = batch
      /\ segs' = segs /\ handle' = handle /\ number' = number /\ used' = used
      /\ failed' = failed /\ receipts' = receipts /\ sent' = sent
      /\ starts' = starts
  BY DEF WriteLines
<1>4. Coming = batch /\ Coming' = batch /\ Base' = Base
  BY <1>3 DEF Coming, Base
<1>5. Finals' = Finals
  BY <1>3, <1>4 DEF Finals
<1>6. FilesGood(Finals)' /\ TotalBytes(Finals') = TotalBytes(Finals)
  BY <1>5, SameFiles
<1>7. Numbers'
  BY <1>1, <1>3 DEF Numbers
<1>8. Queue'
  BY <1>1, <1>3, <1>4 DEF Queue, Appending
<1>9. Frames'
  BY <1>1, <1>3, <1>4, <1>5 DEF Frames
<1>10. Synced'
  BY <1>3, SameSynced, SyncedKept
<1>11. Account'
  BY <1>1, <1>3, <1>6 DEF Account
<1>12. Located'
  BY <1>2, <1>3, LocatedKept
<1>. QED BY <1>2, <1>6, <1>7, <1>8, <1>9, <1>10, <1>11, <1>12 DEF RecordInv

LEMMA RecordFlushBuffer ==
  ASSUME RecordInv, FlushBuffer
  PROVE  RecordInv'
<1>. DEFINE old == segs[handle].lines
            new == Extended(old, batch)
            k == KeptLen(old)
<1>1. /\ SpoolInv /\ Numbers /\ Queue /\ FilesGood(Finals) /\ Frames /\ Account
      /\ Files
  BY RecordParts
<1>2. SpoolInv' /\ SegsKept /\ Files'
  BY <1>1, FlushBufferStep DEF SpoolInv
<1>3. /\ pc = "flush" /\ pc' = "sync" /\ buffer' = <<>> /\ batch' = batch
      /\ handle' = handle /\ number' = number /\ used' = used
      /\ failed' = failed /\ receipts' = receipts /\ sent' = sent
      /\ starts' = starts
      /\ segs' = [segs EXCEPT ![handle].lines = Extended(old, buffer)]
  BY DEF FlushBuffer
<1>4. /\ buffer = batch /\ NextFrames(batch, sent - Len(batch))
      /\ batch \in Seq(Line) /\ Len(batch) >= 1 /\ ~failed
  BY <1>1, <1>3 DEF Queue, Appending, NextFrames
<1>5. handle \in DOMAIN segs /\ handle # -1 /\ old \in Seq(Line)
  <2>1. handle \in DOMAIN segs
    BY <1>1, <1>3 DEF SpoolInv, BatchInv
  <2>2. DOMAIN segs \subseteq Nat /\ \A n \in DOMAIN segs : segs[n].lines \in Seq(Line)
    BY <1>1, FileFacts
  <2>. QED BY <2>1, <2>2
<1>6. Coming = batch /\ Coming' = <<>> /\ Base' = Base
  BY <1>3, <1>4 DEF Coming, Base
<1>7. Ready(old, batch)
  BY <1>1, <1>5, <1>6 DEF Queue
<1>8. IsJoin(new, old, k, batch) /\ k \in Nat
  BY <1>4, <1>5, <1>7, ReadyJoin, KeptLenType
<1>9. /\ new \in Seq(Line) /\ Len(new) = k + Len(batch)
      /\ \A i \in 1..Len(batch) : new[k + i] = batch[i]
      /\ Len(batch) \in Nat
  <2>. HIDE DEF new, k
  <2>. QED BY <1>4, <1>8 DEF IsJoin
<1>10. \A i \in 1..Len(old) : old[i].whole => new[i] = old[i]
  BY <1>4, <1>5, <1>7, WholeLinesStay
<1>11. Finals[handle] = new
  BY <1>5, <1>6 DEF Finals
<1>12. segs' = [segs EXCEPT ![handle].lines = new]
  BY <1>3, <1>4
<1>. HIDE DEF new, k, old
<1>13. /\ DOMAIN segs' = DOMAIN segs /\ segs'[handle].lines = new
       /\ segs'[handle].synced = segs[handle].synced
       /\ \A n \in DOMAIN segs : n # handle => segs'[n] = segs[n]
       /\ SyncedStays
  BY <1>1, <1>5, <1>9, <1>10, <1>12, WrittenSegment DEF old
<1>14. Finals' = Finals
  <2>1. Extended(new, <<>>) = new
    BY <1>9, ExtendedByNone
  <2>2. \A n \in DOMAIN segs :
          (IF n = handle THEN Extended(segs'[n].lines, <<>>) ELSE segs'[n].lines)
            = Finals[n]
    <3>1. \A n \in DOMAIN segs : n # handle => Finals[n] = segs[n].lines
      BY DEF Finals
    <3>. QED BY <1>11, <1>13, <2>1, <3>1
  <2>3. Finals' = [n \in DOMAIN segs |->
          IF n = handle THEN Extended(segs'[n].lines, <<>>) ELSE segs'[n].lines]
    BY <1>3, <1>6, <1>13 DEF Finals
  <2>4. Finals = [n \in DOMAIN segs |-> Finals[n]]
    BY DEF Finals
  <2>. QED BY <2>2, <2>3, <2>4
<1>15. FilesGood(Finals)' /\ TotalBytes(Finals') = TotalBytes(Finals)
  BY <1>14, SameFiles
<1>16. Numbers'
  BY <1>1, <1>3, <1>13 DEF Numbers
<1>17. Queue'
  <2>1. new # <<>> /\ Last(new).whole
    <3>1. Len(new) = k + Len(batch) /\ Len(batch) \in 1..Len(batch)
      BY <1>4, <1>8, <1>9
    <3>2. new[Len(new)] = batch[Len(batch)] /\ batch[Len(batch)].whole
      BY <1>4, <1>9, <3>1 DEF NextFrames
    <3>3. Len(new) # 0
      BY <1>4, <1>8, <1>9, <3>1
    <3>. QED BY <3>2, <3>3 DEF Last
  <2>2. Ready(new, <<>>)
    BY <2>1 DEF Ready, EndsTorn
  <2>3. Len(batch) <= sent
    BY <1>1, <1>3 DEF Queue, Appending
  <2>4. handle' # -1 => Ready(segs'[handle'].lines, Coming')
    BY <1>3, <1>6, <1>13, <2>2
  <2>5. NextFrames(batch', sent' - Len(batch'))
    BY <1>3, <1>4
  <2>6. ~EndsTorn(segs'[handle].lines)
    BY <1>13, <2>1 DEF EndsTorn
  <2>. QED BY <1>3, <1>4, <2>3, <2>4, <2>5, <2>6 DEF Queue, Appending
<1>18. Frames'
  <2>1. TailIs(new, batch)
    <3>1. Len(batch) <= Len(new) /\ Len(new) - Len(batch) = k
      BY <1>8, <1>9
    <3>. QED BY <1>9, <3>1 DEF TailIs
  <2>. QED BY <1>1, <1>3, <1>6, <1>13, <1>14, <2>1 DEF Frames
<1>19. Synced'
  BY <1>3, <1>13, SyncedKept
<1>20. Account'
  BY <1>1, <1>3, <1>15 DEF Account
<1>21. Located'
  BY <1>2, <1>3, LocatedKept
<1>. QED BY <1>2, <1>15, <1>16, <1>17, <1>18, <1>19, <1>20, <1>21 DEF RecordInv

\* The lines of a file that awaits nothing are whole.
LEMMA AllWhole ==
  ASSUME NEW lines, GoodLines(lines), Ready(lines, <<>>)
  PROVE  \A i \in 1..Len(lines) : lines[i].whole
<1>1. ~EndsTorn(lines) /\ lines \in Seq(Line)
  BY NotTorn DEF GoodLines
<1>2. ASSUME NEW i \in 1..Len(lines) PROVE lines[i].whole
  <2>1. lines # <<>>
    BY <1>1
  <2>2. Last(lines) = lines[Len(lines)]
    BY DEF Last
  <2>3. lines[i].whole \/ i = Len(lines)
    BY DEF GoodLines
  <2>. QED BY <1>1, <2>1, <2>2, <2>3 DEF EndsTorn
<1>. QED BY <1>2

LEMMA RecordSyncFile ==
  ASSUME RecordInv, SyncFile
  PROVE  RecordInv'
<1>. DEFINE old == segs[handle].lines
<1>1. /\ SpoolInv /\ Numbers /\ Queue /\ FilesGood(Finals) /\ Frames /\ Account
      /\ Synced
  BY RecordParts
<1>2. SpoolInv' /\ SegsKept /\ Files'
  BY <1>1, SyncFileStep DEF SpoolInv
<1>3. /\ pc = "sync" /\ pc' = "link" /\ buffer' = buffer /\ batch' = batch
      /\ handle' = handle /\ number' = number /\ used' = used
      /\ failed' = failed /\ receipts' = receipts /\ sent' = sent
      /\ starts' = starts
      /\ segs' = [segs EXCEPT ![handle].synced = Len(old)]
  BY DEF SyncFile
<1>4. /\ DOMAIN segs \subseteq Nat
      /\ \A n \in DOMAIN segs : segs[n] \in File /\ segs[n].lines \in Seq(Line)
      /\ handle \in DOMAIN segs /\ handle # -1
  <2>1. handle \in DOMAIN segs
    BY <1>1, <1>3 DEF SpoolInv, BatchInv
  <2>2. DOMAIN segs \subseteq Nat
        /\ \A n \in DOMAIN segs : segs[n] \in File /\ segs[n].lines \in Seq(Line)
    BY <1>1, FileFacts
  <2>. QED BY <2>1, <2>2
<1>5. buffer = <<>> /\ ~failed
  BY <1>1, <1>3 DEF Queue, Appending
<1>6. Coming = <<>> /\ Coming' = <<>> /\ Base' = Base
  BY <1>3, <1>5 DEF Coming, Base
<1>7. Finals[handle] = old /\ Ready(old, <<>>)
  <2>1. Finals = LinesOf
    BY <1>1, <1>4, <1>6, NothingComing
  <2>. QED BY <1>1, <1>4, <1>6, <2>1 DEF LinesOf, Queue
<1>8. \A i \in 1..Len(old) : old[i].whole
  <2>1. GoodLines(old)
    BY <1>1, <1>4, <1>7 DEF FilesGood, Finals
  <2>. HIDE DEF old
  <2>. QED BY <1>7, <2>1, AllWhole
<1>9. /\ DOMAIN segs' = DOMAIN segs
      /\ segs'[handle].lines = old /\ segs'[handle].synced = Len(old)
      /\ \A n \in DOMAIN segs : n # handle => segs'[n] = segs[n]
      /\ \A n \in DOMAIN segs : segs'[n].lines = segs[n].lines
  <2>1. segs'[handle] = [segs[handle] EXCEPT !.synced = Len(old)]
    BY <1>3, <1>4
  <2>2. segs'[handle].lines = old /\ segs'[handle].synced = Len(old)
    BY <1>4, <2>1 DEF File
  <2>. QED BY <1>3, <2>2
<1>. HIDE DEF old
<1>10. Finals' = Finals
  BY <1>3, <1>6, <1>9 DEF Finals
<1>11. FilesGood(Finals)' /\ TotalBytes(Finals') = TotalBytes(Finals)
  BY <1>10, SameFiles
<1>12. Numbers'
  BY <1>1, <1>3, <1>9 DEF Numbers
<1>13. Queue'
  <2>1. Ready(segs'[handle].lines, <<>>)
    BY <1>7, <1>9
  <2>. QED BY <1>1, <1>3, <1>5, <1>6, <2>1 DEF Queue, Appending
<1>14. Frames'
  BY <1>1, <1>3, <1>6, <1>9, <1>10 DEF Frames, old
<1>15. Synced'
  <2>1. ASSUME NEW n \in DOMAIN segs'
        PROVE  \A i \in 1..segs'[n].synced : segs'[n].lines[i].whole
    <3>1. CASE n = handle
      BY <1>8, <1>9, <3>1
    <3>2. CASE n # handle
      BY <1>1, <1>9, <2>1, <3>2 DEF Synced
    <3>. QED BY <3>1, <3>2
  <2>2. segs'[handle'].synced = Len(segs'[handle'].lines)
    BY <1>3, <1>9
  <2>. QED BY <2>1, <2>2 DEF Synced
<1>16. Account'
  BY <1>1, <1>3, <1>11 DEF Account
<1>17. Located'
  BY <1>2, <1>3, LocatedKept
<1>. QED BY <1>2, <1>11, <1>12, <1>13, <1>14, <1>15, <1>16, <1>17 DEF RecordInv

LEMMA RecordAcknowledge ==
  ASSUME RecordInv, Acknowledge
  PROVE  RecordInv'
<1>. DEFINE old == segs[handle].lines
            first == Len(old) - Len(batch)
<1>1. /\ SpoolInv /\ Numbers /\ Queue /\ FilesGood(Finals) /\ Frames /\ Account
      /\ Synced /\ used \in Nat
  BY RecordParts
<1>2. SpoolInv' /\ SegsKept /\ Files'
  BY <1>1, AcknowledgeStep DEF SpoolInv
<1>3. /\ pc = "link" /\ pc' = "idle" /\ buffer' = buffer /\ batch' = <<>>
      /\ handle' = handle /\ number' = number /\ used' = used + Bytes(batch)
      /\ failed' = failed /\ sent' = sent /\ starts' = starts
      /\ segs' = [n \in DOMAIN segs |-> [segs[n] EXCEPT !.linked = TRUE]]
      /\ receipts' = receipts \cup ReceiptsOf(batch)
  BY DEF Acknowledge
<1>4. /\ DOMAIN segs \subseteq Nat
      /\ \A n \in DOMAIN segs : segs[n] \in File /\ segs[n].lines \in Seq(Line)
      /\ handle \in DOMAIN segs /\ handle # -1
  <2>1. handle \in DOMAIN segs
    BY <1>1, <1>3 DEF SpoolInv, BatchInv
  <2>2. DOMAIN segs \subseteq Nat
        /\ \A n \in DOMAIN segs : segs[n] \in File /\ segs[n].lines \in Seq(Line)
    BY <1>1, FileFacts
  <2>. QED BY <2>1, <2>2
<1>5. /\ buffer = <<>> /\ ~failed /\ batch \in Seq(Line) /\ Len(batch) \in Nat
      /\ Bytes(batch) \in Nat
  <2>1. buffer = <<>> /\ ~failed /\ NextFrames(batch, sent - Len(batch))
    BY <1>1, <1>3 DEF Queue, Appending
  <2>2. batch \in Seq(Line)
    BY <2>1 DEF NextFrames
  <2>. QED BY <2>1, <2>2, BytesType
<1>6. Coming = <<>> /\ Coming' = <<>> /\ Base' = Base
  BY <1>3, <1>5 DEF Coming, Base
<1>7. /\ DOMAIN segs' = DOMAIN segs
      /\ \A n \in DOMAIN segs : /\ segs'[n].lines = segs[n].lines
                                /\ segs'[n].synced = segs[n].synced
  BY <1>3, <1>4 DEF File
<1>8. Finals' = Finals
  BY <1>3, <1>6, <1>7 DEF Finals
<1>9. FilesGood(Finals)' /\ TotalBytes(Finals') = TotalBytes(Finals)
  BY <1>8, SameFiles
<1>10. Numbers'
  <2>1. used' \in Nat
    BY <1>1, <1>3, <1>5
  <2>. QED BY <1>1, <1>3, <1>7, <2>1 DEF Numbers
<1>11. Queue'
  <2>1. Ready(segs'[handle].lines, <<>>)
    BY <1>1, <1>4, <1>6, <1>7 DEF Queue
  <2>2. ~EndsTorn(segs'[handle].lines)
    BY <1>1, <1>4, <1>5, <1>7 DEF Queue
  <2>. QED BY <1>1, <1>3, <1>5, <1>6, <2>1, <2>2 DEF Queue, Appending
<1>12. Frames'
  BY <1>1, <1>3, <1>6, <1>8 DEF Frames
<1>13. SyncedStays
  BY <1>7 DEF SyncedStays
<1>14. Synced'
  BY <1>3, <1>13, SyncedKept
<1>15. Account'
  <2>1. TotalBytes(Finals) <= used + Bytes(batch) /\ used + Bytes(batch) <= MaxBytes
    BY <1>1, <1>3, <1>5 DEF Account
  <2>2. used' + Bytes(<<>>) = used + Bytes(batch)
    BY <1>1, <1>3, <1>5, BytesEmpty
  <2>3. used' + 0 = used + Bytes(batch)
    BY <1>1, <1>3, <1>5
  <2>4. TotalBytes(Finals') <= used' + 0 /\ used' + Bytes(<<>>) <= MaxBytes
    BY <1>9, <2>1, <2>2, <2>3
  <2>. QED BY <1>3, <2>4 DEF Account
<1>16. \A r \in receipts : Place(r)'
  BY <1>2, PlacesKept
<1>17. ASSUME NEW r \in ReceiptsOf(batch) PROVE Place(r)'
  <2>1. PICK i \in DOMAIN batch :
          r = [segment |-> handle, frame |-> batch[i].frame,
               offset |-> Offset(old, first + i),
               next |-> Offset(old, first + i + 1)]
    BY DEF ReceiptsOf
  <2>2. TailIs(old, batch) /\ segs[handle].synced = Len(old)
    BY <1>1, <1>3 DEF Frames, Synced
  <2>3. old \in Seq(Line) /\ Len(old) \in Nat /\ i \in 1..Len(batch)
    BY <1>4, <1>5
  <2>4. first + i \in 1..Len(old) /\ old[first + i] = batch[i]
    <3>1. Len(batch) <= Len(old) /\ old[Len(old) - Len(batch) + i] = batch[i]
      BY <2>2, <2>3 DEF TailIs
    <3>2. first \in Nat /\ first + i = Len(old) - Len(batch) + i
      BY <1>5, <2>3, <3>1
    <3>3. first + i \in 1..Len(old)
      BY <1>5, <2>3, <3>1
    <3>. QED BY <3>1, <3>2, <3>3
  <2>5. /\ r.segment = handle /\ r.frame = old[first + i].frame
        /\ r.offset = Offset(old, first + i)
        /\ r.next = Offset(old, (first + i) + 1)
    BY <2>1, <2>4
  <2>6. segs'[handle].lines = old /\ segs'[handle].synced = Len(old)
    BY <1>4, <1>7, <2>2
  <2>. HIDE DEF old, first
  <2>7. /\ first + i \in 1..segs'[r.segment].synced
        /\ segs'[r.segment].lines[first + i].frame = r.frame
        /\ Offset(segs'[r.segment].lines, first + i) = r.offset
        /\ Offset(segs'[r.segment].lines, (first + i) + 1) = r.next
    BY <2>4, <2>5, <2>6
  <2>8. \E k \in 1..segs'[r.segment].synced :
          /\ segs'[r.segment].lines[k].frame = r.frame
          /\ Offset(segs'[r.segment].lines, k) = r.offset
          /\ Offset(segs'[r.segment].lines, k + 1) = r.next
    BY <2>7
  <2>. QED BY <2>8 DEF Place
<1>18. Located'
  <2>1. \A r \in receipts' : Place(r)'
    BY <1>3, <1>16, <1>17
  <2>. QED BY <2>1 DEF Located, Place
<1>. QED BY <1>2, <1>9, <1>10, <1>11, <1>12, <1>14, <1>15, <1>18 DEF RecordInv

\* The steps after which nothing more is promised to reach the disk.
LEMMA RecordCut ==
  ASSUME RecordInv, SpoolInv', SegsKept, Numbers', Queue', SyncedStays,
         CutFiles(Finals', Finals), sent' = sent, receipts' = receipts,
         (pc' = "down" /\ handle' = -1) \/ (pc' = "idle" /\ failed')
  PROVE  RecordInv'
<1>1. FilesGood(Finals)' /\ Frames' /\ Account'
  BY AfterCut
<1>2. Files'
  BY DEF SpoolInv
<1>3. Synced' /\ Located'
  BY <1>2, SyncedKept, LocatedKept
<1>. QED BY <1>1, <1>3 DEF RecordInv

\* No writer, or one that awaits nothing: the files are what their lines are.
LEMMA LinesCut ==
  ASSUME Files', DOMAIN segs' \subseteq DOMAIN segs, DOMAIN segs \subseteq Nat,
         handle' = -1 \/ Coming' = <<>>,
         \A n \in DOMAIN segs' : Cut(segs'[n].lines, Finals[n])
  PROVE  CutFiles(Finals', Finals)
<1>1. \A n \in DOMAIN segs' : Finals'[n] = segs'[n].lines
  <2>. SUFFICES ASSUME NEW n \in DOMAIN segs'
       PROVE  (IF n = handle' THEN Extended(segs'[n].lines, Coming')
               ELSE segs'[n].lines) = segs'[n].lines
    BY DEF Finals
  <2>1. segs'[n].lines \in Seq(Line)
    BY DEF Files, GoodFile, File
  <2>2. CASE n # handle'
    BY <2>2
  <2>3. CASE n = handle'
    <3>1. Coming' = <<>>
      BY <2>3
    <3>. QED BY <2>1, <2>3, <3>1, ExtendedByNone
  <2>. QED BY <2>2, <2>3
<1>2. DOMAIN Finals' = DOMAIN segs' /\ DOMAIN Finals = DOMAIN segs
  BY DEF Finals
<1>. QED BY <1>1, <1>2 DEF CutFiles

LEMMA SameCut ==
  ASSUME FilesGood(Finals), Finals' = Finals
  PROVE  CutFiles(Finals', Finals)
BY CutItself DEF FilesGood, GoodLines, CutFiles

\* The writer is gone.
LEMMA GoneFacts ==
  ASSUME RecordInv, WriterGone, DOMAIN segs' \subseteq DOMAIN segs,
         UNCHANGED <<number, used, failed, receipts, sent, starts>>
  PROVE  Numbers' /\ Queue'
<1>1. Numbers
  BY RecordParts
<1>2. pc' = "down" /\ handle' = -1 /\ buffer' = <<>> /\ batch' = <<>>
  BY DEF WriterGone
<1>3. Numbers'
  BY <1>1, <1>2 DEF Numbers
<1>4. Queue'
  BY <1>2 DEF Queue, Appending
<1>. QED BY <1>3, <1>4

LEMMA RecordCloseWriter ==
  ASSUME RecordInv, CloseWriter
  PROVE  RecordInv'
<1>. DEFINE old == segs[handle].lines
            new == Extended(old, buffer)
<1>1. /\ SpoolInv /\ Queue /\ FilesGood(Finals) /\ Files
  BY RecordParts
<1>2. SpoolInv' /\ SegsKept /\ Files'
  BY <1>1, CloseWriterStep DEF SpoolInv
<1>3. /\ pc = "idle" /\ WriterGone
      /\ UNCHANGED <<number, used, failed, receipts, sent, starts>>
      /\ segs' = IF handle = -1 THEN segs
                 ELSE [segs EXCEPT ![handle].lines = new]
  BY DEF CloseWriter
<1>4. /\ DOMAIN segs \subseteq Nat
      /\ handle # -1 => handle \in DOMAIN segs
      /\ \A n \in DOMAIN segs : segs[n].lines \in Seq(Line)
      /\ DOMAIN Finals = DOMAIN segs
      /\ \A n \in DOMAIN segs : Finals[n] \in Seq(Line)
      /\ CutFiles(LinesOf, Finals)
  BY <1>1, FileFacts
<1>5. Coming = buffer /\ buffer \in Seq(Line)
  BY <1>1, <1>3 DEF Coming, SpoolInv, BatchInv
<1>6. /\ DOMAIN segs' = DOMAIN segs /\ SyncedStays
      /\ \A n \in DOMAIN segs' : Cut(segs'[n].lines, Finals[n])
  <2>1. CASE handle = -1
    <3>1. segs' = segs
      BY <1>3, <2>1
    <3>2. \A n \in DOMAIN segs : Cut(segs[n].lines, Finals[n])
      BY <1>4 DEF CutFiles, LinesOf
    <3>. QED BY <3>1, <3>2, SameSynced
  <2>2. CASE handle # -1
    <3>1. old \in Seq(Line) /\ handle \in DOMAIN segs
      BY <1>4, <2>2
    <3>2. Ready(old, buffer)
      BY <1>1, <1>5, <2>2 DEF Queue
    <3>3. new = Finals[handle]
      BY <1>5, <3>1 DEF Finals
    <3>4. \A i \in 1..Len(old) : old[i].whole => new[i] = old[i]
      BY <1>5, <3>1, <3>2, WholeLinesStay
    <3>5. segs' = [segs EXCEPT ![handle].lines = new]
      BY <1>3, <2>2
    <3>6. new \in Seq(Line)
      BY <1>4, <3>1, <3>3
    <3>. HIDE DEF new
    <3>7. /\ DOMAIN segs' = DOMAIN segs /\ segs'[handle].lines = new
          /\ \A n \in DOMAIN segs : n # handle => segs'[n] = segs[n]
          /\ SyncedStays
      BY <1>1, <3>1, <3>4, <3>5, <3>6, WrittenSegment
    <3>8. \A n \in DOMAIN segs : Cut(segs[n].lines, Finals[n])
      BY <1>4 DEF CutFiles, LinesOf
    <3>9. Cut(new, Finals[handle])
      BY <1>4, <3>1, <3>3, CutItself
    <3>. QED BY <3>7, <3>8, <3>9
  <2>. QED BY <2>1, <2>2
<1>7. handle' = -1 /\ pc' = "down"
  BY <1>3 DEF WriterGone
<1>8. CutFiles(Finals', Finals)
  BY <1>2, <1>4, <1>6, <1>7, LinesCut
<1>9. Numbers' /\ Queue'
  BY <1>3, <1>6, GoneFacts
<1>. QED BY <1>2, <1>3, <1>6, <1>7, <1>8, <1>9, RecordCut

LEMMA RecordProcessCrash ==
  ASSUME RecordInv, ProcessCrash
  PROVE  RecordInv'
<1>. DEFINE old == segs[handle].lines
<1>1. /\ SpoolInv /\ Queue /\ FilesGood(Finals) /\ Files
  BY RecordParts
<1>2. SpoolInv' /\ SegsKept /\ Files'
  BY <1>1, ProcessCrashStep DEF SpoolInv
<1>3. /\ pc # "down" /\ WriterGone
      /\ UNCHANGED <<number, used, failed, receipts, sent, starts>>
      /\ \/ handle = -1 /\ segs' = segs
         \/ /\ handle # -1
            /\ \E lines \in Partial(old, buffer) :
                 segs' = [segs EXCEPT ![handle].lines = lines]
  BY DEF ProcessCrash
<1>4. /\ DOMAIN segs \subseteq Nat
      /\ handle # -1 => handle \in DOMAIN segs
      /\ \A n \in DOMAIN segs : segs[n].lines \in Seq(Line)
      /\ CutFiles(LinesOf, Finals)
  BY <1>1, FileFacts
<1>5. \A n \in DOMAIN segs : Cut(segs[n].lines, Finals[n])
  BY <1>4 DEF CutFiles, LinesOf
<1>6. buffer \in Seq(Line)
  BY <1>1 DEF SpoolInv, BatchInv
<1>7. /\ DOMAIN segs' = DOMAIN segs /\ SyncedStays
      /\ \A n \in DOMAIN segs' : Cut(segs'[n].lines, Finals[n])
  <2>1. CASE segs' = segs
    BY <1>5, <2>1, SameSynced
  <2>2. CASE handle # -1 /\ \E lines \in Partial(old, buffer) :
                              segs' = [segs EXCEPT ![handle].lines = lines]
    <3>1. PICK lines \in Partial(old, buffer) :
            segs' = [segs EXCEPT ![handle].lines = lines]
      BY <2>2
    <3>2. old \in Seq(Line) /\ handle \in DOMAIN segs
      BY <1>4, <2>2
    <3>3. /\ lines \in Seq(Line)
          /\ \A i \in 1..Len(old) : old[i].whole => lines[i] = old[i]
      BY <1>6, <3>2, PartialFacts
    <3>4. Cut(lines, Finals[handle])
      <4>1. CASE pc = "write"
        <5>1. buffer = <<>>
          BY <1>1, <4>1 DEF Queue
        <5>2. lines = old
          <6>1. /\ 0..Len(<<>>) = {0} /\ 0..(Len(<<>>) - 1) = {}
                /\ SubSeq(<<>>, 1, 0) = <<>>
            OBVIOUS
          <6>2. Partial(old, <<>>) = {Extended(old, <<>>)}
            BY <6>1 DEF Partial
          <6>. QED BY <3>2, <5>1, <6>2, ExtendedByNone
        <5>. QED BY <1>5, <3>2, <5>2
      <4>2. CASE pc # "write"
        <5>1. Coming = buffer
          BY <4>2 DEF Coming
        <5>2. Ready(old, buffer) /\ Finals[handle] = Extended(old, buffer)
          BY <1>1, <2>2, <3>2, <5>1 DEF Queue, Finals
        <5>. QED BY <1>6, <3>2, <5>2, PartialIsCut
      <4>. QED BY <4>1, <4>2
    <3>. HIDE DEF Partial
    <3>5. /\ DOMAIN segs' = DOMAIN segs /\ segs'[handle].lines = lines
          /\ \A n \in DOMAIN segs : n # handle => segs'[n] = segs[n]
          /\ SyncedStays
      BY <1>1, <3>1, <3>2, <3>3, WrittenSegment
    <3>. QED BY <1>5, <3>4, <3>5
  <2>. QED BY <1>3, <2>1, <2>2
<1>8. handle' = -1 /\ pc' = "down"
  BY <1>3 DEF WriterGone
<1>9. CutFiles(Finals', Finals)
  BY <1>2, <1>4, <1>7, <1>8, LinesCut
<1>10. Numbers' /\ Queue'
  BY <1>3, <1>7, GoneFacts
<1>. QED BY <1>2, <1>3, <1>7, <1>8, <1>9, <1>10, RecordCut

\* What a power loss leaves of a file is cut from it.
LEMMA SurvivorIsCut ==
  ASSUME NEW file \in File, file.synced <= Len(file.lines),
         \A i \in 1..file.synced : file.lines[i].whole,
         NEW new \in Survivors(file)
  PROVE  Cut(new.lines, file.lines) /\ new.synced = file.synced
<1>. DEFINE lines == file.lines
            k == file.synced
            kept == SubSeq(lines, 1, k)
            rest == SubSeq(lines, k + 1, Len(lines))
<1>1. lines \in Seq(Line) /\ k \in 0..Len(lines) /\ k \in Nat /\ Len(lines) \in Nat
  BY DEF File
<1>2. kept \in Seq(Line) /\ Len(kept) = k /\ \A i \in 1..k : kept[i] = lines[i]
  BY <1>1, UpTo
<1>3. /\ rest \in Seq(Line) /\ Len(rest) = Len(lines) - k
      /\ \A i \in 1..(Len(lines) - k) : rest[i] = lines[k + i]
  <2>. HIDE DEF lines, k
  <2>1. \A i \in (k + 1)..Len(lines) : lines[i] \in Line
    BY <1>1, ElementOfSeq
  <2>2. k + 1 \in Int /\ Len(lines) \in Int
    BY <1>1
  <2>3. /\ rest \in Seq(Line)
        /\ Len(rest) = IF k + 1 <= Len(lines) THEN Len(lines) - (k + 1) + 1 ELSE 0
        /\ \A i \in 1..(Len(lines) - (k + 1) + 1) : rest[i] = lines[(k + 1) + i - 1]
    BY <2>1, <2>2, SubSeqProperties
  <2>4. \A i \in 1..(Len(lines) - k) : /\ i \in 1..(Len(lines) - (k + 1) + 1)
                                       /\ (k + 1) + i - 1 = k + i
    BY <1>1
  <2>5. Len(rest) = Len(lines) - k
    BY <1>1, <2>3
  <2>. QED BY <2>3, <2>4, <2>5
<1>4. PICK part \in Partial(kept, rest) : new = [file EXCEPT !.lines = part]
  BY DEF Survivors
<1>5. new.lines = part /\ new.synced = k
  BY <1>4 DEF File
<1>6. ~EndsTorn(kept)
  <2>1. kept # <<>> => k \in 1..k
    BY <1>1, <1>2
  <2>2. kept # <<>> => Last(kept) = lines[k] /\ lines[k].whole
    BY <1>2, <2>1 DEF Last
  <2>. QED BY <2>2 DEF EndsTorn
<1>. HIDE DEF kept, rest, lines, k
<1>7. Extended(kept, rest) = lines
  <2>1. Extended(kept, rest) = kept \o rest
    BY <1>6 DEF Extended
  <2>2. /\ kept \o rest \in Seq(Line) /\ Len(kept \o rest) = Len(lines)
        /\ \A i \in 1..k : (kept \o rest)[i] = kept[i]
        /\ \A i \in 1..Len(rest) : (kept \o rest)[k + i] = rest[i]
    <3>1. Len(kept) + Len(rest) = Len(lines)
      BY <1>1, <1>2, <1>3
    <3>. QED BY <1>2, <1>3, <3>1, ConcatLines
  <2>3. ASSUME NEW i \in 1..Len(lines)
        PROVE  (kept \o rest)[i] = lines[i]
    <3>1. CASE i <= k
      <4>1. i \in 1..k
        BY <1>1, <3>1
      <4>. QED BY <1>2, <2>2, <4>1
    <3>2. CASE i > k
      <4>1. i - k \in 1..Len(rest) /\ k + (i - k) = i
        BY <1>1, <1>3, <3>2
      <4>2. (kept \o rest)[k + (i - k)] = rest[i - k]
        BY <2>2, <4>1
      <4>3. rest[i - k] = lines[k + (i - k)]
        BY <1>3, <4>1
      <4>. QED BY <4>1, <4>2, <4>3
    <3>3. i <= k \/ i > k
      BY <1>1
    <3>. QED BY <3>1, <3>2, <3>3
  <2>. QED BY <1>1, <2>1, <2>2, <2>3, SeqEqual
<1>8. Ready(kept, rest)
  BY <1>6 DEF Ready
<1>9. Cut(part, lines)
  BY <1>2, <1>3, <1>7, <1>8, PartialIsCut
<1>. QED BY <1>5, <1>9 DEF lines, k

LEMMA RecordPowerLoss ==
  ASSUME RecordInv, PowerLoss
  PROVE  RecordInv'
<1>1. /\ SpoolInv /\ Queue /\ FilesGood(Finals) /\ Files /\ Synced
  BY RecordParts
<1>2. SpoolInv' /\ SegsKept /\ Files'
  BY <1>1, PowerLossStep DEF SpoolInv
<1>3. /\ WriterGone
      /\ UNCHANGED <<number, used, failed, receipts, sent, starts>>
  BY DEF PowerLoss
<1>4. PICK kept \in SUBSET DOMAIN segs :
        \E after \in [kept -> UNION {Survivors(segs[n]) : n \in kept}] :
             /\ \A n \in kept : after[n] \in Survivors(segs[n])
             /\ segs' = after
  BY DEF PowerLoss
<1>5. /\ DOMAIN segs' = kept /\ kept \subseteq DOMAIN segs
      /\ \A n \in kept : segs'[n] \in Survivors(segs[n])
  BY <1>4
<1>6. /\ DOMAIN segs \subseteq Nat
      /\ \A n \in DOMAIN segs : segs[n] \in File /\ segs[n].lines \in Seq(Line)
      /\ \A n \in DOMAIN segs : Finals[n] \in Seq(Line)
      /\ CutFiles(LinesOf, Finals)
  BY <1>1, FileFacts
<1>7. \A n \in DOMAIN segs : Cut(segs[n].lines, Finals[n])
  BY <1>6 DEF CutFiles, LinesOf
<1>8. ASSUME NEW n \in kept
      PROVE  /\ Cut(segs'[n].lines, Finals[n])
             /\ segs'[n].synced = segs[n].synced
  <2>1. /\ segs[n] \in File /\ segs[n].synced <= Len(segs[n].lines)
        /\ \A i \in 1..segs[n].synced : segs[n].lines[i].whole
    BY <1>1, <1>5 DEF Files, GoodFile, Synced
  <2>2. Cut(segs'[n].lines, segs[n].lines) /\ segs'[n].synced = segs[n].synced
    BY <1>5, <2>1, SurvivorIsCut
  <2>. QED BY <1>5, <1>6, <1>7, <2>2, CutAgain
<1>9. SyncedStays
  <2>1. ASSUME NEW n \in kept
        PROVE  Keeps(segs[n], segs'[n])
    BY <1>1, <1>5, SurvivorFile DEF Files
  <2>. QED BY <1>5, <1>8, <2>1 DEF SyncedStays, Keeps
<1>10. handle' = -1 /\ pc' = "down"
  BY <1>3 DEF WriterGone
<1>11. CutFiles(Finals', Finals)
  BY <1>2, <1>5, <1>6, <1>8, <1>10, LinesCut
<1>12. Numbers' /\ Queue'
  BY <1>3, <1>5, GoneFacts
<1>. QED BY <1>2, <1>3, <1>9, <1>10, <1>11, <1>12, RecordCut

-----------------------------------------------------------------------------
(* A failed append.                                                         *)

\* The writer of a failed append keeps its handle, and no batch.
LEMMA FailedFacts ==
  ASSUME RecordInv, Appending, failed' = TRUE, pc' = "idle", batch' = <<>>,
         UNCHANGED <<handle, number, used, receipts, sent, starts>>,
         DOMAIN segs' = DOMAIN segs,
         handle # -1 => Ready(segs'[handle].lines, buffer')
  PROVE  Numbers' /\ Queue' /\ Coming' = buffer'
<1>1. Numbers
  BY RecordParts
<1>2. Numbers'
  BY <1>1 DEF Numbers, Appending
<1>3. Coming' = buffer'
  BY DEF Coming
<1>4. Queue'
  BY <1>3 DEF Queue, Appending
<1>. QED BY <1>2, <1>3, <1>4

\* Nothing of the batch reached the buffer, or nothing of the buffer the file.
LEMMA FailsUnchanged ==
  ASSUME RecordInv, AppendFails, segs' = segs, buffer' = buffer
  PROVE  RecordInv'
<1>1. /\ SpoolInv /\ Queue /\ FilesGood(Finals)
  BY RecordParts
<1>2. SpoolInv' /\ SegsKept /\ Files'
  BY <1>1, AppendFailsStep DEF SpoolInv
<1>3. /\ Appending /\ failed' = TRUE /\ pc' = "idle" /\ batch' = <<>>
      /\ UNCHANGED <<handle, number, used, receipts, sent, starts>>
  BY DEF AppendFails, Appending
<1>4. ~failed
  BY <1>1, <1>3 DEF Queue
<1>5. /\ DOMAIN segs \subseteq Nat
      /\ handle # -1 => handle \in DOMAIN segs
      /\ CutFiles(LinesOf, Finals)
  BY <1>1, FileFacts
<1>6. handle # -1 => Ready(segs[handle].lines, buffer)
  BY <1>1, <1>4 DEF Queue, Ready
<1>7. Numbers' /\ Queue' /\ Coming' = buffer
  BY <1>3, <1>6, FailedFacts
<1>8. CutFiles(Finals', Finals)
  <2>1. CASE pc = "write"
    <3>1. buffer = <<>>
      BY <1>1, <2>1 DEF Queue
    <3>2. \A n \in DOMAIN segs : Cut(segs[n].lines, Finals[n])
      BY <1>5 DEF CutFiles, LinesOf
    <3>. QED BY <1>2, <1>5, <1>7, <3>1, <3>2, LinesCut
  <2>2. CASE pc # "write"
    <3>1. Coming = buffer
      BY <2>2 DEF Coming
    <3>2. Finals' = Finals
      BY <1>3, <1>7, <3>1 DEF Finals
    <3>. QED BY <1>1, <3>2, SameCut
  <2>. QED BY <2>1, <2>2
<1>. QED BY <1>2, <1>3, <1>7, <1>8, SameSynced, RecordCut

\* A part of the batch was buffered.
LEMMA FailsWriting ==
  ASSUME RecordInv, AppendFails, pc = "write", segs' = segs,
         NEW n \in 1..Len(batch), buffer' = SubSeq(batch, 1, n)
  PROVE  RecordInv'
<1>. DEFINE old == segs[handle].lines
            part == SubSeq(batch, 1, n)
<1>1. /\ SpoolInv /\ Queue /\ FilesGood(Finals)
  BY RecordParts
<1>2. SpoolInv' /\ SegsKept /\ Files'
  BY <1>1, AppendFailsStep DEF SpoolInv
<1>3. /\ Appending /\ failed' = TRUE /\ pc' = "idle" /\ batch' = <<>>
      /\ UNCHANGED <<handle, number, used, receipts, sent, starts>>
  BY DEF AppendFails, Appending
<1>4. ~failed /\ batch \in Seq(Line) /\ Coming = batch
  BY <1>1, <1>3 DEF Queue, NextFrames, Coming
<1>5. /\ DOMAIN segs \subseteq Nat
      /\ handle # -1 => handle \in DOMAIN segs
      /\ \A m \in DOMAIN segs : segs[m].lines \in Seq(Line)
      /\ DOMAIN Finals = DOMAIN segs
      /\ \A m \in DOMAIN segs : Finals[m] \in Seq(Line)
      /\ CutFiles(LinesOf, Finals)
  BY <1>1, FileFacts
<1>6. handle # -1 => Ready(segs[handle].lines, part)
  BY <1>1, <1>4 DEF Queue, Ready
<1>7. Numbers' /\ Queue' /\ Coming' = part
  BY <1>3, <1>6, FailedFacts
<1>8. \A m \in DOMAIN segs : Cut(Finals'[m], Finals[m])
  <2>. SUFFICES ASSUME NEW m \in DOMAIN segs PROVE Cut(Finals'[m], Finals[m])
    OBVIOUS
  <2>1. CASE m # handle
    <3>1. Finals'[m] = segs[m].lines /\ Finals[m] = segs[m].lines
      BY <1>3, <2>1 DEF Finals
    <3>. QED BY <1>5, <3>1, CutItself
  <2>2. CASE m = handle
    <3>1. Finals'[m] = Extended(old, part) /\ Finals[m] = Extended(old, batch)
      BY <1>3, <1>4, <1>7, <2>2 DEF Finals
    <3>2. handle # -1 /\ old \in Seq(Line)
      BY <1>5, <2>2
    <3>3. Ready(old, batch)
      BY <1>1, <1>4, <3>2 DEF Queue
    <3>4. Extended(old, part) \in Partial(old, batch)
      <4>1. n \in 0..Len(batch)
        OBVIOUS
      <4>. QED BY <4>1 DEF Partial
    <3>5. Cut(Extended(old, part), Extended(old, batch))
      BY <1>4, <3>2, <3>3, <3>4, PartialIsCut
    <3>. QED BY <3>1, <3>5
  <2>. QED BY <2>1, <2>2
<1>9. CutFiles(Finals', Finals)
  <2>1. DOMAIN Finals' = DOMAIN segs
    BY DEF Finals
  <2>. QED BY <1>5, <1>8, <2>1 DEF CutFiles
<1>. QED BY <1>2, <1>3, <1>7, <1>9, SameSynced, RecordCut

\* A part of the buffer was handed over, the rest will complete it.
LEMMA RestCompletes ==
  ASSUME NEW old \in Seq(Line), ~EndsTorn(old), NEW more \in Seq(Line),
         NEW n \in 1..Len(more)
  PROVE  LET new  == Extended(old, Append(SubSeq(more, 1, n - 1),
                                          Fragment(more[n])))
             rest == SubSeq(more, n, Len(more))
         IN  /\ new \in Seq(Line) /\ rest \in Seq(Line)
             /\ \A i \in 1..Len(old) : old[i].whole => new[i] = old[i]
             /\ Ready(new, rest)
             /\ Extended(new, rest) = Extended(old, more)
<1>. DEFINE part == Append(SubSeq(more, 1, n - 1), Fragment(more[n]))
            new == Extended(old, part)
            rest == SubSeq(more, n, Len(more))
            k == Len(old)
<1>1. /\ SubSeq(more, 1, n - 1) \in Seq(Line)
      /\ Len(SubSeq(more, 1, n - 1)) = n - 1
      /\ \A i \in 1..(n - 1) : SubSeq(more, 1, n - 1)[i] = more[i]
  <2>1. n - 1 \in 0..Len(more)
    OBVIOUS
  <2>. QED BY <2>1, UpTo
<1>2. more[n] \in Line /\ Fragment(more[n]) \in Line /\ ~Fragment(more[n]).whole
      /\ Fragment(more[n]).frame = more[n].frame
  BY ElementOfSeq, FragmentFacts
<1>3. /\ part \in Seq(Line) /\ Len(part) = n /\ part[n] = Fragment(more[n])
      /\ \A i \in 1..(n - 1) : part[i] = more[i]
  <2>. DEFINE a == SubSeq(more, 1, n - 1)
  <2>1. a \in Seq(Line) /\ Len(a) = n - 1 /\ \A i \in 1..(n - 1) : a[i] = more[i]
    BY <1>1
  <2>. HIDE DEF a
  <2>2. /\ Append(a, Fragment(more[n])) \in Seq(Line)
        /\ Len(Append(a, Fragment(more[n]))) = Len(a) + 1
        /\ \A i \in 1..Len(a) : Append(a, Fragment(more[n]))[i] = a[i]
        /\ Append(a, Fragment(more[n]))[Len(a) + 1] = Fragment(more[n])
    BY <1>2, <2>1, AppendProperties
  <2>. QED BY <2>1, <2>2 DEF a
<1>4. rest \in Seq(Line) /\ Len(rest) = Len(more) - n + 1
      /\ \A i \in 1..Len(rest) : rest[i] = more[n + i - 1]
  <2>1. \A i \in n..Len(more) : more[i] \in Line
    BY ElementOfSeq
  <2>2. n \in Int /\ Len(more) \in Int /\ n <= Len(more)
    OBVIOUS
  <2>. QED BY <2>1, <2>2, SubSeqProperties
<1>. HIDE DEF part, rest
<1>5. new = old \o part
  BY DEF Extended
<1>6. /\ new \in Seq(Line) /\ Len(new) = k + n /\ k \in Nat
      /\ \A i \in 1..k : new[i] = old[i]
      /\ \A i \in 1..n : new[k + i] = part[i]
  <2>. HIDE DEF new
  <2>1. k \in Nat /\ n \in Nat /\ old \in Seq(Line) /\ Len(old) = k
    OBVIOUS
  <2>. HIDE DEF k
  <2>2. /\ old \o part \in Seq(Line) /\ Len(old \o part) = k + n
        /\ \A i \in 1..k : (old \o part)[i] = old[i]
        /\ \A i \in 1..n : (old \o part)[k + i] = part[i]
    BY <1>3, <2>1, ConcatLines
  <2>. QED BY <1>5, <2>1, <2>2
<1>7. Last(new) = Fragment(more[n]) /\ new # <<>> /\ rest # <<>>
      /\ rest[1] = more[n]
  <2>1. Len(new) = k + n /\ n \in 1..n /\ new[k + n] = part[n]
    BY <1>6
  <2>2. Len(rest) >= 1 /\ 1 \in 1..Len(rest) /\ n + 1 - 1 = n
    BY <1>4
  <2>3. new # <<>>
    <3>1. Len(new) # 0
      BY <1>6
    <3>. QED BY <3>1
  <2>. QED BY <1>3, <1>4, <2>1, <2>2, <2>3 DEF Last
<1>. HIDE DEF new
<1>8. Ready(new, rest) /\ EndsTorn(new) /\ KeptLen(new) = k + (n - 1)
  BY <1>2, <1>6, <1>7 DEF Ready, EndsTorn, KeptLen
<1>9. IsJoin(Extended(new, rest), new, k + (n - 1), rest)
  BY <1>4, <1>6, <1>8, ReadyJoin
<1>10. IsJoin(old \o more, old, k, more)
  BY ConcatLines DEF IsJoin
<1>11. Extended(old, more) = old \o more
  BY DEF Extended
<1>12. IsJoin(Extended(new, rest), old, k, more)
  <2>. DEFINE r == Extended(new, rest)
  <2>1. /\ r \in Seq(Line) /\ Len(r) = k + (n - 1) + Len(rest)
        /\ \A i \in 1..(k + (n - 1)) : r[i] = new[i]
        /\ \A i \in 1..Len(rest) : r[k + (n - 1) + i] = rest[i]
    BY <1>9 DEF IsJoin
  <2>. HIDE DEF r
  <2>2. Len(r) = k + Len(more)
    BY <1>4, <1>6, <2>1
  <2>3. \A i \in 1..k : r[i] = old[i]
    BY <1>6, <2>1
  <2>4. ASSUME NEW i \in 1..Len(more) PROVE r[k + i] = more[i]
    <3>1. CASE i <= n - 1
      <4>1. k + i \in 1..(k + (n - 1)) /\ i \in 1..(n - 1) /\ i \in 1..n
        BY <1>6, <3>1
      <4>2. r[k + i] = new[k + i]
        BY <2>1, <4>1
      <4>. QED BY <1>3, <1>6, <4>1, <4>2
    <3>2. CASE i > n - 1
      <4>. DEFINE j == i - (n - 1)
      <4>1. j \in 1..Len(rest) /\ k + (n - 1) + j = k + i /\ n + j - 1 = i
        BY <1>4, <1>6, <3>2
      <4>. HIDE DEF j
      <4>2. r[k + (n - 1) + j] = rest[j] /\ rest[j] = more[n + j - 1]
        BY <1>4, <2>1, <4>1
      <4>. QED BY <4>1, <4>2
    <3>. QED BY <3>1, <3>2
  <2>5. IsJoin(r, old, k, more)
    BY <2>1, <2>2, <2>3, <2>4 DEF IsJoin
  <2>. QED BY <2>5 DEF r
<1>13. Extended(new, rest) = Extended(old, more)
  BY <1>6, <1>10, <1>11, <1>12, SameJoin
<1>14. \A i \in 1..Len(old) : old[i].whole => new[i] = old[i]
  BY <1>6
<1>. QED BY <1>4, <1>6, <1>8, <1>13, <1>14 DEF new, part, rest

LEMMA FailsFlushing ==
  ASSUME RecordInv, AppendFails, pc = "flush", NEW n \in 1..Len(buffer),
         segs' = [segs EXCEPT ![handle].lines =
                    Extended(@, Append(SubSeq(buffer, 1, n - 1),
                                       Fragment(buffer[n])))],
         buffer' = SubSeq(buffer, n, Len(buffer))
  PROVE  RecordInv'
<1>. DEFINE old == segs[handle].lines
            new == Extended(old, Append(SubSeq(buffer, 1, n - 1),
                                        Fragment(buffer[n])))
            rest == SubSeq(buffer, n, Len(buffer))
<1>1. /\ SpoolInv /\ Queue /\ FilesGood(Finals) /\ Files
  BY RecordParts
<1>2. SpoolInv' /\ SegsKept /\ Files'
  BY <1>1, AppendFailsStep DEF SpoolInv
<1>3. /\ Appending /\ failed' = TRUE /\ pc' = "idle" /\ batch' = <<>>
      /\ UNCHANGED <<handle, number, used, receipts, sent, starts>>
      /\ segs' = [segs EXCEPT ![handle].lines = new]
      /\ buffer' = rest
  BY DEF AppendFails, Appending
<1>4. ~failed /\ Coming = buffer /\ buffer \in Seq(Line)
      /\ handle \in DOMAIN segs
  BY <1>1, <1>3 DEF Queue, Coming, SpoolInv, BatchInv
<1>5. /\ DOMAIN segs \subseteq Nat
      /\ \A m \in DOMAIN segs : segs[m].lines \in Seq(Line)
  BY <1>1, FileFacts
<1>6. handle # -1 /\ old \in Seq(Line)
  BY <1>4, <1>5
<1>7. ~EndsTorn(old)
  BY <1>1, <1>4, <1>6 DEF Queue
<1>8. /\ new \in Seq(Line) /\ rest \in Seq(Line)
      /\ \A i \in 1..Len(old) : old[i].whole => new[i] = old[i]
      /\ Ready(new, rest)
      /\ Extended(new, rest) = Extended(old, buffer)
  BY <1>4, <1>6, <1>7, RestCompletes
<1>9. Finals[handle] = Extended(old, buffer)
  BY <1>4 DEF Finals
<1>. HIDE DEF new, rest, old
<1>10. /\ DOMAIN segs' = DOMAIN segs /\ segs'[handle].lines = new
       /\ \A m \in DOMAIN segs : m # handle => segs'[m] = segs[m]
       /\ SyncedStays
  BY <1>1, <1>3, <1>4, <1>8, WrittenSegment DEF old
<1>11. Numbers' /\ Queue' /\ Coming' = rest
  BY <1>3, <1>8, <1>10, FailedFacts
<1>12. Finals' = Finals
  <2>1. \A m \in DOMAIN segs :
          (IF m = handle THEN Extended(segs'[m].lines, rest) ELSE segs'[m].lines)
            = Finals[m]
    <3>1. \A m \in DOMAIN segs : m # handle => Finals[m] = segs[m].lines
      BY DEF Finals
    <3>. QED BY <1>8, <1>9, <1>10, <3>1
  <2>2. Finals' = [m \in DOMAIN segs |->
          IF m = handle THEN Extended(segs'[m].lines, rest) ELSE segs'[m].lines]
    BY <1>3, <1>10, <1>11 DEF Finals
  <2>3. Finals = [m \in DOMAIN segs |-> Finals[m]]
    BY DEF Finals
  <2>. QED BY <2>1, <2>2, <2>3
<1>13. CutFiles(Finals', Finals)
  BY <1>1, <1>12, SameCut
<1>. QED BY <1>2, <1>3, <1>10, <1>11, <1>13, RecordCut

LEMMA RecordAppendFails ==
  ASSUME RecordInv, AppendFails
  PROVE  RecordInv'
<1>1. CASE segs' = segs /\ buffer' = buffer
  BY <1>1, FailsUnchanged
<1>2. CASE /\ pc = "write"
           /\ \E n \in 1..Len(batch) : buffer' = SubSeq(batch, 1, n)
           /\ segs' = segs
  BY <1>2, FailsWriting
<1>3. CASE /\ pc = "flush"
           /\ \E n \in 1..Len(buffer) :
                /\ segs' = [segs EXCEPT ![handle].lines =
                     Extended(@, Append(SubSeq(buffer, 1, n - 1),
                                        Fragment(buffer[n])))]
                /\ buffer' = SubSeq(buffer, n, Len(buffer))
  BY <1>3, FailsFlushing
<1>. QED BY <1>1, <1>2, <1>3 DEF AppendFails

LEMMA RecordStutter ==
  ASSUME RecordInv, UNCHANGED vars
  PROVE  RecordInv'
<1>1. /\ segs' = segs /\ pc' = pc /\ handle' = handle /\ number' = number
      /\ used' = used /\ failed' = failed /\ batch' = batch
      /\ buffer' = buffer /\ receipts' = receipts /\ sent' = sent
      /\ starts' = starts
  BY DEF vars
<1>2. Coming' = Coming /\ Base' = Base /\ Appending' = Appending
  BY <1>1 DEF Coming, Base, Appending
<1>3. Finals' = Finals
  BY <1>1, <1>2 DEF Finals
<1>4. SpoolInv'
  BY StutterStep DEF RecordInv
<1>5. Numbers' /\ Queue' /\ FilesGood(Finals)' /\ Frames'
  BY <1>1, <1>2, <1>3 DEF RecordInv, Numbers, Queue, Frames
<1>6. Synced' /\ Account'
  BY <1>1, <1>3 DEF RecordInv, Synced, Account
<1>7. Located'
  BY <1>1 DEF RecordInv, Located, Place
<1>. QED BY <1>4, <1>5, <1>6, <1>7 DEF RecordInv

\* RecordInv is inductive.
LEMMA RecordStep ==
  ASSUME RecordInv, [Next]_vars
  PROVE  RecordInv'
<1>1. CASE StartWriter                           BY <1>1, RecordStartWriter
<1>2. CASE \E lines \in Batches : Submit(lines)  BY <1>2, RecordSubmit
<1>3. CASE OpenSegment                           BY <1>3, RecordOpenSegment
<1>4. CASE WriteLines                            BY <1>4, RecordWriteLines
<1>5. CASE FlushBuffer                           BY <1>5, RecordFlushBuffer
<1>6. CASE SyncFile                              BY <1>6, RecordSyncFile
<1>7. CASE Acknowledge                           BY <1>7, RecordAcknowledge
<1>8. CASE AppendFails                           BY <1>8, RecordAppendFails
<1>9. CASE CloseWriter                           BY <1>9, RecordCloseWriter
<1>10. CASE ProcessCrash                         BY <1>10, RecordProcessCrash
<1>11. CASE PowerLoss                            BY <1>11, RecordPowerLoss
<1>12. CASE UNCHANGED vars                       BY <1>12, RecordStutter
<1>. QED BY <1>1, <1>2, <1>3, <1>4, <1>5, <1>6, <1>7, <1>8, <1>9, <1>10,
            <1>11, <1>12 DEF Next

LEMMA RecordAlways == Spec => []RecordInv
BY RecordInit, RecordStep, PTL DEF Spec

-----------------------------------------------------------------------------
(* What the invariant says of a replay.                                     *)

\* A cursor at the start of a line is accepted and finds that line: no other
\* line starts there.
LEMMA CursorFinds ==
  ASSUME NEW file, GoodLines(file.lines), NEW i \in 1..(Len(file.lines) + 1),
         i > 1 => file.lines[i - 1].whole
  PROVE  LinesAt(file, Offset(file.lines, i)) = {i}
<1>. DEFINE lines == file.lines
<1>1. /\ lines \in Seq(Line) /\ Len(lines) \in Nat
      /\ \A j \in 1..Len(lines) : lines[j].size >= 1
  BY DEF GoodLines
<1>2. \A j, k \in 1..(Len(lines) + 1) : j < k => Offset(lines, j) < Offset(lines, k)
  BY <1>1, OffsetsGrow
<1>3. \A j \in 1..(Len(lines) + 1) : Offset(lines, j) \in Nat
  <2>. SUFFICES ASSUME NEW j \in 1..(Len(lines) + 1) PROVE Offset(lines, j) \in Nat
    OBVIOUS
  <2>1. CASE j \in 1..Len(lines)
    BY <1>1, <2>1, OffsetStep
  <2>2. CASE j = Len(lines) + 1
    BY <1>1, <2>2, OffsetEnds, BytesType
  <2>. QED BY <1>1, <2>1, <2>2
<1>4. ASSUME NEW j \in 1..(Len(lines) + 1), Offset(lines, j) = Offset(lines, i)
      PROVE  j = i
  <2>1. ~(j < i) /\ ~(i < j)
    BY <1>2, <1>3, <1>4
  <2>. QED BY <1>1, <2>1
<1>. HIDE DEF Offset
<1>. QED BY <1>4 DEF LinesAt

\* From a line all of whose predecessors in the replay are whole, the replay
\* goes up to the first broken line, or to the end.
LEMMA ReplayReaches ==
  ASSUME NEW file, file.lines \in Seq(Line), NEW offset,
         NEW first \in 1..Len(file.lines), LinesAt(file, offset) = {first},
         NEW i \in first..Len(file.lines),
         \A k \in first..i : file.lines[k].whole
  PROVE  /\ Replay(file, offset) # <<>>
         /\ i - first + 1 \in 1..Len(Replay(file, offset))
         /\ Replay(file, offset)[i - first + 1] = file.lines[i].frame
         /\ Contains(Replay(file, offset), file.lines[i].frame)
<1>. DEFINE lines == file.lines
            broken == {k \in first..Len(lines) : ~lines[k].whole}
            last == IF broken = {} THEN Len(lines) ELSE Min(broken) - 1
            r == [k \in 1..(last - first + 1) |-> lines[first + k - 1].frame]
<1>1. Len(lines) \in Nat /\ first \in Nat /\ i \in Nat
  OBVIOUS
<1>2. Replay(file, offset) = r
  <2>1. (CHOOSE k \in {first} : TRUE) = first
    OBVIOUS
  <2>. QED BY <2>1 DEF Replay
<1>3. last \in Nat /\ i <= last
  <2>1. CASE broken = {}
    BY <1>1, <2>1
  <2>2. CASE broken # {}
    <3>1. broken \subseteq Int /\ IsFiniteSet(broken)
      <4>1. IsFiniteSet(first..Len(lines))
        <5>1. first \in Int /\ Len(lines) \in Int
          BY <1>1
        <5>. HIDE DEF lines
        <5>. QED BY <5>1, FS_Interval
      <4>. QED BY <4>1, FS_Subset
    <3>2. Min(broken) \in broken
      BY <2>2, <3>1, MinFacts
    <3>. HIDE DEF Min
    <3>3. Min(broken) \in first..Len(lines) /\ Min(broken) \notin first..i
      BY <3>2
    <3>. QED BY <1>1, <2>2, <3>3
  <2>. QED BY <2>1, <2>2
<1>. HIDE DEF last, lines
<1>4. /\ DOMAIN r = 1..(last - first + 1) /\ last - first + 1 \in Nat
      /\ i - first + 1 \in 1..(last - first + 1)
      /\ first + (i - first + 1) - 1 = i
  BY <1>1, <1>3
<1>5. r[i - first + 1] = lines[i].frame
  BY <1>4
<1>6. Len(r) = last - first + 1
  BY <1>4
<1>. HIDE DEF r
<1>7. r # <<>>
  BY <1>4, <1>6
<1>8. Contains(r, lines[i].frame)
  BY <1>4, <1>5, <1>6 DEF Contains
<1>. QED BY <1>2, <1>4, <1>5, <1>6, <1>7, <1>8 DEF lines

LEMMA ReceiptReplays ==
  ASSUME RecordInv, NEW r \in receipts
  PROVE  LET file == segs[r.segment]
         IN  /\ LinesAt(file, r.offset) # {} /\ LinesAt(file, r.next) # {}
             /\ Replay(file, r.offset) # <<>>
             /\ Replay(file, r.offset)[1] = r.frame
             /\ Contains(Replay(file, 0), r.frame)
<1>. DEFINE file == segs[r.segment]
            lines == file.lines
<1>1. r.segment \in DOMAIN segs
  BY DEF RecordInv, SpoolInv, AckedIsDurable
<1>2. GoodLines(lines) /\ lines \in Seq(Line) /\ Len(lines) \in Nat
      /\ file.synced \in 0..Len(lines)
  <2>1. /\ FilesGood(LinesOf) /\ file.synced \in 0..Len(lines)
        /\ DOMAIN LinesOf = DOMAIN segs
    BY <1>1, RecordParts, FileFacts, DiskFacts
  <2>2. GoodLines(lines)
    BY <1>1, <2>1 DEF FilesGood, LinesOf
  <2>. QED BY <2>1, <2>2 DEF GoodLines
<1>3. PICK i \in 1..file.synced : /\ lines[i].frame = r.frame
                                  /\ Offset(lines, i) = r.offset
                                  /\ Offset(lines, i + 1) = r.next
  BY DEF RecordInv, Located, Place
<1>4. \A k \in 1..i : lines[k].whole
  <2>1. \A k \in 1..file.synced : lines[k].whole
    BY <1>1 DEF RecordInv, Synced
  <2>. HIDE DEF lines, file
  <2>. QED BY <1>2, <1>3, <2>1
<1>. HIDE DEF file
<1>5. /\ i \in 1..Len(lines) /\ i \in 1..(Len(lines) + 1)
      /\ i + 1 \in 1..(Len(lines) + 1) /\ 1 \in 1..Len(lines)
      /\ 1 \in 1..(Len(lines) + 1) /\ (i + 1) - 1 = i
      /\ i \in i..Len(lines) /\ i \in 1..i
      /\ i > 1 => i - 1 \in 1..i
  BY <1>2, <1>3
<1>6. LinesAt(file, r.offset) = {i} /\ LinesAt(file, r.next) = {i + 1}
      /\ LinesAt(file, 0) = {1}
  <2>1. LinesAt(file, Offset(lines, i)) = {i}
    <3>1. i > 1 => lines[i - 1].whole
      BY <1>4, <1>5
    <3>. QED BY <1>2, <1>5, <3>1, CursorFinds
  <2>2. LinesAt(file, Offset(lines, i + 1)) = {i + 1}
    <3>1. lines[(i + 1) - 1].whole
      BY <1>4, <1>5
    <3>. QED BY <1>2, <1>5, <3>1, CursorFinds
  <2>3. LinesAt(file, Offset(lines, 1)) = {1}
    <3>1. ~(1 > 1)
      OBVIOUS
    <3>. QED BY <1>2, <1>5, <3>1, CursorFinds
  <2>4. Offset(lines, 1) = 0
    BY <1>2, OffsetEnds
  <2>. QED BY <1>3, <2>1, <2>2, <2>3, <2>4
<1>7. Replay(file, r.offset) # <<>> /\ Replay(file, r.offset)[1] = lines[i].frame
  <2>1. \A k \in i..i : lines[k].whole
    BY <1>4, <1>5
  <2>2. i - i + 1 = 1
    BY <1>5
  <2>3. /\ Replay(file, r.offset) # <<>>
        /\ Replay(file, r.offset)[i - i + 1] = lines[i].frame
    <3>1. /\ file.lines \in Seq(Line) /\ i \in 1..Len(file.lines)
          /\ LinesAt(file, r.offset) = {i} /\ i \in i..Len(file.lines)
          /\ \A k \in i..i : file.lines[k].whole
      BY <1>2, <1>5, <1>6, <2>1
    <3>. QED BY ONLY <3>1, ReplayReaches, Zenon
  <2>. QED BY <2>2, <2>3
<1>8. Contains(Replay(file, 0), lines[i].frame)
  BY <1>2, <1>4, <1>5, <1>6, ReplayReaches
<1>. QED BY <1>3, <1>6, <1>7, <1>8 DEF file

LEMMA FilesOrdered ==
  ASSUME RecordInv
  PROVE  SegmentsAreOrdered
<1>1. FilesGood(LinesOf) /\ DOMAIN LinesOf = DOMAIN segs
      /\ \A n \in DOMAIN segs : LinesOf[n] = segs[n].lines
                                /\ segs[n].lines \in Seq(Line)
  BY RecordParts, FileFacts, DiskFacts DEF LinesOf
<1>2. \A n \in DOMAIN segs : GoodLines(segs[n].lines)
  BY <1>1 DEF FilesGood
<1>3. ASSUME NEW n \in DOMAIN segs, NEW i \in 2..Len(segs[n].lines)
      PROVE  segs[n].lines[i].frame = segs[n].lines[i - 1].frame + 1
  <2>. DEFINE lines == segs[n].lines
  <2>1. /\ i \in 1..Len(lines) /\ i - 1 \in 1..Len(lines) /\ 1 \in 1..Len(lines)
        /\ i \in Nat
    OBVIOUS
  <2>2. lines[i].frame = lines[1].frame + (i - 1)
        /\ lines[i - 1].frame = lines[1].frame + ((i - 1) - 1)
    BY <1>2, <2>1 DEF GoodLines
  <2>3. lines[1].frame \in Nat
    <3>1. lines[1] \in Line
      BY <1>1, <2>1, ElementOfSeq
    <3>. QED BY <3>1 DEF Line
  <2>. DEFINE z == lines[1].frame
  <2>4. z \in Int /\ i \in Int
    BY <2>1, <2>3
  <2>5. lines[i].frame = z + (i - 1) /\ lines[i - 1].frame = z + ((i - 1) - 1)
    BY <2>2
  <2>. HIDE DEF z, lines
  <2>6. lines[i].frame = lines[i - 1].frame + 1
    BY <2>4, <2>5
  <2>. QED BY <2>6 DEF lines
<1>4. ASSUME NEW n \in DOMAIN segs, NEW m \in DOMAIN segs, n < m,
             segs[n].lines # <<>>, segs[m].lines # <<>>
      PROVE  Last(segs[n].lines).frame < segs[m].lines[1].frame
  <2>1. Len(segs[n].lines) \in 1..Len(segs[n].lines)
        /\ 1 \in 1..Len(segs[m].lines)
    BY <1>1, <1>4
  <2>. QED BY <1>1, <1>4, <2>1 DEF FilesGood, Last
<1>. QED BY <1>3, <1>4 DEF SegmentsAreOrdered

LEMMA BoundedByInv ==
  ASSUME RecordInv
  PROVE  DiskIsBounded
<1>1. /\ FilesGood(LinesOf) /\ DOMAIN LinesOf = DOMAIN segs
      /\ DiskBytes = TotalBytes(LinesOf)
      /\ \A n \in DOMAIN segs : LinesOf[n] = segs[n].lines
  BY RecordParts, FileFacts, DiskFacts DEF LinesOf
<1>2. \A n \in DOMAIN segs : FileSize(segs[n]) <= SegmentBytes
  BY <1>1 DEF FilesGood, FileSize
<1>3. DiskBytes <= MaxBytes
  BY <1>1 DEF FilesGood
<1>. QED BY <1>2, <1>3 DEF DiskIsBounded

LEMMA TypesByInv ==
  ASSUME RecordInv
  PROVE  TypeOK
<1>1. /\ DOMAIN segs \subseteq Nat
      /\ \A n \in DOMAIN segs : /\ segs[n] \in File
                                /\ segs[n].lines \in Seq(Line)
                                /\ segs[n].synced \in 0..Len(segs[n].lines)
      /\ handle # -1 => handle \in DOMAIN segs
  BY RecordParts, FileFacts
<1>2. \A n \in DOMAIN segs : segs[n].linked \in BOOLEAN
  BY <1>1 DEF File
<1>3. /\ pc \in {"down", "idle", "open", "write", "flush", "sync", "link"}
      /\ failed \in BOOLEAN
      /\ number \in Nat /\ used \in Nat /\ starts \in Nat
  BY DEF RecordInv, Numbers
<1>4. /\ pc \in {"write", "flush", "sync", "link"} => handle \in DOMAIN segs
      /\ batch \in Seq(Line) /\ buffer \in Seq(Line) /\ sent \in Nat
  BY DEF RecordInv, SpoolInv, BatchInv
<1>5. handle \in Nat \cup {-1} /\ {number, used, sent, starts} \subseteq Nat
  BY <1>1, <1>3, <1>4
<1>. QED BY <1>1, <1>2, <1>3, <1>4, <1>5 DEF TypeOK

\* The types of the state, and that an append under way has its segment file.
THEOREM SpoolTypeCorrect == Spec => []TypeOK
BY RecordAlways, TypesByInv, PTL

\* Of every reachable state, whatever writers were started, failed and killed
\* before: the files are within segment_bytes and max_bytes, although the
\* account that append_batch checks is only that of the running writer.
THEOREM DiskStaysBounded == Spec => []DiskIsBounded
BY RecordAlways, BoundedByInv, PTL

\* Of every reachable state: the lines of all receipts are on the disk;
\* replay_segment accepts every offset that a receipt holds and starts with the receipt's frame, a replay of the whole
\* segment reaches it, and the segments in the order of their numbers hold
\* the frames in receive order.
THEOREM RecordsAlwaysReplay == Spec => []RecordReplays
<1>1. RecordInv => RecordReplays
  BY ReceiptReplays, FilesOrdered
  DEF RecordReplays, ReceiptsReplay, RecordInv, SpoolInv
<1>. QED BY <1>1, RecordAlways, PTL

-----------------------------------------------------------------------------
(* The spool implements FrameLog.                                           *)

\* Directory entries reach the disk in the order of the segments.
LinkedFirst ==
  \A n, m \in DOMAIN segs : n < m /\ segs[m].linked => segs[n].linked

LogInv == RecordInv /\ LinkedFirst

\* Line i of segment n is one that no crash takes away.
OnDisk(n, i) ==
  /\ n \in DOMAIN segs /\ segs[n].linked
  /\ i \in 1..segs[n].synced /\ segs[n].lines[i].whole

LEMMA DurableIs ==
  /\ \A n, i : OnDisk(n, i) => segs[n].lines[i].frame \in DurableFrames
  /\ \A f \in DurableFrames :
       \E n, i : OnDisk(n, i) /\ segs[n].lines[i].frame = f
<1>1. ASSUME NEW n, NEW i, OnDisk(n, i)
      PROVE  segs[n].lines[i].frame \in DurableFrames
  <2>1. n \in {m \in DOMAIN segs : segs[m].linked}
        /\ i \in {j \in 1..segs[n].synced : segs[n].lines[j].whole}
    BY <1>1 DEF OnDisk
  <2>2. segs[n].lines[i].frame \in
          {segs[n].lines[k].frame :
             k \in {j \in 1..segs[n].synced : segs[n].lines[j].whole}}
    BY <2>1
  <2>. QED BY <2>1, <2>2 DEF DurableFrames
<1>2. ASSUME NEW f \in DurableFrames
      PROVE  \E n, i : OnDisk(n, i) /\ segs[n].lines[i].frame = f
  <2>1. PICK n \in {m \in DOMAIN segs : segs[m].linked} :
          f \in {segs[n].lines[k].frame :
                   k \in {j \in 1..segs[n].synced : segs[n].lines[j].whole}}
    BY <1>2 DEF DurableFrames
  <2>2. PICK i \in {j \in 1..segs[n].synced : segs[n].lines[j].whole} :
          f = segs[n].lines[i].frame
    BY <2>1
  <2>. QED BY <2>1, <2>2 DEF OnDisk
<1>. QED BY <1>1, <1>2

\* The same of the state after a step.
LEMMA DurableIsNext ==
  /\ \A n, i : OnDisk(n, i)' => segs'[n].lines[i].frame \in DurableFrames'
  /\ \A f \in DurableFrames' :
       \E n, i : OnDisk(n, i)' /\ segs'[n].lines[i].frame = f
<1>1. ASSUME NEW n, NEW i, OnDisk(n, i)'
      PROVE  segs'[n].lines[i].frame \in DurableFrames'
  <2>1. n \in {m \in DOMAIN segs' : segs'[m].linked}
        /\ i \in {j \in 1..segs'[n].synced : segs'[n].lines[j].whole}
    BY <1>1 DEF OnDisk
  <2>2. segs'[n].lines[i].frame \in
          {segs'[n].lines[k].frame :
             k \in {j \in 1..segs'[n].synced : segs'[n].lines[j].whole}}
    BY <2>1
  <2>. QED BY <2>1, <2>2 DEF DurableFrames
<1>2. ASSUME NEW f \in DurableFrames'
      PROVE  \E n, i : OnDisk(n, i)' /\ segs'[n].lines[i].frame = f
  <2>1. PICK n \in {m \in DOMAIN segs' : segs'[m].linked} :
          f \in {segs'[n].lines[k].frame :
                   k \in {j \in 1..segs'[n].synced : segs'[n].lines[j].whole}}
    BY <1>2 DEF DurableFrames
  <2>2. PICK i \in {j \in 1..segs'[n].synced : segs'[n].lines[j].whole} :
          f = segs'[n].lines[i].frame
    BY <2>1
  <2>. QED BY <2>1, <2>2 DEF OnDisk
<1>. QED BY <1>1, <1>2

\* What is on the disk are received frames, in the order of their places.
DiskInOrder ==
  /\ \A n, i : OnDisk(n, i) =>
       n \in Nat /\ i \in Nat /\ segs[n].lines[i].frame \in 1..sent
  /\ \A n, i, m, j :
       OnDisk(n, i) /\ OnDisk(m, j) /\ (n < m \/ (n = m /\ i < j)) =>
         segs[n].lines[i].frame < segs[m].lines[j].frame

LEMMA DiskOrder ==
  ASSUME RecordInv
  PROVE  DiskInOrder
<1>1. /\ FilesGood(LinesOf) /\ DOMAIN LinesOf = DOMAIN segs
      /\ DOMAIN segs \subseteq Nat
      /\ \A n \in DOMAIN segs : /\ LinesOf[n] = segs[n].lines
                                /\ segs[n].lines \in Seq(Line)
                                /\ segs[n].synced \in 0..Len(segs[n].lines)
                                /\ GoodLines(segs[n].lines)
  BY RecordParts, FileFacts, DiskFacts DEF LinesOf, FilesGood
<1>2. \A n, i : OnDisk(n, i) =>
        n \in DOMAIN segs /\ n \in Nat /\ i \in Nat /\ i \in 1..Len(segs[n].lines)
  BY <1>1 DEF OnDisk
<1>3. \A n \in DOMAIN segs : \A i \in 1..Len(segs[n].lines) :
        segs[n].lines[i] \in Line /\ segs[n].lines[i].frame \in Nat
  <2>1. \A n \in DOMAIN segs : \A i \in 1..Len(segs[n].lines) :
          segs[n].lines[i] \in Line
    BY <1>1, ElementOfSeq
  <2>. QED BY <2>1 DEF Line
<1>4. \A n \in DOMAIN segs : \A i \in 1..Len(segs[n].lines) :
        segs[n].lines[i].frame >= 1 /\ segs[n].lines[i].frame <= sent
  <2>. SUFFICES ASSUME NEW n \in DOMAIN segs, NEW i \in 1..Len(segs[n].lines)
       PROVE  segs[n].lines[i].frame >= 1 /\ segs[n].lines[i].frame <= sent
    OBVIOUS
  <2>1. segs[n].lines[i].frame >= 1
    BY <1>1 DEF GoodLines
  <2>2. Cut(segs[n].lines, Finals[n]) /\ DOMAIN Finals = DOMAIN segs
        /\ Finals[n] \in Seq(Line) /\ GoodLines(Finals[n])
    <3>1. CutFiles(LinesOf, Finals) /\ DOMAIN Finals = DOMAIN segs
          /\ Finals[n] \in Seq(Line) /\ FilesGood(Finals)
      BY RecordParts, FileFacts
    <3>. QED BY <1>1, <3>1 DEF CutFiles, FilesGood
  <2>3. i \in 1..Len(Finals[n])
        /\ segs[n].lines[i].frame = Finals[n][i].frame
    BY <2>2, CutLines
  <2>4. Finals[n][i].frame <= Base
    BY <2>2, <2>3, RecordParts DEF Frames, FramesUpTo
  <2>5. Base \in Nat /\ sent \in Nat /\ Base <= sent
    BY RecordParts
  <2>. QED BY <1>3, <2>1, <2>3, <2>4, <2>5
<1>5. sent \in Nat
  BY RecordParts
<1>6. ASSUME NEW n, NEW i, NEW m, NEW j, OnDisk(n, i), OnDisk(m, j),
             n < m \/ (n = m /\ i < j)
      PROVE  segs[n].lines[i].frame < segs[m].lines[j].frame
  <2>1. CASE n < m
    BY <1>1, <1>2, <1>6, <2>1 DEF FilesGood
  <2>2. CASE n = m /\ i < j
    <3>. DEFINE z == segs[n].lines[1].frame
    <3>1. n \in DOMAIN segs /\ i \in 1..Len(segs[n].lines)
          /\ j \in 1..Len(segs[n].lines) /\ 1 \in 1..Len(segs[n].lines)
          /\ i \in Nat /\ j \in Nat
      BY <1>2, <1>6, <2>2
    <3>2. z \in Nat
      BY <1>3, <3>1
    <3>3. segs[n].lines[i].frame = z + (i - 1)
          /\ segs[n].lines[j].frame = z + (j - 1)
      BY <1>1, <3>1 DEF GoodLines
    <3>. HIDE DEF z
    <3>. QED BY <2>2, <3>1, <3>2, <3>3
  <2>. QED BY <1>6, <2>1, <2>2
<1>7. \A n, i : OnDisk(n, i) =>
        n \in Nat /\ i \in Nat /\ segs[n].lines[i].frame \in 1..sent
  BY <1>2, <1>3, <1>4, <1>5
<1>. QED BY <1>6, <1>7 DEF DiskInOrder

LEMMA DiskOrderNext == RecordInv' => DiskInOrder'
<1>1. RecordInv => DiskInOrder
  BY DiskOrder
<1>. QED BY <1>1, PTL

\* What is on the disk stays there.
LEMMA DiskKept ==
  ASSUME Files, Files', SegsKept
  PROVE  /\ \A n, i : OnDisk(n, i) =>
              OnDisk(n, i)' /\ segs'[n].lines[i] = segs[n].lines[i]
         /\ DurableFrames \subseteq DurableFrames'
<1>1. ASSUME NEW n, NEW i, OnDisk(n, i)
      PROVE  OnDisk(n, i)' /\ segs'[n].lines[i] = segs[n].lines[i]
  <2>1. n \in DOMAIN segs /\ segs[n].linked /\ i \in 1..segs[n].synced
        /\ segs[n].lines[i].whole
    BY <1>1 DEF OnDisk
  <2>2. n \in DOMAIN segs' /\ Keeps(segs[n], segs'[n])
    BY <2>1 DEF SegsKept
  <2>3. segs[n].synced \in Nat /\ segs'[n].synced \in Nat
    BY <2>1, <2>2 DEF Files, GoodFile, File
  <2>4. segs'[n].lines[i] = segs[n].lines[i] /\ segs'[n].linked
        /\ i \in 1..segs'[n].synced
    BY <2>1, <2>2, <2>3 DEF Keeps
  <2>. QED BY <2>1, <2>2, <2>4 DEF OnDisk
<1>2. ASSUME NEW f \in DurableFrames
      PROVE  f \in DurableFrames'
  <2>1. PICK n, i : OnDisk(n, i) /\ segs[n].lines[i].frame = f
    BY DurableIs
  <2>. QED BY <1>1, <2>1, DurableIsNext
<1>. QED BY <1>1, <1>2

\* A step after which no more of any file is on the disk.
NothingJoins ==
  \A n \in DOMAIN segs' :
    segs'[n].linked /\ segs'[n].synced # 0 =>
      /\ n \in DOMAIN segs /\ segs[n].linked
      /\ segs'[n].synced = segs[n].synced

LEMMA SameDurable ==
  ASSUME RecordInv, Files', SegsKept, NothingJoins
  PROVE  DurableFrames' = DurableFrames
<1>1. Files /\ \A n \in DOMAIN segs :
                 \A i \in 1..segs[n].synced : segs[n].lines[i].whole
  BY RecordParts DEF Synced
<1>2. DurableFrames \subseteq DurableFrames'
  BY <1>1, DiskKept
<1>3. ASSUME NEW f \in DurableFrames'
      PROVE  f \in DurableFrames
  <2>1. PICK n, i : OnDisk(n, i)' /\ segs'[n].lines[i].frame = f
    BY DurableIsNext
  <2>2. n \in DOMAIN segs' /\ segs'[n].linked /\ i \in 1..segs'[n].synced
    BY <2>1 DEF OnDisk
  <2>3. segs'[n].synced # 0
    BY <2>2
  <2>4. OnDisk(n, i)
    BY <1>1, <2>2, <2>3 DEF NothingJoins, OnDisk
  <2>5. segs'[n].lines[i] = segs[n].lines[i]
    BY <1>1, <2>4, DiskKept
  <2>. QED BY <2>1, <2>4, <2>5, DurableIs
<1>. QED BY <1>2, <1>3

-----------------------------------------------------------------------------
(* Steps that bring nothing to the disk.                                    *)

FilesStay ==
  \A n \in DOMAIN segs' :
    /\ n \in DOMAIN segs
    /\ segs'[n].linked = segs[n].linked /\ segs'[n].synced = segs[n].synced

LEMMA OtherLines ==
  ASSUME Files, NEW lines, segs' = [segs EXCEPT ![handle].lines = lines]
  PROVE  FilesStay
<1>1. DOMAIN segs' = DOMAIN segs
  OBVIOUS
<1>2. ASSUME NEW n \in DOMAIN segs
      PROVE  /\ segs'[n].linked = segs[n].linked
             /\ segs'[n].synced = segs[n].synced
  <2>1. CASE n # handle
    BY <2>1
  <2>2. CASE n = handle
    <3>1. segs[n] \in File
      BY DEF Files, GoodFile
    <3>2. segs'[n] = [segs[n] EXCEPT !.lines = lines]
      BY <2>2
    <3>. QED BY <3>1, <3>2 DEF File
  <2>. QED BY <2>1, <2>2
<1>. QED BY <1>1, <1>2 DEF FilesStay

LEMMA SameFilesStay ==
  ASSUME segs' = segs
  PROVE  FilesStay
BY DEF FilesStay

LEMMA FailsStay ==
  ASSUME Files, AppendFails
  PROVE  FilesStay
<1>1. CASE UNCHANGED segs
  BY <1>1, SameFilesStay
<1>2. CASE \E n \in 1..Len(buffer) :
             segs' = [segs EXCEPT ![handle].lines =
               Extended(@, Append(SubSeq(buffer, 1, n - 1),
                                  Fragment(buffer[n])))]
  <2>1. PICK n \in 1..Len(buffer) :
          segs' = [segs EXCEPT ![handle].lines =
            Extended(segs[handle].lines,
                     Append(SubSeq(buffer, 1, n - 1), Fragment(buffer[n])))]
    BY <1>2
  <2>. QED BY <2>1, OtherLines
<1>. QED BY <1>1, <1>2 DEF AppendFails

LEMMA GoneStay ==
  ASSUME Files, CloseWriter \/ ProcessCrash
  PROVE  FilesStay
<1>1. CASE UNCHANGED segs
  BY <1>1, SameFilesStay
<1>2. CASE segs' = [segs EXCEPT ![handle].lines = Extended(@, buffer)]
  <2>1. segs' = [segs EXCEPT ![handle].lines =
                   Extended(segs[handle].lines, buffer)]
    BY <1>2
  <2>. QED BY <2>1, OtherLines
<1>3. CASE \E lines \in Partial(segs[handle].lines, buffer) :
             segs' = [segs EXCEPT ![handle].lines = lines]
  BY <1>3, OtherLines
<1>. QED BY <1>1, <1>2, <1>3 DEF CloseWriter, ProcessCrash

LEMMA LossStays ==
  ASSUME Files, PowerLoss
  PROVE  FilesStay
<1>1. PICK kept \in SUBSET DOMAIN segs :
        \E after \in [kept -> UNION {Survivors(segs[n]) : n \in kept}] :
          /\ \A n \in kept : after[n] \in Survivors(segs[n])
          /\ segs' = after
  BY DEF PowerLoss
<1>2. DOMAIN segs' = kept /\ \A n \in kept : segs'[n] \in Survivors(segs[n])
  BY <1>1
<1>3. ASSUME NEW n \in kept
      PROVE  /\ n \in DOMAIN segs
             /\ segs'[n].linked = segs[n].linked
             /\ segs'[n].synced = segs[n].synced
  <2>1. segs[n] \in File
    BY DEF Files, GoodFile
  <2>2. PICK lines : segs'[n] = [segs[n] EXCEPT !.lines = lines]
    BY <1>2 DEF Survivors
  <2>. QED BY <2>1, <2>2 DEF File
<1>. QED BY <1>2, <1>3 DEF FilesStay

LEMMA StayFacts ==
  ASSUME LogInv, FilesStay
  PROVE  NothingJoins /\ LinkedFirst'
BY DEF FilesStay, NothingJoins, LogInv, LinkedFirst

-----------------------------------------------------------------------------
(* Every step is one of FrameLog or a stutter.                              *)

\* Nothing that FrameLog sees.
Unseen ==
  /\ LinkedFirst' /\ DurableFrames' = DurableFrames
  /\ receipts' = receipts

LEMMA OpenUnseen ==
  ASSUME LogInv, OpenSegment, Files', SegsKept
  PROVE  Unseen
<1>1. RecordInv /\ LinkedFirst
  BY DEF LogInv
<1>2. CASE UNCHANGED segs
  BY <1>1, <1>2, SameFilesStay, StayFacts, SameDurable DEF Unseen, OpenSegment
<1>3. CASE segs' = WithFile(number)
  <2>1. /\ number \in Nat /\ \A n \in DOMAIN segs : n < number
        /\ DOMAIN segs \subseteq Nat
    <3>1. Numbers /\ pc = "open"
      BY <1>1, RecordParts DEF OpenSegment
    <3>2. DOMAIN segs \subseteq Nat
      BY <1>1, RecordParts, FileFacts
    <3>. QED BY <3>1, <3>2 DEF Numbers
  <2>2. /\ DOMAIN segs' = DOMAIN segs \cup {number}
        /\ segs'[number] = NewFile
        /\ \A n \in DOMAIN segs : segs'[n] = segs[n]
    BY <1>3, <2>1 DEF WithFile
  <2>3. ~segs'[number].linked
    BY <2>2 DEF NewFile
  <2>4. NothingJoins
    BY <2>2, <2>3 DEF NothingJoins
  <2>5. LinkedFirst'
    <3>. SUFFICES ASSUME NEW n \in DOMAIN segs', NEW m \in DOMAIN segs',
                         n < m, segs'[m].linked
         PROVE  segs'[n].linked
      BY DEF LinkedFirst
    <3>1. m \in DOMAIN segs /\ segs[m].linked
      BY <2>2, <2>3
    <3>2. n # number
      BY <2>1, <3>1
    <3>. QED BY <1>1, <2>2, <3>1, <3>2 DEF LinkedFirst
  <2>. QED BY <1>1, <2>4, <2>5, SameDurable DEF Unseen, OpenSegment
<1>. QED BY <1>2, <1>3 DEF OpenSegment

LEMMA StepUnseen ==
  ASSUME LogInv, [Next]_vars, FilesStay, Files', SegsKept, receipts' = receipts
  PROVE  Unseen
BY StayFacts, SameDurable DEF LogInv, Unseen

\* fsync of the segment: lines behind all that were on the disk.
LEMMA SyncJoins ==
  ASSUME LogInv, SyncFile, Files', SegsKept, RecordInv'
  PROVE  /\ LinkedFirst'
         /\ \A f \in DurableFrames' \ DurableFrames :
              \A g \in DurableFrames : g < f
<1>1. RecordInv /\ LinkedFirst /\ Files
  BY RecordParts DEF LogInv
<1>2. /\ handle \in DOMAIN segs /\ handle \in Nat
      /\ \A n \in DOMAIN segs : n <= handle /\ n \in Nat
      /\ \A n \in DOMAIN segs : /\ segs[n] \in File
                                /\ segs[n].synced \in Nat
  <2>1. handle \in DOMAIN segs
    BY <1>1, RecordParts DEF BatchInv, SyncFile
  <2>2. DOMAIN segs \subseteq Nat /\ \A n \in DOMAIN segs : segs[n] \in File
    BY <1>1, RecordParts, FileFacts
  <2>3. \A n \in DOMAIN segs : n <= handle
    <3>1. Numbers /\ handle # -1
      BY <1>1, <2>1, <2>2, RecordParts
    <3>. QED BY <3>1 DEF Numbers
  <2>. QED BY <2>1, <2>2, <2>3 DEF File
<1>3. /\ DOMAIN segs' = DOMAIN segs
      /\ \A n \in DOMAIN segs : /\ n # handle => segs'[n] = segs[n]
                                /\ segs'[n].linked = segs[n].linked
                                /\ segs'[n].lines = segs[n].lines
  <2>1. segs' = [segs EXCEPT ![handle].synced = Len(segs[handle].lines)]
    BY DEF SyncFile
  <2>2. segs'[handle] = [segs[handle] EXCEPT
                           !.synced = Len(segs[handle].lines)]
    BY <1>2, <2>1
  <2>. QED BY <1>2, <2>1, <2>2 DEF File
<1>4. LinkedFirst'
  BY <1>1, <1>3 DEF LinkedFirst
<1>5. ASSUME NEW f \in DurableFrames', f \notin DurableFrames,
             NEW g \in DurableFrames
      PROVE  g < f
  <2>1. PICK n, i : OnDisk(n, i)' /\ segs'[n].lines[i].frame = f
    BY DurableIsNext
  <2>2. PICK m, j : OnDisk(m, j) /\ segs[m].lines[j].frame = g
    BY DurableIs
  <2>3. OnDisk(m, j)' /\ segs'[m].lines[j] = segs[m].lines[j]
    BY <1>1, <2>2, DiskKept
  <2>4. ~OnDisk(n, i) /\ n \in DOMAIN segs
    <3>1. n \in DOMAIN segs
      BY <1>3, <2>1 DEF OnDisk
    <3>. QED BY <1>3, <1>5, <2>1, <3>1, DurableIs
  <2>5. n = handle
    BY <1>3, <2>1, <2>4 DEF OnDisk
  <2>6. n \in Nat /\ i \in Nat /\ m \in Nat /\ j \in Nat /\ m <= n
        /\ j <= segs[m].synced
    BY <1>1, <1>2, <2>1, <2>2, <2>5, DiskOrder DEF OnDisk, DiskInOrder
  <2>7. m = n => j < i
    <3>1. i \in 1..segs'[n].synced /\ segs[n].linked /\ segs[n].lines[i].whole
      BY <1>3, <2>1, <2>4 DEF OnDisk
    <3>2. i \notin 1..segs[n].synced
      BY <2>4, <3>1 DEF OnDisk
    <3>3. segs[n].synced \in Nat /\ i >= 1
      BY <1>2, <2>4, <3>1
    <3>. QED BY <2>6, <3>2, <3>3
  <2>8. m < n \/ (m = n /\ j < i)
    BY <2>6, <2>7
  <2>9. segs'[m].lines[j].frame < segs'[n].lines[i].frame
    BY <2>1, <2>3, <2>8, DiskOrderNext DEF DiskInOrder
  <2>. QED BY <2>1, <2>2, <2>3, <2>9
<1>. QED BY <1>4, <1>5

\* fsync of the directory: segments behind all that had their entries.
LEMMA LinkJoins ==
  ASSUME LogInv, Acknowledge, Files', SegsKept, RecordInv'
  PROVE  /\ LinkedFirst'
         /\ \A f \in DurableFrames' \ DurableFrames :
              \A g \in DurableFrames : g < f
<1>1. RecordInv /\ LinkedFirst /\ Files
  BY RecordParts DEF LogInv
<1>2. /\ DOMAIN segs' = DOMAIN segs /\ DOMAIN segs \subseteq Nat
      /\ \A n \in DOMAIN segs : /\ segs'[n].linked
                                /\ segs'[n].synced = segs[n].synced
                                /\ segs'[n].lines = segs[n].lines
  <2>1. DOMAIN segs \subseteq Nat /\ \A n \in DOMAIN segs : segs[n] \in File
    BY <1>1, RecordParts, FileFacts
  <2>2. segs' = [n \in DOMAIN segs |-> [segs[n] EXCEPT !.linked = TRUE]]
    BY DEF Acknowledge
  <2>. QED BY <2>1, <2>2 DEF File
<1>3. LinkedFirst'
  BY <1>2 DEF LinkedFirst
<1>4. ASSUME NEW f \in DurableFrames', f \notin DurableFrames,
             NEW g \in DurableFrames
      PROVE  g < f
  <2>1. PICK n, i : OnDisk(n, i)' /\ segs'[n].lines[i].frame = f
    BY DurableIsNext
  <2>2. PICK m, j : OnDisk(m, j) /\ segs[m].lines[j].frame = g
    BY DurableIs
  <2>3. OnDisk(m, j)' /\ segs'[m].lines[j] = segs[m].lines[j]
    BY <1>1, <2>2, DiskKept
  <2>4. n \in DOMAIN segs /\ m \in DOMAIN segs /\ segs[m].linked
    BY <1>2, <2>1, <2>2 DEF OnDisk
  <2>5. ~OnDisk(n, i)
    BY <1>2, <1>4, <2>1, <2>4, DurableIs
  <2>6. ~segs[n].linked
    BY <1>2, <2>1, <2>4, <2>5 DEF OnDisk
  <2>7. m < n
    <3>1. m # n /\ ~(n < m)
      BY <1>1, <2>4, <2>6 DEF LinkedFirst
    <3>. QED BY <1>2, <2>4, <3>1
  <2>8. segs'[m].lines[j].frame < segs'[n].lines[i].frame
    BY <2>1, <2>3, <2>7, DiskOrderNext DEF DiskInOrder
  <2>. QED BY <2>1, <2>2, <2>3, <2>8
<1>. QED BY <1>3, <1>4

\* The receipts of a batch are of all its frames, which are the latest.
LEMMA BatchFrames ==
  ASSUME RecordInv, pc = "link"
  PROVE  /\ sent - Len(batch) + 1 \in 1..sent
         /\ {r.frame : r \in ReceiptsOf(batch)}
              = (sent - Len(batch) + 1)..sent
         /\ \A f \in (sent - Len(batch) + 1)..sent :
              \E i \in 1..segs[handle].synced :
                segs[handle].lines[i].frame = f /\ segs[handle].lines[i].whole
<1>. DEFINE b == sent - Len(batch)
            frame(i) == batch[i].frame
<1>1. /\ NextFrames(batch, b) /\ Len(batch) <= sent /\ sent \in Nat
      /\ batch \in Seq(Line)
      /\ \A i \in 1..Len(batch) :
           HasFrame(segs[handle].lines, segs[handle].synced, batch[i].frame)
  BY RecordParts DEF Queue, Appending, BatchInv
<1>2. /\ Len(batch) \in Nat /\ Len(batch) >= 1 /\ DOMAIN batch = 1..Len(batch)
      /\ \A i \in 1..Len(batch) : batch[i].frame = b + i
  BY <1>1 DEF NextFrames
<1>3. b \in Nat /\ b + Len(batch) = sent
  BY <1>1, <1>2
<1>. HIDE DEF b
<1>4. \A f \in (b + 1)..sent : f - b \in 1..Len(batch) /\ b + (f - b) = f
  BY <1>2, <1>3, <1>1
<1>5. \A i \in 1..Len(batch) : b + i \in (b + 1)..sent
  BY <1>1, <1>2, <1>3
<1>6. b + 1 \in 1..sent
  BY <1>1, <1>2, <1>3
<1>7. \A r \in ReceiptsOf(batch) : \E i \in 1..Len(batch) : r.frame = batch[i].frame
  BY <1>2 DEF ReceiptsOf
<1>8. ASSUME NEW i \in 1..Len(batch)
      PROVE  \E r \in ReceiptsOf(batch) : r.frame = batch[i].frame
  <2>. DEFINE first == Len(segs[handle].lines) - Len(batch)
              receipt(k) ==
                [segment |-> handle, frame |-> batch[k].frame,
                 offset |-> Offset(segs[handle].lines, first + k),
                 next |-> Offset(segs[handle].lines, first + k + 1)]
  <2>1. ReceiptsOf(batch) = {receipt(k) : k \in DOMAIN batch}
    BY DEF ReceiptsOf
  <2>2. receipt(i) \in ReceiptsOf(batch)
    BY <1>2, <2>1
  <2>3. receipt(i).frame = batch[i].frame
    OBVIOUS
  <2>. QED BY <2>2, <2>3
<1>9. \A f : f \in {r.frame : r \in ReceiptsOf(batch)} <=> f \in (b + 1)..sent
  <2>1. ASSUME NEW r \in ReceiptsOf(batch) PROVE r.frame \in (b + 1)..sent
    BY <1>2, <1>5, <1>7
  <2>2. ASSUME NEW f \in (b + 1)..sent
        PROVE  \E r \in ReceiptsOf(batch) : r.frame = f
    BY <1>2, <1>4, <1>8, <2>2
  <2>. QED BY <2>1, <2>2
<1>10. ASSUME NEW f \in (b + 1)..sent
       PROVE  \E i \in 1..segs[handle].synced :
                segs[handle].lines[i].frame = f /\ segs[handle].lines[i].whole
  BY <1>1, <1>2, <1>4, <1>10 DEF HasFrame
<1>. QED BY <1>6, <1>9, <1>10 DEF b

LEMMA ReceivedNext ==
  ASSUME RecordInv'
  PROVE  DurableFrames' \subseteq 1..sent'
BY DiskOrderNext, DurableIsNext DEF DiskInOrder

LEMMA LogSubmit ==
  ASSUME LogInv, NEW lines \in Batches, Submit(lines), Unseen
  PROVE  Log!Receive
<1>1. sent \in Nat
  BY RecordParts DEF LogInv
<1>2. Len(lines) \in Nat /\ Len(lines) >= 1
  BY <1>1, BatchesAreNext DEF NextFrames
<1>3. sent' = sent + Len(lines)
  BY DEF Submit
<1>4. sent' \in Nat /\ sent < sent'
  BY <1>1, <1>2, <1>3
<1>. QED BY <1>4 DEF Log!Receive, Unseen

LEMMA LogSync ==
  ASSUME LogInv, SyncFile, RecordInv', SegsKept
  PROVE  LinkedFirst' /\ Log!Store
<1>1. RecordInv /\ Files /\ Files'
  BY RecordParts DEF LogInv, RecordInv, SpoolInv
<1>2. LinkedFirst' /\ \A f \in DurableFrames' \ DurableFrames :
                         \A g \in DurableFrames : g < f
  BY <1>1, SyncJoins
<1>3. sent' = sent /\ receipts' = receipts
  BY DEF SyncFile
<1>4. DurableFrames' \subseteq 1..sent /\ DurableFrames \subseteq DurableFrames'
  BY <1>1, <1>3, ReceivedNext, DiskKept
<1>5. Log!Joins(DurableFrames')
  BY <1>2, <1>4 DEF Log!Joins
<1>. QED BY <1>2, <1>3, <1>4, <1>5 DEF Log!Store

LEMMA LogAcknowledge ==
  ASSUME LogInv, Acknowledge, RecordInv', SegsKept
  PROVE  LinkedFirst' /\ Log!Acknowledge
<1>. DEFINE first == sent - Len(batch) + 1
            D     == DurableFrames'
<1>1. RecordInv /\ Files /\ Files' /\ pc = "link"
  BY RecordParts DEF LogInv, RecordInv, SpoolInv, Acknowledge
<1>2. LinkedFirst' /\ \A f \in DurableFrames' \ DurableFrames :
                         \A g \in DurableFrames : g < f
  BY <1>1, LinkJoins
<1>3. sent' = sent /\ receipts' = receipts \cup ReceiptsOf(batch)
  BY DEF Acknowledge
<1>4. DurableFrames' \subseteq 1..sent /\ DurableFrames \subseteq DurableFrames'
  BY <1>1, <1>3, ReceivedNext, DiskKept
<1>5. first \in 1..sent /\ {r.frame : r \in ReceiptsOf(batch)} = first..sent
  BY <1>1, BatchFrames
<1>6. first..sent \subseteq DurableFrames'
  <2>. SUFFICES ASSUME NEW f \in first..sent PROVE f \in DurableFrames'
    OBVIOUS
  <2>1. PICK i \in 1..segs[handle].synced :
          segs[handle].lines[i].frame = f /\ segs[handle].lines[i].whole
    BY <1>1, BatchFrames
  <2>2. handle \in DOMAIN segs /\ segs[handle] \in File
    BY <1>1, RecordParts, FileFacts DEF BatchInv
  <2>3. /\ handle \in DOMAIN segs' /\ segs'[handle].linked
        /\ segs'[handle].synced = segs[handle].synced
        /\ segs'[handle].lines = segs[handle].lines
    <3>1. segs' = [n \in DOMAIN segs |-> [segs[n] EXCEPT !.linked = TRUE]]
      BY DEF Acknowledge
    <3>. QED BY <2>2, <3>1 DEF File
  <2>. PICK n : n = handle
    OBVIOUS
  <2>4. n \in DOMAIN segs' /\ segs'[n].linked /\ i \in 1..segs'[n].synced
        /\ segs'[n].lines[i].whole /\ segs'[n].lines[i].frame = f
    BY <2>1, <2>3
  <2>5. OnDisk(n, i)'
    BY <2>4 DEF OnDisk
  <2>. QED BY <2>4, <2>5, DurableIsNext
<1>7. {r.frame : r \in receipts'}
        = {r.frame : r \in receipts} \cup {r.frame : r \in ReceiptsOf(batch)}
  BY <1>3
<1>. HIDE DEF first
<1>8. {r.frame : r \in receipts'} = {r.frame : r \in receipts} \cup (first..sent)
  BY <1>5, <1>7
<1>9. Log!Joins(DurableFrames')
  BY <1>2, <1>4 DEF Log!Joins
<1>10. \E frames \in SUBSET (1..sent) :
         first..sent \subseteq frames /\ Log!Joins(frames)
  BY <1>4, <1>6, <1>9
<1>11. Log!Acknowledge
  BY <1>3, <1>5, <1>8, <1>10 DEF Log!Acknowledge
<1>. QED BY <1>2, <1>11

LEMMA LogStep ==
  ASSUME LogInv, [Next]_vars
  PROVE  LogInv' /\ [Log!Next]_(Log!vars)
<1>1. RecordInv /\ Files /\ SpoolInv
  BY RecordParts DEF LogInv
<1>2. RecordInv' /\ SegsKept /\ Files'
  BY <1>1, RecordStep, SpoolStep DEF SpoolInv
<1>3. ASSUME Unseen, sent' = sent
      PROVE  LogInv' /\ [Log!Next]_(Log!vars)
  <2>1. UNCHANGED Log!vars
    BY <1>3 DEF Unseen, Log!vars
  <2>. QED BY <1>2, <1>3, <2>1 DEF Unseen, LogInv
<1>4. ASSUME FilesStay, receipts' = receipts
      PROVE  Unseen
  BY <1>2, <1>4, StepUnseen
<1>5. CASE StartWriter \/ WriteLines \/ UNCHANGED vars
  <2>1. segs' = segs /\ receipts' = receipts /\ sent' = sent
    BY <1>5 DEF StartWriter, WriteLines, vars
  <2>. QED BY <1>3, <1>4, <2>1, SameFilesStay
<1>6. CASE \E lines \in Batches : Submit(lines)
  <2>1. PICK lines \in Batches : Submit(lines)
    BY <1>6
  <2>2. segs' = segs /\ receipts' = receipts
    BY <2>1 DEF Submit
  <2>3. Unseen
    BY <1>4, <2>2, SameFilesStay
  <2>4. Log!Receive
    BY <2>1, <2>3, LogSubmit
  <2>. QED BY <1>2, <2>3, <2>4 DEF Unseen, LogInv, Log!Next
<1>7. CASE OpenSegment
  <2>1. sent' = sent
    BY <1>7 DEF OpenSegment
  <2>. QED BY <1>2, <1>3, <1>7, <2>1, OpenUnseen
<1>8. CASE FlushBuffer
  <2>1. /\ segs' = [segs EXCEPT ![handle].lines =
                      Extended(segs[handle].lines, buffer)]
        /\ receipts' = receipts /\ sent' = sent
    BY <1>8 DEF FlushBuffer
  <2>2. FilesStay
    BY <1>1, <2>1, OtherLines
  <2>. QED BY <1>3, <1>4, <2>1, <2>2
<1>9. CASE SyncFile
  BY <1>2, <1>9, LogSync DEF LogInv, Log!Next
<1>10. CASE Acknowledge
  BY <1>2, <1>10, LogAcknowledge DEF LogInv, Log!Next
<1>11. CASE AppendFails
  <2>1. receipts' = receipts /\ sent' = sent
    BY <1>11 DEF AppendFails
  <2>. QED BY <1>1, <1>3, <1>4, <1>11, <2>1, FailsStay
<1>12. CASE CloseWriter \/ ProcessCrash
  <2>1. receipts' = receipts /\ sent' = sent
    BY <1>12 DEF CloseWriter, ProcessCrash
  <2>. QED BY <1>1, <1>3, <1>4, <1>12, <2>1, GoneStay
<1>13. CASE PowerLoss
  <2>1. receipts' = receipts /\ sent' = sent
    BY <1>13 DEF PowerLoss
  <2>. QED BY <1>1, <1>3, <1>4, <1>13, <2>1, LossStays
<1>. QED BY <1>5, <1>6, <1>7, <1>8, <1>9, <1>10, <1>11, <1>12, <1>13 DEF Next

LEMMA LogStart == Init => LogInv /\ Log!Init
<1>. SUFFICES ASSUME Init PROVE LogInv /\ Log!Init
  OBVIOUS
<1>1. segs = <<>> /\ receipts = {} /\ sent = 0
  BY DEF Init
<1>2. DOMAIN segs = {}
  BY <1>1
<1>3. LogInv
  BY <1>2, RecordInit DEF LogInv, LinkedFirst
<1>4. DurableFrames = {}
  BY <1>2, DurableIs DEF OnDisk
<1>. QED BY <1>1, <1>3, <1>4 DEF Log!Init

\* The writer and its files, with every failure, kill, restart and loss of
\* power, implement FrameLog: frames become durable in the order in which
\* append_batch got them and stay so, and a batch is acknowledged as a whole
\* once all its frames are durable.
THEOREM RefinesFrameLog == Spec => LogSpec
BY LogStart, LogStep, PTL DEF Spec, LogSpec, Log!Spec
=============================================================================
