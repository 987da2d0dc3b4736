------------------------ MODULE CollectorBatch_proofs ------------------------
(***************************************************************************)
(* What is committed and what is counted, for every number of events,      *)
(* hours, batches and worker processes: an event of the events table has   *)
(* its line on the disk, the saved checkpoint never counts more events     *)
(* than the table holds, a worker that may write knows of the tails on its *)
(* tapes, and a day sealed as collected is exact, through kills and power  *)
(* losses at any step.                                                     *)
(***************************************************************************)
EXTENDS CollectorBatch, SequenceTheorems, FiniteSetTheorems, TLAPS

Lines == [key : Keys, form : Forms]
Tape == [lines : Seq(Lines), synced : Nat, linked : BOOLEAN]
GoodTape(tape) == tape \in Tape /\ tape.synced <= Len(tape.lines)

\* A line of the event among the first n that can be told from a torn one.
HasKey(lines, n, key) ==
  \E i \in 1..n : lines[i].key = key /\ lines[i].form # "torn"

\* What a step may not do to a tape: shorten or change its synced part.
Keeps(old, new) ==
  /\ old.linked => new.linked
  /\ old.synced <= new.synced
  /\ \A i \in 1..old.synced : new.lines[i] = old.lines[i]

\* Hours whose directories are on the disk or will be at the end of the batch.
Placed(h) == tapes[h].linked \/ h \in unlinked

SyncedLine(h, key) == HasKey(tapes[h].lines, tapes[h].synced, key)
OnDisk(key) == \E h \in DOMAIN tapes : tapes[h].linked /\ SyncedLine(h, key)
Safe(key) == \E h \in DOMAIN tapes : Placed(h) /\ SyncedLine(h, key)
Buffered(key) == \E i \in 1..Len(buffer) : buffer[i].key = key

Tapes ==
  /\ DOMAIN tapes \subseteq 1..Hours
  /\ \A h \in DOMAIN tapes : GoodTape(tapes[h])

\* The open handle: its tape exists, its directory will be synced, and it
\* holds whole lines of the current batch only.
Handle ==
  /\ hour \in 1..Hours /\ unlinked \subseteq 1..Hours
  /\ opened \in BOOLEAN
  /\ opened => hour \in DOMAIN tapes /\ Placed(hour)
  /\ buffer \in Seq(Lines)
  /\ \A i \in 1..Len(buffer) : buffer[i].form = "whole"
  /\ ~opened \/ pc # "frames" => buffer = <<>>

\* Where the lines of the open transaction are at each step of a batch.
Transaction ==
  /\ txn \subseteq Keys
  /\ pc = "frames" => \A key \in txn : Buffered(key) \/ Safe(key)
  /\ pc = "synced" => \A key \in txn : Safe(key)
  /\ pc = "linked" => \A key \in txn : OnDisk(key)
  /\ pc \notin {"frames", "synced", "linked"} => txn = {}

Committed == db \subseteq Keys /\ \A key \in db : OnDisk(key)

TapeInv == Tapes /\ Handle /\ Transaction /\ Committed

-----------------------------------------------------------------------------
(* Lines behind other lines.                                                *)

LEMMA LineFacts ==
  ASSUME NEW line \in Lines
  PROVE  /\ Torn(line) \in Lines /\ Glued(line) \in Lines
         /\ Glued(line).key = line.key
         /\ line.form = "whole" => Glued(line).form # "torn"
BY DEF Lines, Forms, Torn, Glued

\* Appending keeps what is there and adds every line, readable or glued.
LEMMA AppendedFacts ==
  ASSUME NEW lines \in Seq(Lines), NEW more \in Seq(Lines)
  PROVE  /\ Appended(lines, more) \in Seq(Lines)
         /\ Len(Appended(lines, more)) = Len(lines) + Len(more)
         /\ \A i \in 1..Len(lines) : Appended(lines, more)[i] = lines[i]
         /\ \A k \in 1..Len(more) :
              /\ Appended(lines, more)[Len(lines) + k].key = more[k].key
              /\ more[k].form = "whole" =>
                   Appended(lines, more)[Len(lines) + k].form # "torn"
<1>1. Len(lines) \in Nat /\ Len(more) \in Nat
  OBVIOUS
<1>2. \A k \in 1..Len(more) : more[k] \in Lines
  BY ElementOfSeq
<1>3. CASE ~(more # <<>> /\ lines # <<>> /\ Last(lines).form = "torn")
  <2>1. Appended(lines, more) = lines \o more
    BY <1>3 DEF Appended
  <2>2. /\ lines \o more \in Seq(Lines)
        /\ Len(lines \o more) = Len(lines) + Len(more)
        /\ \A i \in 1..Len(lines) : (lines \o more)[i] = lines[i]
        /\ \A k \in 1..Len(more) : (lines \o more)[Len(lines) + k] = more[k]
    BY <1>1
  <2>3. \A k \in 1..Len(more) : more[k].form = "whole" => more[k].form # "torn"
    OBVIOUS
  <2>. QED BY <2>1, <2>2, <2>3
<1>4. CASE more # <<>> /\ lines # <<>> /\ Last(lines).form = "torn"
  <2>. DEFINE head == <<Glued(more[1])>>
              tail == Tail(more)
              front == lines \o head
              both == front \o tail
  <2>1. Appended(lines, more) = both
    BY <1>4 DEF Appended
  <2>2. Len(more) >= 1
    BY <1>1, <1>4, EmptySeq
  <2>3. /\ Glued(more[1]) \in Lines /\ Glued(more[1]).key = more[1].key
        /\ more[1].form = "whole" => Glued(more[1]).form # "torn"
    BY <1>1, <1>2, <2>2, LineFacts
  <2>4. /\ head \in Seq(Lines) /\ Len(head) = 1 /\ head[1] = Glued(more[1])
    BY <2>3
  <2>5. /\ tail \in Seq(Lines) /\ Len(tail) = Len(more) - 1
        /\ \A i \in 1..(Len(more) - 1) : tail[i] = more[i + 1]
    BY <1>4, HeadTailProperties
  <2>. HIDE DEF head, tail
  <2>6. /\ front \in Seq(Lines) /\ Len(front) = Len(lines) + 1
        /\ \A i \in 1..Len(lines) : front[i] = lines[i]
        /\ front[Len(lines) + 1] = head[1]
    <3>1. /\ lines \o head \in Seq(Lines)
          /\ Len(lines \o head) = Len(lines) + Len(head)
          /\ \A i \in 1..(Len(lines) + Len(head)) : (lines \o head)[i] =
               IF i <= Len(lines) THEN lines[i] ELSE head[i - Len(lines)]
      BY <2>4, ConcatProperties
    <3>. DEFINE both2 == lines \o head
    <3>. HIDE DEF both2
    <3>2. /\ both2 \in Seq(Lines) /\ Len(both2) = Len(lines) + 1
          /\ \A i \in 1..(Len(lines) + 1) : both2[i] =
               IF i <= Len(lines) THEN lines[i] ELSE head[i - Len(lines)]
      BY <3>1, <2>4 DEF both2
    <3>3. /\ \A i \in 1..Len(lines) : both2[i] = lines[i]
          /\ both2[Len(lines) + 1] = head[1]
      BY <3>2, <1>1
    <3>. QED BY <3>2, <3>3 DEF both2
  <2>. HIDE DEF front
  <2>7. /\ both \in Seq(Lines) /\ Len(both) = Len(lines) + Len(more)
        /\ \A i \in 1..(Len(lines) + 1) : both[i] = front[i]
        /\ \A j \in 1..(Len(more) - 1) : both[Len(lines) + 1 + j] = tail[j]
    <3>1. /\ front \o tail \in Seq(Lines)
          /\ Len(front \o tail) = Len(front) + Len(tail)
          /\ \A i \in 1..(Len(front) + Len(tail)) : (front \o tail)[i] =
               IF i <= Len(front) THEN front[i] ELSE tail[i - Len(front)]
      BY <2>5, <2>6, ConcatProperties
    <3>. HIDE DEF both
    <3>2. /\ both \in Seq(Lines) /\ Len(both) = Len(lines) + Len(more)
          /\ \A i \in 1..(Len(lines) + Len(more)) : both[i] =
               IF i <= Len(lines) + 1 THEN front[i]
               ELSE tail[i - (Len(lines) + 1)]
      BY <3>1, <2>5, <2>6, <1>1, <2>2 DEF both
    <3>3. \A i \in 1..(Len(lines) + 1) : both[i] = front[i]
      BY <3>2, <1>1, <2>2
    <3>4. ASSUME NEW j \in 1..(Len(more) - 1)
          PROVE  both[Len(lines) + 1 + j] = tail[j]
      <4>1. /\ Len(lines) + 1 + j \in 1..(Len(lines) + Len(more))
            /\ ~(Len(lines) + 1 + j <= Len(lines) + 1)
            /\ (Len(lines) + 1 + j) - (Len(lines) + 1) = j
        BY <1>1, <2>2
      <4>. QED BY <4>1, <3>2
    <3>. QED BY <3>2, <3>3, <3>4
  <2>. HIDE DEF both
  <2>8. \A i \in 1..Len(lines) : both[i] = lines[i]
    BY <1>1, <2>6, <2>7
  <2>9. ASSUME NEW k \in 1..Len(more)
        PROVE  /\ both[Len(lines) + k].key = more[k].key
               /\ more[k].form = "whole" => both[Len(lines) + k].form # "torn"
    <3>1. CASE k = 1
      <4>1. both[Len(lines) + 1] = Glued(more[1])
        BY <1>1, <2>4, <2>6, <2>7
      <4>. QED BY <3>1, <4>1, <2>3
    <3>2. CASE k # 1
      <4>1. k - 1 \in 1..(Len(more) - 1) /\ Len(lines) + 1 + (k - 1) = Len(lines) + k
            /\ (k - 1) + 1 = k
        BY <1>1, <3>2
      <4>2. both[Len(lines) + k] = more[k]
        BY <4>1, <2>5, <2>7
      <4>. QED BY <4>2
    <3>. QED BY <3>1, <3>2
  <2>. QED BY <2>1, <2>7, <2>8, <2>9
<1>. QED BY <1>3, <1>4

\* A part of the lines, and a torn line, are lines.
LEMMA PartTypes ==
  ASSUME NEW lines \in Seq(Lines), NEW n \in 0..Len(lines)
  PROVE  /\ SubSeq(lines, 1, n) \in Seq(Lines)
         /\ Len(SubSeq(lines, 1, n)) = n
         /\ \A i \in 1..n : SubSeq(lines, 1, n)[i] = lines[i]
         /\ n < Len(lines) =>
              Append(SubSeq(lines, 1, n), Torn(lines[n + 1])) \in Seq(Lines)
<1>1. n \in Nat /\ \A i \in 1..n : lines[i] \in Lines
  BY ElementOfSeq
<1>2. /\ SubSeq(lines, 1, n) \in Seq(Lines)
      /\ Len(SubSeq(lines, 1, n)) = IF 1 <= n THEN n - 1 + 1 ELSE 0
      /\ \A i \in 1..(n - 1 + 1) : SubSeq(lines, 1, n)[i] = lines[1 + i - 1]
  BY <1>1, SubSeqProperties
<1>. DEFINE part == SubSeq(lines, 1, n)
<1>. HIDE DEF part
<1>3. part \in Seq(Lines) /\ Len(part) = n /\ \A i \in 1..n : part[i] = lines[i]
  BY <1>1, <1>2 DEF part
<1>4. ASSUME n < Len(lines) PROVE Append(part, Torn(lines[n + 1])) \in Seq(Lines)
  <2>1. n + 1 \in 1..Len(lines)
    BY <1>4, <1>1
  <2>2. Torn(lines[n + 1]) \in Lines
    BY <2>1, ElementOfSeq, LineFacts
  <2>. QED BY <1>3, <2>2
<1>. QED BY <1>3, <1>4 DEF part

\* However an append is interrupted, what was there stays.
LEMMA InterruptedFacts ==
  ASSUME NEW before \in Seq(Lines), NEW more \in Seq(Lines),
         NEW lines \in Interrupted(before, more)
  PROVE  /\ lines \in Seq(Lines) /\ Len(before) <= Len(lines)
         /\ \A i \in 1..Len(before) : lines[i] = before[i]
<1>1. PICK part \in Seq(Lines) : lines = Appended(before, part)
  <2>1. CASE \E n \in 0..Len(more) : lines = Appended(before, SubSeq(more, 1, n))
    BY <2>1, PartTypes
  <2>2. CASE \E n \in 0..(Len(more) - 1) : lines =
               Appended(before, Append(SubSeq(more, 1, n), Torn(more[n + 1])))
    <3>1. PICK n \in 0..(Len(more) - 1) : lines =
               Appended(before, Append(SubSeq(more, 1, n), Torn(more[n + 1])))
      BY <2>2
    <3>2. Len(more) \in Nat /\ n \in 0..Len(more) /\ n < Len(more)
      OBVIOUS
    <3>3. Append(SubSeq(more, 1, n), Torn(more[n + 1])) \in Seq(Lines)
      BY <3>2, PartTypes
    <3>. QED BY <3>1, <3>3
  <2>. QED BY <2>1, <2>2 DEF Interrupted
<1>. DEFINE after == Appended(before, part)
<1>2. /\ after \in Seq(Lines) /\ Len(after) = Len(before) + Len(part)
      /\ \A i \in 1..Len(before) : after[i] = before[i]
  BY AppendedFacts
<1>. HIDE DEF after
<1>3. Len(before) \in Nat /\ Len(part) \in Nat
  OBVIOUS
<1>4. Len(before) <= Len(after)
  BY <1>2, <1>3
<1>5. lines = after
  BY <1>1 DEF after
<1>. QED BY <1>2, <1>4, <1>5

-----------------------------------------------------------------------------
(* What a step leaves of the tapes.                                         *)

\* A step, a crash included, keeps the tapes that have a directory entry.
LinkedKept ==
  \A h \in DOMAIN tapes :
    tapes[h].linked => h \in DOMAIN tapes' /\ Keeps(tapes[h], tapes'[h])

\* A step of the worker keeps every tape.
AllKept ==
  \A h \in DOMAIN tapes :
    /\ h \in DOMAIN tapes' /\ Keeps(tapes[h], tapes'[h])
    /\ Placed(h) => Placed(h)'

\* A step that gives no tape a synced line or a directory entry.
LinkedSteady ==
  \A h \in DOMAIN tapes' :
    tapes'[h].linked =>
      h \in DOMAIN tapes /\ tapes[h].linked /\ Keeps(tapes'[h], tapes[h])

LEMMA KeptLine ==
  ASSUME NEW old, NEW new, GoodTape(old), GoodTape(new), Keeps(old, new),
         NEW key, HasKey(old.lines, old.synced, key)
  PROVE  HasKey(new.lines, new.synced, key)
<1>1. PICK i \in 1..old.synced :
        old.lines[i].key = key /\ old.lines[i].form # "torn"
  BY DEF HasKey
<1>2. old.synced \in Nat /\ new.synced \in Nat /\ old.synced <= new.synced
  BY DEF GoodTape, Tape, Keeps
<1>3. i \in 1..new.synced /\ new.lines[i] = old.lines[i]
  BY <1>2 DEF Keeps
<1>. QED BY <1>1, <1>3 DEF HasKey

LEMMA LinkedStay ==
  ASSUME Tapes, Tapes', LinkedKept, NEW key, OnDisk(key)
  PROVE  OnDisk(key)'
<1>1. PICK h \in DOMAIN tapes : tapes[h].linked /\ SyncedLine(h, key)
  BY DEF OnDisk
<1>2. /\ h \in DOMAIN tapes' /\ Keeps(tapes[h], tapes'[h])
      /\ GoodTape(tapes[h]) /\ GoodTape(tapes'[h])
  BY <1>1 DEF LinkedKept, Tapes
<1>3. tapes'[h].linked
  BY <1>1, <1>2 DEF Keeps
<1>4. HasKey(tapes'[h].lines, tapes'[h].synced, key)
  BY <1>1, <1>2, KeptLine DEF SyncedLine
<1>. QED BY <1>2, <1>3, <1>4 DEF OnDisk, SyncedLine

LEMMA NothingAdded ==
  ASSUME Tapes, Tapes', LinkedSteady, NEW key, OnDisk(key)'
  PROVE  OnDisk(key)
<1>1. PICK h \in DOMAIN tapes' :
        tapes'[h].linked /\ HasKey(tapes'[h].lines, tapes'[h].synced, key)
  BY DEF OnDisk, SyncedLine
<1>2. /\ h \in DOMAIN tapes /\ tapes[h].linked /\ Keeps(tapes'[h], tapes[h])
      /\ GoodTape(tapes[h]) /\ GoodTape(tapes'[h])
  BY <1>1 DEF LinkedSteady, Tapes
<1>3. HasKey(tapes[h].lines, tapes[h].synced, key)
  BY <1>1, <1>2, KeptLine
<1>. QED BY <1>2, <1>3 DEF OnDisk, SyncedLine

LEMMA SafeStay ==
  ASSUME Tapes, Tapes', AllKept, NEW key, Safe(key)
  PROVE  Safe(key)'
<1>1. PICK h \in DOMAIN tapes : Placed(h) /\ SyncedLine(h, key)
  BY DEF Safe
<1>2. /\ h \in DOMAIN tapes' /\ Keeps(tapes[h], tapes'[h])
      /\ GoodTape(tapes[h]) /\ GoodTape(tapes'[h])
      /\ Placed(h)'
  BY <1>1 DEF AllKept, Tapes
<1>4. HasKey(tapes'[h].lines, tapes'[h].synced, key)
  BY <1>1, <1>2, KeptLine DEF SyncedLine
<1>. QED BY <1>2, <1>4 DEF Safe, SyncedLine

LEMMA AllKeptLinked == ASSUME AllKept PROVE LinkedKept
BY DEF AllKept, LinkedKept

LEMMA KeepsItself == ASSUME NEW tape, GoodTape(tape) PROVE Keeps(tape, tape)
BY DEF Keeps, GoodTape, Tape

LEMMA SameTapes ==
  ASSUME Tapes, tapes' = tapes, unlinked \subseteq unlinked'
  PROVE  Tapes' /\ AllKept /\ LinkedKept
<1>1. Tapes'
  BY DEF Tapes, GoodTape
<1>2. AllKept
  <2>. SUFFICES ASSUME NEW h \in DOMAIN tapes
                PROVE  /\ h \in DOMAIN tapes' /\ Keeps(tapes[h], tapes'[h])
                       /\ Placed(h) => Placed(h)'
    BY DEF AllKept
  <2>1. Keeps(tapes[h], tapes'[h])
    BY KeepsItself DEF Tapes
  <2>2. Placed(h) => Placed(h)'
    BY DEF Placed
  <2>. QED BY <2>1, <2>2
<1>. QED BY <1>1, <1>2, AllKeptLinked

\* Flushing and syncing a handle puts each of its lines on the synced part.
LEMMA SyncedFacts ==
  ASSUME NEW tape, GoodTape(tape), NEW more \in Seq(Lines),
         \A k \in 1..Len(more) : more[k].form = "whole",
         NEW new, new = Synced(Flushed(tape, more))
  PROVE  /\ GoodTape(new) /\ Keeps(tape, new) /\ new.linked = tape.linked
         /\ \A k \in 1..Len(more) : HasKey(new.lines, new.synced, more[k].key)
<1>. DEFINE after == Appended(tape.lines, more)
<1>1. tape \in Tape /\ tape.lines \in Seq(Lines) /\ tape.synced \in Nat
      /\ tape.synced <= Len(tape.lines)
  BY DEF GoodTape, Tape
<1>2. /\ after \in Seq(Lines) /\ Len(after) = Len(tape.lines) + Len(more)
      /\ \A i \in 1..Len(tape.lines) : after[i] = tape.lines[i]
      /\ \A k \in 1..Len(more) :
           /\ after[Len(tape.lines) + k].key = more[k].key
           /\ more[k].form = "whole" => after[Len(tape.lines) + k].form # "torn"
  BY <1>1, AppendedFacts
<1>3. new = [tape EXCEPT !.lines = after, !.synced = Len(after)]
  BY <1>1 DEF Synced, Flushed, Tape
<1>. HIDE DEF after
<1>4. Len(after) \in Nat /\ Len(more) \in Nat /\ Len(tape.lines) \in Nat
  BY <1>1, <1>2
<1>5. /\ new \in Tape /\ new.lines = after /\ new.synced = Len(after)
      /\ new.linked = tape.linked
  BY <1>1, <1>2, <1>3, <1>4 DEF Tape
<1>6. Keeps(tape, new)
  BY <1>1, <1>2, <1>4, <1>5 DEF Keeps
<1>7. ASSUME NEW k \in 1..Len(more)
      PROVE  HasKey(new.lines, new.synced, more[k].key)
  <2>1. Len(tape.lines) + k \in 1..Len(after)
    BY <1>2, <1>4
  <2>2. /\ after[Len(tape.lines) + k].key = more[k].key
        /\ after[Len(tape.lines) + k].form # "torn"
    BY <1>2
  <2>. QED BY <2>1, <2>2, <1>5 DEF HasKey
<1>. QED BY <1>4, <1>5, <1>6, <1>7 DEF GoodTape

\* The open handle is flushed and synced, at the end of a batch or of an hour.
LEMMA SyncStep ==
  ASSUME Tapes, Handle, unlinked' = unlinked,
         tapes' = IF opened
                  THEN [tapes EXCEPT ![hour] = Synced(Flushed(@, buffer))]
                  ELSE tapes
  PROVE  /\ Tapes' /\ AllKept /\ LinkedKept
         /\ \A key \in Keys : Buffered(key) \/ Safe(key) => Safe(key)'
<1>1. CASE ~opened
  <2>1. Tapes' /\ AllKept /\ LinkedKept
    BY <1>1, SameTapes
  <2>2. \A key \in Keys : ~Buffered(key)
    BY <1>1 DEF Handle, Buffered
  <2>3. ASSUME NEW key \in Keys, Safe(key) PROVE Safe(key)'
    BY <2>1, <2>3, SafeStay
  <2>. QED BY <2>1, <2>2, <2>3
<1>2. CASE opened
  <2>. DEFINE new == Synced(Flushed(tapes[hour], buffer))
  <2>1. hour \in DOMAIN tapes /\ Placed(hour) /\ GoodTape(tapes[hour])
    BY <1>2 DEF Handle, Tapes
  <2>2. /\ GoodTape(new) /\ Keeps(tapes[hour], new)
        /\ new.linked = tapes[hour].linked
        /\ \A k \in 1..Len(buffer) :
             HasKey(new.lines, new.synced, buffer[k].key)
    BY <2>1, SyncedFacts DEF Handle
  <2>. HIDE DEF new
  <2>3. tapes' = [tapes EXCEPT ![hour] = new]
    BY <1>2 DEF new
  <2>4. /\ DOMAIN tapes' = DOMAIN tapes /\ tapes'[hour] = new
        /\ \A h \in DOMAIN tapes : h # hour => tapes'[h] = tapes[h]
    BY <2>1, <2>3
  <2>5. Tapes'
    BY <2>2, <2>4 DEF Tapes
  <2>6. AllKept
    <3>. SUFFICES ASSUME NEW h \in DOMAIN tapes
                  PROVE  /\ h \in DOMAIN tapes' /\ Keeps(tapes[h], tapes'[h])
                         /\ Placed(h) => Placed(h)'
      BY DEF AllKept
    <3>1. CASE h = hour
      BY <3>1, <2>2, <2>4 DEF Placed
    <3>2. CASE h # hour
      BY <3>2, <2>4, KeepsItself DEF Placed, Tapes
    <3>. QED BY <3>1, <3>2
  <2>7. ASSUME NEW key \in Keys, Buffered(key) PROVE Safe(key)'
    <3>1. PICK k \in 1..Len(buffer) : buffer[k].key = key
      BY <2>7 DEF Buffered
    <3>2. HasKey(tapes'[hour].lines, tapes'[hour].synced, key)
      BY <3>1, <2>2, <2>4
    <3>3. tapes'[hour].linked \/ hour \in unlinked'
      BY <2>1, <2>2, <2>4 DEF Placed
    <3>. QED BY <2>1, <2>4, <3>2, <3>3 DEF Safe, SyncedLine, Placed
  <2>8. ASSUME NEW key \in Keys, Safe(key) PROVE Safe(key)'
    BY <2>5, <2>6, <2>8, SafeStay
  <2>. QED BY <2>5, <2>6, <2>7, <2>8, AllKeptLinked
<1>. QED BY <1>1, <1>2

\* A handle is opened on the tape of the hour, which is created if need be.
LEMMA OpenStep ==
  ASSUME Tapes, Handle,
         tapes' = IF opened THEN tapes ELSE WithTape,
         unlinked' = IF opened THEN unlinked ELSE unlinked \cup {hour}
  PROVE  /\ Tapes' /\ AllKept /\ LinkedKept
         /\ hour \in DOMAIN tapes'
         /\ tapes'[hour].linked \/ hour \in unlinked'
         /\ unlinked' \subseteq 1..Hours
<1>1. CASE opened
  <2>1. tapes' = tapes /\ unlinked' = unlinked
    BY <1>1
  <2>2. Tapes' /\ AllKept /\ LinkedKept
    BY <2>1, SameTapes
  <2>. QED BY <1>1, <2>1, <2>2 DEF Handle, Placed
<1>2. CASE ~opened
  <2>. DEFINE new == WithTape
  <2>1. tapes' = new /\ unlinked' = unlinked \cup {hour} /\ hour \in 1..Hours
        /\ unlinked \subseteq 1..Hours
    BY <1>2 DEF Handle
  <2>2. /\ DOMAIN new = DOMAIN tapes \cup {hour}
        /\ \A h \in DOMAIN tapes : new[h] = tapes[h]
        /\ hour \notin DOMAIN tapes => new[hour] = NewTape
    BY DEF WithTape
  <2>. HIDE DEF new
  <2>3. GoodTape(NewTape)
    BY DEF GoodTape, NewTape, Tape
  <2>4. \A h \in DOMAIN new : GoodTape(new[h])
    <3>. TAKE h \in DOMAIN new
    <3>1. CASE h \in DOMAIN tapes
      BY <3>1, <2>2 DEF Tapes
    <3>2. CASE h \notin DOMAIN tapes
      BY <3>2, <2>2, <2>3
    <3>. QED BY <3>1, <3>2
  <2>5. DOMAIN new \subseteq 1..Hours
    BY <2>1, <2>2 DEF Tapes
  <2>6. Tapes'
    BY <2>1, <2>4, <2>5 DEF Tapes
  <2>7. AllKept
    <3>. SUFFICES ASSUME NEW h \in DOMAIN tapes
                  PROVE  /\ h \in DOMAIN tapes' /\ Keeps(tapes[h], tapes'[h])
                         /\ Placed(h) => Placed(h)'
      BY DEF AllKept
    <3>1. h \in DOMAIN tapes' /\ tapes'[h] = tapes[h] /\ GoodTape(tapes[h])
      BY <2>1, <2>2 DEF Tapes
    <3>2. Keeps(tapes[h], tapes'[h])
      BY <3>1, KeepsItself
    <3>3. Placed(h) => Placed(h)'
      BY <3>1, <2>1 DEF Placed
    <3>. QED BY <3>1, <3>2, <3>3
  <2>. QED BY <2>1, <2>2, <2>6, <2>7, AllKeptLinked
<1>. QED BY <1>1, <1>2 DEF Handle

\* What a power loss can leave of a tape.
LEMMA SurvivorFacts ==
  ASSUME NEW tape, GoodTape(tape), NEW new \in Survivors(tape)
  PROVE  /\ GoodTape(new) /\ new.linked = tape.linked
         /\ Keeps(tape, new) /\ Keeps(new, tape)
<1>. DEFINE kept == SubSeq(tape.lines, 1, tape.synced)
            rest == SubSeq(tape.lines, tape.synced + 1, Len(tape.lines))
<1>1. tape \in Tape /\ tape.lines \in Seq(Lines) /\ tape.synced \in Nat
      /\ tape.synced <= Len(tape.lines)
  BY DEF GoodTape, Tape
<1>2. Len(tape.lines) \in Nat /\ tape.synced \in 0..Len(tape.lines)
  BY <1>1
<1>3. /\ kept \in Seq(Lines) /\ Len(kept) = tape.synced
      /\ \A i \in 1..tape.synced : kept[i] = tape.lines[i]
  BY <1>1, <1>2, PartTypes
<1>4. rest \in Seq(Lines)
  <2>1. \A i \in (tape.synced + 1)..Len(tape.lines) : tape.lines[i] \in Lines
    BY <1>1, <1>2, ElementOfSeq
  <2>2. tape.synced + 1 \in Int /\ Len(tape.lines) \in Int
    BY <1>2
  <2>. QED BY <2>1, <2>2, SubSeqProperties
<1>5. PICK lines \in Interrupted(kept, rest) : new = [tape EXCEPT !.lines = lines]
  BY DEF Survivors
<1>. HIDE DEF kept, rest
<1>6. /\ lines \in Seq(Lines) /\ tape.synced <= Len(lines)
      /\ \A i \in 1..tape.synced : lines[i] = tape.lines[i]
  BY <1>3, <1>4, InterruptedFacts
<1>7. /\ new \in Tape /\ new.lines = lines /\ new.synced = tape.synced
      /\ new.linked = tape.linked
  BY <1>1, <1>5, <1>6 DEF Tape
<1>. QED BY <1>1, <1>6, <1>7 DEF GoodTape, Keeps

\* A kill leaves any part of the buffer behind the open tape.
LEMMA KillStep ==
  ASSUME Tapes, Handle,
         IF opened
         THEN \E lines \in Interrupted(tapes[hour].lines, buffer) :
                tapes' = [tapes EXCEPT ![hour].lines = lines]
         ELSE UNCHANGED tapes
  PROVE  Tapes' /\ LinkedKept /\ LinkedSteady
<1>1. CASE ~opened
  <2>1. tapes' = tapes
    BY <1>1
  <2>2. Tapes'
    BY <2>1 DEF Tapes, GoodTape
  <2>3. LinkedKept /\ LinkedSteady
    BY <2>1, KeepsItself DEF LinkedKept, LinkedSteady, Tapes
  <2>. QED BY <2>2, <2>3
<1>2. CASE opened
  <2>1. /\ hour \in DOMAIN tapes /\ GoodTape(tapes[hour])
        /\ tapes[hour].lines \in Seq(Lines) /\ buffer \in Seq(Lines)
    BY <1>2 DEF Handle, Tapes, GoodTape, Tape
  <2>2. PICK lines \in Interrupted(tapes[hour].lines, buffer) :
          tapes' = [tapes EXCEPT ![hour].lines = lines]
    BY <1>2
  <2>3. /\ lines \in Seq(Lines) /\ Len(tapes[hour].lines) <= Len(lines)
        /\ \A i \in 1..Len(tapes[hour].lines) : lines[i] = tapes[hour].lines[i]
    BY <2>1, InterruptedFacts
  <2>. DEFINE new == [tapes[hour] EXCEPT !.lines = lines]
  <2>4. /\ DOMAIN tapes' = DOMAIN tapes /\ tapes'[hour] = new
        /\ \A h \in DOMAIN tapes : h # hour => tapes'[h] = tapes[h]
    BY <2>1, <2>2
  <2>5. /\ new \in Tape /\ new.lines = lines
        /\ new.synced = tapes[hour].synced /\ new.linked = tapes[hour].linked
        /\ tapes[hour].synced \in Nat
        /\ tapes[hour].synced <= Len(tapes[hour].lines)
    BY <2>1, <2>3 DEF GoodTape, Tape
  <2>. HIDE DEF new
  <2>6. Len(tapes[hour].lines) \in Nat /\ Len(lines) \in Nat
    BY <2>1, <2>3
  <2>7. GoodTape(new) /\ Keeps(tapes[hour], new) /\ Keeps(new, tapes[hour])
    BY <2>3, <2>5, <2>6 DEF GoodTape, Keeps
  <2>8. Tapes'
    BY <2>4, <2>7 DEF Tapes
  <2>9. LinkedKept /\ LinkedSteady
    <3>. SUFFICES ASSUME NEW h \in DOMAIN tapes
                  PROVE  /\ h \in DOMAIN tapes' /\ tapes'[h].linked = tapes[h].linked
                         /\ Keeps(tapes[h], tapes'[h])
                         /\ Keeps(tapes'[h], tapes[h])
      BY <2>4 DEF LinkedKept, LinkedSteady
    <3>1. CASE h = hour
      BY <3>1, <2>4, <2>5, <2>7
    <3>2. CASE h # hour
      BY <3>2, <2>4, KeepsItself DEF Tapes
    <3>. QED BY <3>1, <3>2
  <2>. QED BY <2>8, <2>9
<1>. QED BY <1>1, <1>2

\* A power loss keeps every file with a directory entry, up to what is synced.
LEMMA PowerStep ==
  ASSUME Tapes, PowerFails
  PROVE  Tapes' /\ LinkedKept /\ LinkedSteady
<1>1. PICK kept \in SUBSET DOMAIN tapes :
        /\ \A h \in DOMAIN tapes : tapes[h].linked => h \in kept
        /\ \E after \in [kept -> UNION {Survivors(tapes[h]) : h \in kept}] :
             /\ \A h \in kept : after[h] \in Survivors(tapes[h])
             /\ tapes' = after
  BY DEF PowerFails
<1>2. /\ DOMAIN tapes' = kept
      /\ \A h \in kept : tapes'[h] \in Survivors(tapes[h])
  BY <1>1
<1>3. \A h \in kept :
        /\ GoodTape(tapes'[h]) /\ tapes'[h].linked = tapes[h].linked
        /\ Keeps(tapes[h], tapes'[h]) /\ Keeps(tapes'[h], tapes[h])
  BY <1>2, SurvivorFacts DEF Tapes
<1>4. Tapes'
  BY <1>2, <1>3 DEF Tapes
<1>5. LinkedSteady
  BY <1>2, <1>3 DEF LinkedSteady
<1>. QED BY <1>1, <1>2, <1>3, <1>4, <1>5 DEF LinkedKept

-----------------------------------------------------------------------------
(* Every step keeps the invariant.                                          *)

LEMMA CommittedStay ==
  ASSUME Tapes, Tapes', LinkedKept, Committed, db' = db
  PROVE  Committed'
BY LinkedStay DEF Committed

\* The end of a process: whatever the tapes became, the transaction is gone.
LEMMA NoWorkerStep ==
  ASSUME TapeInv, Tapes', LinkedKept, NoWorker, pc' = "down",
         db' = db, hour' = hour
  PROVE  TapeInv'
<1>1. Handle'
  <2>1. opened' = FALSE /\ unlinked' = {} /\ buffer' = <<>>
    BY DEF NoWorker
  <2>2. <<>> \in Seq(Lines) /\ \A i \in 1..Len(<<>>) : FALSE
    OBVIOUS
  <2>. QED BY <2>1, <2>2 DEF TapeInv, Handle
<1>2. Transaction'
  BY DEF NoWorker, Transaction
<1>3. Committed'
  BY CommittedStay DEF TapeInv
<1>. QED BY <1>1, <1>2, <1>3 DEF TapeInv

\* A step that touches neither the tapes nor the open batch.
LEMMA QuietStep ==
  ASSUME TapeInv, UNCHANGED <<tapes, db, hour, unlinked>>,
         opened' \in {opened, FALSE}, buffer' = buffer, txn' = txn,
         pc' # pc => pc # "frames" /\ txn = {},
         pc # "frames" \/ opened' = opened
  PROVE  TapeInv'
<1>1. Tapes' /\ AllKept /\ LinkedKept
  BY SameTapes DEF TapeInv
<1>2. Committed'
  BY <1>1, CommittedStay DEF TapeInv
<1>3. Handle'
  <2>1. CASE pc # "frames"
    <3>1. buffer = <<>> /\ buffer' = <<>>
      BY <2>1 DEF TapeInv, Handle
    <3>2. /\ hour' \in 1..Hours /\ unlinked' \subseteq 1..Hours
          /\ opened' \in BOOLEAN
          /\ buffer' \in Seq(Lines)
          /\ \A i \in 1..Len(buffer') : buffer'[i].form = "whole"
      BY DEF TapeInv, Handle
    <3>3. opened' => hour' \in DOMAIN tapes' /\ Placed(hour)'
      BY DEF TapeInv, Handle, Placed
    <3>. QED BY <3>1, <3>2, <3>3 DEF Handle
  <2>2. CASE pc = "frames"
    BY <2>2 DEF TapeInv, Handle, Placed
  <2>. QED BY <2>1, <2>2
<1>4. Transaction'
  <2>1. CASE pc' # pc
    BY <2>1 DEF TapeInv, Transaction
  <2>2. CASE pc' = pc
    <3>1. \A key \in txn : /\ Safe(key) => Safe(key)'
                           /\ OnDisk(key) => OnDisk(key)'
                           /\ Buffered(key) => Buffered(key)'
      BY <1>1, SafeStay, LinkedStay DEF Buffered, TapeInv
    <3>. QED BY <2>2, <3>1 DEF TapeInv, Transaction
  <2>. QED BY <2>1, <2>2
<1>. QED BY <1>1, <1>2, <1>3, <1>4 DEF TapeInv

LEMMA RotateHourStep ==
  ASSUME TapeInv, RotateHour
  PROVE  TapeInv'
<1>1. /\ pc = "frames" /\ pc' = "frames" /\ hour < Hours /\ hour' = hour + 1
      /\ opened' = FALSE /\ buffer' = <<>>
      /\ db' = db /\ unlinked' = unlinked /\ txn' = txn
  BY DEF RotateHour
<1>2. /\ Tapes' /\ AllKept /\ LinkedKept
      /\ \A key \in Keys : Buffered(key) \/ Safe(key) => Safe(key)'
  BY SyncStep DEF RotateHour, TapeInv
<1>3. Committed'
  BY <1>1, <1>2, CommittedStay DEF TapeInv
<1>4. Handle'
  <2>1. hour + 1 \in 1..Hours
    BY <1>1, BatchAssumption DEF TapeInv, Handle
  <2>2. <<>> \in Seq(Lines) /\ \A i \in 1..Len(<<>>) : FALSE
    OBVIOUS
  <2>. QED BY <1>1, <2>1, <2>2 DEF TapeInv, Handle
<1>5. Transaction'
  BY <1>1, <1>2 DEF TapeInv, Transaction
<1>. QED BY <1>2, <1>3, <1>4, <1>5 DEF TapeInv

LEMMA NewEventStep ==
  ASSUME TapeInv, NEW key \in Keys, NewEvent(key)
  PROVE  TapeInv'
<1>1. /\ pc = "frames" /\ pc' = "frames" /\ hour' = hour /\ opened' = TRUE
      /\ buffer' = Append(buffer, Line(key)) /\ txn' = txn \cup {key}
      /\ db' = db
  BY DEF NewEvent, InBatch
<1>2. /\ Tapes' /\ AllKept /\ LinkedKept
      /\ hour \in DOMAIN tapes'
      /\ tapes'[hour].linked \/ hour \in unlinked'
      /\ unlinked' \subseteq 1..Hours
  BY OpenStep DEF NewEvent, TapeInv
<1>3. Committed'
  BY <1>1, <1>2, CommittedStay DEF TapeInv
<1>4. /\ Line(key) \in Lines /\ Line(key).form = "whole"
      /\ Line(key).key = key
  BY DEF Line, Lines, Forms
<1>5. /\ buffer' \in Seq(Lines) /\ Len(buffer') = Len(buffer) + 1
      /\ \A i \in 1..Len(buffer) : buffer'[i] = buffer[i]
      /\ buffer'[Len(buffer) + 1] = Line(key)
      /\ Len(buffer) \in Nat
  BY <1>1, <1>4 DEF TapeInv, Handle
<1>6. \A i \in 1..Len(buffer') : buffer'[i].form = "whole"
  <2>. SUFFICES ASSUME NEW i \in 1..Len(buffer')
                PROVE  buffer'[i].form = "whole"
    OBVIOUS
  <2>1. i \in 1..Len(buffer) \/ i = Len(buffer) + 1
    BY <1>5
  <2>. QED BY <2>1, <1>4, <1>5 DEF TapeInv, Handle
<1>7. Handle'
  BY <1>1, <1>2, <1>5, <1>6 DEF TapeInv, Handle, Placed
<1>8. Transaction'
  <2>1. ASSUME NEW k \in txn' PROVE Buffered(k)' \/ Safe(k)'
    <3>1. CASE k = key
      <4>1. Len(buffer) + 1 \in 1..Len(buffer')
        BY <1>5
      <4>. QED BY <3>1, <4>1, <1>4, <1>5 DEF Buffered
    <3>2. CASE k # key /\ Buffered(k)
      <4>1. \A i \in 1..Len(buffer) : i \in 1..Len(buffer')
        BY <1>5
      <4>. QED BY <3>2, <4>1, <1>5 DEF Buffered
    <3>3. CASE k # key /\ Safe(k)
      BY <3>3, <1>2, SafeStay DEF TapeInv
    <3>. QED BY <3>1, <3>2, <3>3, <1>1 DEF TapeInv, Transaction
  <2>. QED BY <2>1, <1>1 DEF TapeInv, Transaction
<1>. QED BY <1>2, <1>3, <1>7, <1>8 DEF TapeInv

LEMMA SyncTapesStep ==
  ASSUME TapeInv, SyncTapes
  PROVE  TapeInv'
<1>1. /\ pc = "frames" /\ pc' = "synced" /\ hour' = hour /\ opened' = opened
      /\ buffer' = <<>> /\ db' = db /\ unlinked' = unlinked /\ txn' = txn
  BY DEF SyncTapes
<1>2. /\ Tapes' /\ AllKept /\ LinkedKept
      /\ \A key \in Keys : Buffered(key) \/ Safe(key) => Safe(key)'
  BY SyncStep DEF SyncTapes, TapeInv
<1>3. Committed'
  BY <1>1, <1>2, CommittedStay DEF TapeInv
<1>4. Handle'
  <2>1. opened => hour \in DOMAIN tapes' /\ (tapes'[hour].linked \/ hour \in unlinked')
    BY <1>1, <1>2 DEF TapeInv, Handle, AllKept, Placed, Keeps
  <2>2. <<>> \in Seq(Lines) /\ \A i \in 1..Len(<<>>) : FALSE
    OBVIOUS
  <2>. QED BY <1>1, <2>1, <2>2 DEF TapeInv, Handle, Placed
<1>5. Transaction'
  BY <1>1, <1>2 DEF TapeInv, Transaction
<1>. QED BY <1>2, <1>3, <1>4, <1>5 DEF TapeInv

LEMMA SyncDirectoriesStep ==
  ASSUME TapeInv, SyncDirectories
  PROVE  TapeInv' /\ LinkedKept
<1>. DEFINE New(h) == [tapes[h] EXCEPT !.linked = @ \/ h \in unlinked]
<1>1. /\ pc = "synced" /\ pc' = "linked" /\ hour' = hour /\ opened' = opened
      /\ buffer' = buffer /\ db' = db /\ unlinked' = {} /\ txn' = txn
      /\ tapes' = [h \in DOMAIN tapes |-> New(h)]
  BY DEF SyncDirectories
<1>2. ASSUME NEW h \in DOMAIN tapes
      PROVE  /\ GoodTape(New(h)) /\ Keeps(tapes[h], New(h))
             /\ New(h).linked = Placed(h)
  <2>1. tapes[h] \in Tape /\ GoodTape(tapes[h])
    BY DEF TapeInv, Tapes, GoodTape
  <2>2. (tapes[h].linked \/ h \in unlinked) \in BOOLEAN
    OBVIOUS
  <2>3. /\ New(h) \in Tape /\ New(h).lines = tapes[h].lines
        /\ New(h).synced = tapes[h].synced
        /\ New(h).linked = (tapes[h].linked \/ h \in unlinked)
    BY <2>1, <2>2 DEF Tape
  <2>4. tapes[h].synced \in Nat
    BY <2>1 DEF Tape
  <2>. DEFINE new == New(h)
  <2>. HIDE DEF New, new
  <2>5. /\ new \in Tape /\ new.lines = tapes[h].lines
        /\ new.synced = tapes[h].synced
        /\ new.linked = (tapes[h].linked \/ h \in unlinked)
    BY <2>3 DEF new
  <2>6. GoodTape(new)
    BY <2>1, <2>5 DEF GoodTape
  <2>7. Keeps(tapes[h], new)
    <3>1. tapes[h].linked => new.linked
      BY <2>5, Zenon
    <3>. QED BY <3>1, <2>4, <2>5 DEF Keeps
  <2>8. new.linked = Placed(h)
    BY <2>5 DEF Placed
  <2>. QED BY <2>6, <2>7, <2>8 DEF new
<1>3. /\ DOMAIN tapes' = DOMAIN tapes
      /\ \A h \in DOMAIN tapes : tapes'[h] = New(h)
  BY <1>1
<1>. HIDE DEF New
<1>4. Tapes'
  BY <1>2, <1>3 DEF TapeInv, Tapes
<1>5. LinkedKept
  BY <1>2, <1>3 DEF LinkedKept
<1>6. Committed'
  BY <1>1, <1>4, <1>5, CommittedStay DEF TapeInv
<1>7. Handle'
  <2>1. opened => hour \in DOMAIN tapes' /\ tapes'[hour].linked
    BY <1>2, <1>3 DEF TapeInv, Handle
  <2>. QED BY <1>1, <2>1 DEF TapeInv, Handle, Placed
<1>8. ASSUME NEW key \in txn PROVE OnDisk(key)'
  <2>1. PICK h \in DOMAIN tapes : Placed(h) /\ SyncedLine(h, key)
    BY <1>1 DEF TapeInv, Transaction, Safe
  <2>2. HasKey(tapes'[h].lines, tapes'[h].synced, key)
    BY <2>1, <1>2, <1>3, KeptLine DEF SyncedLine, TapeInv, Tapes
  <2>. QED BY <2>1, <2>2, <1>2, <1>3 DEF OnDisk, SyncedLine
<1>9. Transaction'
  BY <1>1, <1>8 DEF TapeInv, Transaction
<1>. QED BY <1>4, <1>5, <1>6, <1>7, <1>9 DEF TapeInv

LEMMA CommitStep ==
  ASSUME TapeInv, Commit
  PROVE  TapeInv'
<1>1. /\ pc = "linked" /\ pc' = "committed" /\ db' = db \cup txn /\ txn' = {}
      /\ UNCHANGED <<tapes, hour, opened, unlinked, buffer>>
  BY DEF Commit
<1>2. Tapes' /\ LinkedKept
  BY <1>1, SameTapes DEF TapeInv
<1>3. Committed'
  BY <1>1, <1>2, LinkedStay DEF TapeInv, Committed, Transaction
<1>4. Handle'
  BY <1>1 DEF TapeInv, Handle, Placed
<1>5. Transaction'
  BY <1>1 DEF TapeInv, Transaction
<1>. QED BY <1>2, <1>3, <1>4, <1>5 DEF TapeInv

\* The tapes, the handle and the transaction fit in every reachable state.
THEOREM TapesFit == Spec => []TapeInv
<1>1. Init => TapeInv
  <2>. SUFFICES ASSUME Init PROVE TapeInv
    OBVIOUS
  <2>1. Tapes
    BY DEF Init, Tapes
  <2>2. Handle
    <3>1. hour \in 1..Hours
      BY BatchAssumption DEF Init
    <3>2. <<>> \in Seq(Lines) /\ \A i \in 1..Len(<<>>) : FALSE
      OBVIOUS
    <3>3. buffer \in Seq(Lines) /\ \A i \in 1..Len(buffer) : buffer[i].form = "whole"
      BY <3>2 DEF Init
    <3>4. ~opened /\ opened \in BOOLEAN /\ unlinked = {} /\ buffer = <<>>
      BY DEF Init
    <3>. QED BY <3>1, <3>3, <3>4 DEF Handle
  <2>3. Transaction /\ Committed
    BY DEF Init, Transaction, Committed
  <2>. QED BY <2>1, <2>2, <2>3 DEF TapeInv
<1>2. TapeInv /\ [Next]_vars => TapeInv'
  <2>. SUFFICES ASSUME TapeInv, [Next]_vars PROVE TapeInv'
    OBVIOUS
  <2>0. pc \notin {"frames", "synced", "linked"} => txn = {}
    BY DEF TapeInv, Transaction
  <2>1. CASE Construct
    BY <2>0, <2>1, QuietStep DEF Construct
  <2>2. CASE BeginSession
    BY <2>0, <2>2, QuietStep DEF BeginSession, run
  <2>3. CASE ApplyFaults
    BY <2>0, <2>3, QuietStep DEF ApplyFaults, run
  <2>4. CASE BeginBatch
    BY <2>0, <2>4, QuietStep DEF BeginBatch, run
  <2>5. CASE RotateHour
    BY <2>5, RotateHourStep
  <2>6. CASE \E key \in Keys : NewEvent(key)
    BY <2>6, NewEventStep
  <2>7. CASE \E key \in Keys : DuplicateEvent(key)
    BY <2>7, QuietStep DEF DuplicateEvent, InBatch, disk
  <2>8. CASE MalformedFrame
    BY <2>8, QuietStep DEF MalformedFrame, InBatch, disk
  <2>9. CASE SyncTapes
    BY <2>9, SyncTapesStep
  <2>10. CASE SyncDirectories
    BY <2>10, SyncDirectoriesStep
  <2>11. CASE Commit
    BY <2>11, CommitStep
  <2>12. CASE MarkCommitted
    BY <2>0, <2>12, QuietStep DEF MarkCommitted, worker, run
  <2>13. CASE EndBatch
    BY <2>0, <2>13, QuietStep DEF EndBatch, run
  <2>14. CASE WindowEnds
    BY <2>14, QuietStep DEF WindowEnds, disk, worker
  <2>15. CASE MarkFinished
    BY <2>0, <2>15, QuietStep DEF MarkFinished
  <2>16. CASE StopSession
    <3>1. /\ tapes' = tapes /\ db' = db /\ hour' = hour /\ pc' = "down"
          /\ NoWorker
      BY <2>16 DEF StopSession
    <3>2. Tapes' /\ LinkedKept
      BY <3>1, KeepsItself DEF TapeInv, Tapes, GoodTape, LinkedKept
    <3>. QED BY <3>1, <3>2, NoWorkerStep
  <2>17. CASE ProcessDies
    <3>1. Tapes' /\ LinkedKept
      BY <2>17, KillStep DEF ProcessDies, TapeInv
    <3>. QED BY <2>17, <3>1, NoWorkerStep DEF ProcessDies
  <2>18. CASE PowerFails
    <3>1. Tapes' /\ LinkedKept
      BY <2>18, PowerStep DEF TapeInv
    <3>. QED BY <2>18, <3>1, NoWorkerStep DEF PowerFails
  <2>19. CASE UNCHANGED vars
    BY <2>19, QuietStep DEF vars, disk, worker
  <2>. QED BY <2>1, <2>2, <2>3, <2>4, <2>5, <2>6, <2>7, <2>8, <2>9, <2>10,
              <2>11, <2>12, <2>13, <2>14, <2>15, <2>16, <2>17, <2>18, <2>19
           DEF Next
<1>. QED BY <1>1, <1>2, PTL DEF Spec

\* An event of the events table is on the synced part of a linked tape.
THEOREM CommittedHasItsLine == Spec => []CommittedIsOnTape
<1>1. TapeInv => CommittedIsOnTape
  BY DEF TapeInv, Committed, OnDisk, SyncedLine, HasKey, CommittedIsOnTape
<1>. QED BY <1>1, TapesFit, PTL

-----------------------------------------------------------------------------
(* Types and counts.                                                        *)

Kinds ==
  /\ marker \in {"NONE", "IN_FLIGHT", "COMMITTED"}
  /\ session \in {"NONE", "ACTIVE", "STOPPED"}
  /\ pc \in {"down", "constructed", "idle", "frames", "synced", "linked",
             "committed", "flush", "finished"}
  /\ faults \in 0..3 /\ size \in 0..BatchMax /\ frames \in 0..MaxFrames

Flags == opened \in BOOLEAN /\ errors \in BOOLEAN /\ feed \in BOOLEAN
         /\ ended \in BOOLEAN /\ malformed \in BOOLEAN

\* Every checkpoint, cached, saved or superseded, counts at most the frames.
Counted(checkpoint, total) ==
  checkpoint \in Checkpoint /\ checkpoint.rows <= total

Checkpoints ==
  /\ Counted(saved, frames) /\ Counted(cache, frames)
  /\ \A c \in older : Counted(c, frames)

\* The saved checkpoints are behind the table, the cached one may be ahead by
\* the open transaction.
Behind ==
  /\ db \subseteq Keys /\ txn \subseteq Keys
  /\ saved.rows <= Cardinality(db)
  /\ \A c \in older : c.rows <= Cardinality(db)
  /\ cache.rows <= Cardinality(db \cup txn)
  /\ pc \notin {"frames", "synced", "linked"} => txn = {}

CountInv == Kinds /\ Flags /\ Checkpoints /\ Behind

LEMMA KindsStep == ASSUME Kinds, [Next]_vars PROVE Kinds'
<1>. USE DEF Kinds
<1>0. /\ BatchMax \in Nat \ {0} /\ MaxFrames \in Nat \ {0}
  BY BatchAssumption
<1>1. CASE Construct
  BY <1>1 DEF Construct
<1>2. CASE BeginSession
  BY <1>2 DEF BeginSession, Outstanding, run
<1>3. CASE ApplyFaults
  BY <1>3 DEF ApplyFaults, run
<1>4. CASE BeginBatch
  BY <1>0, <1>4 DEF BeginBatch, run
<1>5. CASE RotateHour
  BY <1>5 DEF RotateHour, run
<1>6. ASSUME NEW key \in Keys, NewEvent(key) PROVE Kinds'
  BY <1>0, <1>6 DEF NewEvent, InBatch
<1>7. ASSUME NEW key \in Keys, DuplicateEvent(key) PROVE Kinds'
  BY <1>0, <1>7 DEF DuplicateEvent, InBatch, disk
<1>8. CASE MalformedFrame
  BY <1>0, <1>8 DEF MalformedFrame, InBatch, disk
<1>9. CASE SyncTapes
  BY <1>9 DEF SyncTapes, run
<1>10. CASE SyncDirectories
  BY <1>10 DEF SyncDirectories, run
<1>11. CASE Commit
  BY <1>11 DEF Commit, run
<1>12. CASE MarkCommitted
  BY <1>12 DEF MarkCommitted, worker, run
<1>13. CASE EndBatch
  BY <1>13 DEF EndBatch, run
<1>14. CASE WindowEnds
  BY <1>14 DEF WindowEnds, disk, worker
<1>15. CASE MarkFinished
  BY <1>15 DEF MarkFinished
<1>16. CASE StopSession
  BY <1>0, <1>16 DEF StopSession, NoWorker
<1>17. CASE ProcessDies
  BY <1>0, <1>17 DEF ProcessDies, NoWorker
<1>18. CASE PowerFails
  BY <1>0, <1>18 DEF PowerFails, NoWorker
<1>19. CASE UNCHANGED vars
  BY <1>19 DEF vars, disk, worker, run
<1>. QED BY <1>1, <1>2, <1>3, <1>4, <1>5, <1>6, <1>7, <1>8, <1>9, <1>10,
            <1>11, <1>12, <1>13, <1>14, <1>15, <1>16, <1>17, <1>18, <1>19
         DEF Next

LEMMA FlagsStep == ASSUME Flags, [Next]_vars PROVE Flags'
<1>. USE DEF Flags
<1>1. CASE Construct
  BY <1>1 DEF Construct
<1>2. CASE BeginSession \/ ApplyFaults \/ BeginBatch
  BY <1>2 DEF BeginSession, ApplyFaults, BeginBatch, run
<1>3. CASE RotateHour
  BY <1>3 DEF RotateHour, run
<1>4. ASSUME NEW key \in Keys, NewEvent(key) \/ DuplicateEvent(key)
      PROVE  Flags'
  BY <1>4 DEF NewEvent, DuplicateEvent
<1>5. CASE MalformedFrame
  BY <1>5 DEF MalformedFrame
<1>6. CASE SyncTapes \/ SyncDirectories \/ Commit \/ EndBatch
  BY <1>6 DEF SyncTapes, SyncDirectories, Commit, EndBatch, run
<1>7. CASE MarkCommitted \/ WindowEnds
  BY <1>7 DEF MarkCommitted, WindowEnds, worker, run
<1>8. CASE MarkFinished
  BY <1>8 DEF MarkFinished
<1>9. CASE StopSession \/ ProcessDies \/ PowerFails
  BY <1>9 DEF StopSession, ProcessDies, PowerFails, NoWorker
<1>10. CASE UNCHANGED vars
  BY <1>10 DEF vars, worker, run
<1>. QED BY <1>1, <1>2, <1>3, <1>4, <1>5, <1>6, <1>7, <1>8, <1>9, <1>10
         DEF Next

LEMMA CheckpointsStep ==
  ASSUME Kinds, Flags, Checkpoints, [Next]_vars PROVE Checkpoints'
<1>. USE DEF Checkpoints
<1>0. MaxFrames \in Nat \ {0} /\ frames \in 0..MaxFrames
  BY BatchAssumption DEF Kinds
<1>1. frames' \in 0..MaxFrames
  BY KindsStep DEF Kinds
<1>2. Counted(NewCheckpoint, frames) /\ Counted(NewCheckpoint, frames')
  BY <1>0, <1>1 DEF Counted, NewCheckpoint, Checkpoint
<1>3. ASSUME frames' >= frames, NEW c, Counted(c, frames)
      PROVE  Counted(c, frames')
  BY <1>0, <1>1, <1>3 DEF Counted, Checkpoint
<1>4. CASE Construct
  BY <1>0, <1>3, <1>4 DEF Construct, Save
<1>5. CASE BeginSession \/ BeginBatch \/ RotateHour \/ SyncTapes
           \/ SyncDirectories \/ Commit \/ MarkCommitted
  BY <1>0, <1>3, <1>5 DEF BeginSession, BeginBatch, RotateHour, SyncTapes,
     SyncDirectories, Commit, MarkCommitted, worker, run
<1>6. CASE ApplyFaults
  <2>1. cache' \in Checkpoint /\ cache'.rows = cache.rows
    BY <1>6 DEF ApplyFaults, Counted, Checkpoint
  <2>2. frames' = frames
    BY <1>6 DEF ApplyFaults, run
  <2>3. Counted(cache', frames')
    BY <2>1, <2>2 DEF Counted
  <2>. QED BY <1>0, <1>3, <1>6, <2>2, <2>3 DEF ApplyFaults, Save
<1>7. ASSUME NEW key \in Keys, NewEvent(key) PROVE Checkpoints'
  <2>1. frames' = frames + 1 /\ cache' = [cache EXCEPT !.rows = @ + 1]
        /\ saved' = saved /\ older' = older
    BY <1>7 DEF NewEvent, InBatch
  <2>2. cache.rows \in 0..MaxFrames /\ cache.rows <= frames /\ cache \in Checkpoint
    BY DEF Counted, Checkpoint
  <2>3. cache.rows + 1 \in 0..MaxFrames
    BY <1>0, <1>1, <2>1, <2>2
  <2>4. cache' \in Checkpoint /\ cache'.rows = cache.rows + 1
    BY <2>1, <2>2, <2>3 DEF Checkpoint
  <2>5. cache'.rows <= frames'
    BY <1>0, <2>1, <2>2, <2>4
  <2>6. Counted(cache', frames')
    BY <2>4, <2>5 DEF Counted
  <2>. QED BY <1>0, <1>3, <2>1, <2>6
<1>8. ASSUME NEW key \in Keys, DuplicateEvent(key) PROVE Checkpoints'
  BY <1>0, <1>3, <1>8 DEF DuplicateEvent, InBatch, disk
<1>9. CASE MalformedFrame
  BY <1>0, <1>3, <1>9 DEF MalformedFrame, InBatch, disk
<1>10. CASE EndBatch
  BY <1>0, <1>3, <1>10 DEF EndBatch, Save, run
<1>11. CASE WindowEnds
  BY <1>0, <1>3, <1>11 DEF WindowEnds, disk, worker
<1>12. CASE MarkFinished
  <2>1. cache' = [cache EXCEPT !.status = FinishedStatus] /\ frames' = frames
    BY <1>12 DEF MarkFinished
  <2>2. FinishedStatus \in {"OPEN", "NOT_STARTED", "INCOMPLETE",
                            "COLLECTED_PENDING_RECONCILIATION"}
    BY DEF FinishedStatus
  <2>3. cache' \in Checkpoint /\ cache'.rows = cache.rows
    BY <2>1, <2>2 DEF Counted, Checkpoint
  <2>4. Counted(cache', frames')
    BY <2>1, <2>3 DEF Counted
  <2>. QED BY <1>0, <1>3, <1>12, <2>1, <2>4 DEF MarkFinished, Save
<1>13. CASE StopSession \/ ProcessDies
  BY <1>0, <1>2, <1>3, <1>13 DEF StopSession, ProcessDies, NoWorker
<1>14. CASE PowerFails
  BY <1>0, <1>2, <1>3, <1>14 DEF PowerFails, NoWorker
<1>15. CASE UNCHANGED vars
  BY <1>0, <1>3, <1>15 DEF vars, disk, worker, run
<1>. QED BY <1>4, <1>5, <1>6, <1>7, <1>8, <1>9, <1>10, <1>11, <1>12, <1>13,
            <1>14, <1>15
         DEF Next

\* Sets of events are finite, and a smaller set counts less.
LEMMA Sizes ==
  ASSUME NEW S \in SUBSET Keys, NEW T \in SUBSET S
  PROVE  /\ IsFiniteSet(S) /\ Cardinality(S) \in Nat /\ Cardinality(T) \in Nat
         /\ Cardinality(T) <= Cardinality(S)
<1>1. IsFiniteSet(S)
  BY BatchAssumption, FS_Subset
<1>2. IsFiniteSet(T) /\ Cardinality(T) <= Cardinality(S)
  BY <1>1, FS_Subset
<1>. QED BY <1>1, <1>2, FS_CardinalityType

LEMMA BehindStep ==
  ASSUME Kinds, Checkpoints, Behind, [Next]_vars PROVE Behind'
<1>. USE DEF Behind
<1>0. /\ db \subseteq db \cup txn /\ db \cup txn \subseteq Keys
      /\ saved.rows \in Nat /\ cache.rows \in Nat
      /\ \A c \in older : c.rows \in Nat
  BY DEF Checkpoints, Counted, Checkpoint
<1>1. /\ Cardinality(db) \in Nat /\ Cardinality(db \cup txn) \in Nat
      /\ Cardinality(db) <= Cardinality(db \cup txn)
  BY <1>0, Sizes
<1>2. pc \notin {"frames", "synced", "linked"} => db \cup txn = db
  OBVIOUS
<1>3. CASE Construct
  BY <1>1, <1>2, <1>3 DEF Construct, Save
<1>4. CASE BeginSession
  BY <1>1, <1>4 DEF BeginSession
<1>5. CASE ApplyFaults
  <2>1. /\ cache'.rows = cache.rows /\ saved' = cache' /\ pc' = pc
        /\ older' = older \cup {saved} /\ db' = db /\ txn' = txn
        /\ pc = "idle"
    BY <1>5 DEF ApplyFaults, Save, Checkpoints, Counted, Checkpoint
  <2>. QED BY <2>1, <1>0, <1>1, <1>2
<1>6. CASE BeginBatch
  BY <1>1, <1>6 DEF BeginBatch
<1>7. CASE RotateHour
  BY <1>1, <1>7 DEF RotateHour
<1>8. ASSUME NEW key \in Keys, NewEvent(key) PROVE Behind'
  <2>1. /\ cache'.rows = cache.rows + 1 /\ pc = "frames" /\ pc' = "frames"
        /\ db' = db /\ txn' = txn \cup {key} /\ key \notin db \cup txn
        /\ saved' = saved /\ older' = older
    BY <1>8 DEF NewEvent, InBatch, Checkpoints, Counted, Checkpoint
  <2>2. IsFiniteSet(db \cup txn)
    BY <1>0, Sizes
  <2>3. Cardinality((db \cup txn) \cup {key}) = Cardinality(db \cup txn) + 1
    BY <2>1, <2>2, FS_AddElement
  <2>4. db' \cup txn' = (db \cup txn) \cup {key}
    BY <2>1
  <2>5. cache'.rows <= Cardinality(db' \cup txn')
    BY <2>1, <2>3, <2>4, <1>0, <1>1
  <2>. QED BY <2>1, <2>5
<1>9. ASSUME NEW key \in Keys, DuplicateEvent(key) PROVE Behind'
  BY <1>9 DEF DuplicateEvent, InBatch, disk
<1>10. CASE MalformedFrame
  BY <1>10 DEF MalformedFrame, InBatch, disk
<1>11. CASE SyncTapes \/ SyncDirectories
  BY <1>11 DEF SyncTapes, SyncDirectories
<1>12. CASE Commit
  <2>1. /\ db' = db \cup txn /\ txn' = {} /\ pc' = "committed"
        /\ saved' = saved /\ older' = older /\ cache' = cache
    BY <1>12 DEF Commit
  <2>2. db' \cup txn' = db \cup txn
    BY <2>1
  <2>3. /\ saved'.rows <= Cardinality(db')
        /\ \A c \in older' : c.rows <= Cardinality(db')
    <3>1. Cardinality(db') = Cardinality(db \cup txn)
      BY <2>1
    <3>2. \A n \in Nat : n <= Cardinality(db) => n <= Cardinality(db')
      BY <3>1, <1>1
    <3>3. saved.rows <= Cardinality(db)
          /\ \A c \in older : c.rows <= Cardinality(db)
      OBVIOUS
    <3>. HIDE DEF Behind
    <3>. QED BY <3>2, <3>3, <2>1, <1>0
  <2>4. cache'.rows <= Cardinality(db' \cup txn')
    BY <2>1, <2>2
  <2>. QED BY <2>1, <2>3, <2>4, <1>0
<1>13. CASE MarkCommitted
  BY <1>13 DEF MarkCommitted, worker
<1>14. CASE EndBatch
  BY <1>1, <1>2, <1>14 DEF EndBatch, Save
<1>15. CASE WindowEnds
  BY <1>15 DEF WindowEnds, disk, worker
<1>16. CASE MarkFinished
  <2>1. /\ cache'.rows = cache.rows /\ saved' = cache' /\ pc' = "finished"
        /\ older' = older \cup {saved} /\ db' = db /\ txn' = txn
        /\ pc = "idle"
    BY <1>16 DEF MarkFinished, Save, Checkpoints, Counted, Checkpoint
  <2>. QED BY <2>1, <1>0, <1>1, <1>2
<1>17. CASE StopSession \/ ProcessDies \/ PowerFails
  <2>1. /\ db' = db /\ txn' = {} /\ cache' = NewCheckpoint /\ older' = older
        /\ saved' \in older \cup {saved}
    BY <1>17 DEF StopSession, ProcessDies, PowerFails, NoWorker
  <2>2. cache'.rows = 0 /\ db' \cup txn' = db
    BY <2>1 DEF NewCheckpoint
  <2>3. cache'.rows <= Cardinality(db' \cup txn')
    <3>1. Cardinality(db' \cup txn') = Cardinality(db)
      BY <2>2
    <3>. QED BY <3>1, <2>2, <1>1
  <2>. QED BY <2>1, <2>3
<1>18. CASE UNCHANGED vars
  BY <1>18 DEF vars, disk, worker
<1>. QED BY <1>3, <1>4, <1>5, <1>6, <1>7, <1>8, <1>9, <1>10, <1>11, <1>12,
            <1>13, <1>14, <1>15, <1>16, <1>17, <1>18
         DEF Next

\* Types and counts hold in every reachable state.
THEOREM Counts == Spec => []CountInv
<1>1. Init => CountInv
  <2>. SUFFICES ASSUME Init PROVE CountInv
    OBVIOUS
  <2>1. Kinds
    BY BatchAssumption DEF Init, Kinds
  <2>2. Flags
    BY DEF Init, Flags
  <2>3. Checkpoints
    BY BatchAssumption
       DEF Init, Checkpoints, Counted, Checkpoint, NewCheckpoint
  <2>4. Behind
    <3>1. Cardinality({}) = 0 /\ {} \cup {} = {}
      BY FS_EmptySet
    <3>. QED BY <3>1 DEF Init, Behind, NewCheckpoint
  <2>. QED BY <2>1, <2>2, <2>3, <2>4 DEF CountInv
<1>2. CountInv /\ [Next]_vars => CountInv'
  BY KindsStep, FlagsStep, CheckpointsStep, BehindStep DEF CountInv
<1>. QED BY <1>1, <1>2, PTL DEF Spec

\* checkpoint.json never counts an event that is not in the events table.
THEOREM CheckpointIsBehind == Spec => []CheckpointNeverOverstates
<1>1. CountInv => CheckpointNeverOverstates
  BY DEF CountInv, Behind, CheckpointNeverOverstates
<1>. QED BY <1>1, Counts, PTL

\* Every variable keeps its type.
THEOREM TypeCorrect == Spec => []TypeOK
<1>1. TapeInv /\ CountInv => TypeOK
  <2>. SUFFICES ASSUME TapeInv, CountInv PROVE TypeOK
    OBVIOUS
  <2>1. /\ DOMAIN tapes \subseteq 1..Hours
        /\ \A h \in DOMAIN tapes :
             /\ tapes[h].lines \in Seq([key : Keys, form : Forms])
             /\ tapes[h].synced \in 0..Len(tapes[h].lines)
             /\ tapes[h].linked \in BOOLEAN
    <3>1. DOMAIN tapes \subseteq 1..Hours
      BY DEF TapeInv, Tapes
    <3>2. ASSUME NEW h \in DOMAIN tapes
          PROVE  /\ tapes[h].lines \in Seq(Lines)
                 /\ tapes[h].synced \in 0..Len(tapes[h].lines)
                 /\ tapes[h].linked \in BOOLEAN
      <4>1. /\ tapes[h].lines \in Seq(Lines) /\ tapes[h].synced \in Nat
            /\ tapes[h].synced <= Len(tapes[h].lines)
            /\ tapes[h].linked \in BOOLEAN
        BY DEF TapeInv, Tapes, GoodTape, Tape
      <4>2. Len(tapes[h].lines) \in Nat
        BY <4>1
      <4>. QED BY <4>1, <4>2
    <3>. QED BY <3>1, <3>2 DEF Lines
  <2>2. /\ hour \in 1..Hours /\ unlinked \subseteq 1..Hours
        /\ opened => hour \in DOMAIN tapes
    BY DEF TapeInv, Handle
  <2>3. db \subseteq Keys /\ txn \subseteq Keys
    BY DEF CountInv, Behind
  <2>4. saved \in Checkpoint /\ cache \in Checkpoint /\ older \subseteq Checkpoint
    BY DEF CountInv, Checkpoints, Counted
  <2>5. {opened, errors, feed, ended, malformed} \subseteq BOOLEAN
    BY DEF CountInv, Flags
  <2>. QED BY <2>1, <2>2, <2>3, <2>4, <2>5 DEF CountInv, Kinds, TypeOK
<1>. QED BY <1>1, TapesFit, Counts, PTL

-----------------------------------------------------------------------------
(* What the first process leaves, and what a later one knows.               *)

InABatch == {"frames", "synced", "linked", "committed", "flush"}

\* No event has two lines.
Once ==
  \A h, g \in DOMAIN tapes :
    \A i \in 1..Len(tapes[h].lines), j \in 1..Len(tapes[g].lines) :
      tapes[h].lines[i].key = tapes[g].lines[j].key => h = g /\ i = j

\* Every line of a tape is synced, parses and is of an event that is committed
\* or in the open transaction.
WholeTape(h) ==
  /\ tapes[h].synced = Len(tapes[h].lines)
  /\ \A i \in 1..Len(tapes[h].lines) :
       /\ tapes[h].lines[i].form = "whole"
       /\ tapes[h].lines[i].key \in db \cup txn

\* The tapes, the buffer and the counts of a process that found an empty disk.
TidyTape(h) ==
  /\ WholeTape(h) /\ Placed(h)
  /\ Len(tapes[h].lines) + Len(buffer) <= frames
  /\ \A i \in 1..Len(tapes[h].lines), j \in 1..Len(buffer) :
       tapes[h].lines[i].key # buffer[j].key
TidyBuffer ==
  /\ Len(buffer) <= frames
  /\ \A i \in 1..Len(buffer) : buffer[i].key \in txn
  /\ \A i, j \in 1..Len(buffer) : buffer[i].key = buffer[j].key => i = j
TidyLines == Once /\ TidyBuffer /\ \A h \in DOMAIN tapes : TidyTape(h)
TidyCounts ==
  /\ cache.rows = Cardinality(db \cup txn)
  /\ malformed => faults > 0 \/ cache.failed \/ (errors /\ pc \in InABatch)
  /\ pc = "constructed" => ~malformed
  /\ pc \notin {"frames", "synced"} => unlinked = {}
Tidy == TidyLines /\ TidyCounts

Unused ==
  /\ DOMAIN tapes = {} /\ db = {} /\ ~malformed /\ pc = "down"
  /\ saved = NewCheckpoint /\ older \subseteq {NewCheckpoint}
  /\ unlinked = {}

\* Only the first process can have tapes without a tail; any later one has a
\* gap to apply or has applied it.
NoteInv ==
  /\ starts \in Nat
  /\ pc \in InABatch \cup {"finished"} => faults = 0
  /\ starts = 0 => Unused
  /\ starts = 1 /\ pc # "down" => Tidy
  /\ starts > 1 /\ pc \notin {"down", "constructed"} => faults > 0 \/ cache.failed

Fits == TapeInv /\ CountInv

\* Behind whole lines, appending is concatenation.
LEMMA WholeAppended ==
  ASSUME NEW lines \in Seq(Lines), NEW more \in Seq(Lines),
         \A i \in 1..Len(lines) : lines[i].form = "whole"
  PROVE  /\ Appended(lines, more) \in Seq(Lines)
         /\ Len(Appended(lines, more)) = Len(lines) + Len(more)
         /\ \A i \in 1..Len(lines) : Appended(lines, more)[i] = lines[i]
         /\ \A k \in 1..Len(more) : Appended(lines, more)[Len(lines) + k] = more[k]
<1>1. Len(lines) \in Nat /\ Len(more) \in Nat
  OBVIOUS
<1>2. lines # <<>> => Last(lines).form # "torn"
  <2>1. ASSUME lines # <<>> PROVE Len(lines) \in 1..Len(lines)
    BY <1>1, <2>1, EmptySeq
  <2>. QED BY <2>1 DEF Last
<1>3. Appended(lines, more) = lines \o more
  BY <1>2 DEF Appended
<1>4. /\ lines \o more \in Seq(Lines)
      /\ Len(lines \o more) = Len(lines) + Len(more)
      /\ \A i \in 1..Len(lines) : (lines \o more)[i] = lines[i]
      /\ \A k \in 1..Len(more) : (lines \o more)[Len(lines) + k] = more[k]
  BY <1>1
<1>. QED BY <1>3, <1>4

LEMMA TapeTypes ==
  ASSUME Tapes, NEW h \in DOMAIN tapes
  PROVE  /\ tapes[h].lines \in Seq(Lines) /\ Len(tapes[h].lines) \in Nat
         /\ tapes[h] \in Tape /\ tapes[h].synced \in Nat
<1>1. tapes[h] \in Tape
  BY DEF Tapes, GoodTape
<1>2. tapes[h].lines \in Seq(Lines) /\ tapes[h].synced \in Nat
  BY <1>1 DEF Tape
<1>. QED BY <1>1, <1>2

\* A step that leaves the lines alone.
LEMMA TidyQuiet ==
  ASSUME Fits, TidyLines, UNCHANGED <<tapes, buffer>>,
         db' \cup txn' = db \cup txn,
         buffer # <<>> => txn' = txn,
         unlinked' = unlinked, frames' \in Nat, frames' >= frames
  PROVE  TidyLines'
<1>1. Len(buffer) \in Nat /\ frames \in Nat
  BY BatchAssumption DEF Fits, TapeInv, Handle, CountInv, Kinds
<1>2. Once'
  BY DEF TidyLines, Once
<1>3. TidyBuffer'
  <2>1. CASE buffer = <<>>
    BY <2>1, <1>1 DEF TidyLines, TidyBuffer
  <2>2. CASE buffer # <<>>
    BY <2>2, <1>1 DEF TidyLines, TidyBuffer
  <2>. QED BY <2>1, <2>2
<1>4. ASSUME NEW h \in DOMAIN tapes PROVE TidyTape(h)'
  <2>1. TidyTape(h) /\ Len(tapes[h].lines) \in Nat
    BY TapeTypes DEF TidyLines, Fits, TapeInv
  <2>2. Len(tapes[h].lines) + Len(buffer) <= frames'
    BY <2>1, <1>1 DEF TidyTape
  <2>. QED BY <2>1, <2>2 DEF TidyTape, WholeTape, Placed
<1>. QED BY <1>2, <1>3, <1>4 DEF TidyLines

\* The open handle is flushed and synced.
LEMMA TidyFlush ==
  ASSUME Fits, TidyLines, pc = "frames",
         tapes' = IF opened
                  THEN [tapes EXCEPT ![hour] = Synced(Flushed(@, buffer))]
                  ELSE tapes,
         buffer' = <<>>, UNCHANGED <<db, txn, unlinked, frames>>
  PROVE  TidyLines'
<1>1. Len(buffer) \in Nat /\ frames \in Nat /\ buffer \in Seq(Lines)
  BY BatchAssumption DEF Fits, TapeInv, Handle, CountInv, Kinds
<1>2. Len(<<>>) = 0 /\ TidyBuffer'
  BY <1>1 DEF TidyBuffer
<1>3. CASE ~opened
  <2>1. buffer = <<>> /\ tapes' = tapes
    BY <1>3 DEF Fits, TapeInv, Handle
  <2>. QED BY <2>1, TidyQuiet, <1>1
<1>4. CASE opened
  <2>. DEFINE old == tapes[hour].lines
              after == Appended(old, buffer)
  <2>1. hour \in DOMAIN tapes /\ Tapes
    BY <1>4 DEF Fits, TapeInv, Handle
  <2>2. /\ old \in Seq(Lines) /\ Len(old) \in Nat /\ TidyTape(hour)
        /\ tapes[hour] \in Tape
    BY <2>1, TapeTypes DEF TidyLines
  <2>3. /\ after \in Seq(Lines) /\ Len(after) = Len(old) + Len(buffer)
        /\ \A i \in 1..Len(old) : after[i] = old[i]
        /\ \A k \in 1..Len(buffer) : after[Len(old) + k] = buffer[k]
    BY <2>2, <1>1, WholeAppended DEF TidyTape, WholeTape
  <2>4. tapes' = [tapes EXCEPT ![hour] =
                    [tapes[hour] EXCEPT !.lines = after, !.synced = Len(after)]]
    BY <1>4, <2>1, <2>2 DEF Synced, Flushed, Tape
  <2>. HIDE DEF after
  <2>5. /\ DOMAIN tapes' = DOMAIN tapes
        /\ tapes'[hour].lines = after /\ tapes'[hour].synced = Len(after)
        /\ tapes'[hour].linked = tapes[hour].linked
        /\ \A h \in DOMAIN tapes : h # hour => tapes'[h] = tapes[h]
    BY <2>1, <2>2, <2>4 DEF Tape
  <2>. HIDE DEF old
  \* A line of the tape was on it or in the buffer.
  <2>6. ASSUME NEW i \in 1..Len(after)
        PROVE  \/ i \in 1..Len(old) /\ after[i] = old[i]
               \/ i - Len(old) \in 1..Len(buffer) /\ after[i] = buffer[i - Len(old)]
    <3>1. i \in 1..Len(old) \/ i - Len(old) \in 1..Len(buffer)
      BY <2>2, <2>3, <1>1
    <3>2. ASSUME i - Len(old) \in 1..Len(buffer)
          PROVE  after[i] = buffer[i - Len(old)]
      <4>1. i = Len(old) + (i - Len(old))
        BY <2>2, <2>3, <1>1
      <4>. QED BY <3>2, <4>1, <2>3
    <3>. QED BY <3>1, <3>2, <2>3
  <2>7. ASSUME NEW h, h = hour PROVE WholeTape(h)'
    <3>1. ASSUME NEW i \in 1..Len(after)
          PROVE  after[i].form = "whole" /\ after[i].key \in db \cup txn
      <4>1. \A k \in 1..Len(old) : old[k].form = "whole" /\ old[k].key \in db \cup txn
        BY <2>2 DEF TidyTape, WholeTape, old
      <4>2. \A k \in 1..Len(buffer) : buffer[k].form = "whole" /\ buffer[k].key \in txn
        BY DEF TidyLines, TidyBuffer, Fits, TapeInv, Handle
      <4>. QED BY <4>1, <4>2, <2>6
    <3>2. /\ tapes'[h].lines = after /\ tapes'[h].synced = Len(after)
          /\ db' = db /\ txn' = txn
      BY <2>5, <2>7
    <3>. QED BY <3>1, <3>2 DEF WholeTape
  <2>8. ASSUME NEW h \in DOMAIN tapes' PROVE TidyTape(h)'
    <3>1. CASE h = hour
      <4>1. Len(tapes'[h].lines) + Len(buffer') <= frames'
        BY <3>1, <2>2, <2>3, <2>5, <1>1, <1>2 DEF TidyTape, old
      <4>2. Placed(h)'
        BY <3>1, <2>2, <2>5 DEF TidyTape, Placed
      <4>3. \A i \in 1..Len(tapes'[h].lines), j \in 1..Len(buffer') :
              tapes'[h].lines[i].key # buffer'[j].key
        BY <1>2
      <4>4. WholeTape(h)'
        BY <3>1, <2>7
      <4>. QED BY <4>1, <4>2, <4>3, <4>4 DEF TidyTape
    <3>2. CASE h # hour
      <4>1. tapes'[h] = tapes[h] /\ h \in DOMAIN tapes /\ TidyTape(h)
            /\ Len(tapes[h].lines) \in Nat
        BY <3>2, <2>5, <2>1, TapeTypes DEF TidyLines
      <4>2. Len(tapes[h].lines) + 0 <= frames
        BY <4>1, <1>1 DEF TidyTape
      <4>. QED BY <4>1, <4>2, <1>2 DEF TidyTape, WholeTape, Placed
    <3>. QED BY <3>1, <3>2
  <2>9. Once'
    <3>. SUFFICES ASSUME NEW h \in DOMAIN tapes', NEW g \in DOMAIN tapes',
                         NEW i \in 1..Len(tapes'[h].lines),
                         NEW j \in 1..Len(tapes'[g].lines),
                         tapes'[h].lines[i].key = tapes'[g].lines[j].key
                  PROVE  h = g /\ i = j
      BY DEF Once
    <3>1. CASE h # hour /\ g # hour
      BY <3>1, <2>5 DEF TidyLines, Once
    \* A line of another tape is neither on the tape nor in the buffer.
    <3>2. ASSUME NEW f \in DOMAIN tapes, f # hour,
                 NEW k \in 1..Len(tapes[f].lines), NEW n \in 1..Len(after)
          PROVE  tapes[f].lines[k].key # after[n].key
      <4>1. \A m \in 1..Len(old) : tapes[f].lines[k].key # old[m].key
        BY <3>2, <2>1 DEF TidyLines, Once, old
      <4>2. \A m \in 1..Len(buffer) : tapes[f].lines[k].key # buffer[m].key
        BY DEF TidyLines, TidyTape
      <4>. QED BY <4>1, <4>2, <2>6
    <3>3. CASE h # hour /\ g = hour
      BY <3>3, <3>2, <2>5
    <3>4. CASE h = hour /\ g # hour
      BY <3>4, <3>2, <2>5
    <3>5. CASE h = hour /\ g = hour
      <4>1. /\ i \in 1..Len(after) /\ j \in 1..Len(after)
            /\ after[i].key = after[j].key
        BY <3>5, <2>5
      <4>2. \A k, n \in 1..Len(old) : old[k].key = old[n].key => k = n
        BY <2>1 DEF TidyLines, Once, old
      <4>3. \A k, n \in 1..Len(buffer) : buffer[k].key = buffer[n].key => k = n
        BY DEF TidyLines, TidyBuffer
      <4>4. \A k \in 1..Len(old), n \in 1..Len(buffer) : old[k].key # buffer[n].key
        BY <2>2 DEF TidyTape, old
      <4>5. i \in Int /\ j \in Int /\ Len(old) \in Int
        BY <2>2 DEF old
      <4>6. CASE i \in 1..Len(old) /\ j \in 1..Len(old)
        BY <4>6, <4>1, <4>2, <2>3, <3>5
      <4>7. CASE i \notin 1..Len(old) /\ j \notin 1..Len(old)
        <5>1. /\ i - Len(old) \in 1..Len(buffer) /\ after[i] = buffer[i - Len(old)]
              /\ j - Len(old) \in 1..Len(buffer) /\ after[j] = buffer[j - Len(old)]
          BY <4>7, <4>1, <2>6
        <5>2. i - Len(old) = j - Len(old)
          BY <5>1, <4>1, <4>3
        <5>3. i = j
          BY <5>2, <4>5
        <5>. QED BY <5>3, <3>5
      <4>8. CASE i \in 1..Len(old) /\ j \notin 1..Len(old)
        BY <4>8, <4>1, <4>4, <2>3, <2>6
      <4>9. CASE i \notin 1..Len(old) /\ j \in 1..Len(old)
        <5>1. /\ i - Len(old) \in 1..Len(buffer) /\ after[i] = buffer[i - Len(old)]
              /\ after[j] = old[j]
          BY <4>9, <4>1, <2>3, <2>6
        <5>2. old[j].key = buffer[i - Len(old)].key
          BY <5>1, <4>1
        <5>. QED BY <5>1, <5>2, <4>4, <4>9
      <4>. QED BY <4>6, <4>7, <4>8, <4>9, <3>5
    <3>. QED BY <3>1, <3>3, <3>4, <3>5
  <2>. QED BY <2>8, <2>9, <1>2 DEF TidyLines
<1>. QED BY <1>3, <1>4

LEMMA TidyNewEvent ==
  ASSUME Fits, TidyLines, NEW key \in Keys, NewEvent(key)
  PROVE  TidyLines'
<1>1. /\ pc = "frames" /\ buffer' = Append(buffer, Line(key))
      /\ txn' = txn \cup {key} /\ db' = db /\ key \notin db \cup txn
      /\ frames' = frames + 1
      /\ tapes' = (IF opened THEN tapes ELSE WithTape)
      /\ unlinked' = (IF opened THEN unlinked ELSE unlinked \cup {hour})
  BY DEF NewEvent, InBatch
<1>2. /\ Line(key) \in Lines /\ Line(key).form = "whole" /\ Line(key).key = key
  BY DEF Line, Lines, Forms
<1>3. /\ Len(buffer) \in Nat /\ frames \in Nat
      /\ Len(buffer') = Len(buffer) + 1
      /\ \A i \in 1..Len(buffer) : buffer'[i] = buffer[i]
      /\ buffer'[Len(buffer) + 1] = Line(key)
  BY <1>1, <1>2, BatchAssumption DEF Fits, TapeInv, Handle, CountInv, Kinds
<1>4. ASSUME NEW j \in 1..Len(buffer')
      PROVE  \/ j \in 1..Len(buffer) /\ buffer'[j] = buffer[j]
             \/ j = Len(buffer) + 1 /\ buffer'[j].key = key
  BY <1>2, <1>3
<1>5. TidyBuffer'
  <2>1. Len(buffer') <= frames'
    BY <1>1, <1>3 DEF TidyLines, TidyBuffer
  <2>2. \A j \in 1..Len(buffer') : buffer'[j].key \in txn'
    BY <1>1, <1>4 DEF TidyLines, TidyBuffer
  <2>3. ASSUME NEW i \in 1..Len(buffer'), NEW j \in 1..Len(buffer'),
               buffer'[i].key = buffer'[j].key
        PROVE  i = j
    <3>1. \A k \in 1..Len(buffer) : buffer[k].key # key
      BY <1>1 DEF TidyLines, TidyBuffer
    <3>. QED BY <2>3, <3>1, <1>4 DEF TidyLines, TidyBuffer
  <2>. QED BY <2>1, <2>2, <2>3 DEF TidyBuffer
\* The tape that is opened is one of those there are, or empty.
<1>6. ASSUME NEW h \in DOMAIN tapes'
      PROVE  \/ h \in DOMAIN tapes /\ tapes'[h] = tapes[h]
             \/ h = hour /\ ~opened /\ tapes'[h] = NewTape
  BY <1>1 DEF WithTape
<1>7. NewTape.lines = <<>> /\ Len(NewTape.lines) = 0 /\ NewTape.synced = 0
  BY DEF NewTape
<1>8. ASSUME NEW h \in DOMAIN tapes' PROVE TidyTape(h)'
  <2>1. CASE h \in DOMAIN tapes /\ tapes'[h] = tapes[h]
    <3>1. TidyTape(h) /\ Len(tapes[h].lines) \in Nat
      BY <2>1, TapeTypes DEF TidyLines, Fits, TapeInv
    <3>2. Placed(h)'
      BY <3>1, <2>1, <1>1 DEF TidyTape, Placed
    <3>3. Len(tapes'[h].lines) + Len(buffer') <= frames'
      <4>1. Len(tapes[h].lines) + Len(buffer) <= frames
        BY <3>1 DEF TidyTape
      <4>2. /\ Len(tapes'[h].lines) = Len(tapes[h].lines)
            /\ Len(buffer') = Len(buffer) + 1 /\ frames' = frames + 1
        BY <2>1, <1>1, <1>3
      <4>3. Len(tapes[h].lines) + (Len(buffer) + 1) <= frames + 1
        <5>1. \A a, b, c \in Nat : a + b <= c => a + (b + 1) <= c + 1
          OBVIOUS
        <5>2. Len(tapes[h].lines) \in Nat /\ Len(buffer) \in Nat /\ frames \in Nat
          BY <3>1, <1>3
        <5>. QED BY <4>1, <5>1, <5>2
      <4>. QED BY <4>2, <4>3
    <3>4. WholeTape(h)'
      BY <3>1, <2>1, <1>1 DEF TidyTape, WholeTape
    <3>5. \A i \in 1..Len(tapes'[h].lines), j \in 1..Len(buffer') :
            tapes'[h].lines[i].key # buffer'[j].key
      BY <3>1, <2>1, <1>1, <1>4 DEF TidyTape, WholeTape
    <3>. QED BY <3>2, <3>3, <3>4, <3>5 DEF TidyTape
  <2>2. CASE h = hour /\ ~opened /\ tapes'[h] = NewTape
    <3>1. Placed(h)'
      BY <2>2, <1>1 DEF Placed
    <3>2. Len(tapes'[h].lines) + Len(buffer') <= frames'
      BY <2>2, <1>1, <1>3, <1>7 DEF TidyLines, TidyBuffer
    <3>. QED BY <2>2, <1>7, <3>1, <3>2 DEF TidyTape, WholeTape
  <2>. QED BY <2>1, <2>2, <1>6
<1>9. Once'
  <2>. SUFFICES ASSUME NEW h \in DOMAIN tapes', NEW g \in DOMAIN tapes',
                       NEW i \in 1..Len(tapes'[h].lines),
                       NEW j \in 1..Len(tapes'[g].lines),
                       tapes'[h].lines[i].key = tapes'[g].lines[j].key
                PROVE  h = g /\ i = j
    BY DEF Once
  <2>1. tapes'[h] # NewTape /\ tapes'[g] # NewTape
    BY <1>7
  <2>. QED BY <2>1, <1>6 DEF TidyLines, Once
<1>. QED BY <1>5, <1>8, <1>9 DEF TidyLines

LEMMA TidyLink ==
  ASSUME Fits, TidyLines, SyncDirectories
  PROVE  TidyLines'
<1>1. /\ pc = "synced" /\ buffer' = buffer /\ db' = db /\ txn' = txn
      /\ unlinked' = {} /\ frames' = frames
      /\ tapes' = [h \in DOMAIN tapes |->
                     [tapes[h] EXCEPT !.linked = @ \/ h \in unlinked]]
  BY DEF SyncDirectories, run
<1>2. ASSUME NEW h \in DOMAIN tapes
      PROVE  /\ tapes'[h].lines = tapes[h].lines /\ tapes'[h].synced = tapes[h].synced
             /\ Placed(h) => tapes'[h].linked
  <2>1. tapes[h] \in Tape
    BY TapeTypes DEF Fits, TapeInv
  <2>2. tapes'[h] = [tapes[h] EXCEPT !.linked = @ \/ h \in unlinked]
    BY <1>1
  <2>. QED BY <2>1, <2>2 DEF Tape, Placed
<1>3. DOMAIN tapes' = DOMAIN tapes
  BY <1>1
<1>4. Once'
  BY <1>2, <1>3 DEF TidyLines, Once
<1>5. ASSUME NEW h \in DOMAIN tapes' PROVE TidyTape(h)'
  <2>1. TidyTape(h) /\ h \in DOMAIN tapes
    BY <1>3 DEF TidyLines
  <2>2. WholeTape(h)'
    BY <1>1, <1>2, <2>1 DEF TidyTape, WholeTape
  <2>3. Placed(h)'
    BY <1>2, <2>1 DEF TidyTape, Placed
  <2>4. Len(tapes'[h].lines) + Len(buffer') <= frames'
    BY <1>1, <1>2, <2>1 DEF TidyTape
  <2>5. \A i \in 1..Len(tapes'[h].lines), j \in 1..Len(buffer') :
          tapes'[h].lines[i].key # buffer'[j].key
    <3>1. \A i \in 1..Len(tapes[h].lines), j \in 1..Len(buffer) :
            tapes[h].lines[i].key # buffer[j].key
      BY <2>1 DEF TidyTape
    <3>2. tapes'[h].lines = tapes[h].lines /\ buffer' = buffer
      BY <1>1, <1>2, <2>1
    <3>. QED BY <3>1, <3>2
  <2>. QED BY <2>2, <2>3, <2>4, <2>5 DEF TidyTape
<1>. QED BY <1>1, <1>4, <1>5 DEF TidyLines, TidyBuffer

\* What no step of a live worker but a flush, a new event and the directory
\* sync does: touch a line.
LEMMA TidyLinesStep ==
  ASSUME Fits, TidyLines, [Next]_vars, pc # "down", pc' # "down"
  PROVE  TidyLines'
<1>1. frames \in Nat /\ frames' \in Nat /\ MaxFrames \in Nat
  BY KindsStep, BatchAssumption DEF Fits, CountInv, Kinds
<1>2. buffer # <<>> => pc = "frames"
  BY DEF Fits, TapeInv, Handle
<1>3. CASE BeginSession
  BY <1>1, <1>3, TidyQuiet DEF BeginSession, run
<1>4. CASE ApplyFaults
  BY <1>1, <1>4, TidyQuiet DEF ApplyFaults, run
<1>5. CASE BeginBatch
  BY <1>1, <1>5, TidyQuiet DEF BeginBatch, run
<1>6. CASE RotateHour
  BY <1>6, TidyFlush DEF RotateHour, run
<1>7. ASSUME NEW key \in Keys, NewEvent(key) PROVE TidyLines'
  BY <1>7, TidyNewEvent
<1>8. ASSUME NEW key \in Keys, DuplicateEvent(key) PROVE TidyLines'
  BY <1>1, <1>8, TidyQuiet DEF DuplicateEvent, InBatch, disk
<1>9. CASE MalformedFrame
  BY <1>1, <1>9, TidyQuiet DEF MalformedFrame, InBatch, disk
<1>10. CASE SyncTapes
  BY <1>10, TidyFlush DEF SyncTapes, run
<1>11. CASE SyncDirectories
  BY <1>11, TidyLink
<1>12. CASE Commit
  <2>1. /\ pc = "linked" /\ UNCHANGED <<tapes, buffer, unlinked, frames>>
        /\ db' \cup txn' = db \cup txn
    BY <1>12 DEF Commit, run
  <2>. QED BY <1>1, <1>2, <2>1, TidyQuiet
<1>13. CASE MarkCommitted
  BY <1>1, <1>13, TidyQuiet DEF MarkCommitted, worker, run
<1>14. CASE EndBatch
  BY <1>1, <1>14, TidyQuiet DEF EndBatch, run
<1>15. CASE WindowEnds
  BY <1>1, <1>15, TidyQuiet DEF WindowEnds, disk, worker
<1>16. CASE MarkFinished
  BY <1>1, <1>16, TidyQuiet DEF MarkFinished
<1>17. CASE UNCHANGED vars
  BY <1>1, <1>17, TidyQuiet DEF vars, disk, worker, run
<1>18. ~(Construct \/ StopSession \/ ProcessDies \/ PowerFails)
  BY DEF Construct, StopSession, ProcessDies, PowerFails
<1>. QED BY <1>3, <1>4, <1>5, <1>6, <1>7, <1>8, <1>9, <1>10, <1>11, <1>12,
            <1>13, <1>14, <1>15, <1>16, <1>17, <1>18
         DEF Next

LEMMA TidyCountsStep ==
  ASSUME Fits, TidyCounts, [Next]_vars, pc # "down", pc' # "down",
         pc \in InABatch \cup {"finished"} => faults = 0
  PROVE  TidyCounts'
<1>. USE DEF TidyCounts, InABatch
<1>0. cache \in Checkpoint
  BY DEF Fits, CountInv, Checkpoints, Counted
<1>1. CASE BeginSession
  BY <1>1 DEF BeginSession, run
<1>2. CASE ApplyFaults
  <2>1. cache'.rows = cache.rows /\ cache'.failed = TRUE
    BY <1>0, <1>2 DEF ApplyFaults, Checkpoint
  <2>. QED BY <1>2, <2>1 DEF ApplyFaults, run
<1>3. CASE BeginBatch
  BY <1>3 DEF BeginBatch, run, Fits, CountInv, Kinds
<1>4. CASE RotateHour
  BY <1>4 DEF RotateHour, run
<1>5. ASSUME NEW key \in Keys, NewEvent(key) PROVE TidyCounts'
  <2>1. /\ cache'.rows = cache.rows + 1 /\ cache'.failed = cache.failed
        /\ pc = "frames" /\ pc' = "frames"
        /\ db' = db /\ txn' = txn \cup {key} /\ key \notin db \cup txn
        /\ malformed' = malformed /\ faults' = faults /\ errors' = errors
    BY <1>0, <1>5 DEF NewEvent, InBatch, Checkpoint
  <2>2. db \cup txn \subseteq Keys
    BY DEF Fits, CountInv, Behind
  <2>3. IsFiniteSet(db \cup txn)
    BY <2>2, Sizes
  <2>4. Cardinality((db \cup txn) \cup {key}) = Cardinality(db \cup txn) + 1
    BY <2>1, <2>3, FS_AddElement
  <2>5. db' \cup txn' = (db \cup txn) \cup {key}
    BY <2>1
  <2>6. cache'.rows = Cardinality(db' \cup txn')
    BY <2>1, <2>4, <2>5
  <2>. QED BY <2>1, <2>6
<1>6. ASSUME NEW key \in Keys, DuplicateEvent(key) PROVE TidyCounts'
  BY <1>6 DEF DuplicateEvent, InBatch, disk
<1>7. CASE MalformedFrame
  BY <1>7 DEF MalformedFrame, InBatch, disk
<1>8. CASE SyncTapes
  BY <1>8 DEF SyncTapes, run
<1>9. CASE SyncDirectories
  BY <1>9 DEF SyncDirectories, run
<1>10. CASE Commit
  <2>1. db' \cup txn' = db \cup txn
    BY <1>10 DEF Commit
  <2>2. cache'.rows = Cardinality(db' \cup txn')
    BY <1>10, <2>1 DEF Commit
  <2>. QED BY <1>10, <2>2 DEF Commit, run
<1>11. CASE MarkCommitted
  BY <1>11 DEF MarkCommitted, worker, run
<1>12. CASE EndBatch
  BY <1>12 DEF EndBatch, run
<1>13. CASE WindowEnds
  BY <1>13 DEF WindowEnds, disk, worker
<1>14. CASE MarkFinished
  <2>1. cache'.rows = cache.rows /\ cache'.failed = cache.failed
    BY <1>0, <1>14 DEF MarkFinished, Checkpoint
  <2>. QED BY <1>14, <2>1 DEF MarkFinished
<1>15. CASE UNCHANGED vars
  BY <1>15 DEF vars, disk, worker, run
<1>16. ~(Construct \/ StopSession \/ ProcessDies \/ PowerFails)
  BY DEF Construct, StopSession, ProcessDies, PowerFails
<1>. QED BY <1>1, <1>2, <1>3, <1>4, <1>5, <1>6, <1>7, <1>8, <1>9, <1>10,
            <1>11, <1>12, <1>13, <1>14, <1>15, <1>16
         DEF Next

\* The first process starts on an empty disk.
LEMMA FirstStart ==
  ASSUME Fits, Unused, Construct
  PROVE  Tidy'
<1>1. /\ tapes' = tapes /\ db' = db /\ txn' = txn /\ buffer' = buffer
      /\ unlinked' = unlinked /\ cache' = saved /\ malformed' = malformed
      /\ frames' = frames
  BY DEF Construct
<1>2. /\ DOMAIN tapes = {} /\ db = {} /\ ~malformed /\ unlinked = {}
      /\ saved.rows = 0 /\ txn = {} /\ buffer = <<>> /\ frames \in Nat
  BY BatchAssumption
     DEF Unused, NewCheckpoint, Fits, TapeInv, Handle, Transaction, CountInv, Kinds
<1>3. Len(<<>>) = 0 /\ Cardinality({} \cup {}) = 0
  BY FS_EmptySet
<1>4. TidyLines'
  BY <1>1, <1>2, <1>3 DEF TidyLines, Once, TidyBuffer
<1>5. TidyCounts'
  <2>1. cache'.rows = Cardinality(db' \cup txn')
    BY <1>1, <1>2, <1>3
  <2>. QED BY <1>1, <1>2, <2>1 DEF TidyCounts
<1>. QED BY <1>4, <1>5 DEF Tidy

LEMMA UnusedStep ==
  ASSUME Fits, Unused, [Next]_vars, ~Construct
  PROVE  Unused'
<1>0. pc = "down" /\ older \cup {saved} = {NewCheckpoint} /\ DOMAIN tapes = {}
  BY DEF Unused
<1>1. CASE WindowEnds
  BY <1>1 DEF WindowEnds, Unused, disk, worker
<1>2. CASE PowerFails
  <2>1. PICK kept \in SUBSET DOMAIN tapes :
          \E after \in [kept -> UNION {Survivors(tapes[h]) : h \in kept}] :
            tapes' = after
    BY <1>2 DEF PowerFails
  <2>2. DOMAIN tapes' = {}
    BY <2>1, <1>0
  <2>. QED BY <1>0, <1>2, <2>2 DEF PowerFails, Unused, NoWorker
<1>3. CASE UNCHANGED vars
  BY <1>3 DEF vars, Unused, disk, worker, run
<1>. QED BY <1>0, <1>1, <1>2, <1>3
     DEF Next, BeginSession, ApplyFaults, BeginBatch, RotateHour, NewEvent,
         DuplicateEvent, InBatch, MalformedFrame, SyncTapes, SyncDirectories,
         Commit, MarkCommitted, EndBatch, MarkFinished, StopSession, ProcessDies

\* A later process has its gap to apply, and once it is applied the day has
\* failed.
LEMMA LaterStep ==
  ASSUME Fits, starts \in Nat, starts > 1, [Next]_vars,
         pc \in InABatch \cup {"finished"} => faults = 0,
         pc \notin {"down", "constructed"} => faults > 0 \/ cache.failed
  PROVE  pc' \notin {"down", "constructed"} => faults' > 0 \/ cache'.failed
<1>. SUFFICES ASSUME pc' \notin {"down", "constructed"}
              PROVE  faults' > 0 \/ cache'.failed
  OBVIOUS
<1>. USE DEF InABatch
<1>0. cache \in Checkpoint /\ faults \in Nat
  BY DEF Fits, CountInv, Checkpoints, Counted, Kinds
<1>1. CASE BeginSession
  <2>1. Outstanding > 0
    BY DEF Outstanding
  <2>. QED BY <1>1, <2>1 DEF BeginSession
<1>2. CASE ApplyFaults
  BY <1>0, <1>2 DEF ApplyFaults, Checkpoint
<1>3. CASE BeginBatch \/ RotateHour \/ SyncTapes \/ SyncDirectories \/ Commit
  BY <1>3 DEF BeginBatch, RotateHour, SyncTapes, SyncDirectories, Commit
<1>4. ASSUME NEW key \in Keys, NewEvent(key) \/ DuplicateEvent(key)
      PROVE  faults' > 0 \/ cache'.failed
  BY <1>0, <1>4 DEF NewEvent, DuplicateEvent, InBatch, Checkpoint
<1>5. CASE MalformedFrame
  BY <1>5 DEF MalformedFrame, InBatch
<1>6. CASE MarkCommitted \/ WindowEnds
  BY <1>6 DEF MarkCommitted, WindowEnds, worker
<1>7. CASE EndBatch
  BY <1>7, <1>0 DEF EndBatch
<1>8. CASE MarkFinished
  BY <1>0, <1>8 DEF MarkFinished, Checkpoint
<1>9. CASE UNCHANGED vars
  BY <1>9 DEF vars, worker
<1>10. ~(Construct \/ StopSession \/ ProcessDies \/ PowerFails)
  BY DEF Construct, StopSession, ProcessDies, PowerFails
<1>. QED BY <1>1, <1>2, <1>3, <1>4, <1>5, <1>6, <1>7, <1>8, <1>9, <1>10
         DEF Next

LEMMA NoFaultsStep ==
  ASSUME [Next]_vars, pc \in InABatch \cup {"finished"} => faults = 0
  PROVE  pc' \in InABatch \cup {"finished"} => faults' = 0
<1>. USE DEF InABatch
<1>1. ASSUME NEW key \in Keys, NewEvent(key) \/ DuplicateEvent(key)
      PROVE  pc' \in InABatch \cup {"finished"} => faults' = 0
  BY <1>1 DEF NewEvent, DuplicateEvent, InBatch
<1>2. CASE Construct \/ BeginSession \/ ApplyFaults \/ BeginBatch
           \/ RotateHour \/ SyncTapes \/ SyncDirectories \/ Commit
  BY <1>2 DEF Construct, BeginSession, ApplyFaults, BeginBatch, RotateHour,
     SyncTapes, SyncDirectories, Commit
<1>3. CASE MalformedFrame \/ MarkCommitted \/ EndBatch \/ WindowEnds
           \/ MarkFinished
  BY <1>3 DEF MalformedFrame, InBatch, MarkCommitted, EndBatch, WindowEnds,
     MarkFinished, worker
<1>4. CASE StopSession \/ ProcessDies \/ PowerFails
  BY <1>4 DEF StopSession, ProcessDies, PowerFails, NoWorker
<1>5. CASE UNCHANGED vars
  BY <1>5 DEF vars, worker
<1>. QED BY <1>1, <1>2, <1>3, <1>4, <1>5 DEF Next

\* The start counter only moves when a process is constructed.
LEMMA StartsStep ==
  ASSUME [Next]_vars
  PROVE  \/ Construct /\ starts' = starts + 1
         \/ ~Construct /\ starts' = starts /\ (pc = "down" => pc' = "down")
<1>1. CASE Construct
  BY <1>1 DEF Construct
<1>2. ASSUME ~Construct, NEW key \in Keys, NewEvent(key) \/ DuplicateEvent(key)
      PROVE  starts' = starts /\ pc # "down"
  BY <1>2 DEF NewEvent, DuplicateEvent, InBatch
<1>3. CASE BeginSession \/ ApplyFaults \/ BeginBatch \/ RotateHour
           \/ SyncTapes \/ SyncDirectories \/ Commit \/ MarkCommitted
           \/ EndBatch
  BY <1>3 DEF BeginSession, ApplyFaults, BeginBatch, RotateHour, SyncTapes,
     SyncDirectories, Commit, MarkCommitted, EndBatch, Construct, run
<1>4. CASE MalformedFrame \/ MarkFinished
  BY <1>4 DEF MalformedFrame, InBatch, MarkFinished, Construct
<1>5. CASE WindowEnds
  BY <1>5 DEF WindowEnds, Construct, worker
<1>6. CASE StopSession \/ ProcessDies
  BY <1>6 DEF StopSession, ProcessDies, Construct
<1>7. CASE PowerFails
  BY <1>7 DEF PowerFails, Construct
<1>8. CASE UNCHANGED vars
  BY <1>8 DEF vars, run, Construct
<1>. QED BY <1>1, <1>2, <1>3, <1>4, <1>5, <1>6, <1>7, <1>8 DEF Next

LEMMA NoteStep ==
  ASSUME Fits, NoteInv, [Next]_vars
  PROVE  NoteInv'
<1>0. pc' \in InABatch \cup {"finished"} => faults' = 0
  BY NoFaultsStep DEF NoteInv
<1>1. CASE Construct /\ starts' = starts + 1
  <2>1. pc = "down" /\ pc' = "constructed" /\ starts' \in Nat /\ starts' # 0
    BY <1>1 DEF Construct, NoteInv
  <2>2. ASSUME starts' = 1 PROVE Tidy'
    <3>1. starts = 0
      BY <1>1, <2>2 DEF NoteInv
    <3>. QED BY <1>1, <3>1, FirstStart DEF NoteInv
  <2>. QED BY <1>0, <2>1, <2>2 DEF NoteInv
<1>2. CASE ~Construct /\ starts' = starts /\ (pc = "down" => pc' = "down")
  <2>1. starts' = 0 => Unused'
    BY <1>2, UnusedStep DEF NoteInv
  <2>2. ASSUME starts' = 1, pc' # "down" PROVE Tidy'
    BY <1>2, <2>2, TidyLinesStep, TidyCountsStep DEF NoteInv, Tidy
  <2>3. ASSUME starts' > 1, pc' \notin {"down", "constructed"}
        PROVE  faults' > 0 \/ cache'.failed
    BY <1>2, <2>3, LaterStep DEF NoteInv
  <2>. QED BY <1>0, <1>2, <2>1, <2>2, <2>3 DEF NoteInv
<1>. QED BY <1>1, <1>2, StartsStep

\* The first process leaves whole lines of known events, and every later one
\* has a gap.
THEOREM NotesFit == Spec => []NoteInv
<1>1. Init => NoteInv
  BY DEF Init, NoteInv, Unused, InABatch
<1>2. Fits /\ NoteInv /\ [Next]_vars => NoteInv'
  BY NoteStep
<1>3. Fits <=> TapeInv /\ CountInv
  BY DEF Fits
<1>. QED BY <1>1, <1>2, <1>3, TapesFit, Counts, PTL DEF Spec

\* Tidy tapes have no tails.
LEMMA TidyHasNoTails ==
  ASSUME Fits, Once, \A h \in DOMAIN tapes : WholeTape(h)
  PROVE  ~TapeHasTails
<1>1. ASSUME NEW p \in Places
      PROVE  /\ p[1] \in DOMAIN tapes /\ p[2] \in 1..Len(tapes[p[1]].lines)
             /\ p = <<p[1], p[2]>>
  <2>1. /\ p[1] \in DOMAIN tapes /\ p[2] <= Len(tapes[p[1]].lines)
        /\ p[2] \in 1..(MaxStarts * MaxFrames) /\ p = <<p[1], p[2]>>
    BY DEF Places
  <2>2. p[2] \in Nat /\ p[2] >= 1
    BY <2>1, BatchAssumption
  <2>3. Len(tapes[p[1]].lines) \in Nat
    BY <2>1, TapeTypes DEF Fits, TapeInv
  <2>. QED BY <2>1, <2>2, <2>3
<1>2. ASSUME NEW p \in Places
      PROVE  LineAt(p).form = "whole" /\ LineAt(p).key \in db \cup txn
  BY <1>1 DEF LineAt, WholeTape
<1>3. ASSUME NEW p \in Places, NEW q \in Places, LineAt(p).key = LineAt(q).key
      PROVE  p = q
  <2>1. p[1] = q[1] /\ p[2] = q[2]
    BY <1>1, <1>3 DEF LineAt, Once
  <2>. QED BY <1>1, <2>1
<1>. QED BY <1>2, <1>3 DEF TapeHasTails

\* A worker that may write knows of the tails on its tapes: a gap is still to
\* be applied, or the day has failed.
THEOREM TailsNoted == Spec => []TailsAreNoted
<1>1. Fits /\ NoteInv => TailsAreNoted
  <2>. SUFFICES ASSUME Fits, NoteInv, pc \notin {"down", "constructed"},
                       TapeHasTails
                PROVE  faults > 0 \/ cache.failed
    BY DEF TailsAreNoted
  <2>1. CASE starts = 0
    BY <2>1 DEF NoteInv, Unused
  <2>2. CASE starts = 1
    BY <2>2, TidyHasNoTails DEF NoteInv, Tidy, TidyLines, TidyTape
  <2>3. CASE starts > 1
    BY <2>3 DEF NoteInv
  <2>. QED BY <2>1, <2>2, <2>3 DEF NoteInv
<1>2. Fits <=> TapeInv /\ CountInv
  BY DEF Fits
<1>. QED BY <1>1, <1>2, NotesFit, TapesFit, Counts, PTL

-----------------------------------------------------------------------------
(* A sealed day.                                                            *)

Sealed(checkpoint) == checkpoint.status = "COLLECTED_PENDING_RECONCILIATION"

DayIsExact ==
  /\ Once /\ ~malformed
  /\ \A h \in DOMAIN tapes :
       WholeTape(h) /\ tapes[h].linked /\ Len(tapes[h].lines) <= MaxFrames

\* Nothing is written to the day after it is sealed: its window is over and no
\* later process gets frames.
SealedDay ==
  /\ DayIsExact
  /\ ended /\ ~feed /\ ~opened /\ txn = {}
  /\ pc \in {"down", "constructed", "idle", "finished"}

SealInv ==
  \A c \in older \cup {saved, cache} :
    Sealed(c) => SealedDay /\ c.rows = Cardinality(db)

\* A tape that is linked and fully synced survives a power loss as it is.
LEMMA SealedSurvives ==
  ASSUME NEW tape, tape \in Tape, tape.synced = Len(tape.lines),
         NEW new \in Survivors(tape)
  PROVE  /\ Len(new.lines) = Len(tape.lines)
         /\ \A i \in 1..Len(tape.lines) : new.lines[i] = tape.lines[i]
         /\ new.synced = tape.synced /\ new.linked = tape.linked
<1>. DEFINE n == Len(tape.lines)
            kept == SubSeq(tape.lines, 1, n)
            rest == SubSeq(tape.lines, n + 1, n)
<1>1. tape.lines \in Seq(Lines) /\ n \in Nat
  BY DEF Tape
<1>2. PICK lines \in Interrupted(kept, rest) : new = [tape EXCEPT !.lines = lines]
  BY DEF Survivors
<1>3. /\ kept \in Seq(Lines) /\ Len(kept) = n
      /\ \A i \in 1..n : kept[i] = tape.lines[i]
  <2>1. n \in 0..n
    BY <1>1
  <2>. QED BY <1>1, <2>1, PartTypes
<1>4. rest = <<>>
  BY <1>1
<1>. HIDE DEF n, kept, rest
<1>5. lines = Appended(kept, SubSeq(<<>>, 1, 0))
  <2>1. Len(<<>>) = 0 /\ 0..0 = {0} /\ 0..(0 - 1) = {}
    OBVIOUS
  <2>2. \/ \E k \in 0..0 : lines = Appended(kept, SubSeq(<<>>, 1, k))
        \/ \E k \in {} : TRUE
    BY <1>2, <1>4, <2>1 DEF Interrupted
  <2>. QED BY <2>1, <2>2
<1>6. SubSeq(<<>>, 1, 0) = <<>>
  OBVIOUS
<1>7. /\ Len(lines) = n /\ \A i \in 1..n : lines[i] = kept[i]
  <2>1. <<>> \in Seq(Lines) /\ Len(<<>>) = 0
    OBVIOUS
  <2>2. /\ Len(Appended(kept, <<>>)) = Len(kept) + Len(<<>>)
        /\ \A i \in 1..Len(kept) : Appended(kept, <<>>)[i] = kept[i]
    BY <1>3, <2>1, AppendedFacts
  <2>3. n + 0 = n
    BY <1>1 DEF n
  <2>. QED BY <1>3, <1>5, <1>6, <2>1, <2>2, <2>3
<1>8. new.lines = lines /\ new.synced = tape.synced /\ new.linked = tape.linked
  BY <1>2 DEF Tape
<1>. QED BY <1>3, <1>7, <1>8 DEF n

LEMMA SameDay ==
  ASSUME DayIsExact, malformed' = malformed, db' = db, txn' = txn,
         DOMAIN tapes' = DOMAIN tapes,
         \A h \in DOMAIN tapes :
           /\ Len(tapes'[h].lines) = Len(tapes[h].lines)
           /\ \A i \in 1..Len(tapes[h].lines) :
                tapes'[h].lines[i] = tapes[h].lines[i]
           /\ tapes'[h].synced = tapes[h].synced
           /\ tapes'[h].linked = tapes[h].linked
  PROVE  DayIsExact'
<1>1. Once'
  BY DEF DayIsExact, Once
<1>2. ASSUME NEW h \in DOMAIN tapes'
      PROVE  (WholeTape(h) /\ tapes[h].linked /\ Len(tapes[h].lines) <= MaxFrames)'
  <2>1. h \in DOMAIN tapes /\ WholeTape(h) /\ tapes[h].linked
        /\ Len(tapes[h].lines) <= MaxFrames
    BY DEF DayIsExact
  <2>2. WholeTape(h)'
    BY <2>1 DEF WholeTape
  <2>. QED BY <2>1, <2>2
<1>. QED BY <1>1, <1>2 DEF DayIsExact

LEMMA SealStays ==
  ASSUME Fits, SealedDay, [Next]_vars
  PROVE  SealedDay' /\ db' = db
<1>0. /\ pc \in {"down", "constructed", "idle", "finished"} /\ ~feed /\ ended
      /\ ~opened /\ txn = {} /\ DayIsExact
  BY DEF SealedDay
<1>1. ASSUME tapes' = tapes, db' = db, txn' = txn, malformed' = malformed,
             ended' = ended, feed' = FALSE, opened' = FALSE,
             pc' \in {"down", "constructed", "idle", "finished"}
      PROVE  SealedDay' /\ db' = db
  <2>1. DayIsExact'
    BY <1>0, <1>1, SameDay
  <2>. QED BY <1>0, <1>1, <2>1 DEF SealedDay
<1>2. feed = FALSE /\ opened = FALSE
  BY <1>0 DEF Fits, CountInv, Flags
<1>3. CASE Construct
  BY <1>0, <1>1, <1>2, <1>3 DEF Construct
<1>4. CASE BeginSession \/ ApplyFaults
  BY <1>0, <1>1, <1>2, <1>4 DEF BeginSession, ApplyFaults, run
<1>5. CASE MarkFinished
  BY <1>0, <1>1, <1>2, <1>5 DEF MarkFinished
<1>6. CASE StopSession
  BY <1>0, <1>1, <1>6 DEF StopSession, NoWorker
<1>7. CASE ProcessDies
  BY <1>0, <1>1, <1>7 DEF ProcessDies, NoWorker
<1>8. CASE PowerFails
  <2>1. /\ db' = db /\ txn' = {} /\ malformed' = malformed /\ ended' = ended
        /\ feed' = FALSE /\ opened' = FALSE /\ pc' = "down"
    BY <1>8 DEF PowerFails, NoWorker
  <2>2. PICK kept \in SUBSET DOMAIN tapes :
          /\ \A h \in DOMAIN tapes : tapes[h].linked => h \in kept
          /\ \E after \in [kept -> UNION {Survivors(tapes[h]) : h \in kept}] :
               /\ \A h \in kept : after[h] \in Survivors(tapes[h])
               /\ tapes' = after
    BY <1>8 DEF PowerFails
  <2>3. kept = DOMAIN tapes
    BY <1>0, <2>2 DEF DayIsExact
  <2>4. /\ DOMAIN tapes' = DOMAIN tapes
        /\ \A h \in DOMAIN tapes : tapes'[h] \in Survivors(tapes[h])
    BY <2>2, <2>3
  <2>5. ASSUME NEW h \in DOMAIN tapes
        PROVE  /\ Len(tapes'[h].lines) = Len(tapes[h].lines)
               /\ \A i \in 1..Len(tapes[h].lines) :
                    tapes'[h].lines[i] = tapes[h].lines[i]
               /\ tapes'[h].synced = tapes[h].synced
               /\ tapes'[h].linked = tapes[h].linked
    <3>1. tapes[h] \in Tape /\ tapes[h].synced = Len(tapes[h].lines)
      BY <1>0, TapeTypes DEF DayIsExact, WholeTape, Fits, TapeInv
    <3>. QED BY <2>4, <3>1, SealedSurvives
  <2>6. DayIsExact'
    BY <1>0, <2>1, <2>4, <2>5, SameDay
  <2>. QED BY <1>0, <2>1, <2>6 DEF SealedDay
<1>9. CASE UNCHANGED vars
  BY <1>0, <1>1, <1>2, <1>9 DEF vars, disk, worker, run
<1>. QED BY <1>0, <1>3, <1>4, <1>5, <1>6, <1>7, <1>8, <1>9
     DEF Next, BeginBatch, RotateHour, NewEvent, DuplicateEvent, InBatch,
         MalformedFrame, SyncTapes, SyncDirectories, Commit, MarkCommitted,
         EndBatch, WindowEnds

\* Only the first process, and only with nothing amiss, seals a day.
LEMMA NewSeal ==
  ASSUME Fits, NoteInv, MarkFinished, Sealed(cache')
  PROVE  SealedDay' /\ cache'.rows = Cardinality(db')
<1>1. /\ pc = "idle" /\ faults = 0 /\ pc' = "finished" /\ opened' = FALSE
      /\ feed' = FALSE /\ cache' = [cache EXCEPT !.status = FinishedStatus]
      /\ UNCHANGED <<tapes, db, txn, ended, malformed>>
  BY DEF MarkFinished
<1>2. /\ cache \in Checkpoint /\ txn = {} /\ buffer = <<>>
      /\ frames \in 0..MaxFrames /\ MaxFrames \in Nat
  BY <1>1, BatchAssumption
     DEF Fits, CountInv, Checkpoints, Counted, TapeInv, Transaction, Handle, Kinds
<1>3. ~cache.failed /\ ended /\ cache'.rows = cache.rows
  <2>1. cache'.status = FinishedStatus /\ cache'.rows = cache.rows
    BY <1>1, <1>2 DEF Checkpoint
  <2>. QED BY <2>1 DEF FinishedStatus, Sealed
<1>4. Tidy
  BY <1>1, <1>3 DEF NoteInv, Unused
<1>5. ~malformed /\ unlinked = {} /\ cache.rows = Cardinality(db \cup txn)
  BY <1>1, <1>3, <1>4 DEF Tidy, TidyCounts, InABatch
<1>6. db \cup txn = db
  BY <1>2
<1>7. ASSUME NEW h \in DOMAIN tapes
      PROVE  WholeTape(h) /\ tapes[h].linked /\ Len(tapes[h].lines) <= MaxFrames
  <2>1. TidyTape(h) /\ Len(tapes[h].lines) \in Nat
    BY <1>4, TapeTypes DEF Tidy, TidyLines, Fits, TapeInv
  <2>2. WholeTape(h) /\ tapes[h].linked
    BY <1>5, <2>1 DEF TidyTape, Placed
  <2>3. Len(tapes[h].lines) <= frames
    <3>1. Len(buffer) = 0
      BY <1>2
    <3>. QED BY <2>1, <3>1 DEF TidyTape
  <2>. QED BY <1>2, <2>1, <2>2, <2>3
<1>8. DayIsExact
  BY <1>4, <1>5, <1>7 DEF DayIsExact, Tidy, TidyLines
<1>9. DayIsExact'
  BY <1>1, <1>8, SameDay
<1>10. cache'.rows = Cardinality(db')
  BY <1>1, <1>3, <1>5, <1>6
<1>. QED BY <1>1, <1>2, <1>3, <1>9, <1>10 DEF SealedDay

\* A step writes checkpoints it had, one with no seal, or the one of
\* _mark_finished.
LEMMA SealStep ==
  ASSUME Fits, NoteInv, SealInv, [Next]_vars
  PROVE  SealInv'
<1>. SUFFICES ASSUME NEW c, c \in older' \cup {saved', cache'}, Sealed(c)
              PROVE  SealedDay' /\ c.rows = Cardinality(db')
  BY DEF SealInv, Sealed
<1>0. cache \in Checkpoint /\ ~Sealed(NewCheckpoint)
  BY DEF Fits, CountInv, Checkpoints, Counted, Sealed, NewCheckpoint
<1>1. CASE c \in older \cup {saved, cache}
  <2>1. SealedDay /\ c.rows = Cardinality(db)
    BY <1>1 DEF SealInv
  <2>. QED BY <2>1, SealStays
<1>2. CASE c \notin older \cup {saved, cache}
  <2>1. CASE MarkFinished
    <3>1. c = cache'
      BY <1>2, <2>1 DEF MarkFinished, Save
    <3>. QED BY <2>1, <3>1, NewSeal
  <2>2. ASSUME NEW key \in Keys, NewEvent(key) PROVE FALSE
    <3>1. c = cache' /\ cache'.status = cache.status /\ pc = "frames"
      BY <1>0, <1>2, <2>2 DEF NewEvent, InBatch, Checkpoint
    <3>2. SealedDay
      BY <3>1 DEF Sealed, SealInv
    <3>. QED BY <3>1, <3>2 DEF SealedDay
  <2>3. ASSUME ApplyFaults PROVE FALSE
    <3>1. c = cache' /\ cache'.status = "INCOMPLETE"
      BY <1>0, <1>2, <2>3 DEF ApplyFaults, Save, Checkpoint
    <3>. QED BY <3>1 DEF Sealed
  <2>4. ~(Construct \/ BeginSession \/ BeginBatch \/ RotateHour \/ SyncTapes
          \/ SyncDirectories \/ Commit)
    BY <1>2 DEF Construct, BeginSession, BeginBatch, RotateHour, SyncTapes,
       SyncDirectories, Commit, Save
  <2>5. ~(MalformedFrame \/ MarkCommitted \/ EndBatch \/ WindowEnds)
    BY <1>2 DEF MalformedFrame, MarkCommitted, EndBatch, WindowEnds, Save,
       worker, disk
  <2>6. ~(StopSession \/ ProcessDies \/ PowerFails)
    BY <1>0, <1>2 DEF StopSession, ProcessDies, PowerFails, NoWorker
  <2>7. ASSUME NEW key \in Keys PROVE ~DuplicateEvent(key)
    BY <1>2 DEF DuplicateEvent, disk
  <2>8. ~UNCHANGED vars
    BY <1>2 DEF vars, disk, worker
  <2>. QED BY <2>1, <2>2, <2>3, <2>4, <2>5, <2>6, <2>7, <2>8 DEF Next
<1>. QED BY <1>1, <1>2

\* What is sealed stays as it was sealed.
THEOREM SealsHold == Spec => []SealInv
<1>1. Init => SealInv
  BY DEF Init, SealInv, Sealed, NewCheckpoint
<1>2. Fits /\ NoteInv /\ SealInv /\ [Next]_vars => SealInv'
  BY SealStep
<1>3. Fits <=> TapeInv /\ CountInv
  BY DEF Fits
<1>. QED BY <1>1, <1>2, <1>3, TapesFit, Counts, NotesFit, PTL DEF Spec

\* The events of an exact day are those of its lines.
LEMMA ExactKeys ==
  ASSUME Fits, DayIsExact, txn = {}
  PROVE  db = {LineAt(p).key : p \in Places}
<1>1. ASSUME NEW key \in db PROVE key \in {LineAt(p).key : p \in Places}
  <2>1. PICK h \in DOMAIN tapes : SyncedLine(h, key)
    BY DEF Fits, TapeInv, Committed, OnDisk
  <2>2. PICK i \in 1..tapes[h].synced : tapes[h].lines[i].key = key
    BY <2>1 DEF SyncedLine, HasKey
  <2>3. /\ tapes[h].synced = Len(tapes[h].lines) /\ tapes[h].synced \in Nat
        /\ tapes[h].synced <= MaxFrames /\ h \in 1..Hours
    BY TapeTypes DEF DayIsExact, WholeTape, Fits, TapeInv, Tapes
  <2>4. i \in 1..(MaxStarts * MaxFrames)
    <3>1. \A a, b \in Nat \ {0} : b <= a * b /\ a * b \in Nat
      OBVIOUS
    <3>2. MaxStarts \in Nat \ {0} /\ MaxFrames \in Nat \ {0}
      BY BatchAssumption
    <3>3. MaxFrames <= MaxStarts * MaxFrames /\ MaxStarts * MaxFrames \in Nat
      BY <3>1, <3>2
    <3>. QED BY <2>2, <2>3, <3>2, <3>3
  <2>5. <<h, i>> \in Places /\ LineAt(<<h, i>>).key = key
    BY <2>2, <2>3, <2>4 DEF Places, LineAt
  <2>. QED BY <2>5
<1>2. ASSUME NEW p \in Places PROVE LineAt(p).key \in db
  <2>1. p[1] \in DOMAIN tapes /\ p[2] \in 1..Len(tapes[p[1]].lines)
    <3>1. /\ p[1] \in DOMAIN tapes /\ p[2] <= Len(tapes[p[1]].lines)
          /\ p[2] \in 1..(MaxStarts * MaxFrames)
      BY DEF Places
    <3>2. p[2] \in Nat /\ p[2] >= 1
      BY <3>1, BatchAssumption
    <3>3. Len(tapes[p[1]].lines) \in Nat
      BY <3>1, TapeTypes DEF Fits, TapeInv
    <3>. QED BY <3>1, <3>2, <3>3
  <2>. QED BY <2>1 DEF DayIsExact, WholeTape, LineAt
<1>. QED BY <1>1, <1>2

\* A day whose checkpoint says it was collected has each of its events on one
\* whole synced line, and the checkpoint counts them.
THEOREM CollectedIsExact == Spec => []CollectedDayIsExact
<1>1. Fits /\ SealInv => CollectedDayIsExact
  <2>. SUFFICES ASSUME Fits, SealInv, Sealed(saved)
                PROVE  /\ ~TapeHasTails /\ ~malformed
                       /\ db = {LineAt(p).key : p \in Places}
                       /\ saved.rows = Cardinality(db)
                       /\ \A h \in DOMAIN tapes :
                            /\ tapes[h].linked
                            /\ tapes[h].synced = Len(tapes[h].lines)
    BY DEF CollectedDayIsExact, Sealed
  <2>1. SealedDay /\ saved.rows = Cardinality(db)
    BY DEF SealInv
  <2>2. DayIsExact /\ txn = {}
    BY <2>1 DEF SealedDay
  <2>3. ~TapeHasTails
    BY <2>2, TidyHasNoTails DEF DayIsExact
  <2>4. db = {LineAt(p).key : p \in Places}
    BY <2>2, ExactKeys
  <2>. QED BY <2>1, <2>2, <2>3, <2>4 DEF DayIsExact, WholeTape
<1>2. Fits <=> TapeInv /\ CountInv
  BY DEF Fits
<1>. QED BY <1>1, <1>2, SealsHold, TapesFit, Counts, PTL

-----------------------------------------------------------------------------
(* The worker implements DayArchive.                                        *)

ArchiveInv == Fits /\ SealInv

\* An event is taped when it is on the disk.
LEMMA TapedIsOnDisk ==
  /\ \A key \in Keys : key \in TapedEvents <=> OnDisk(key)
  /\ TapedEvents \subseteq Keys
BY DEF TapedEvents, OnDisk, SyncedLine, HasKey

LEMMA TapedIsOnDiskNext ==
  /\ \A key \in Keys : key \in TapedEvents' <=> OnDisk(key)'
  /\ TapedEvents' \subseteq Keys
BY DEF TapedEvents, OnDisk, SyncedLine, HasKey

\* What is taped stays so.
LEMMA TapedStay ==
  ASSUME Tapes, Tapes', LinkedKept
  PROVE  TapedEvents \subseteq TapedEvents'
BY LinkedStay, TapedIsOnDisk, TapedIsOnDiskNext

\* A crash tapes nothing.
LEMMA TapedSteady ==
  ASSUME Tapes, Tapes', LinkedKept, LinkedSteady
  PROVE  TapedEvents' = TapedEvents
BY TapedStay, NothingAdded, TapedIsOnDisk, TapedIsOnDiskNext

\* An exact day has the same events on its tapes and in its table.
LEMMA ExactIsTaped ==
  ASSUME Fits, DayIsExact, txn = {}
  PROVE  db = TapedEvents
<1>1. db \subseteq TapedEvents
  BY TapedIsOnDisk DEF Fits, TapeInv, Committed
<1>2. ASSUME NEW key \in TapedEvents PROVE key \in db
  <2>1. PICK h \in DOMAIN tapes : \E i \in 1..tapes[h].synced : tapes[h].lines[i].key = key
    BY <1>2 DEF TapedEvents
  <2>2. WholeTape(h)
    BY DEF DayIsExact
  <2>. QED BY <2>1, <2>2 DEF WholeTape
<1>. QED BY <1>1, <1>2

\* What the checkpoint may report of the tapes and the table.
ReportIsTrue ==
  /\ saved.rows \in 0..Cardinality(db)
  /\ Sealed(saved) => saved.rows = Cardinality(db) /\ db = TapedEvents

LEMMA ReportsAreTrue == ArchiveInv => ReportIsTrue
<1>. SUFFICES ASSUME ArchiveInv PROVE ReportIsTrue
  OBVIOUS
<1>1. saved.rows \in 0..Cardinality(db)
  <2>1. saved.rows \in Nat /\ saved.rows <= Cardinality(db)
    BY BatchAssumption
    DEF ArchiveInv, Fits, CountInv, Checkpoints, Counted, Checkpoint, Behind
  <2>2. Cardinality(db) \in Nat
    BY Sizes DEF ArchiveInv, Fits, CountInv, Behind
  <2>. QED BY <2>1, <2>2
<1>2. ASSUME Sealed(saved)
      PROVE  saved.rows = Cardinality(db) /\ db = TapedEvents
  <2>1. SealedDay /\ saved.rows = Cardinality(db)
    BY <1>2 DEF ArchiveInv, SealInv
  <2>. QED BY <2>1, ExactIsTaped DEF SealedDay, ArchiveInv
<1>. QED BY <1>1, <1>2 DEF ReportIsTrue

LEMMA ReportsAreTrueNext == ArchiveInv' => ReportIsTrue'
BY ReportsAreTrue, PTL

\* The same operator, of the module and of its instance.
LEMMA SameCardinality == \A S : Archive!Cardinality(S) = Cardinality(S)
BY DEF Archive!Cardinality, Cardinality

\* A step that leaves the table and what is taped writes a report, the same
\* one perhaps.
LEMMA ReportStep ==
  ASSUME ArchiveInv', db' = db, TapedEvents' = TapedEvents
  PROVE  Archive!Next
<1>1. /\ saved'.rows \in 0..Cardinality(db)
      /\ Sealed(saved') => saved'.rows = Cardinality(db) /\ db = TapedEvents
  BY ReportsAreTrueNext DEF ReportIsTrue
<1>2. CASE Sealed(saved')
  BY <1>1, <1>2, SameCardinality DEF Archive!Next, Archive!Collect, Sealed
<1>3. CASE ~Sealed(saved')
  BY <1>1, <1>3, SameCardinality DEF Archive!Next, Archive!Report, Sealed
<1>. QED BY <1>2, <1>3

\* In the middle of a batch the checkpoint is not sealed.
LEMMA NoSealInBatch ==
  ASSUME ArchiveInv, pc \in {"frames", "synced", "linked"}
  PROVE  ~Sealed(saved)
BY DEF ArchiveInv, SealInv, SealedDay

\* A step of a batch that leaves the table and the checkpoint tapes events.
LEMMA TapeStep ==
  ASSUME ArchiveInv, pc \in {"frames", "synced", "linked"}, Tapes', LinkedKept,
         db' = db, saved' = saved
  PROVE  Archive!Next
<1>1. ~Sealed(saved)
  BY NoSealInBatch
<1>2. TapedEvents \subseteq TapedEvents'
  BY TapedStay DEF ArchiveInv, Fits, TapeInv
<1>. QED BY <1>1, <1>2 DEF Archive!Next, Archive!Tape, Sealed

LEMMA StoreStep ==
  ASSUME ArchiveInv, Commit
  PROVE  Archive!Next
<1>1. /\ pc = "linked" /\ db' = db \cup txn /\ tapes' = tapes /\ saved' = saved
  BY DEF Commit
<1>2. ~Sealed(saved)
  BY <1>1, NoSealInBatch
<1>3. db \subseteq TapedEvents /\ txn \subseteq TapedEvents
  BY <1>1, TapedIsOnDisk DEF ArchiveInv, Fits, TapeInv, Committed, Transaction
<1>4. TapedEvents' = TapedEvents
  BY <1>1 DEF TapedEvents
<1>. QED BY <1>1, <1>2, <1>3, <1>4 DEF Archive!Next, Archive!Store, Sealed

LEMMA ArchiveStep ==
  ASSUME ArchiveInv, ArchiveInv', [Next]_vars
  PROVE  Archive!Next
<1>0. TapeInv /\ Tapes /\ Handle /\ Tapes'
  BY DEF ArchiveInv, Fits, TapeInv
<1>1. ASSUME tapes' = tapes, db' = db PROVE Archive!Next
  BY <1>1, ReportStep DEF TapedEvents
<1>2. CASE Construct \/ BeginSession \/ ApplyFaults \/ BeginBatch
  BY <1>1, <1>2 DEF Construct, BeginSession, ApplyFaults, BeginBatch
<1>3. CASE RotateHour
  BY <1>0, <1>3, SyncStep, TapeStep DEF RotateHour
<1>4. ASSUME NEW key \in Keys, NewEvent(key) PROVE Archive!Next
  BY <1>0, <1>4, OpenStep, TapeStep DEF NewEvent, InBatch
<1>5. ASSUME NEW key \in Keys, DuplicateEvent(key) PROVE Archive!Next
  BY <1>1, <1>5 DEF DuplicateEvent, disk
<1>6. CASE MalformedFrame \/ MarkCommitted \/ EndBatch \/ WindowEnds
  BY <1>1, <1>6 DEF MalformedFrame, MarkCommitted, EndBatch, WindowEnds, disk
<1>7. CASE SyncTapes
  BY <1>0, <1>7, SyncStep, TapeStep DEF SyncTapes
<1>8. CASE SyncDirectories
  BY <1>0, <1>8, SyncDirectoriesStep, TapeStep DEF SyncDirectories
<1>9. CASE Commit
  BY <1>9, StoreStep
<1>10. CASE MarkFinished \/ StopSession
  BY <1>1, <1>10 DEF MarkFinished, StopSession
<1>11. CASE ProcessDies
  <2>1. LinkedKept /\ LinkedSteady /\ db' = db
    BY <1>0, <1>11, KillStep DEF ProcessDies
  <2>. QED BY <1>0, <2>1, TapedSteady, ReportStep
<1>12. CASE PowerFails
  <2>1. LinkedKept /\ LinkedSteady
    BY <1>0, <1>12, PowerStep
  <2>2. db' = db
    BY <1>12 DEF PowerFails
  <2>. QED BY <1>0, <2>1, <2>2, TapedSteady, ReportStep
<1>13. CASE UNCHANGED vars
  BY <1>1, <1>13 DEF vars, disk
<1>. QED BY <1>2, <1>3, <1>4, <1>5, <1>6, <1>7, <1>8, <1>9, <1>10, <1>11,
            <1>12, <1>13 DEF Next

\* Whatever is killed and whenever the power fails: what process_batch syncs to
\* the tapes and commits to the events table, and what checkpoint.json says of
\* it, are steps of DayArchive.
THEOREM RefinesDayArchive == Spec => ArchiveSpec
<1>1. Init => Archive!Init
  BY DEF Init, Archive!Init, TapedEvents, NewCheckpoint
<1>2. ArchiveInv /\ ArchiveInv' /\ [Next]_vars => [Archive!Next]_Archive!vars
  BY ArchiveStep
<1>3. Fits /\ SealInv => ArchiveInv
  BY DEF ArchiveInv
<1>4. Fits <=> TapeInv /\ CountInv
  BY DEF Fits
<1>. QED BY <1>1, <1>2, <1>3, <1>4, SealsHold, TapesFit, Counts, PTL
         DEF Spec, ArchiveSpec, Archive!Spec
==============================================================================
