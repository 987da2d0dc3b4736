---------------------------- MODULE CollectorBatch ----------------------------
(***************************************************************************)
(* What the persistence worker leaves on the disk for one collection day   *)
(* (research/nave/prospective_collection.py, process_batch and what it     *)
(* calls; the startup and shutdown of research/nave/prospective_runtime.py *)
(* that read and write the same files).                                    *)
(*                                                                         *)
(* A batch is bracketed by a durable marker.  Its events go to the open    *)
(* transaction, to the buffered JSONL tape of the receive hour and to the  *)
(* cached checkpoint; then the tape is flushed and fsynced, its directory  *)
(* fsynced, the transaction committed, the marker rewritten, and now and   *)
(* then the checkpoint saved.  The process can be killed and the power can *)
(* fail between any two of these.                                          *)
(*                                                                         *)
(* A tape is the lines the operating system holds, how many of them are on *)
(* the disk and whether its directory entry is.  A line is its event and   *)
(* its form: an interrupted write leaves a "torn" line, and a line that is *)
(* appended behind a torn one is "glued" to it and does not parse.         *)
(***************************************************************************)
EXTENDS Integers, Sequences, SequencesExt, FiniteSets

CONSTANTS
  Keys,       \* event keys (sha256 of the canonical frame)
  Hours,      \* receive hours of the day, 1..Hours
  BatchMax,   \* batch_max_frames
  MaxFrames,  \* bound: frames ever processed
  MaxStarts   \* bound: collector processes ever started

ASSUME BatchAssumption ==
  /\ IsFiniteSet(Keys)
  /\ {Hours, BatchMax, MaxFrames, MaxStarts} \subseteq Nat \ {0}

VARIABLES
  \* On the disk.
  tapes,     \* receive hour -> tape, for the hours that have a file
  db,        \* event keys committed to the events table
  marker,    \* batch-state.json: "NONE", "IN_FLIGHT" or "COMMITTED"
  session,   \* runtime-session.json: "NONE", "ACTIVE" or "STOPPED"
  saved,     \* the day's checkpoint.json
  older,     \* what checkpoint.json has held before
  \* In the worker.
  pc,        \* "down", or where the worker is
  hour,      \* of the latest frame
  opened,    \* a handle is open on the tape of this hour
  unlinked,  \* hours whose directories are in _new_output_dirs
  buffer,    \* lines in that handle
  txn,       \* keys inserted and not committed
  cache,     \* the day's checkpoint in _checkpoint_cache
  faults,    \* gap records not applied yet
  errors,    \* the batch had a malformed frame
  size,      \* frames in the batch so far
  \* Of the run.
  feed,      \* this process may still get frames
  ended,     \* the collection window is over
  malformed, \* some frame could not be parsed
  frames, starts

disk   == <<tapes, db, marker, session, saved, older>>
worker == <<hour, opened, unlinked, buffer, txn, cache, faults, errors, size>>
run    == <<feed, ended, malformed, frames, starts>>
vars   == <<disk, pc, worker, run>>

-----------------------------------------------------------------------------
NewCheckpoint == [rows |-> 0, failed |-> FALSE, status |-> "OPEN"]
NewTape == [lines |-> <<>>, synced |-> 0, linked |-> FALSE]
Line(key) == [key |-> key, form |-> "whole"]
Torn(line) == [line EXCEPT !.form = "torn"]
Glued(line) == [line EXCEPT !.form = IF @ = "whole" THEN "glued" ELSE @]

\* Lines appended behind what a tape holds.
Appended(lines, more) ==
  IF more # <<>> /\ lines # <<>> /\ Last(lines).form = "torn"
  THEN lines \o <<Glued(more[1])>> \o Tail(more)
  ELSE lines \o more

\* What can have reached the tape when appending `more` was interrupted.
Interrupted(lines, more) ==
  {Appended(lines, SubSeq(more, 1, n)) : n \in 0..Len(more)} \cup
  {Appended(lines, Append(SubSeq(more, 1, n), Torn(more[n + 1]))) :
     n \in 0..(Len(more) - 1)}

Flushed(tape, more) == [tape EXCEPT !.lines = Appended(@, more)]
Synced(tape) == [tape EXCEPT !.synced = Len(tape.lines)]

\* _append_line opens the file of the hour, creating it if there is none.
WithTape == [h \in DOMAIN tapes \cup {hour} |->
               IF h \in DOMAIN tapes THEN tapes[h] ELSE NewTape]

\* Nothing of the worker's memory outlives its process.
NoWorker ==
  /\ opened' = FALSE /\ unlinked' = {} /\ buffer' = <<>> /\ txn' = {}
  /\ cache' = NewCheckpoint /\ faults' = 0 /\ errors' = FALSE /\ size' = 0
  /\ feed' = FALSE

Save(checkpoint) == saved' = checkpoint /\ older' = older \cup {saved}

Init ==
  /\ tapes = <<>> /\ db = {} /\ marker = "NONE" /\ session = "NONE"
  /\ saved = NewCheckpoint /\ older = {}
  /\ pc = "down" /\ hour = 1 /\ opened = FALSE /\ unlinked = {}
  /\ buffer = <<>> /\ txn = {} /\ cache = NewCheckpoint
  /\ faults = 0 /\ errors = FALSE /\ size = 0
  /\ feed = FALSE /\ ended = FALSE /\ malformed = FALSE
  /\ frames = 0 /\ starts = 0

-----------------------------------------------------------------------------
(* Startup.                                                                 *)

\* ProspectiveCollector(...): the checkpoint is read and saved again.
Construct ==
  /\ pc = "down"
  /\ starts < MaxStarts
  /\ starts' = starts + 1
  /\ pc' = "constructed"
  /\ feed' = ~ended
  /\ cache' = saved
  /\ Save(saved)
  /\ UNCHANGED <<tapes, db, marker, session, hour, opened, unlinked, buffer,
                 txn, faults, errors, size, ended, malformed, frames>>

\* Faulty variant: only an earlier run's markers count, not its manifest.
MarkersOnly == IF marker = "IN_FLIGHT" THEN 1 ELSE 0

\* Gap records of a start: one for an unfinished batch, one for an unfinished
\* session, one for any earlier run (it left a manifest).
Outstanding ==
  (IF marker = "IN_FLIGHT" THEN 1 ELSE 0) +
  (IF session = "ACTIVE" THEN 1 ELSE 0) + (IF starts > 1 THEN 1 ELSE 0)

\* Pipeline(collector): gaps, then the session is ACTIVE.
BeginSession ==
  /\ pc = "constructed"
  /\ faults' = Outstanding
  /\ session' = "ACTIVE"
  /\ pc' = "idle"
  /\ UNCHANGED <<tapes, db, marker, saved, older, hour, opened, unlinked,
                 buffer, txn, cache, errors, size, run>>

-----------------------------------------------------------------------------
(* The worker between batches.                                              *)

ApplyFaults ==
  /\ pc = "idle" /\ faults > 0
  /\ faults' = 0
  /\ cache' = [cache EXCEPT !.failed = TRUE, !.status = "INCOMPLETE"]
  /\ Save(cache')
  /\ UNCHANGED <<tapes, db, marker, session, pc, hour, opened, unlinked,
                 buffer, txn, errors, size, run>>

\* process_batch, to which apply_faults is the step before.
BeginBatch ==
  /\ pc = "idle" /\ faults = 0
  /\ feed /\ frames < MaxFrames
  /\ marker' = "IN_FLIGHT"
  /\ pc' = "frames"
  /\ errors' = FALSE /\ size' = 0
  /\ UNCHANGED <<tapes, db, session, saved, older, hour, opened, unlinked,
                 buffer, txn, cache, faults, run>>

-----------------------------------------------------------------------------
(* The frames of a batch.                                                   *)

\* Faulty variant: a batch goes on for as long as frames come.
InBatchForever ==
  /\ pc = "frames"
  /\ frames < MaxFrames
  /\ size' = size + 1 /\ frames' = frames + 1

InBatch ==
  /\ pc = "frames"
  /\ size < BatchMax /\ frames < MaxFrames
  /\ size' = size + 1 /\ frames' = frames + 1

\* _rotate_segments, at the first frame of a later hour.
RotateHour ==
  /\ pc = "frames"
  /\ size < BatchMax /\ frames < MaxFrames /\ hour < Hours
  /\ hour' = hour + 1
  /\ tapes' = IF opened
              THEN [tapes EXCEPT ![hour] = Synced(Flushed(@, buffer))]
              ELSE tapes
  /\ opened' = FALSE /\ buffer' = <<>>
  /\ UNCHANGED <<db, marker, session, saved, older, pc, unlinked, txn, cache,
                 faults, errors, size, run>>

\* Faulty variant: the frame is looked up among the committed events only.
NewEventUnlessCommitted(key) ==
  /\ InBatch
  /\ key \notin db
  /\ txn' = txn \cup {key}
  /\ tapes' = IF opened THEN tapes ELSE WithTape
  /\ unlinked' = IF opened THEN unlinked ELSE unlinked \cup {hour}
  /\ opened' = TRUE
  /\ buffer' = Append(buffer, Line(key))
  /\ cache' = [cache EXCEPT !.rows = @ + 1]
  /\ UNCHANGED <<db, marker, session, saved, older, pc, hour, faults, errors,
                 feed, ended, malformed, starts>>

\* A frame the events table does not have: its row and its line.
NewEvent(key) ==
  /\ InBatch
  /\ key \notin db \cup txn
  /\ txn' = txn \cup {key}
  /\ tapes' = IF opened THEN tapes ELSE WithTape
  /\ unlinked' = IF opened THEN unlinked ELSE unlinked \cup {hour}
  /\ opened' = TRUE
  /\ buffer' = Append(buffer, Line(key))
  /\ cache' = [cache EXCEPT !.rows = @ + 1]
  /\ UNCHANGED <<db, marker, session, saved, older, pc, hour, faults, errors,
                 feed, ended, malformed, starts>>

\* A frame that is there already only counts as a duplicate.
DuplicateEvent(key) ==
  /\ InBatch
  /\ key \in db \cup txn
  /\ UNCHANGED <<disk, pc, hour, opened, unlinked, buffer, txn, cache, faults,
                 errors, feed, ended, malformed, starts>>

\* A frame that is too long, not UTF-8, not JSON or not an object.
MalformedFrame ==
  /\ InBatch
  /\ errors' = TRUE /\ malformed' = TRUE
  /\ UNCHANGED <<disk, pc, hour, opened, unlinked, buffer, txn, cache, faults,
                 feed, ended, starts>>

-----------------------------------------------------------------------------
(* The end of a batch.                                                      *)

\* Faulty variant: the tape is flushed and not synced.
FlushTapes ==
  /\ pc = "frames" /\ size > 0
  /\ tapes' = IF opened THEN [tapes EXCEPT ![hour] = Flushed(@, buffer)]
              ELSE tapes
  /\ buffer' = <<>>
  /\ pc' = "synced"
  /\ UNCHANGED <<db, marker, session, saved, older, hour, opened, unlinked,
                 txn, cache, faults, errors, size, run>>

\* Flush and fsync of the open handles.
SyncTapes ==
  /\ pc = "frames" /\ size > 0
  /\ tapes' = IF opened
              THEN [tapes EXCEPT ![hour] = Synced(Flushed(@, buffer))]
              ELSE tapes
  /\ buffer' = <<>>
  /\ pc' = "synced"
  /\ UNCHANGED <<db, marker, session, saved, older, hour, opened, unlinked,
                 txn, cache, faults, errors, size, run>>

\* Faulty variant: the checkpoints are saved while the batch is active.
SyncDirectoriesAndSave ==
  /\ pc = "synced"
  /\ tapes' = [h \in DOMAIN tapes |->
                 [tapes[h] EXCEPT !.linked = @ \/ h \in unlinked]]
  /\ unlinked' = {}
  /\ Save(cache)
  /\ pc' = "linked"
  /\ UNCHANGED <<db, marker, session, hour, opened, buffer, txn, cache,
                 faults, errors, size, run>>

\* Fsync of the directories in which files were opened.
SyncDirectories ==
  /\ pc = "synced"
  /\ tapes' = [h \in DOMAIN tapes |->
                 [tapes[h] EXCEPT !.linked = @ \/ h \in unlinked]]
  /\ unlinked' = {}
  /\ pc' = "linked"
  /\ UNCHANGED <<db, marker, session, saved, older, hour, opened, buffer,
                 txn, cache, faults, errors, size, run>>

Commit ==
  /\ pc = "linked"
  /\ db' = db \cup txn
  /\ txn' = {}
  /\ pc' = "committed"
  /\ UNCHANGED <<tapes, marker, session, saved, older, hour, opened,
                 unlinked, buffer, cache, faults, errors, size, run>>

MarkCommitted ==
  /\ pc = "committed"
  /\ marker' = "COMMITTED"
  /\ pc' = "flush"
  /\ UNCHANGED <<tapes, db, session, saved, older, worker, run>>

\* _flush_checkpoints, which saves only when 5 seconds have passed; then the
\* worker records a gap if a frame of the batch was malformed.
EndBatch ==
  /\ pc = "flush"
  /\ \/ Save(cache)
     \/ UNCHANGED <<saved, older>>
  /\ faults' = IF errors THEN 1 ELSE 0
  /\ pc' = "idle"
  /\ UNCHANGED <<tapes, db, marker, session, hour, opened, unlinked, buffer,
                 txn, cache, errors, size, run>>

-----------------------------------------------------------------------------
(* The end of a session.                                                    *)

WindowEnds ==
  /\ ~ended
  /\ ended' = TRUE
  /\ UNCHANGED <<disk, pc, worker, feed, malformed, frames, starts>>

FinishedStatus ==
  CASE cache.failed   -> "INCOMPLETE"
    [] cache.rows = 0 -> "NOT_STARTED"
    [] ~ended         -> "INCOMPLETE"
    [] OTHER          -> "COLLECTED_PENDING_RECONCILIATION"

\* After the sentinel: apply_faults, flush, and _mark_finished.
MarkFinished ==
  /\ pc = "idle" /\ faults = 0
  /\ cache' = [cache EXCEPT !.status = FinishedStatus]
  /\ Save(cache')
  /\ opened' = FALSE /\ feed' = FALSE
  /\ pc' = "finished"
  /\ UNCHANGED <<tapes, db, marker, session, hour, unlinked, buffer, txn,
                 faults, errors, size, ended, malformed, frames, starts>>

StopSession ==
  /\ pc = "finished"
  /\ session' = "STOPPED"
  /\ pc' = "down" /\ NoWorker
  /\ UNCHANGED <<tapes, db, marker, saved, older, hour, ended, malformed,
                 frames, starts>>

-----------------------------------------------------------------------------
(* Crashes.                                                                 *)

\* The process is killed, or an exception ends the worker: the transaction is
\* rolled back and any part of the buffer may have reached the tape.
ProcessDies ==
  /\ pc # "down"
  /\ IF opened
     THEN \E lines \in Interrupted(tapes[hour].lines, buffer) :
            tapes' = [tapes EXCEPT ![hour].lines = lines]
     ELSE UNCHANGED tapes
  /\ pc' = "down" /\ NoWorker
  /\ UNCHANGED <<db, marker, session, saved, older, hour, ended, malformed,
                 frames, starts>>

\* What the disk can hold of a tape after a power loss.
Survivors(tape) ==
  LET kept == SubSeq(tape.lines, 1, tape.synced)
      rest == SubSeq(tape.lines, tape.synced + 1, Len(tape.lines))
  IN  {[tape EXCEPT !.lines = lines] : lines \in Interrupted(kept, rest)}

\* SQLite's FULL commits and the fsynced markers stay; the checkpoint, which
\* is never fsynced, may be an older one.
PowerFails ==
  /\ \E kept \in SUBSET DOMAIN tapes :
       /\ \A h \in DOMAIN tapes : tapes[h].linked => h \in kept
       /\ \E after \in [kept -> UNION {Survivors(tapes[h]) : h \in kept}] :
            /\ \A h \in kept : after[h] \in Survivors(tapes[h])
            /\ tapes' = after
  /\ saved' \in older \cup {saved}
  /\ pc' = "down" /\ NoWorker
  /\ UNCHANGED <<db, marker, session, older, hour, ended, malformed, frames,
                 starts>>

Next ==
  \/ Construct \/ BeginSession
  \/ ApplyFaults \/ BeginBatch
  \/ RotateHour
  \/ \E key \in Keys : NewEvent(key) \/ DuplicateEvent(key)
  \/ MalformedFrame
  \/ SyncTapes \/ SyncDirectories \/ Commit \/ MarkCommitted \/ EndBatch
  \/ WindowEnds \/ MarkFinished \/ StopSession
  \/ ProcessDies \/ PowerFails

Spec == Init /\ [][Next]_vars

-----------------------------------------------------------------------------
(* Properties.                                                              *)

Forms == {"whole", "torn", "glued"}
Checkpoint ==
  [rows : 0..MaxFrames, failed : BOOLEAN,
   status : {"OPEN", "NOT_STARTED", "INCOMPLETE",
             "COLLECTED_PENDING_RECONCILIATION"}]

\* The types of the files and of the worker's memory; an open handle is on a
\* tape that exists.
TypeOK ==
  /\ DOMAIN tapes \subseteq 1..Hours
  /\ \A h \in DOMAIN tapes :
       /\ tapes[h].lines \in Seq([key : Keys, form : Forms])
       /\ tapes[h].synced \in 0..Len(tapes[h].lines)
       /\ tapes[h].linked \in BOOLEAN
  /\ db \subseteq Keys /\ txn \subseteq Keys
  /\ marker \in {"NONE", "IN_FLIGHT", "COMMITTED"}
  /\ session \in {"NONE", "ACTIVE", "STOPPED"}
  /\ saved \in Checkpoint /\ cache \in Checkpoint /\ older \subseteq Checkpoint
  /\ pc \in {"down", "constructed", "idle", "frames", "synced", "linked",
             "committed", "flush", "finished"}
  /\ hour \in 1..Hours /\ unlinked \subseteq 1..Hours
  /\ opened => hour \in DOMAIN tapes
  /\ faults \in 0..3 /\ size \in 0..BatchMax
  /\ {opened, errors, feed, ended, malformed} \subseteq BOOLEAN

\* "JSONL before one FULL SQLite commit": an event in the events table has its
\* bytes on the synced part of a tape that has a directory entry, whatever
\* kills, power losses and hour changes came in between.
CommittedIsOnTape ==
  \A key \in db : \E h \in DOMAIN tapes :
    /\ tapes[h].linked
    /\ \E i \in 1..tapes[h].synced :
         tapes[h].lines[i].key = key /\ tapes[h].lines[i].form # "torn"

\* checkpoint.json is written from a cache that runs ahead of the transaction,
\* and never counts an event that a rollback or a crash can still take back.
CheckpointNeverOverstates == saved.rows <= Cardinality(db)

\* Every line of the day's tapes, as <<hour, position>>.
Places == {p \in (1..Hours) \X (1..(MaxStarts * MaxFrames)) :
             p[1] \in DOMAIN tapes /\ p[2] <= Len(tapes[p[1]].lines)}
LineAt(place) == tapes[place[1]].lines[place[2]]

\* What a crash leaves on a tape: a line that does not parse, a line of an
\* event that is in no transaction, an event on two lines.
TapeHasTails ==
  \/ \E p \in Places : LineAt(p).form # "whole"
                       \/ LineAt(p).key \notin db \cup txn
  \/ \E p, q \in Places : p # q /\ LineAt(p).key = LineAt(q).key

\* "The durable marker requires reconciliation on restart, never silent
\* completeness": a worker that may write knows of the tails on its tapes, as
\* a gap still to be applied or as a failed day, through every further crash.
TailsAreNoted ==
  pc \notin {"down", "constructed"} /\ TapeHasTails =>
    faults > 0 \/ cache.failed

\* A day is sealed as collected only if its tapes, its events table and its
\* checkpoint agree: each event once, readable and synced, none lost to a
\* malformed frame, and as many as the checkpoint says.
CollectedDayIsExact ==
  saved.status = "COLLECTED_PENDING_RECONCILIATION" =>
    /\ ~TapeHasTails /\ ~malformed
    /\ db = {LineAt(p).key : p \in Places}
    /\ saved.rows = Cardinality(db)
    /\ \A h \in DOMAIN tapes :
         tapes[h].linked /\ tapes[h].synced = Len(tapes[h].lines)

\* The events that no crash can take from the tapes: those with a line other
\* than a torn one on the synced part of a file with a directory entry.
TapedEvents ==
  {key \in Keys : \E h \in DOMAIN tapes :
     /\ tapes[h].linked
     /\ \E i \in 1..tapes[h].synced :
          tapes[h].lines[i].key = key /\ tapes[h].lines[i].form # "torn"}

Archive == INSTANCE DayArchive WITH
  taped <- TapedEvents,
  stored <- db,
  rows <- saved.rows,
  collected <- saved.status = "COLLECTED_PENDING_RECONCILIATION"

\* The worker, its files and their crashes implement DayArchive: events reach
\* the tape before the table, and while the checkpoint says the day was
\* collected, no restart adds to either or finds them to differ.
ArchiveSpec == Archive!Spec
=============================================================================
