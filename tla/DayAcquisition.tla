---------------------------- MODULE DayAcquisition ----------------------------
(***************************************************************************)
(* A day of the PumpApi archive on the disk                                 *)
(* (scripts/pumpapi_targeted_day.py, pumpapi_stream_projected.py), the table *)
(* made of its hours (materialize_pumpapi_day.py) and the verification that  *)
(* reports on it (verify_stage1_cached_day.py).                              *)
(*                                                                          *)
(* A run fetches the hours its copy of the checkpoint does not show as       *)
(* done, each with curl, zstd and a consumer of its own; the consumer        *)
(* truncates the hour's output and writes it from the start.  The three      *)
(* processes do not die with the run that started them.  Every write of the  *)
(* checkpoint replaces the whole file by the copy of the run.  Runs of a day *)
(* select the same mints, so that two consumers write the same rows at the   *)
(* same places.                                                             *)
(***************************************************************************)
EXTENDS Naturals, FiniteSets

CONSTANTS
  LastHour,   \* the hours of a day are 0 .. LastHour: 23 in the code
  Blocks,     \* the blocks in which the output of an hour is written
  Workers,    \* the streams of a run at a time
  MaxDayRuns, \* bound: the runs of the command, in the order of their starts
  Nothing,    \* a file that does not exist
  Broken      \* a table without its footer

Hours == 0 .. LastHour
Runs == 1 .. MaxDayRuns
Rows == 1 .. Blocks
Spans == {from .. to : from \in Hours, to \in Hours} \ {{}}

\* What the checkpoint says of an hour; the bytes of an output that is not
\* complete are not looked at.
Entries ==
  [status : {"absent", "RUNNING", "FAILED", "COMPLETE_WITH_WARNINGS"}, bytes : {{}}]
    \cup [status : {"COMPLETE"}, bytes : SUBSET Rows]
Mark(status) == [status |-> status, bytes |-> {}]
NoEntries == [h \in Hours |-> Mark("absent")]
NoSizes == [h \in Hours |-> {}]
Finished(entry) == entry.status \in {"COMPLETE", "COMPLETE_WITH_WARNINGS"}

\* The table holds the rows of some hours, the first ones.
Tables == {Nothing, Broken} \cup [Hours -> SUBSET Rows]

ASSUME DayAssumption == LastHour \in Nat /\ Blocks \in Nat \ {0}
ASSUME WorkersAssumption == Workers \in 1 .. 4
ASSUME NothingAssumption ==
  /\ \A file \in SUBSET Rows : file # Nothing
  /\ \A n \in 0 .. Blocks : n # Nothing
  /\ \A filled \in [Hours -> SUBSET Rows] : filled \notin {Nothing, Broken}
  /\ Nothing # Broken
ASSUME DayRunsAssumption == MaxDayRuns \in Nat

VARIABLES
  checkpoint, \* checkpoint.json
  output,     \* events.jsonl of each hour: the blocks in it
  metrics,    \* metrics.json of each hour: the rows its consumer counted
  table,      \* the Parquet file of the day
  progress,   \* where each run stands
  copy,       \* its checkpoint
  stream,     \* where its stream of each hour stands
  pos,        \* the blocks the consumer has written
  result,     \* what _run_hour returned
  audit,      \* where the verification stands
  hour,       \* the next hour it looks at
  sizes,      \* the sizes its checkpoint gives
  contended,  \* history: outputs opened beside the stream of a living run, or
              \* after the hour was recorded as done
  putBack,    \* history: hours a run's older copy made complete again
  moved,      \* history: outputs opened or removed since the verification began
  unread,     \* history: hours missing from a table that was given up, or whose
              \* output was moved before its rows were read
  short       \* history: hours of which a report did not see every row

streamVars == <<stream, pos, result>>
auditVars == <<audit, hour, sizes>>
dayHistory == <<contended, putBack, moved, unread, short>>
dayVars == <<checkpoint, output, metrics, table, progress, copy, streamVars,
             auditVars, dayHistory>>

DayInit ==
  /\ checkpoint = NoEntries
  /\ output = [h \in Hours |-> Nothing]
  /\ metrics = [h \in Hours |-> Nothing]
  /\ table = Nothing
  /\ progress = [r \in Runs |-> "new"]
  /\ copy = [r \in Runs |-> NoEntries]
  /\ stream = [r \in Runs |-> [h \in Hours |-> "none"]]
  /\ pos = [r \in Runs |-> [h \in Hours |-> 0]]
  /\ result = [r \in Runs |-> NoEntries]
  /\ audit = "idle" /\ hour = 0 /\ sizes = NoSizes
  /\ contended = {} /\ putBack = {} /\ moved = {} /\ unread = {} /\ short = {}

------------------------------------------------------------------------------
(***************************************************************************)
(* The checkpoint.                                                          *)
(***************************************************************************)
Alive(r) == progress[r] \in {"started", "loaded", "fetching"}

\* _write_json replaces the file by the copy c of a run, which has just set the
\* hours in own.
WriteCheckpoint(c, own) ==
  /\ checkpoint' = c
  /\ putBack' = putBack \cup
       {h \in Hours \ own : c[h] # checkpoint[h] /\ c[h].status = "COMPLETE"}

\* main loads the checkpoint,
StartRun(r) ==
  /\ progress[r] = "new"
  /\ \A q \in Runs : q < r => progress[q] # "new"
  /\ progress' = [progress EXCEPT ![r] = "started"]
  /\ copy' = [copy EXCEPT ![r] = checkpoint]
  /\ UNCHANGED <<checkpoint, output, metrics, table, streamVars, auditVars, dayHistory>>

\* and writes it back with the selection noted in it.
NoteSelection(r) ==
  /\ progress[r] = "started"
  /\ WriteCheckpoint(copy[r], {})
  /\ progress' = [progress EXCEPT ![r] = "loaded"]
  /\ UNCHANGED <<output, metrics, table, copy, streamVars, auditVars,
                 contended, moved, unread, short>>

\* The hours a run has to fetch.
Unfetched(c, span) ==
  {h \in span : ~ Finished(c[h]) \/ output[h] = Nothing \/ metrics[h] = Nothing}

\* They are marked before any of them is fetched; none, and the run is over.
MarkPending(r) ==
  /\ progress[r] = "loaded"
  /\ \E span \in Spans :
       LET pending == Unfetched(copy[r], span)
           marked  == [h \in Hours |-> IF h \in pending THEN Mark("RUNNING") ELSE copy[r][h]]
       IN /\ copy' = [copy EXCEPT ![r] = marked]
          /\ WriteCheckpoint(marked, pending)
          /\ stream' = [stream EXCEPT ![r] =
                          [h \in Hours |-> IF h \in pending THEN "queued" ELSE "none"]]
          /\ progress' = [progress EXCEPT ![r] = IF pending = {} THEN "over" ELSE "fetching"]
  /\ UNCHANGED <<output, metrics, table, pos, result, auditVars,
                 contended, moved, unread, short>>

------------------------------------------------------------------------------
(***************************************************************************)
(* The streams.                                                             *)
(***************************************************************************)
\* A thread of the pool takes the next hour and starts its processes.
StartStream(r, h) ==
  /\ progress[r] = "fetching"
  /\ stream[r][h] = "queued"
  /\ \A g \in Hours : g < h => stream[r][g] # "queued"
  /\ Cardinality({g \in Hours : stream[r][g] \in {"piped", "open"}}) < Workers
  /\ stream' = [stream EXCEPT ![r][h] = "piped"]
  /\ UNCHANGED <<checkpoint, output, metrics, table, progress, copy, pos, result,
                 auditVars, dayHistory>>

\* Two streams of an hour that may spoil each other's output.
Contended(r, h) ==
  \/ Finished(checkpoint[h])
  \/ \E q \in Runs \ {r} : Alive(q) /\ stream[q][h] \in {"open", "ended"}

Moved(h) == moved \cup {g \in {h} : audit \in {"checking", "making"}}

\* The consumer opens the output, which empties it.
OpenOutput(r, h) ==
  /\ stream[r][h] = "piped"
  /\ stream' = [stream EXCEPT ![r][h] = "open"]
  /\ output' = [output EXCEPT ![h] = {}]
  /\ contended' = contended \cup {g \in {h} : Contended(r, g)}
  /\ moved' = Moved(h)
  /\ UNCHANGED <<checkpoint, metrics, table, progress, copy, pos, result, auditVars,
                 putBack, unread, short>>

WriteBlock(r, h) ==
  /\ stream[r][h] = "open"
  /\ pos[r][h] < Blocks
  /\ pos' = [pos EXCEPT ![r][h] = @ + 1]
  /\ output' = [output EXCEPT ![h] = @ \cup {pos'[r][h]}]
  /\ UNCHANGED <<checkpoint, metrics, table, progress, copy, stream, result, auditVars,
                 dayHistory>>

\* The size of an output, as the places of a whole one that it spans.
Size(file) == IF file = Nothing THEN {} ELSE {n \in Rows : \E m \in file : n <= m}

\* Faulty variant: the consumer knows whether it has seen everything.
ResultByConsumer(curl, zstd, consumer, retained, bytes) ==
  IF consumer THEN [status |-> "COMPLETE", bytes |-> bytes] ELSE Mark("FAILED")

\* What _run_hour makes of the three exits.
Result(curl, zstd, consumer, retained, bytes) ==
  IF consumer /\ curl /\ zstd THEN [status |-> "COMPLETE", bytes |-> bytes]
  ELSE IF consumer /\ curl /\ retained > 0 THEN Mark("COMPLETE_WITH_WARNINGS")
  ELSE Mark("FAILED")

\* The processes end, at the end of the archive or before.  All three succeed
\* only on the whole archive; a transfer that curl repeats after a part of it is
\* an error of zstd alone.  A consumer that succeeds has written its metrics,
\* and one that fails may have.
EndStream(r, h) ==
  /\ stream[r][h] \in {"piped", "open"}
  /\ \E curl, zstd, consumer, counted \in BOOLEAN :
       /\ counted => stream[r][h] = "open"
       /\ consumer => counted
       /\ curl /\ zstd /\ consumer => pos[r][h] = Blocks
       /\ metrics' = IF counted THEN [metrics EXCEPT ![h] = pos[r][h]] ELSE metrics
       /\ result' = IF Alive(r)
                    THEN [result EXCEPT ![r][h] =
                            Result(curl, zstd, consumer, pos[r][h], Size(output[h]))]
                    ELSE result
  /\ stream' = [stream EXCEPT ![r][h] = IF Alive(r) THEN "ended" ELSE "none"]
  /\ pos' = [pos EXCEPT ![r][h] = 0]
  /\ UNCHANGED <<checkpoint, output, table, progress, copy, auditVars, dayHistory>>

\* The result is written into the checkpoint.
RecordResult(r, h) ==
  /\ progress[r] = "fetching"
  /\ stream[r][h] = "ended"
  /\ copy' = [copy EXCEPT ![r][h] = result[r][h]]
  /\ WriteCheckpoint(copy'[r], {h})
  /\ stream' = [stream EXCEPT ![r][h] = "none"]
  /\ result' = [result EXCEPT ![r][h] = Mark("absent")]
  /\ UNCHANGED <<output, metrics, table, progress, pos, auditVars,
                 contended, moved, unread, short>>

\* The status of the day is written last.
EndRun(r) ==
  /\ progress[r] = "fetching"
  /\ \A h \in Hours : stream[r][h] = "none"
  /\ WriteCheckpoint(copy[r], {})
  /\ progress' = [progress EXCEPT ![r] = "over"]
  /\ copy' = [copy EXCEPT ![r] = NoEntries]
  /\ UNCHANGED <<output, metrics, table, streamVars, auditVars,
                 contended, moved, unread, short>>

\* A run is killed; the processes it has started live on.
KillRun(r) ==
  /\ Alive(r)
  /\ progress' = [progress EXCEPT ![r] = "over"]
  /\ copy' = [copy EXCEPT ![r] = NoEntries]
  /\ stream' = [stream EXCEPT ![r] =
                  [h \in Hours |-> IF @[h] \in {"piped", "open"} THEN @[h] ELSE "none"]]
  /\ result' = [result EXCEPT ![r] = NoEntries]
  /\ UNCHANGED <<checkpoint, output, metrics, table, pos, auditVars, dayHistory>>

\* The operator removes an hour that nobody is fetching.
RemoveHour(h) ==
  /\ output[h] # Nothing
  /\ \A r \in Runs : ~ Alive(r) /\ stream[r][h] \notin {"piped", "open"}
  /\ output' = [output EXCEPT ![h] = Nothing]
  /\ metrics' = [metrics EXCEPT ![h] = Nothing]
  /\ moved' = Moved(h)
  /\ UNCHANGED <<checkpoint, table, progress, copy, streamVars, auditVars,
                 contended, putBack, unread, short>>

------------------------------------------------------------------------------
(***************************************************************************)
(* The verification, and the table it makes unless there is one.            *)
(***************************************************************************)
\* verify reads the checkpoint; it fails, and changes nothing, unless every hour
\* is complete.
StartAudit ==
  /\ audit = "idle"
  /\ \A h \in Hours : checkpoint[h].status = "COMPLETE"
  /\ audit' = "checking"
  /\ sizes' = [h \in Hours |-> checkpoint[h].bytes]
  /\ UNCHANGED <<checkpoint, output, metrics, table, progress, copy, streamVars, hour,
                 dayHistory>>

\* The output of an hour has the rows its consumer counted, of which there are
\* some (without any, the metrics have no count), and the size it had when it was
\* fetched.
HourIsSound(h) ==
  /\ output[h] \notin {Nothing, {}}
  /\ Cardinality(output[h]) = metrics[h]
  /\ Size(output[h]) = sizes[h]

CheckHour ==
  /\ audit = "checking"
  /\ hour <= LastHour
  /\ HourIsSound(hour)
  /\ hour' = hour + 1
  /\ UNCHANGED <<checkpoint, output, metrics, table, progress, copy, streamVars,
                 audit, sizes, dayHistory>>

\* The table is made if there is none, from hours that are done.
LookForTable ==
  /\ audit = "checking"
  /\ hour > LastHour
  /\ \/ table # Nothing /\ audit' = "reporting" /\ table' = table /\ moved' = {}
     \/ /\ table = Nothing
        /\ \A h \in Hours : Finished(checkpoint[h])
        /\ audit' = "making"
        /\ table' = [h \in Hours |-> {}]
        /\ moved' = moved
  /\ hour' = 0
  /\ sizes' = NoSizes
  /\ UNCHANGED <<checkpoint, output, metrics, progress, copy, streamVars,
                 contended, putBack, unread, short>>

\* The rows of the next hour go into the table.
AddHour ==
  /\ audit = "making"
  /\ output[hour] # Nothing
  /\ table' = [table EXCEPT ![hour] = output[hour]]
  /\ unread' = unread \cup {h \in moved : h = hour /\ output[h] # Rows}
  /\ IF hour = LastHour THEN audit' = "reporting" /\ hour' = 0 /\ moved' = {}
                        ELSE audit' = "making" /\ hour' = hour + 1 /\ moved' = moved
  /\ UNCHANGED <<checkpoint, output, metrics, progress, copy, streamVars, sizes,
                 contended, putBack, short>>

\* build_rows reads the table, and the report is written.
Report ==
  /\ audit = "reporting"
  /\ table # Broken
  /\ short' = short \cup {h \in Hours : table[h] # Rows}
  /\ audit' = "idle"
  /\ UNCHANGED <<checkpoint, output, metrics, table, progress, copy, streamVars, hour,
                 sizes, contended, putBack, moved, unread>>

\* A check or a read fails, or the process is killed.  A table in the making is
\* closed with the rows written so far, or left without its footer; there is
\* none if no rows were written.
EndAudit ==
  /\ audit # "idle"
  /\ IF audit = "making"
     THEN \/ table' \in {Nothing, Broken} /\ unread' = {}
          \/ \E n \in 1 .. hour :
               /\ table' = [h \in Hours |-> IF h < n THEN table[h] ELSE {}]
               /\ unread' = unread \cup n .. LastHour
     ELSE UNCHANGED <<table, unread>>
  /\ moved' = {}
  /\ audit' = "idle" /\ hour' = 0 /\ sizes' = NoSizes
  /\ UNCHANGED <<checkpoint, output, metrics, progress, copy, streamVars,
                 contended, putBack, short>>

DayNext ==
  \/ \E r \in Runs :
       \/ StartRun(r)
       \/ NoteSelection(r)
       \/ MarkPending(r)
       \/ EndRun(r)
       \/ KillRun(r)
       \/ \E h \in Hours :
            \/ StartStream(r, h)
            \/ OpenOutput(r, h)
            \/ WriteBlock(r, h)
            \/ EndStream(r, h)
            \/ RecordResult(r, h)
  \/ \E h \in Hours : RemoveHour(h)
  \/ StartAudit
  \/ CheckHour
  \/ LookForTable
  \/ AddHour
  \/ Report
  \/ EndAudit

DaySpec == DayInit /\ [][DayNext]_dayVars

------------------------------------------------------------------------------
(***************************************************************************)
(* Properties.                                                              *)
(***************************************************************************)
\* The types of the variables.
DayTypeOK ==
  /\ checkpoint \in [Hours -> Entries]
  /\ output \in [Hours -> {Nothing} \cup SUBSET Rows]
  /\ metrics \in [Hours -> {Nothing} \cup 0 .. Blocks]
  /\ table \in Tables
  /\ progress \in [Runs -> {"new", "started", "loaded", "fetching", "over"}]
  /\ copy \in [Runs -> [Hours -> Entries]]
  /\ stream \in [Runs -> [Hours -> {"none", "queued", "piped", "open", "ended"}]]
  /\ pos \in [Runs -> [Hours -> 0 .. Blocks]]
  /\ result \in [Runs -> [Hours -> Entries]]
  /\ audit \in {"idle", "checking", "making", "reporting"}
  /\ hour \in 0 .. LastHour + 1
  /\ sizes \in [Hours -> SUBSET Rows]
  /\ contended \subseteq Hours
  /\ putBack \subseteq Hours
  /\ moved \subseteq Hours
  /\ unread \subseteq Hours
  /\ short \subseteq Hours

\* An hour that is recorded as complete, and whose output exists, is whole: no
\* failure, death, orphan that had opened its output, or later run leaves a part
\* of an hour under that status, unless two living runs, or an orphan that came
\* late, opened the output beside each other, or a run put an older record back.
CompleteIsWhole ==
  \A h \in Hours :
    checkpoint[h].status = "COMPLETE" /\ output[h] # Nothing =>
      output[h] = Rows \/ h \in contended \cup putBack

\* A report has seen every row of every hour, whatever the runs did before and
\* meanwhile, unless the record or the output of an hour was so spoilt, the
\* output was opened or removed before its rows were read, or the hour is missing
\* from a table that an earlier verification gave up.
ReportSawTheDay == short \subseteq contended \cup putBack \cup unread

\* Only whole hours count as complete, and reports rest on whole hours.
DayIsWhole == CompleteIsWhole /\ ReportSawTheDay
==============================================================================
