------------------------------ MODULE GapLedger ------------------------------
(***************************************************************************)
(* How the prospective collector accounts, day by day, for the time in     *)
(* which it received nothing (research/nave/prospective_runtime.py and     *)
(* prospective_collection.py): gap records at a restart and at a broken    *)
(* connection, the days they mark INCOMPLETE, and the status with which a  *)
(* day is sealed, over starts, crashes, stops, reconnects and midnights.   *)
(*                                                                         *)
(* Time is the number of the UTC day.  What no file records: `lost` and    *)
(* `missed` are the days with a moment, after collection first began, at   *)
(* which nothing was receiving; `missed` those that began while a running  *)
(* process had no connection, for which the code makes no gap record.      *)
(***************************************************************************)
EXTENDS Integers

CONSTANTS
  Days,        \* the last day of the window; it ends on Days + 1
  FirstFrozen, \* the first validation day; earlier days are warmup
  MaxStarts    \* bound: processes ever started

ASSUME GapAssumption ==
  /\ Days \in Nat \ {0} /\ FirstFrozen \in 1..Days /\ MaxStarts \in Nat \ {0}

VARIABLES
  \* Files.
  manifest,  \* day of last_updated_at in collector-manifest.json, or 0
  session,   \* started_at of an ACTIVE runtime-session.json, or 0
  marker,    \* started_at of an IN_FLIGHT batch-state.json, or 0
  days,      \* day -> checkpoint.json
  \* The two processes, as one.
  pc,        \* "down", "constructed", "announced", "running" or "finished"
  link,      \* the connection: "none", "up" or "backoff"
  heard,     \* day of last_local_receive_at in this process, or 0
  previous,  \* day of last_updated_at in the manifest it found, or 0
  faults,    \* gap records the worker has not applied
  inBatch,   \* process_batch is running
  \* Of the run.
  today,
  opened,    \* collection has begun
  lost,      \* days with an unattended moment
  missed,    \* days that began between two connections
  cutShort,  \* a process has died before its first gaps were applied
  starts

files   == <<manifest, session, marker, days>>
process == <<pc, link, heard, previous, faults, inBatch>>
vars    == <<files, process, today, opened, lost, missed, cutShort,
             starts>>

-----------------------------------------------------------------------------
Window == 1..Days
InWindow(set) == set \cap Window

\* A gap record, by the days of its `since` and `at`.
Gap(since) == [since |-> since, at |-> today]

\* Faulty variant: only the day on which the gap was recorded.
LatestDay(gap) == {gap.at}

\* The days that apply_faults goes through.
DaysOf(gap) == gap.since..gap.at

\* What a moment without a receiver adds to `lost`.
Unattended(set) == lost' = IF opened THEN lost \cup InWindow(set) ELSE lost

Init ==
  /\ manifest = 0 /\ session = 0 /\ marker = 0
  /\ days = [d \in Window |->
               [rows |-> FALSE, failed |-> FALSE, status |-> "OPEN"]]
  /\ pc = "down" /\ link = "none" /\ heard = 0 /\ previous = 0
  /\ faults = {} /\ inBatch = FALSE
  /\ today = 1 /\ opened = FALSE /\ lost = {} /\ missed = {}
  /\ cutShort = FALSE
  /\ starts = 0

NextDay ==
  /\ today <= Days
  /\ today' = today + 1
  /\ \/ /\ link = "up"
        /\ UNCHANGED <<lost, missed>>
     \/ /\ link # "up" /\ pc \in {"announced", "running"}
        /\ missed' = IF opened THEN missed \cup InWindow({today + 1})
                               ELSE missed
        /\ UNCHANGED lost
     \/ /\ pc \in {"down", "constructed", "finished"}
        /\ Unattended({today + 1})
        /\ UNCHANGED missed
  /\ UNCHANGED <<files, process, opened, cutShort, starts>>

-----------------------------------------------------------------------------
(* Starting and stopping.                                                   *)

\* The constructor's look at a validation or holdout day without rows: an
\* earlier verdict is taken back, and so are the failures of a day to come.
Reset(d) ==
  IF d < FirstFrozen \/ days[d].rows THEN days[d]
  ELSE [days[d] EXCEPT !.failed = @ /\ d <= today,
          !.status = IF @ = "COLLECTED_PENDING_RECONCILIATION"
                     THEN "NOT_STARTED" ELSE @]

\* `start` refuses to begin once the first validation day has begun; then
\* ProspectiveCollector(...) rewrites the manifest it finds and resets days.
Construct ==
  /\ pc = "down"
  /\ today < FirstFrozen
  /\ starts < MaxStarts
  /\ starts' = starts + 1
  /\ pc' = "constructed"
  /\ previous' = manifest
  /\ manifest' = today
  /\ days' = [d \in Window |-> Reset(d)]
  /\ UNCHANGED <<session, marker, link, heard, faults, inBatch, today, opened,
                 lost, missed, cutShort>>

\* Faulty variant: no gap for a session that was stopped properly.
StartGapsAfterCrash == {Gap(since) : since \in {marker, session} \ {0}}

\* Faulty variant: a missing file counts as the first moment of time.
StartGapsOfMissingFiles == {Gap(since) : since \in {marker, session, previous}}

\* The gaps of a start: since an unfinished batch, since an unfinished
\* session, since the previous process last wrote its manifest.
StartGaps == {Gap(since) : since \in {marker, session, previous} \ {0}}

\* Pipeline(collector): the gaps are recorded, the session becomes ACTIVE.
Announce ==
  /\ pc = "constructed"
  /\ faults' = StartGaps
  /\ session' = today
  /\ pc' = "announced"
  /\ UNCHANGED <<manifest, marker, days, link, heard, previous, inBatch, today,
                 opened, lost, missed, cutShort, starts>>

Flagged(checkpoint) == [checkpoint EXCEPT !.failed = TRUE,
                                          !.status = "INCOMPLETE"]

\* apply_faults, at the first turn of the worker's loop and at every later one.
ApplyFaults ==
  /\ pc \in {"announced", "running"} /\ ~inBatch
  /\ pc = "running" => faults # {}
  /\ days' = [d \in Window |->
                IF \E gap \in faults : d \in DaysOf(gap)
                THEN Flagged(days[d]) ELSE days[d]]
  /\ faults' = {}
  /\ pc' = "running"
  /\ UNCHANGED <<manifest, session, marker, link, heard, previous, inBatch,
                 today, opened, lost, missed, cutShort, starts>>

FinishedStatus(checkpoint) ==
  CASE checkpoint.failed -> "INCOMPLETE"
    [] ~checkpoint.rows  -> "NOT_STARTED"
    [] today <= Days     -> "INCOMPLETE"
    [] OTHER             -> "COLLECTED_PENDING_RECONCILIATION"

\* A stop, or the end of the window: the sentinel has come behind every fault
\* and batch, and _mark_finished seals the days.
Finish ==
  /\ pc = "running" /\ faults = {} /\ ~inBatch
  /\ days' = [d \in Window |->
                [days[d] EXCEPT !.status = FinishedStatus(days[d])]]
  /\ manifest' = today
  /\ link' = "none"
  /\ pc' = "finished"
  /\ Unattended({today})
  /\ UNCHANGED <<session, marker, heard, previous, faults, inBatch, today,
                 opened, missed, cutShort, starts>>

NoProcess ==
  /\ pc' = "down" /\ link' = "none" /\ heard' = 0 /\ previous' = 0
  /\ faults' = {} /\ inBatch' = FALSE

StopSession ==
  /\ pc = "finished"
  /\ session' = 0
  /\ NoProcess
  /\ UNCHANGED <<manifest, marker, days, today, opened, lost, missed, cutShort,
                 starts>>

\* The process dies; frames it has received and not committed are lost.
Crash ==
  /\ pc # "down"
  /\ cutShort' = (cutShort \/ pc \in {"constructed", "announced"})
  /\ Unattended(IF pc = "running" THEN {today, heard} ELSE {today})
  /\ NoProcess
  /\ UNCHANGED <<files, today, opened, missed, starts>>

-----------------------------------------------------------------------------
(* Receiving.                                                               *)

Connect ==
  /\ pc = "running" /\ link # "up" /\ today <= Days
  /\ link' = "up"
  /\ opened' = TRUE
  /\ UNCHANGED <<files, pc, heard, previous, faults, inBatch, today, lost,
                 missed, cutShort, starts>>

Receive ==
  /\ pc = "running" /\ link = "up" /\ today <= Days
  /\ heard' = today
  /\ UNCHANGED <<files, pc, link, previous, faults, inBatch, today, opened,
                 lost, missed, cutShort, starts>>

LastHeard == IF heard = 0 THEN today ELSE heard

\* A gap begins where the last frame was heard.  Silence shows only when the
\* connection is given up, so what was lost began there too.
ConnectionFails ==
  /\ pc = "running" /\ link # "none"
  /\ link' = "backoff"
  /\ faults' = faults \cup {Gap(LastHeard)}
  /\ Unattended(LastHeard..today)
  /\ UNCHANGED <<files, pc, heard, previous, inBatch, today, opened, missed,
                 cutShort, starts>>

\* The first attempt of a process to connect fails.
FirstConnectFails ==
  /\ pc = "running" /\ link = "none" /\ today <= Days
  /\ link' = "backoff"
  /\ faults' = faults \cup {Gap(LastHeard)}
  /\ UNCHANGED <<files, pc, heard, previous, inBatch, today, opened, lost,
                 missed, cutShort, starts>>

-----------------------------------------------------------------------------
(* The worker.                                                              *)

BeginBatch ==
  /\ pc = "running" /\ faults = {} /\ ~inBatch /\ heard > 0
  /\ marker' = today
  /\ inBatch' = TRUE
  /\ UNCHANGED <<manifest, session, days, pc, link, heard, previous, faults,
                 today, opened, lost, missed, cutShort, starts>>

\* The batch's events belong to any day up to this one.  The checkpoint and
\* the manifest are saved when 5 seconds have passed.
EndBatch ==
  /\ pc = "running" /\ inBatch
  /\ inBatch' = FALSE
  /\ marker' = 0
  /\ \/ \E d \in InWindow(1..heard) : days' = [days EXCEPT ![d].rows = TRUE]
     \/ UNCHANGED days
  /\ manifest' \in {manifest, today}
  /\ UNCHANGED <<session, pc, link, heard, previous, faults, today, opened,
                 lost, missed, cutShort, starts>>

Next ==
  \/ NextDay
  \/ Construct \/ Announce \/ ApplyFaults \/ Finish \/ StopSession \/ Crash
  \/ Connect \/ Receive \/ ConnectionFails \/ FirstConnectFails
  \/ BeginBatch \/ EndBatch

Spec == Init /\ [][Next]_vars

-----------------------------------------------------------------------------
(* Properties.                                                              *)

Record == [since : Nat, at : Nat]

\* The days of the files and of the process never lie ahead of today, and a
\* gap record ends no earlier than it begins.
TypeOK ==
  /\ manifest \in 0..today /\ session \in 0..today /\ marker \in 0..today
  /\ heard \in 0..today /\ previous \in 0..today
  /\ days \in [Window -> [rows : BOOLEAN, failed : BOOLEAN,
       status : {"OPEN", "NOT_STARTED", "INCOMPLETE",
                 "COLLECTED_PENDING_RECONCILIATION"}]]
  /\ pc \in {"down", "constructed", "announced", "running", "finished"}
  /\ link \in {"none", "up", "backoff"}
  /\ faults \subseteq Record
  /\ \A gap \in faults : 1 <= gap.since /\ gap.since <= gap.at
                         /\ gap.at <= today
  /\ today \in 1..(Days + 1) /\ starts \in 0..MaxStarts
  /\ inBatch \in BOOLEAN /\ opened \in BOOLEAN /\ cutShort \in BOOLEAN
  /\ lost \subseteq Window /\ missed \subseteq Window

\* A worker that has applied its gap records has marked every day with an
\* unattended moment, whichever process was to blame and however long ago,
\* unless a startup was cut short: it has forgotten the gaps before it.  What
\* began a day between two connections is not among these moments: `missed`.
LossIsNoted ==
  pc = "running" /\ faults = {} /\ ~cutShort => \A d \in lost : days[d].failed

Collected(d) == days[d].status = "COLLECTED_PENDING_RECONCILIATION"

\* "All restart interruptions remain incomplete warmup gaps": a day sealed as
\* collected was attended from its first connection to its end, but for the
\* warmup days whose gaps a startup that was cut short has forgotten.
CollectedDayHasNoLoss ==
  \A d \in Window : Collected(d) /\ d \in lost => cutShort /\ d < FirstFrozen

\* "Retain gaps and failures": the same of the frozen days, on which `start`
\* lets no new process begin, and of all their moments.
FrozenDayHasNoLoss ==
  \A d \in FirstFrozen..Days : Collected(d) => d \notin lost \cup missed
=============================================================================
