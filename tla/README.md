# A verification project for nave

nave is a Python monorepo of trading and research tools.  Most of it computes
(screeners, indicators, statistics, reports) or forwards calls to remote
services.  A few parts keep state that must stay right over processes, crashes
and retries, and those are what this project models:

* the **prospective collector**, a two-process program that records a live
  market feed for weeks and closes each UTC day with a verdict that research
  later relies on;
* the **raw capture spool**, the append-only store that is to replace its
  intake;
* the **portfolio ledger**, the refresh that rebuilds the fills of a wallet
  from a growing chain through an unreliable endpoint;
* the **desk's tools**: the entry-zone monitor, which alerts once per armed zone
  over files that several programs write; the bounded Dune query, which may not
  pay twice or beyond a budget; the disclosure scan, whose finds must outlive
  their being new; the wiki sync of the manual journal, which must add every
  trade once; and the forward tracker of option picks, whose files and log must tell
  the same story.

Paths below are relative to the repository.  Short names: *R* is
`research/nave/prospective_runtime.py`, *P*
`research/nave/prospective_collection.py`, *SP*
`research/nave/raw_capture_spool.py`, *PL* `trading/stocks/portfolio_ledger.py`, *M*
`trading/alerts/entry_zone_monitor.py`, *ZS* `trading/alerts/zone_watch_state.py`,
*TH* `trading/crypto/momentum/thesis.py`, *D* `research/dune/materializer.py`, *G*
`research/nave/resource_guard.py`, *PS* `trading/stocks/politicians/scanner.py`, *EJ*
`trading/stocks/event_journal.py`, *MT* `trading/journal/manual_trade.py`, *WS*
`trading/journal/manual_wiki_sync.py`, *TD* `scripts/pumpapi_targeted_day.py`, *MD*
`scripts/materialize_pumpapi_day.py`, *VD* `scripts/verify_stage1_cached_day.py`, *OT*
`options/forward_tracker.py`.

- [The system](#the-system)
- [The modules](#the-modules)
- [The runs](#the-runs)
- [Fairness](#fairness)
- [What is proved](#what-is-proved)
- [What is only model-checked](#what-is-only-model-checked)
- [Disagreements with the documentation](#disagreements-with-the-documentation)
- [What is not modelled](#what-is-not-modelled)
- [Plan](#plan)

## The system

### How the collector's parts interact

    provider --websocket--> receive()  --frame pipe q-->  worker()
                            put() gap()                   process_batch()
                              ^  |                          |      |     |
                   heartbeat()|  | operational-gaps.jsonl   |      |     |
                              |  +--------------------------|----> |     |
                              +------ progress queue -------+      v     v
                                                       JSONL tapes   SQLite
                                              markers, checkpoint.json, manifest

The parent runs an asyncio loop with two tasks, `receive` and `heartbeat`; the
worker is a forked process.  They share a bounded `multiprocessing` queue of
frames and gap records (`q`), a bounded queue of cumulative counts back, and
the event `worker_done`.  All other communication is through files, some of
which only the *next* process reads.

| Component | State it keeps | Operations | Interacts through | What is hard | What makes it correct |
|---|---|---|---|---|---|
| Receiver, pipe, worker (R) | `pending_frames`, `pending_bytes`, `metrics`, `stop_requested`; `q`, the progress queue, `worker_done` | `put`, `gap`, `drain_progress`, `receive`, `heartbeat`, `worker`, `publish_progress`, the `finally` of `run_pipeline` | the two queues, an exit status, the gap file | late and batched acknowledgements; 5-second put timeouts; a stop, a dead worker and a full pipe at the same time; a shutdown in which each side waits for the other | bounded admission, nothing acknowledged that is not committed, no clean exit or collected day that hides a loss, every shutdown ends |
| Batch persistence (P 500-570, 933-1111) | tapes and open handle, open SQLite transaction, cached and saved checkpoint, `batch-state.json` | `process_batch`, `_rotate_segments`, `_append_line`, `_flush_checkpoints`, `_mark_finished` | files read by the next start | a kill or a power loss between any two of: append, flush, fsync, directory fsync, commit, marker, checkpoint | events committed only behind their tape line; no checkpoint ahead of the table; every tail of a crash is noted |
| Gap records and day status (R 107-146, 234-248, P 333-421, 1077-1111) | manifest, `runtime-session.json`, batch marker, `provider_failures` of each day | the start, `gap`, `apply_faults`, `_mark_finished` | the same files, over restarts | what a start can know of an earlier death; midnights inside a gap | an unattended moment keeps its day from being sealed as collected |
| Launches, pool states, outcomes (P 423-454, 602-868) | launches, jobs and snapshots (SQLite), heap and pool states (memory) | `_upsert_launch`, `_schedule_outcomes`, `_update_pool_state`, `_capture_due_outcomes`, `_load_pending_outcome_jobs` | called from `process_message` | events out of order, late frames, restarts that empty the memory, times compared as strings | captured outcomes are causal, no job is lost or answered twice |
| Raw capture spool (SP) | segment files, open handle, `number`, `used`, `failed` | constructor, `append_batch`, `close`, `replay_segment` | files | failures half-way, rotation at the exact end, restarts behind a torn segment, the disk bound | an acknowledgement survives, every receipt is a cursor that replays |
| Portfolio ledger (PL) | audit file, state file; the locals of one `refresh` | `refresh`, `_discover_token_accounts`, `_collect_signatures`, `new_fill`, `upsert_fill`, `_prefer_fill` | an RPC endpoint, two files | the chain grows while it is read; calls fail; transactions arrive through several addresses; the read stops at the first known signature | nothing invented, one row per movement, nothing lost without a word, cost basis never ahead of the audit |
| Contract, manifest, holdout locking (P, `scripts/memecoin_prospective_collector.py`) | hashes and dates, written once | `ensure_dates_unchanged`, `lock_holdout`, the analysis guards | files | little: one comparison per start | dates never change; fails closed |
| Health gate, replay of recordings | none | offline audits | read files | -- | agreement with the files |
| Entry-zone monitor (M, ZS, TH, `scripts/monitor_entry_zones.py`) | momentum theses and zone watches, one JSON file each; the scan, the payloads and the unsent alerts of a run | `reconcile_momentum_theses`, `evaluate`, `_resolve_watch`, `upsert`, `mark_missing_as_expired`, both `save`s, `send_markdown_v2_messages` | two files, price sources, Telegram; started by cron and by Hermes | files read whole, changed in memory and written in place by runs that nothing keeps apart; the alert is noted before it is sent; a rearm reads the flags of the watch before | one alert for one armed zone; a sighting is answered; a frozen plan does not drift |
| Congressional disclosures (PS, `trading/stocks/politicians/store.py`, EJ) | the seen filings, the event journal | `run_daily_scan`, `new_trades`, `save`, `upsert_event`, `mark_event` | two files, a disclosure provider; started by the scheduler and by Hermes | the seen set is saved before the journal; the journal is read and replaced for every row, by scans and by the reviewer | what was seen is in the journal, a review stands |
| Manual trade journal and wiki sync (MT, WS) | one JSON file per trade, with its synced flag; the pages of a Git wiki | `create_trade`, `apply_update`, `mark_synced`, `sync_wiki` | files, a Git remote | a sync fails between push and marks, or loses the answer to a push, and is repeated; syncs and updates overlap | every trade once in the wiki |
| Options forward tracker (OT, `scripts/options_forward_track.py`) | one JSON file of recommendations per day, with their marks; a log of marks; the rows and marks of a run | `record_daily_recommendations`, `load_open_recommendations`, `mark_open_recommendations` | files; started by `options daily`, `track` and a script | files read twice, with minutes of replays between, and written in place by programs that nothing keeps apart; the log comes last | a recommendation stays and keeps its id, files and log have the same marks, each offset once |
| Trade journal (`trading/journal/journal.py`) | trades and reviews in SQLite | log, close, review, sync to GitHub | a database, a Git remote | little: one program, one transaction per operation | -- |
| Dune materialization (D) and its resource guard (G) | one envelope and one lock file per output; a budget file an operator writes | `materialize_dune_query`: lock, cache check, `check`, execution, atomic write | files, a paid remote service | a death or a timeout between the paid execution and the write; a budget that is a reading of the past; several callers | nothing on file is paid for again; the credits spent stay within the cap but for executions cleared on one reading |
| PumpApi day acquisition and verification (TD, `scripts/pumpapi_stream_projected.py`, MD, VD) | `checkpoint.json`, the output and the metrics of each hour, the Parquet table of the day; the checkpoint copy of a run, the processes of each hour | `main`, `_run_hour`, `_write_json`; the consumer; `verify`, materializing | files, three processes in a pipe for each hour | the processes outlive a killed run; runs replace each other's checkpoint; a transfer is repeated into the pipe; a table is given up half-way | only whole hours count as complete, a report has seen the whole day |
| Outcome taxonomy, stage 1 | none | pure functions | -- | numeric edges | agree with their tables |
| Memecoin archive and scanner, stock screeners, crypto analysis, the rest of options | snapshots and caches | fetch, score, report | remote services | numeric | -- |
| Brokers, Hermes, backend, web, CLI, OpenBB extension | none or a response cache | forwarding | HTTP | I/O | -- |
| Research core, orchestration, `research/disclosures.py` | immutable artifacts | write once, sequential steps | files | little | an artifact never changes |

`PROJECT.json` lists the components with their sources, and the hazards (what
could go wrong in an order nobody would write a test for) each at its line with
the properties that would notice.

## The modules

| Module | Models | Lines of code it stands for |
|---|---|---|
| `BoundedIngest` | the operator's view of the pipeline: accept, persist, close, fail | abstract, none |
| `CollectorPipeline` | R: the parent's two tasks, the worker, both queues, shutdown | R 73-497, P 1077-1111 |
| `CollectorBatch` | P: one batch step by step, on a disk that can lose what was not synced | P 333-421, 470-570, 933-1111, R 107-118, 234-248, 439-441 |
| `DayArchive` | what is kept of one day: an event taped, then stored; what a report of the day says | abstract, none |
| `GapLedger` | which days a gap flags, over starts, reconnects and midnights | R 107-146, 234-248, 374-428, P 402-420, 1077-1111, the collector's `main` |
| `OutcomeCapture` | P: launches, jobs, pool states, captured outcomes | P 423-454, 602-868 |
| `DayAcquisition` | runs that fetch a day, their processes, and verifications of the day | TD 27-167, `scripts/pumpapi_stream_projected.py` 28-50, MD 52-82, VD 18-83 |
| `MCMemecoinData` | `OutcomeCapture` and `DayAcquisition` for one run; they share nothing | -- |
| `FrameLog` | what a capture spool promises: frames durable in order, whole batches acknowledged | abstract, none |
| `RawCaptureSpool` | SP | SP 25-135 |
| `PortfolioLedger`, `MCPortfolioLedger` | PL: one refresh after the other over a growing chain | PL 105-589, `trading/crypto/chain_audit.py` 360-423 |
| `ZoneWatches` | one thesis and one watch: what reconciling, evaluating and expiring make of them | TH 98-257, M 54-288, ZS 42-53, `trading/crypto/momentum/service.py` 208-232 |
| `EntryZoneMonitor` | runs of the monitor, step by step, over the two files | M 30-249, ZS, TH 42-184, the script, `trading/alerts/telegram.py`, `hermes/integration.py` 839-872 |
| `DuneMaterializer` | callers of the bounded query, its lock, its budget and the account | D 52-163, G 51-93, `cli/commands/memecoin.py` 73-92 |
| `DisclosureScan` | scans and reviews, step by step, over the two files | PS 41-74, `politicians/store.py` 33-91, EJ 31-224, `cli/commands/stocks.py` 1198-1221, `hermes/integration.py` 1786-1789 |
| `WikiJournal` | updates of trades and syncs to the wiki, step by step | MT 46-195, WS 26-89, `cli/commands/core.py` 255-372 |
| `OptionsTracker` | recordings and marking runs, step by step, over the files of days and the log | OT 18-301, `cli/commands/options.py` 1572-1640, the script |
| `DeskTools`, `MCDesk` | the five tools of the desk for one run; they share nothing | -- |
| `*_proofs` | theorems about the module they extend | -- |

### CollectorPipeline

`ppc` is the place of `receive` and then of `run_pipeline`'s `finally`; `hb`
that of `heartbeat`; `wpc` that of `worker` and `_process_worker`.  An action is
what runs between two places at which another thread of control can step in: in
the parent these are its awaits and the blocking puts, in the worker every
access to something shared.  `put` with its three bounds is `AcceptFrame` /
`RefuseFrame` (`Refused` is the disjunction of the bounds), `drain_progress` is
`Drain`, called from `put`, the heartbeat and the polling loops as the code does.
A gap record is three steps because it is three in the code: the line in
`operational-gaps.jsonl` (`RecordGap`), the blocking put of at most five
seconds (`PutFault`), and the exception that leaves `receive` when it fails
(`PutFaultTimesOut`).  The heartbeat's drain and its look at `is_alive()` are two
actions since the *worker* can exit between them, but the receiver cannot run
there (`LoopIsFree`).  Killing the worker keeps any prefix of the progress
messages: the queue has a feeder thread that dies with the process.  `shutOut`
is auxiliary: the pipe of a live worker has kept a gap record out.

A frame is its number and size; what a batch does on the disk is one step
(`Persist` or `PersistFails`), spelled out by `CollectorBatch`.  The session is
taken inside one UTC day, spelled out by `GapLedger`.

`IngestSpec` is `BoundedIngest!Spec` under the mapping accepted = admitted,
persisted = committed, status = closed when the session marker says STOPPED,
failed when the worker is dead otherwise.  Acknowledgement, pipe, batches and the
heartbeat are all invisible to it.

### CollectorBatch

One collection day, `Hours` receive hours, one tape per hour.  A tape is the
lines the operating system holds, how many of them an fsync has reached and
whether its directory entry has been synced.  `pc` walks `process_batch`:
IN_FLIGHT marker, frames (into transaction, write buffer and cached checkpoint),
`SyncTapes`, `SyncDirectories`, `Commit`, `MarkCommitted`, `EndBatch` (the
checkpoint, now and then).  `ProcessDies` may happen between any two and flushes
any part of the buffer, the last line possibly torn; `PowerFails` also drops
unsynced lines, unlinked files and an unsynced `checkpoint.json`, which is
replaced without an fsync and may fall back to any older version.  A line
appended behind a torn one is *glued* to it and does not parse either.  SQLite's
FULL commit and the fsynced markers are taken to do what they promise.

`ArchiveSpec` is `DayArchive!Spec` under the mapping taped = the events with a readable line
in the synced part of a tape that has its directory entry, stored = the events table, rows =
those of the saved checkpoint, collected = its status.  Buffers, transactions, markers and
processes are invisible to it; a kill or a power loss can only bring back an older report.

### GapLedger

Time is the number of the UTC day.  The auxiliary `lost` holds the days with a moment at which
nothing was receiving, whatever the files say; `cutShort` says that some start died between
rewriting the manifest and applying the gaps it had made of the old one.  `Reset` is the
constructor's loop over the later days without rows (P 402-420); it only ever meets days that
nothing has been noted of.  Parent and worker are one process here, since nothing in question
happens between them.  Midnights fall anywhere.  A second auxiliary, `missed`, holds the days that
began while a process ran without a connection, of which the code keeps no record; see the
findings.

### OutcomeCapture

`live` is the database as the process sees it and `disk` as committed; `heap`
and `states` are memory.  Times are half seconds, and `IsoRank` gives the place
of a time among the *strings* that `iso()` makes: a whole second has no fraction,
and `.` sorts before `Z`.  `Captured` is the loop of `_capture_due_outcomes`,
`EventFrame` all of `process_message` for a new event: due outcomes first, then
launch, jobs, pool state.  `newest` is auxiliary.

### DayAcquisition

The output of an hour is the set of blocks in it.  Runs of a day select the same mints, so a
block has the same bytes whoever writes it, and a file two consumers write at once holds a
set of blocks, possibly with a hole; `Size` is the length of such a file, hole included.  A
run is `StartRun` (the checkpoint is loaded), `NoteSelection` (and written back with the
selection noted in it), `MarkPending`, then for every pending hour `StartStream`,
`OpenOutput` (the consumer truncates the file), `WriteBlock`, `EndStream` (the three exits, and
`metrics.json` if the consumer came that far) and `RecordResult`, then `EndRun`.
`WriteCheckpoint` replaces the whole file by the run's copy, as `_write_json` does.
`KillRun` takes the run away and leaves its processes.  What the three exits can be
together is in `EndStream`: all three are clean only at the end of the archive; a transfer
that curl repeated after a part had gone down the pipe is an error of zstd alone.

A verification is `StartAudit`, `CheckHour` for each hour, `LookForTable` (the table of an
earlier verification is taken as it is), `AddHour`, `Report`; `EndAudit` is a failed
check, a failed read or a kill, after which a table may be closed with the hours so far, or
have no footer (`Broken`).  One verification at a time; one that finds an hour that is not
complete fails at once and is no step.

`contended`, `putBack`, `moved`, `unread` and `short` are auxiliary; see `DayIsWhole`.  An
operator removes the files of an hour only when no run and no process of it is left
(`RemoveHour`).

### RawCaptureSpool

The root directory's own entry, which nothing syncs into its parent, is taken to be durable
before the first segment.  `append_batch` is seven steps from `Submit` to `Acknowledge`, any of which may
fail (`AppendFails`) or be the last of the process.  Files are as in
`CollectorBatch`.  `Replay` is `replay_segment` as a function of a file and an
offset.

`LogSpec` is `FrameLog!Spec` under the mapping received = `sent`, durable = the frames on whole
lines of the synced parts of linked files, acked = the frames of the receipts.  A frame may become
durable without ever being acknowledged (a batch that fails after its fsync), even in a later
process's directory fsync; that it never comes in front of one that is durable already is a
promise `AckedIsDurable` does not make.

### PortfolioLedger

A signature is the position of its transaction in `chain`, so "newest first" is
the order of the chain.  `refresh` is `Begin`, `Discover` or `Refuse`, one
`CollectSignatures` or `SignaturesFail` per address, the wallet first,
`FetchTransactions`, `WriteAudit`, `WriteState`; `Land` adds a transaction
between any two.  `Collected` is the page loop of `_collect_signatures`: back to
the first known signature or to `max_items`.  An endpoint answers from the
current chain.  Auxiliary: `upto` (how much of the chain a file's refresh began
with), `reported` (an audit has said its history is incomplete), `raced` (a
transaction that moves two mints, or the first of an account, landed while a
refresh was reading).

Left out: quantities, prices and the average-cost arithmetic; token accounts that
are closed, or several of one mint; transactions that touch no ONDO mint; legacy
rows without any signature; endpoints behind the chain; several refreshes at the
same time.

### ZoneWatches and EntryZoneMonitor

A key is a (symbol, side) pair.  A plan is what a scan finds for it: zone,
invalidation, target and what the monitor may do with it (`Uses`); scoring is an
arbitrary choice of plans.  `Reconciled`, `Missing`, `Evaluated`, `Alerts` and
`Expired` are functions of one record, `EntryZoneMonitor` applies them to all
keys at once, as the two loops of the code do.  Quirks are kept: a rearmed watch
still answers to `alert_sent_at` and `invalidated_at` of the *old* record
(M 213-235), and a breakdown plan is alerted on without a touch.

A run is `BeginRun` (the thesis store loads), `Scan` (reconcile, and `save` opens
the file, which empties it), `SaveTheses`, `LoadWatches`, `Evaluate` (and the
second file emptied), `SaveWatches`, then `Send` / `SendFails` for a program that
dispatches itself or `ReturnAlerts` for one that returns the messages.  A run may die
between any two (`DieInRun`), which covers a price that cannot be fetched.
`Written` is a write that another run's write may have run into: a file that does
not parse loads as empty, and stands as empty.  `issued`, `delivered`, `touches`,
`ended` and `clean` are auxiliary.

### DuneMaterializer

A caller is `Call`, `Lock`, then `AnswerFromCache`, `Refuse` or `Clear`, then
`Execute` and `Write`, or `Fail` at any place.  A query is its identity (id, digest,
row limit).  Credits are counted from the last checkpoint; `ReadAccount` is the
operator writing a budget file with the usage of that moment.  The provider is
taken to charge an execution when it accepts it, and at most its estimate: the code does not
see to it, and every bound on the spending rests on it.
A caller that is killed behind `Clear` frees its lock, but the `dune` command it started lives on
(`KillBeforeCharge`) and may reach the provider later (`ExecuteOrphan`); `orphans` is the budget
such a command was cleared with.  A caller is one process: it calls again when its command is over.
A missing, unapproved, incomplete or malformed budget stands as `NoBudget`.
`outdated` is auxiliary: how many executions were charged on a reading that
another charge had overtaken.

### DisclosureScan

A disclosure is the identity that `_event_id` makes of a trade, a filing the link that
`unique_id` makes of it: `FilingOf` may put several trades into one filing, and a
filing that was seen hides the trades of it that come later.  A scan is `BeginScan` (the
store loads), `Fetch` (both chambers answer, `new_trades`, `add_trades`, and `save`
opens the file), `SaveSeen`, and for every new trade `LoadForUpsert` and `SaveUpsert`,
since `upsert_event` reads and replaces the whole journal for one row.  A review is
`LoadForMark` and `SaveMark`.  `EndScan` and `EndMark` may come between any two: a provider
error, a corrupt journal, a kill.  `found`, `cutShort`, `overwritten` and `verdict`
are auxiliary.  Rows are statuses: what `upsert_event` overwrites besides
(`review_count`, `observed_at`) is left out.

### WikiJournal

A trade's file is its status and its synced flag.  The wiki is how many commits its branch
has and how many entries each trade has on its pages.  A sync is `ListUnsynced`,
`CloneAndCommit` (an empty repository stands in for a clone that fails; a trade whose marker
is on a page is not appended again), `Push`, and for every listed trade
`LoadForSyncMark` and `SaveSyncMark`.  `LosePush` is a push the remote accepted and the
command never heard of; `EndSync` may come anywhere.  A sync that finds nothing to
append leaves without marking, as the code does.  `Accepts` is what a remote does
without `--force`.  An update may come between any two steps and is itself a read and a
replacement.

### OptionsTracker

A recommendation is its id, whether it is open, and its marks.  `_new_id` is a number that
grows with every recording, with the ticker and the day: an id given out once is never
given out again.  What a pick says and what a replay finds is abstracted; a mark is its
recommendation, its offset and the run that made it.

A recording is `Record` (the file of today is read and merged; `Merged` keeps the id of a
ticker that is there, and its marks only if it is not open any more, OT 162-171), `OpenDay`
(`write_text` empties the file) and `WriteDay`.  A marking run is `BeginMarking` (the
list of files and the cutoff), `ReadDay` for each, `Replay` (all prices and all replays; a
row is done when the largest offset asked for is due and it has a mark), then for each file
with rows of the run `LoadDay` (the second reading; `Patched` puts the run's rows in the
place of the same ids), `OpenDay` and `WriteDay`, and last `AppendMarks`.  `StopRecorder` and
`StopMarker` come anywhere: an error of the provider, a file that cannot be written, a kill.
A file being written does not parse; a recording takes it for empty and a marking run
passes over it.  `Filled` is a write that another program's write may have run into.

The lines of the log are a set: a line that a death cuts, or that two programs mix, counts as
written, since nothing in the repository reads the log.  `known`, `reset`, `contended`,
`tornDays` and `cut` are auxiliary; see `TrackerAgrees`.

## The runs

Deadlock is checked except in BatchSafety, GapSafety, GapMidnight, DataSafety,
OutcomeMixedForms, DeskSafety: their systems really stop, when the window is over or
the bound on starts, frames, runs or executions is reached.

| Run | States | What it shows |
|---|---|---|
| PipelineSafety | 642,000 | admission, acknowledgement, shutdown, exit code, what an overflow may do, whatever times out; the refinement of `BoundedIngest` |
| PipelineProgress | 155,000 | under fairness: a stop, the end of the window and a dead worker end the run; every gap reaches the sealed day -- provided no gap record waits five seconds for a full pipe |
| PipelineLostFault | violation | without that proviso a day with a recorded gap is sealed as collected |
| SpoolSafety | 67,000 | acknowledgements, receipts, order and disk bound over failures, kills and power losses; the refinement of `FrameLog` |
| BatchSafety | 665,000 | tape, events table, checkpoint and sealed day agree, or the day is noted as failed; the refinement of `DayArchive` |
| GapSafety | 926,000 | an unattended day is noted and never sealed as collected; days that begin between two connections are left to GapMidnight |
| GapMidnight | violation | a midnight between two connections leaves the new day unmarked |
| DataSafety | 1,440,000 | captured outcomes are causal as far as strings tell times apart, no job is lost or answered twice; an hour that counts as complete is whole and a report has seen the day, over runs that overlap, fail and leave their processes behind |
| OutcomeMixedForms | violation | with whole and fractional seconds together a snapshot may show the future |
| LedgerSafety | 3,170,000 | rows of the audit and the state file over any number of refreshes |
| DeskSafety | 2,140,000 | alerts, watches and theses over failing, dying and overlapping runs; cached answers, executions and the account over callers that fail anywhere; the event journal over scans that die or overlap and reviews; the wiki over syncs that fail, repeat or overlap; the tracker's files and its log over recordings and marking runs that overlap and stop anywhere |
| LedgerForgets | violation | an unread transaction is never asked for again, and the next refresh calls its history complete |

### Properties

Beside those below, each run has one type invariant (`TypeOK`, `DataTypeOK`).

PipelineSafety -- `AckedIsCommitted`: the parent's count of durable frames never runs ahead of
the worker's, nor that of SQLite.  `StoppedSessionIsDrained`: a session marker that says
STOPPED has every accepted frame committed and every gap of the pipe applied.
`CleanExitIsComplete`: exit code 0 means all received frames were committed.
`OverflowStopsOrIsTold` (an action property): a frame is received after one that was refused
only if a live worker's full pipe has kept a gap record out, and the worker has, or will take,
another one, which costs the day its claim to be complete.
`IngestSpec`: the refinement.

PipelineProgress -- `CollectedMeansComplete`, `ShutdownTerminates`, `WorkerLossEndsRun`
(leads-to).

SpoolSafety -- `RecordReplays`: an acknowledged line is on the disk
(`AckedIsDurable`), every receipt stays a cursor from which its frame replays, and the
segments in the order of their names replay in receive order.  `DiskIsBounded`.  `LogSpec`:
the refinement of `FrameLog`.

BatchSafety -- `CheckpointNeverOverstates`, `TailsAreNoted`, `CollectedDayIsExact`.
`ArchiveSpec`: the refinement of `DayArchive`; what is committed is on the tape, and a day
reported as collected gets no more events.

GapSafety -- `LossIsNoted`, `CollectedDayHasNoLoss`.  GapMidnight --
`FrozenDayHasNoLoss`.

DataSafety -- `CapturedToTheSecond`: a captured outcome shows its launch's pool in a state
that had happened and been received by the end of the target's second, and by the target
itself where the times are written in one form (`CapturedIsCausal`, what the code means to
ensure, is what OutcomeMixedForms refutes).  `StatesAreNewest`: a pool's state is of its
newest event, with the same reservation.  `PendingIsQueued`,
`RecordsAreFinal` (an action property of the committed database).  `DayIsWhole`:
`CompleteIsWhole`, an hour whose record says COMPLETE and whose output exists is whole, unless its
output was opened beside the stream of another living run or after it was recorded as done
(`contended`), or a run put an older record of it back (`putBack`); and `ReportSawTheDay`, a
report has seen all rows of every hour, unless the hour is one of those, its output was
opened or removed between the start of the verification and the reading of its rows, or it
is missing from a table that an earlier verification gave up (both `unread`).

LedgerSafety -- `FilesAreOfMovements`: `RowsAreMovements` (a row is a movement of the chain, on
evidence that is its own, and no movement has two) and `BookRestsOnAudit` (the state file is
of rows of the audit); `LossWasReported`, `RowsAreKept` (an action property).  LedgerForgets --
`CompleteMeansWhole`.

DeskSafety -- `Deduplicated`: two delivered alerts of one key are about two armings, the
earlier one ended, unless runs overlapped or died inside a write.  `TouchIsAnswered`:
every saved sighting has an alert of that arming, but in the run that rearmed.
`GeometryIsHeld`: a watch and the thesis it was armed from have the same plan, through
overlaps and torn files as well.  `SpendIsBounded`: the account exceeds the cap by at
most one hard stop for each execution on an overtaken reading.  `NoDoubleSpend` (an
action property): nothing is charged while the answer of an unforced request is on file.
`JournalKeeps`: a filing that later scans pass over was found by a scan, and what a scan
found is in the journal or about to be, unless that scan was cut short or a program put back
a journal read before (`SeenIsJournaled`); and later scans leave a reviewer's status alone,
with the second exception (`ReviewsStand`).  `SyncedOnce`: no trade has two entries in the wiki, and one marked as
synced has one.
`TrackerAgrees`: a recommendation that was recorded is in the file of its day under its first
id, unless two programs met at that file (`contended`) or one died inside a write of it
(`tornDays`) or is inside one now; a mark in a file is in the log, or of a run that has still
to append it, or has ended before it did (`cut`); a mark in the log is in its row, and the only one of its
recommendation and offset, unless two programs met at the file or the recommendation was
recorded again while it was open and marked (`reset`).  TLC finds a violation when any one of
these exceptions is dropped.

### Bounds, and why they are enough

* PipelineSafety: pipe of 2, 3 bytes, batches of 2, progress queue of 1, frames
  of 1 or 2 bytes, 3 frames, 2 gap records besides those of failures.  Each of the three
  bounds of `put` refuses a frame that the other two would admit; the pipe and the
  progress queue both fill; a batch is full, part full, or cut by the sentinel.
  PipelineProgress has one frame size, since sizes only matter to the byte bound.
* SpoolSafety: segments of 4 bytes and 10 in all, lines of 2 or 3: a batch
  fits, fills a segment exactly, rotates in its middle, or exceeds the bound.  Four
  frames and three writers allow a failure or crash in each of two writers
  and a third that appends after both.
* BatchSafety: two events, two hours, three frames, three starts: a duplicate
  in the same and in a later batch, an hour change inside a batch, a crash whose
  tail the second process appends to and a third that still has to know.
* GapSafety: three days, two of warmup and one frozen, three starts: a gap over a
  whole day, two gaps in a row, a start that dies before its gaps are applied.
* DataSafety, outcomes: one launch, two horizons, two pools, four frames at four
  instants, one restart.  The instants are in three seconds, one second has both its half
  seconds, and a launch may be of either form, so targets of both forms meet states of both.
  Launches do not interact but through pools.
* DataSafety, days: two hours, one block, one stream at a time, two runs, any number of
  verifications.  Two runs are what it takes for an orphan and a second writer, for two
  copies of the checkpoint and for an hour fetched again; two hours for a record that is put
  back by the write of the other hour, and for a table that ends after the first.  Two
  streams at a time with one block (1.98 million states of this part), and one with two
  blocks (4.27 million), pass as well; the theorem has no bounds.
* LedgerSafety: two mints, three transactions, one address longer than
  `max_items` allows, any number of refreshes (no bound on them: the state is
  finite).  Three transactions are needed for a known signature with an unknown one
  behind it and an unread one in between.  Each mint has a purchase, a transfer by
  somebody else (which the wallet's own history does not name) and a failed
  transaction; two mints have a swap.  Mints are symmetric: the code tells them apart
  nowhere, and the properties quantify over all.

* DeskSafety, zones: one short key, since keys meet only in the order of messages; three
  plans, a zone, a lower zone that a falling price leads to and a breakdown of it;
  prices 0 to 2, which are in, above and beyond each of them.  Four runs, two of which
  may overlap, of two programs: an alert, an end, a rearm and a second alert need
  four.  Three overlapping runs pass as well (2.3 million states).
* DeskSafety, Dune: two callers on two outputs, one query, since a budget or a file for
  another query is refused as none is; estimates of one and two with every cap at
  one: an estimate that fits, one that does not, one that fits only before the first charge.
  Two executions.  One output, two queries and three executions pass as well (6.1 million states).
* DeskSafety, disclosures: three disclosures of two filings, so one filing is seen in parts;
  two programs and two scans, which may overlap; one review.  Three scans of two disclosures
  of one filing pass as well.
* DeskSafety, trades: two trades, two syncing programs, three syncs, one update: a sync whose push
  was lost, a second one that overlaps it and a third that meets its entries.
* DeskSafety, options: two tickers in reports of one each, one recording program, two marking
  ones, two recordings, two marking runs, two days, offsets of one and two days of which one is
  ever due: a row marked in part and recorded again, two runs over the same row, a run and a
  recording over the same file.  Two recording programs need no part of their own, since they
  meet at a file as a recording and a marking run do; the theorem has any number.

Each property of a passing run has a mutant in `PROJECT.json`: a plausible bug
in one definition, with which TLC violates it under the run's own bounds.  The
mutated forms stand in the modules, each before the definition it would replace
and marked *Faulty variant*.

## Fairness

Only PipelineProgress assumes any (`FairSpec`):

* `WF(HeartbeatStep)`, `WF(WorkerStep)`: the heartbeat's sleep ends, and the
  operating system runs the worker.  Every worker step is one that blocks on
  nothing but an item, a timeout or the disk; a `get` and a `put` have timeouts, which are
  steps too.
* `SF(ReceiverCode)`, `SF(ShutdownStep)`: the event loop runs its ready tasks in
  turn.  Strong, because the heartbeat's two-step visit disables the other task
  again and again for a moment (`LoopIsFree`); asyncio's ready queue is first in
  first out, so the receiver is not passed over for ever.

Nothing is assumed of the provider, of signals, of the end of the window
or of a crash.  `PipeTimeout = FALSE` in this run says that a *live* worker does
not leave a full pipe full for five seconds; PipelineLostFault shows what happens
otherwise.

## What is proved

TLAPS checks eight proof modules, about 15,500 obligations, for all values of the constants
(assumptions: the sizes and bounds are natural numbers, keys are a finite set, and
what the `ASSUME` of each module says).  No theorem rests on an unproved one.

**CollectorPipeline** -- `TypeCorrect`, `AdmissionIsBounded`, `AckedFramesAreCommitted`,
`StoppedSessionsAreDrained`, `RefinesIngest`, `CleanExitsAreComplete`, `CollectedIsComplete`,
`OverflowsStopOrAreTold` and `ShutdownIsFinite`.  `CollectedIsComplete` excepts a receiver that
has failed after a live worker's full pipe kept a gap record out, which is what the run
PipelineLostFault ends in: so a run whose receiver did not fail, or whose gap records all found
room, may seal a day as collected only if it is complete.  `OverflowsStopOrAreTold` holds for both
values of `PipeTimeout`.  The invariant `PipelineInv` has four parts: types; `ProgressInv` (counts
in the progress queue ascend from `acked` to `durable`, which is what makes draining a *suffix*
safe); `PipeInv` (the numbers of the frames in `q` continue those of the batch and of the
committed ones up to `admitted`); `SentinelInv` (the sentinel is the last item and nothing follows
it). A separate invariant bounds `pending`, since admission is decided by it and it shrinks only
by what is committed.  The refinement has one step for each disjunct of `Next`: `AcceptFrame` maps
to `Accept`, `Persist` to `Persist`, `CloseSession` to `Close`, a death to `Fail`, all others
stutter. What a result of the parent says rests on three more: `AnswerInv` (once the worker has
been joined, how it ended is known, and a drained progress queue means `acked` is `committed`),
`GapsInv` (a recorded gap stands with the receiver, in the pipe, with the worker or in the
checkpoint, so a seal cannot miss it) and `OverflowInv` (after a refusal the receiver is at a
place from which it does not read again, or a gap record was kept out and the day is told of
another one). `ShutdownIsFinite` is what can be proved of the end of a run: `StepsLeft` counts
what is left to do behind the sentinel (nine steps for an item of the pipe, fewer for a batch
under way, one for a message to be read), every step of the worker and of `run_pipeline` lowers
it, no other raises it, and the bounds of the queues bound it.  That an empty poll of the worker
does not go round for ever needs `EndInv`: until the worker has taken the sentinel, it is in the
pipe.

**RawCaptureSpool** -- `SpoolTypeCorrect`, `AcknowledgedSurvives`, `DiskStaysBounded`,
`RecordsAlwaysReplay`, `RefinesFrameLog`.  `SpoolInv` adds to the
acknowledgement what holds in the middle of an append: where the lines of the batch are at
each step, in the buffer, in the open segment, in its synced part.  Beside it, every
step is shown to keep the whole lines of the synced part of every linked segment.

The other properties rest on `RecordInv`, which speaks of the files as they would become
(`Finals`) if the batch under way, or what a failed append left buffered, reached them in
full.  None of the properties is inductive about the files as they are: bytes are checked
against the bounds when a batch is submitted and reach the file four steps later, and a
fragment in front of a buffered rest is a broken line that the rest completes.  Of
`Finals` only two things ever happen: `OpenSegment` adds the lines for which `Submit` checked
the bounds (`BatchJoins`), and every other step, failure and crash leaves them or
cuts of them (`Cut`: the first lines, and perhaps a fragment of the next).  What holds of
files holds of cuts of them: sizes only shrink (`CutFilesGood`), and the frames stay in order.
`Queue` says what is buffered and where it belongs, `Numbers` that a segment to be opened is
new, `Account` that `used` counts at least what is on the disk, and `Located` where in its
segment the line of a receipt is: all lines before it are whole, so the offset, a sum of their
lengths, never changes.  Sums over sequences and sets are reasoned about in the first part of the
module, by induction over the finite sets for which a claim holds (`SubsetInduction`, from
the well-foundedness of the natural numbers): `Total` is any sum that adds one element at a time, in
whatever order, and `FoldLeft` and `FoldSet` agree with it.

The refinement needs one thing more, `LinkedFirst`: no segment has its directory entry before an
earlier one.  Only two steps bring anything to the disk, and both bring it behind what is there:
`SyncFile` the lines at the end of the last segment (a `Store`), `Acknowledge` the segments whose entries were
missing, which are the last ones (an `Acknowledge` of `FrameLog`).  `Submit` is a `Receive`; all else,
failures and crashes included, is a stutter, since nothing on the disk is lost.

**CollectorBatch** -- `CommittedHasItsLine`, `CheckpointIsBehind`, `TypeCorrect`, `TailsNoted`,
`CollectedIsExact`, `RefinesDayArchive`.
`TapeInv` follows a line from buffer to tape to disk (`Transaction` says where the lines
of the open transaction are at each `pc`); `CountInv` bounds every checkpoint,
older ones and the cache, by the committed and the open events.  `NoteInv` says who knows of
a tail: only the first process of a day can have written lines and no gap against them, and
every later one has a gap to apply or has applied it.  `SealInv` says that a sealed day
stays as it was when sealed; that it was exact then follows from `NoteInv` and `NotesFit`.
The refinement rests on all of them.  Every step that leaves the table and the taped
events is a report, and a true one after every step (`ReportsAreTrue`), so kills and power
losses need only that they neither drop a taped event (`LinkedKept`) nor add one
(`LinkedSteady`): a buffer that reaches the file at a kill is not synced.  The syncs of a batch tape
events while no seal can stand (`NoSealInBatch`), and `Commit` stores what they have taped.

**GapLedger** -- `TypeCorrect`, `LossesAreNoted`, `CollectedIsAttended`, wherever midnights
fall; what they do not speak of is `missed`, which the run GapMidnight is about.  `GapInv`: at
each place of a process, every lost day is flagged already, is covered by a gap record,
or is covered by a marker (session, batch, manifest) that the next start will
read.

**MemecoinData_proofs** holds the theorems of the live snapshots and of the archived day, and
`DataTypeCorrect`, the types of both.

*OutcomeCapture* -- `TypeCorrect`, `NoJobIsForgotten`, `CommittedIsFinal`,
`CapturedOutcomesAreCausal`, `StatesStayNewest`.  `RecordInv` relates the heap to
the database and the committed to the live one; `CausalInv` adds the pool states.
`StringOrder` is what a comparison of two `iso()` strings says of the times, and `NewestKeeps`
that a state replaced on its word is never behind the newest event by more than the
fraction of one second.

*DayAcquisition* -- `DayStaysWhole`.  `FetchInv`: `StreamsFit` (what is running fits the place of its
run), `Prefixes` (the output of an open stream of a living run has everything that stream wrote,
or the hour is `contended`), `EndedWell` (a stream that ended with COMPLETE has left a whole
output) and `CompleteIsWhole` itself.  `TableInv`: `HoursToRead` (an hour a verification has still
to read is whole but for the exceptions), `HoursInTable` and `TableFits` (so is what the table
holds), `ReportSawTheDay`.  The proof does not use that `CheckHour` compares rows and sizes:
whole hours follow from how they were fetched, and the comparison is a second guard.

**PortfolioLedger** -- `TypeCorrect`, `FilesAreTrue` (from `RowsAreOfMovements` and
`BookIsBehind`), `LossIsReported`, `RowsKept`.  `LedgerInv` is `Shape` (types, positions, what each
place of a refresh holds, rows that are evidence) and `LossInv`.  The property
`LossWasReported` alone is not inductive: a ledger that is whole now could
lose a fill in the next refresh.  What makes stopping at a known signature safe is
`Closed`: behind every known signature of a mint all older movements of that mint are
held.  A refresh breaks it for a while and restores it, which is what
`Reading` (an address that has been read has given everything up to the start of the
refresh and everything older than what was collected of its mint) and `Quiet`
(nothing has landed meanwhile that moves two mints or opens an account) say.

**EntryZoneMonitor** -- `TypeCorrect`, `AlertsAreDeduplicated`, `TouchesAreAnswered`,
`GeometryHolds`, and the invariant behind them.  `ZoneInv` has, beside types,
`RunInv` (a run in progress has a number of its own, and what it holds at each
stage), `OutboxInv` (an unsent alert is of this run and of a watch marked
`alerted`), `AnsweredInv` (a watch not yet alerted on has no sighting, whatever copy of
the file it stands in), `StampInv` (one plan for one key and one time of creation,
wherever it is stored: file, payload, candidate or watch; this is what survives torn files and
overlaps) and `CleanInv` (what a clean history adds: the copy a run holds is the
file's, and an issued alert is either of the watch on file, which is marked, or of one
that ended).

**DeskTools_proofs** holds the theorems of the other four tools and those of the desk as a
whole: `DeskIsOfTools`, a behaviour of `DeskTools` is one of each tool's own specification (a step of another
tool is a stutter), so all theorems about a tool hold beside the others; and with it
`DeskTypeCorrect`.

*DuneMaterializer* -- `DuneTypeCorrect`, `NothingIsPaidTwice`, `SpendingIsBounded`.
`DuneInv`: types; `OrphansInv` (a command without its caller was cleared by a budget that
fits the caps); `LockInv` (who stands between lock and release owns the lock of its
output, so no two do); `ClearedInv` (a cleared caller found no file, or was
forced, and its budget fits the caps); the spend bound itself.

*DisclosureScan* -- `ScanTypeCorrect`, `DisclosuresAreKept`.  `ScanInv`: types; `FilingsWereFound` (a filing in the file or in any copy of it is of a trade that was
found); `TradesAreKept` (a found trade is in the journal, still to be recorded,
cut short or overwritten); `RecordingInv` (trades wait only in a scan that has still to come
to them, and the row it is about to write keeps the status it read); `ReviewsStand` itself.

*WikiJournal* -- `JournalTypeCorrect`, `SyncsAreIdempotent`.  `WikiInv`: types; `PagesInv` (no
trade twice); `ClonesInv` (a working copy that the remote would take has what the pages have,
once, and the trades of its sync); `MarksInv` (whatever is about to be marked,
in memory or in a file being written, has its entry).

*OptionsTracker* -- `TrackTypeCorrect`, `FilesAndLogAgree`.  `TrackInv`: types; `RowsInv` (in every
file, copy and run rows have ids of their own that were given out, and marks of their own that
were made); `PlaceInv` (what a marking run holds at each place, with every mark it made in the
row it holds); `CopyInv` (a copy that is being written has all that was recorded); `HeldInv`
(the rows a run holds of a file nobody else wrote are those of the file, as marked by the
run); `SettledInv` (the marks whose rows have been written are in the rows, of files and
copies, and the only ones of their offsets); `RecommendationsStay` itself.  That a log entry is in
its row is not inductive: the log comes last, so the invariant has to speak of the marks
from the moment their rows are written.

## What is only model-checked

* Liveness (`ShutdownTerminates`, `WorkerLossEndsRun`): temporal reasoning under fairness needs
  `ENABLED`, which is out of the prover's reach.  `ShutdownIsFinite` proves that the
  steps run out; that one can always be taken, and that the receiver comes to the sentinel, is
  checked by TLC.

Everything else that a passing run checks is a theorem as well.  What the runs add to the theorems is
that the interesting cases occur: each property fails under a plausible bug.

## Disagreements with the documentation

Four runs end in a violation, each of a sentence in the repository.

1. **PipelineLostFault** (R 143).  A gap record shares the bounded pipe with the frames; if it stays
   full for five seconds `queue.Full` leaves `receive`, the shutdown still delivers
   its sentinel, and the day is sealed COLLECTED_PENDING_RECONCILIATION although
   `operational-gaps.jsonl` holds the gap.
   `docs/analysis/memecoin/COLLECTOR_BACKPRESSURE_REPAIR_20260906.md:17` says the
   affected interval is left INCOMPLETE.
2. **GapMidnight** (R 425).  The gap of a failed connection is recorded when it fails
   and ends there; the time until the next connection has no record.  If midnight is
   in it, the new day begins unattended (`missed`) and is sealed as collected.
3. **OutcomeMixedForms** (P 818).  `iso()` strings of a whole second and of a
   fraction are compared as strings; a state from up to a second after a
   whole-second target passes as causal.
4. **LedgerForgets** (PL 364).  A transaction that could not be fetched, or a tail cut
   at `max_items`, lies behind a newer recorded signature at the next refresh, which
   stops there, starts from `history_complete = True` and writes
   `ledger_history_complete = True`.  `docs/portfolio_ledger_refresh.md:21` promises
   `incomplete_history` whenever history could not be read completely.

Others seen on the way, which the properties' conditions or the models name:

* A start that dies between rewriting the manifest and applying its gaps forgets
  warmup gaps (R 117): `cutShort` in GapLedger.
* If the put of the overflow's own gap record times out, `request_stop()` is
  skipped and ingestion goes on (R 414) behind the refused frame, although
  `docs/analysis/memecoin/COLLECTOR_BACKPRESSURE_REPAIR_20260906.md:17` says that an overflow
  stops it: `shutOut` in `OverflowStopsOrIsTold`, which says what is left of that sentence.
* `apply_faults` flags days by the receiver's clock; a day's tape may get events of
  an earlier day after it was flagged or not (R 237).  Not modelled: a day's rows in
  GapLedger only say that there are any.
* A swap of two mints, or a new account's first transaction, that lands inside a refresh
  loses a fill with no error reported: account m1 is read, then a purchase and a swap
  land, the account of m2 shows the swap, it is recorded for both mints, and
  the next refresh of m1 stops at it and never sees the purchase.  `raced` in
  `LossWasReported` stands for this; TLC finds the loss when it is dropped.
* The monitor saves `alert_sent_at` before anything is sent (M 229, 245); a refused message
  (`trading/alerts/telegram.py:39`) ends the run and loses that alert and those behind it
  for good.  A run by Hermes, or by the script without `--send-telegram`, uses alerts up
  in the same way.  `issued` and `delivered` are apart for that reason.
* A rearmed watch is compared with the flags of the record it replaces (M 213-235), so the run
  that rearms stays silent if the earlier watch had alerted: the exception in `TouchIsAnswered`.
* Overlapping runs of the monitor replace each other's file, and `write_text` is no
  atomic replacement (ZS 58): the exception `clean` in `Deduplicated`.
* `run_daily_scan` saves the seen filings before it journals the new ones (PS 50-63): a death or a
  corrupt journal in between loses a disclosure for good, which EJ 3-5 says does not
  disappear: the exception `cutShort` in `SeenIsJournaled`.  A later trade of a filing that was
  seen is never new (`unique_id` is the link of the filing).
* A sync whose push was accepted and not heard of leaves the trades unmarked; the next finds
  nothing to append and leaves without marking them (`cli/commands/core.py:364-366`), until a
  new trade brings a sync that does.  An entry is not changed after its first sync.
* A mark of a sync that read a trade before an update closed it writes the open trade back
  (MT 178-195): `SyncedOnce` does not speak of the status.
* curl, zstd and the consumer outlive a killed run (TD 62-74).  The `metrics.json` of such an orphan may
  come after that of the run which has since fetched the hour; the whole hour then fails every
  verification (VD 42) until it is fetched again, which its COMPLETE entry prevents until
  its files are removed.
* A run writes the whole checkpoint from the copy it read at its start (TD 161): side by side, runs
  over different ranges make each other's hours unfetched again, or put back an hour whose
  output has been emptied since: `putBack`.
* A verification that dies while it makes the table leaves a readable one of the hours so far,
  which later verifications take as the day (MD 80-82, VD 66), or one without a footer, on
  which they all fail until it is removed: `unread`, `Broken`.  The report compares neither
  rows nor hours of the table with the verified hours.
* An hour is passed over by its status whatever selection it was fetched with (TD 143), while
  `selected_mints` is set to the size of the new one (TD 135); the model assumes one.
* An hour without any retained row has no `retained_lines` in its metrics, and fails the verification
  (VD 42): the empty output in `HourIsSound`.
* A recording of a ticker that is in today's file, open and marked, drops its marks (OT 168): the
  log keeps them and the next marking run makes them again: `reset`.
* `write_text` empties a file before it fills it (OT 180, 296), and recordings and marking runs write
  back copies that may be minutes old: recommendations, ids and marks are lost when two meet,
  or one dies inside a write: `contended`, `tornDays`.  A marking run that dies before the log
  leaves marks that are in the files alone, and no later run makes them again: `cut`.
* The resource guard's docstring (G 46-49) speaks of a preflight; it reserves nothing, and several
  queries pass on one reading: `outdated` in `SpendIsBounded`.
* A killed caller's `dune` command may be charged when the lock is free again, beside that of the
  next caller (D 126): `NoDoubleSpend` is about callers, which hold the lock.
* `docs/portfolio_ledger_refresh.md:19-20` says that two agreeing endpoints make an empty
  inventory acceptable; for a wallet with positions the code refuses every empty one
  (PL 425): `Refuse`.

## What is not modelled

Besides the parts of the table above without a module:

* The content of rows, pool decoding, participant rows and coverage counters of the collector:
  an event is a key.
* Two collectors at once: a killed parent leaves its worker behind, and the next start
  forks another on the same files.  Nothing in the code excludes it; a hazard without a
  property for now.
* Two verifications of one day at once, an operator who removes files under a running command,
  and runs of a day with different selections (`DayAcquisition`).  The numbers of the report.
* The thread mode of the pipeline, which the tests use: its queues and its order
  of steps are those of the process mode, without a worker that can die alone.
* Two writers of one trade at once share the name of its temporary file (MT); the model's
  replacement is atomic.
* `trading/journal/journal.py` and its GitHub sync: one transaction for each operation, and
  nothing in the repository calls the automatic sync.

## Plan

Done, in this order: `BoundedIngest` and `CollectorPipeline` (the core), its proofs with the
refinement; `RawCaptureSpool`, `FrameLog` and that the one implements the other;
`CollectorBatch`, `DayArchive` and the same; `GapLedger`; `OutcomeCapture`;
`PortfolioLedger`; the proofs of each; `ZoneWatches` and `EntryZoneMonitor`,
`DuneMaterializer`, `DisclosureScan`, `WikiJournal` and their proofs; `DayAcquisition` and its
proofs; `OptionsTracker` and its proofs.

Next:

1. Two collectors on one data root; two refreshes of one ledger.
2. An abstract specification of the journals of the desk (a row once recorded stays) that
   DisclosureScan and OptionsTracker are both shown to implement, with their exceptions.
