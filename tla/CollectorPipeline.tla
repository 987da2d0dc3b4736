-------------------------- MODULE CollectorPipeline --------------------------
(***************************************************************************)
(* One session of the prospective collector in process mode                *)
(* (research/nave/prospective_runtime.py): the receiver in the parent, the *)
(* persistence worker in a forked child, the ordered frame pipe from the   *)
(* first to the second, the progress queue back, the heartbeat, and the    *)
(* shutdown that drains the pipe behind a sentinel.                        *)
(*                                                                         *)
(* A frame is its number in the order of acceptance and a size.  The       *)
(* session is taken to lie in one UTC day, whose checkpoint is `failures`  *)
(* (provider_failures) and `seal` (the status _mark_finished gives it).    *)
(* What happens across days and restarts is GapLedger; what process_batch  *)
(* does to the files is CollectorBatch.                                    *)
(***************************************************************************)
EXTENDS Integers, Sequences, SequencesExt

CONSTANTS
  Capacity,      \* queue_capacity_frames
  ByteCapacity,  \* queue_capacity_bytes
  BatchMax,      \* batch_max_frames
  ProgressMax,   \* bound of the progress queue
  Sizes,         \* the sizes a frame can have
  MaxFrames,     \* bound: frames the provider sends
  MaxFaults,     \* bound: gap records from disconnects and malformed frames
  PipeTimeout    \* may a live worker leave a full pipe full for 5 seconds?

ASSUME PipelineAssumption ==
  /\ Capacity \in Nat \ {0}
  /\ ByteCapacity \in Nat \ {0}
  /\ BatchMax \in Nat \ {0}
  /\ ProgressMax \in Nat \ {0}
  /\ Sizes \subseteq Nat \ {0}
  /\ MaxFrames \in Nat
  /\ MaxFaults \in Nat
  /\ PipeTimeout \in BOOLEAN

VARIABLES
  \* the parent process
  ppc,           \* where receive() and run_pipeline() are
  stop,          \* ProspectiveCollector.stop_requested in the parent
  received,      \* metrics['frames_received']
  admitted,      \* frames put in the pipe
  overflow,      \* metrics['overflow_count']
  pending,       \* pending_frames: sizes of the frames not yet acknowledged
  pendingBytes,  \* pending_bytes
  acked,         \* metrics['frames_durable'] as the parent knows it
  fatal,         \* is metrics['fatal_error'] set in the parent?
  failed,        \* the local variable of run_pipeline
  hb,            \* where the heartbeat task is
  \* between the processes
  q,             \* the frame pipe
  progress,      \* the progress queue
  workerDone,    \* the multiprocessing event worker_done
  windowOver,    \* clock() >= stop_at
  \* the worker process
  wpc,           \* where worker() and _process_worker() are
  exitcode,      \* of the worker, once it is dead
  endSeen,       \* the sentinel was taken from the pipe
  batch,         \* frames taken from the pipe and not yet committed
  faults,        \* the worker's SimpleQueue of fault records: its length
  durable,       \* metrics['frames_durable'] in the worker
  \* files
  committed,     \* frames whose batch is committed in SQLite
  gaps,          \* records of operational-gaps.jsonl
  failures,      \* provider_failures of the day's checkpoint
  seal,          \* status of the day's checkpoint
  session,       \* status of runtime-session.json
  \* in no process: a history variable, which no action reads
  shutOut        \* has a live worker's full pipe kept a gap record out?

parentVars == <<ppc, stop, received, admitted, overflow, pending,
                pendingBytes, acked, fatal, failed, hb, shutOut>>
workerVars == <<wpc, exitcode, endSeen, batch, faults, durable>>
fileVars   == <<committed, gaps, failures, seal, session>>
vars == <<ppc, stop, received, admitted, overflow, pending, pendingBytes,
          acked, fatal, failed, hb, shutOut, q, progress, workerDone,
          windowOver, wpc, exitcode, endSeen, batch, faults, durable,
          committed, gaps, failures, seal, session>>

-----------------------------------------------------------------------------
\* Items of the pipe.  `upto` is the number of frames accepted up to and
\* including the item: for a frame, its own number.
PipeKind == {"frame", "fault", "end"}
Item(kind, n) == [kind |-> kind, upto |-> n]

Alive == wpc # "dead"
PipeFull == Len(q) >= Capacity

\* q.put(record, timeout=5) gives up only when the pipe stays full: the
\* worker is dead, or busy for 5 seconds with something else than taking
\* items (opening a large database, writing checkpoints or the manifest).
PutTimesOut == PipeFull /\ (~Alive \/ (PipeTimeout /\ wpc # "collect"))

\* drain_progress: every message waiting in the progress queue is applied.
\* The counts are cumulative, so the last message says how many frames leave
\* pending_frames; any message may carry the worker's fatal error.
Reported == IF progress = <<>> THEN acked
            ELSE progress[Len(progress)].durable
FatalReported == \E i \in DOMAIN progress : progress[i].fatal
DrainedPending == SubSeq(pending, Reported - acked + 1, Len(pending))

SumSizes(s) == FoldLeft(LAMBDA a, b : a + b, 0, s)

DrainedBytes == pendingBytes - SumSizes(SubSeq(pending, 1, Reported - acked))

Drain ==
  /\ progress' = <<>>
  /\ acked' = Reported
  /\ fatal' = (fatal \/ FatalReported)
  /\ stop' = (stop \/ FatalReported)

DrainOnly ==
  /\ Drain
  /\ pending' = DrainedPending
  /\ pendingBytes' = DrainedBytes

FinishedReceiving == ppc \in {"returned", "draining", "joined", "exited"}

\* The heartbeat runs on the receiver's event loop and does not await between
\* its drain and its look at the worker: the receiver waits meanwhile.
LoopIsFree == hb # "check"

Init ==
  /\ ppc = "connect" /\ hb = "idle"
  /\ stop = FALSE /\ fatal = FALSE /\ failed = FALSE /\ shutOut = FALSE
  /\ received = 0 /\ admitted = 0 /\ overflow = 0 /\ acked = 0
  /\ pending = <<>> /\ pendingBytes = 0
  /\ q = <<>> /\ progress = <<>>
  /\ workerDone = FALSE /\ windowOver = FALSE
  /\ wpc = "open" /\ exitcode = 0 /\ endSeen = FALSE
  /\ batch = 0 /\ durable = 0 /\ committed = 0 /\ failures = 0
  \* Pipeline.__init__ may have recorded the gap of a restart before the fork.
  /\ faults \in {0, 1} /\ gaps = faults
  /\ seal = "OPEN" /\ session = "ACTIVE"

-----------------------------------------------------------------------------
(* The receiver: Pipeline.receive, put and gap.                            *)

\* The outer loop's condition fails, and receive returns.
ReceiverStops ==
  /\ LoopIsFree
  /\ ppc = "connect"
  /\ stop \/ windowOver
  /\ ppc' = "returned"
  /\ UNCHANGED <<stop, received, admitted, overflow, pending, pendingBytes,
                 acked, fatal, failed, hb, q, progress, workerDone,
                 windowOver, shutOut, workerVars, fileVars>>

\* websockets.connect succeeds, or raises into the handler.
Connect ==
  /\ LoopIsFree
  /\ ppc = "connect"
  /\ ~stop /\ ~windowOver
  /\ \/ ppc' = "await"
     \/ gaps < MaxFaults /\ ppc' = "error"
  /\ UNCHANGED <<stop, received, admitted, overflow, pending, pendingBytes,
                 acked, fatal, failed, hb, q, progress, workerDone,
                 windowOver, shutOut, workerVars, fileVars>>

\* Faulty variant: only what is still in the pipe counts, as before the
\* worker became a process; the batch in flight is forgotten.
RefusedByPipeOnly(size) ==
  PipeFull \/ DrainedBytes + size > ByteCapacity

\* put() refuses a frame when the pipe is full, or when the frames and bytes
\* not yet acknowledged as durable reach either bound.
Refused(size) ==
  \/ PipeFull
  \/ Len(DrainedPending) >= Capacity
  \/ DrainedBytes + size > ByteCapacity

\* ws.recv() returns a frame.  The loop condition was tested before the
\* await, so one frame can still be accepted after a stop was requested.
AcceptFrame(size) ==
  /\ LoopIsFree
  /\ ppc = "await"
  /\ received < MaxFrames
  /\ ~Refused(size)
  /\ Drain
  /\ received' = received + 1
  /\ admitted' = admitted + 1
  /\ q' = Append(q, Item("frame", admitted + 1))
  /\ pending' = Append(DrainedPending, size)
  /\ pendingBytes' = DrainedBytes + size
  /\ ppc' = IF stop' \/ windowOver THEN "connect" ELSE "await"
  /\ UNCHANGED <<overflow, failed, hb, workerDone, windowOver, shutOut,
                 workerVars, fileVars>>

RefuseFrame(size) ==
  /\ LoopIsFree
  /\ ppc = "await"
  /\ received < MaxFrames
  /\ Refused(size)
  /\ DrainOnly
  /\ received' = received + 1
  /\ overflow' = overflow + 1
  /\ ppc' = "overflow"
  /\ UNCHANGED <<admitted, failed, hb, q, workerDone, windowOver, shutOut,
                 workerVars, fileVars>>

\* The one-second wait for a frame ends and the inner loop's condition fails.
RecvTimesOut ==
  /\ LoopIsFree
  /\ ppc = "await"
  /\ stop \/ windowOver
  /\ ppc' = "connect"
  /\ UNCHANGED <<stop, received, admitted, overflow, pending, pendingBytes,
                 acked, fatal, failed, hb, q, progress, workerDone,
                 windowOver, shutOut, workerVars, fileVars>>

\* The stream is silent for too long or the connection breaks.
ConnectionLost ==
  /\ LoopIsFree
  /\ ppc = "await"
  /\ gaps < MaxFaults
  /\ ppc' = "error"
  /\ UNCHANGED <<stop, received, admitted, overflow, pending, pendingBytes,
                 acked, fatal, failed, hb, q, progress, workerDone,
                 windowOver, shutOut, workerVars, fileVars>>

\* gap(), in a thread: the record is appended and fsynced first ...
RecordGap ==
  /\ ppc \in {"overflow", "error"}
  /\ gaps' = gaps + 1
  /\ ppc' = IF ppc = "overflow" THEN "overflowPut" ELSE "errorPut"
  /\ UNCHANGED <<stop, received, admitted, overflow, pending, pendingBytes,
                 acked, fatal, failed, hb, q, progress, workerDone, windowOver,
                 shutOut, workerVars, committed, failures, seal, session>>

\* Faulty variant: an overflow does not request the stop.
PutFaultAndGoOn ==
  /\ ppc \in {"overflowPut", "errorPut"}
  /\ ~PipeFull
  /\ q' = Append(q, Item("fault", admitted))
  /\ ppc' = "connect"
  /\ UNCHANGED <<stop, received, admitted, overflow, pending, pendingBytes,
                 acked, fatal, failed, hb, progress, workerDone, windowOver,
                 shutOut, workerVars, fileVars>>

\* ... and then sent down the frame pipe.  After an overflow the receiver
\* requests the stop; after an exception it goes back to the outer loop.
PutFault ==
  /\ ppc \in {"overflowPut", "errorPut"}
  /\ ~PipeFull
  /\ q' = Append(q, Item("fault", admitted))
  /\ stop' = (stop \/ ppc = "overflowPut")
  /\ ppc' = "connect"
  /\ UNCHANGED <<received, admitted, overflow, pending, pendingBytes, acked,
                 fatal, failed, hb, progress, workerDone, windowOver, shutOut,
                 workerVars, fileVars>>

\* queue.Full out of gap(): raised in the loop it lands in the handler, which
\* records a second gap; raised in the handler it leaves receive().
PutFaultTimesOut ==
  /\ PutTimesOut
  /\ \/ /\ ppc = "overflowPut"
        /\ ppc' = "error"
        /\ UNCHANGED <<stop, failed>>
     \/ /\ ppc = "errorPut"
        /\ ppc' = "returned"
        /\ failed' = TRUE
        /\ stop' = TRUE
  /\ shutOut' = (shutOut \/ Alive)
  /\ UNCHANGED <<received, admitted, overflow, pending, pendingBytes, acked,
                 fatal, hb, q, progress, workerDone, windowOver, workerVars,
                 fileVars>>

-----------------------------------------------------------------------------
(* run_pipeline after receive: the sentinel, the drain, the final state.    *)

\* Faulty variant: one attempt at the sentinel, whether or not there is room.
PlaceSentinelOnce ==
  /\ LoopIsFree
  /\ ppc = "returned"
  /\ DrainOnly
  /\ q' = IF Alive /\ ~PipeFull THEN Append(q, Item("end", admitted)) ELSE q
  /\ ppc' = "draining"
  /\ UNCHANGED <<received, admitted, overflow, failed, hb, workerDone,
                 windowOver, shutOut, workerVars, fileVars>>

\* put_nowait(None), once there is room; nothing to send to a dead worker.
PlaceSentinel ==
  /\ LoopIsFree
  /\ ppc = "returned"
  /\ ~Alive \/ ~PipeFull
  /\ DrainOnly
  /\ q' = IF Alive THEN Append(q, Item("end", admitted)) ELSE q
  /\ ppc' = "draining"
  /\ UNCHANGED <<received, admitted, overflow, failed, hb, workerDone,
                 windowOver, shutOut, workerVars, fileVars>>

\* The polling loops drain the progress queue while the worker lives.
PollProgress ==
  /\ LoopIsFree
  /\ ppc \in {"returned", "draining"}
  /\ progress # <<>>
  /\ DrainOnly
  /\ UNCHANGED <<ppc, received, admitted, overflow, failed, hb, q,
                 workerDone, windowOver, shutOut, workerVars, fileVars>>

JoinWorker ==
  /\ LoopIsFree
  /\ ppc = "draining"
  /\ ~Alive
  /\ pending' = DrainedPending /\ pendingBytes' = DrainedBytes
  /\ acked' = Reported /\ progress' = <<>>
  /\ stop' = (stop \/ FatalReported)
  /\ failed' = (failed \/ exitcode # 0)
  /\ fatal' = (fatal \/ FatalReported \/ exitcode # 0)
  /\ workerDone' = TRUE
  /\ ppc' = "joined"
  /\ UNCHANGED <<received, admitted, overflow, hb, q, windowOver, shutOut,
                 workerVars, fileVars>>

\* `await heartbeat`, then the final health file and the return code.
RunEnds ==
  /\ ppc = "joined"
  /\ hb = "over"
  /\ ppc' = "exited"
  /\ UNCHANGED <<stop, received, admitted, overflow, pending, pendingBytes,
                 acked, fatal, failed, hb, q, progress, workerDone,
                 windowOver, shutOut, workerVars, fileVars>>

\* Faulty variant: refused frames do not make the run a failure.
FinalStateIgnoringOverflow == IF failed \/ fatal THEN "FAILED" ELSE "STOPPED"

\* The state written to runtime-health.json and the code run_pipeline returns.
FinalState ==
  IF failed \/ overflow > 0 \/ fatal THEN "FAILED" ELSE "STOPPED"

-----------------------------------------------------------------------------
(* Pipeline.heartbeat.                                                      *)

HeartbeatDrains ==
  /\ hb = "idle"
  /\ ~workerDone
  /\ DrainOnly
  /\ hb' = "check"
  /\ UNCHANGED <<ppc, received, admitted, overflow, failed, q, workerDone,
                 windowOver, shutOut, workerVars, fileVars>>

\* Faulty variant: the dead worker is not made a reason to stop receiving.
HeartbeatLooksOnly ==
  /\ hb = "check"
  /\ hb' = IF Alive THEN "idle" ELSE "over"
  /\ UNCHANGED <<ppc, stop, fatal, received, admitted, overflow, pending,
                 pendingBytes, acked, failed, q, progress, workerDone,
                 windowOver, shutOut, workerVars, fileVars>>

HeartbeatLooks ==
  /\ hb = "check"
  /\ hb' = IF Alive THEN "idle" ELSE "over"
  /\ fatal' = (fatal \/ ~Alive)
  /\ stop' = (stop \/ ~Alive)
  /\ UNCHANGED <<ppc, received, admitted, overflow, pending, pendingBytes,
                 acked, failed, q, progress, workerDone, windowOver, shutOut,
                 workerVars, fileVars>>

\* The worker is done: fatal if the receiver has not finished.
HeartbeatEnds ==
  /\ hb = "idle"
  /\ workerDone
  /\ hb' = "over"
  /\ IF FinishedReceiving
     THEN UNCHANGED <<stop, fatal, pending, pendingBytes, acked, progress>>
     ELSE /\ stop' = TRUE /\ fatal' = TRUE
          /\ acked' = Reported /\ progress' = <<>>
          /\ pending' = DrainedPending /\ pendingBytes' = DrainedBytes
  /\ UNCHANGED <<ppc, received, admitted, overflow, failed, q, workerDone,
                 windowOver, shutOut, workerVars, fileVars>>

-----------------------------------------------------------------------------
(* The worker: Pipeline.worker and _process_worker.                         *)

WorkerOpens ==
  /\ wpc = "open"
  /\ wpc' = "collect"
  /\ UNCHANGED <<parentVars, q, progress, workerDone, windowOver, exitcode,
                 endSeen, batch, faults, durable, fileVars>>

TakeItem ==
  /\ wpc = "collect"
  /\ batch < BatchMax
  /\ q # <<>>
  /\ q' = Tail(q)
  /\ batch' = batch + (IF Head(q).kind = "frame" THEN 1 ELSE 0)
  /\ faults' = faults + (IF Head(q).kind = "fault" THEN 1 ELSE 0)
  /\ endSeen' = (Head(q).kind = "end")
  /\ wpc' = IF Head(q).kind = "end" THEN "apply" ELSE "collect"
  /\ UNCHANGED <<parentVars, progress, workerDone, windowOver, exitcode,
                 durable, fileVars>>

\* The batch is full or its 0.1 seconds are over; the first get of a batch
\* returns an item whenever the pipe holds one.
BatchCloses ==
  /\ wpc = "collect"
  /\ q = <<>> \/ batch > 0 \/ faults > 0
  /\ wpc' = "apply"
  /\ UNCHANGED <<parentVars, q, progress, workerDone, windowOver, exitcode,
                 endSeen, batch, faults, durable, fileVars>>

\* Faulty variant: the worker leaves its loop when the window is over, without
\* waiting for the sentinel.
AfterBatchByClock == IF endSeen \/ windowOver THEN "final" ELSE "collect"

AfterBatch == IF endSeen THEN "final" ELSE "collect"

\* Faulty variant: the failures are counted down.
ApplyFaultsDown ==
  /\ wpc = "apply"
  /\ failures' = failures - faults
  /\ faults' = 0
  /\ wpc' = IF batch > 0 THEN "persist" ELSE AfterBatch
  /\ UNCHANGED <<parentVars, q, progress, workerDone, windowOver, exitcode,
                 endSeen, batch, durable, committed, gaps, seal, session>>

ApplyFaults ==
  /\ wpc = "apply"
  /\ failures' = failures + faults
  /\ faults' = 0
  /\ wpc' = IF batch > 0 THEN "persist" ELSE AfterBatch
  /\ UNCHANGED <<parentVars, q, progress, workerDone, windowOver, exitcode,
                 endSeen, batch, durable, committed, gaps, seal, session>>

Persist ==
  /\ wpc = "persist"
  /\ committed' = committed + batch
  /\ batch' = 0
  /\ wpc' = "count"
  /\ UNCHANGED <<parentVars, q, progress, workerDone, windowOver, exitcode,
                 endSeen, faults, durable, gaps, failures, seal, session>>

\* process_batch raises, before its commit (rolled back) or after it (the
\* marker or a checkpoint could not be written).
PersistFails ==
  /\ wpc = "persist"
  /\ \/ UNCHANGED <<committed, batch>>
     \/ committed' = committed + batch /\ batch' = 0
  /\ wpc' = "fatal"
  /\ UNCHANGED <<parentVars, q, progress, workerDone, windowOver, exitcode,
                 endSeen, faults, durable, gaps, failures, seal, session>>

\* frames_durable += len(batch); malformed frames in the batch are a gap.
CountBatch(malformed) ==
  /\ wpc = "count"
  /\ malformed => gaps < MaxFaults
  /\ durable' = committed
  /\ gaps' = gaps + (IF malformed THEN 1 ELSE 0)
  /\ faults' = faults + (IF malformed THEN 1 ELSE 0)
  /\ wpc' = "publish"
  /\ UNCHANGED <<parentVars, q, progress, workerDone, windowOver, exitcode,
                 endSeen, batch, committed, failures, seal, session>>

\* Faulty variant: frames handed to process_batch are reported as durable.
MessageOfProcessed(isFatal) ==
  [durable |-> durable + batch, fatal |-> isFatal]

Message(isFatal) == [durable |-> durable, fatal |-> isFatal]

PublishProgress ==
  /\ wpc = "publish"
  /\ Len(progress) < ProgressMax
  /\ progress' = Append(progress, Message(FALSE))
  /\ wpc' = AfterBatch
  /\ UNCHANGED <<parentVars, q, workerDone, windowOver, exitcode, endSeen,
                 batch, faults, durable, fileVars>>

\* queue.Full out of publish_progress is an exception of worker().
PublishTimesOut ==
  /\ wpc = "publish"
  /\ Len(progress) >= ProgressMax
  /\ wpc' = "fatal"
  /\ UNCHANGED <<parentVars, q, progress, workerDone, windowOver, exitcode,
                 endSeen, batch, faults, durable, fileVars>>

\* After the loop: the last faults, then the forced flush, which may raise.
FinishWork ==
  /\ wpc = "final"
  /\ failures' = failures + faults
  /\ faults' = 0
  /\ \/ wpc' = "mark" /\ workerDone' = TRUE
     \/ wpc' = "fatal" /\ UNCHANGED workerDone
  /\ UNCHANGED <<parentVars, q, progress, windowOver, exitcode, endSeen,
                 batch, durable, committed, gaps, seal, session>>

\* worker()'s handler: the gap goes to the file and to a queue nobody reads
\* any more, the error to the parent if the progress queue has room.
WorkerFails ==
  /\ wpc = "fatal"
  /\ gaps' = gaps + 1
  /\ faults' = faults + 1
  /\ progress' = IF Len(progress) < ProgressMax
                 THEN Append(progress, Message(TRUE)) ELSE progress
  /\ workerDone' = TRUE
  /\ wpc' = "dead"
  /\ exitcode' = 1
  /\ UNCHANGED <<parentVars, q, windowOver, endSeen, batch, durable,
                 committed, failures, seal, session>>

\* Faulty variant: recorded failures do not keep the day incomplete.
FinishedStatusIgnoringFailures ==
  CASE committed = 0 -> "NOT_STARTED"
    [] committed # 0 /\ ~windowOver -> "INCOMPLETE"
    [] OTHER -> "COLLECTED_PENDING_RECONCILIATION"

\* The status ProspectiveCollector._mark_finished gives the day.
FinishedStatus ==
  CASE failures > 0 -> "INCOMPLETE"
    [] failures = 0 /\ committed = 0 -> "NOT_STARTED"
    [] failures = 0 /\ committed # 0 /\ ~windowOver -> "INCOMPLETE"
    [] OTHER -> "COLLECTED_PENDING_RECONCILIATION"

MarkFinished ==
  /\ wpc = "mark"
  /\ seal' = FinishedStatus
  /\ wpc' = "close"
  /\ UNCHANGED <<parentVars, q, progress, workerDone, windowOver, exitcode,
                 endSeen, batch, faults, durable, committed, gaps, failures,
                 session>>

CloseSession ==
  /\ wpc = "close"
  /\ session' = "STOPPED"
  /\ wpc' = "dead"
  /\ UNCHANGED <<parentVars, q, progress, workerDone, windowOver, exitcode,
                 endSeen, batch, faults, durable, committed, gaps, failures,
                 seal>>

\* The worker is killed, or raises where nothing handles it.  Progress still
\* in its queue's feeder thread is lost.
WorkerCrashes ==
  /\ Alive
  /\ wpc' = "dead"
  /\ exitcode' = 1
  /\ \E n \in 0..Len(progress) : progress' = SubSeq(progress, 1, n)
  /\ UNCHANGED <<parentVars, q, workerDone, windowOver, endSeen, batch,
                 faults, durable, fileVars>>

-----------------------------------------------------------------------------
(* The environment.                                                         *)

RequestStop ==     \* SIGTERM or SIGINT
  /\ ~stop
  /\ stop' = TRUE
  /\ UNCHANGED <<ppc, received, admitted, overflow, pending, pendingBytes,
                 acked, fatal, failed, hb, q, progress, workerDone,
                 windowOver, shutOut, workerVars, fileVars>>

WindowEnds ==
  /\ ~windowOver
  /\ windowOver' = TRUE
  /\ UNCHANGED <<parentVars, q, progress, workerDone, workerVars, fileVars>>

Finished ==
  /\ ppc = "exited"
  /\ UNCHANGED vars

\* What the receiver does by itself, and what the provider does to it.
ReceiverCode ==
  \/ ReceiverStops \/ Connect \/ RecvTimesOut
  \/ RecordGap \/ PutFault \/ PutFaultTimesOut

Provider ==
  \/ ConnectionLost
  \/ \E s \in Sizes : AcceptFrame(s) \/ RefuseFrame(s)

ShutdownStep == PlaceSentinel \/ PollProgress \/ JoinWorker \/ RunEnds

HeartbeatStep == HeartbeatDrains \/ HeartbeatLooks \/ HeartbeatEnds

WorkerStep ==
  \/ WorkerOpens \/ TakeItem \/ BatchCloses \/ ApplyFaults
  \/ Persist \/ PersistFails
  \/ \E malformed \in BOOLEAN : CountBatch(malformed)
  \/ PublishProgress \/ PublishTimesOut
  \/ FinishWork \/ WorkerFails \/ MarkFinished \/ CloseSession

Next ==
  \/ ReceiverCode \/ ShutdownStep \/ HeartbeatStep \/ WorkerStep
  \/ Provider \/ WorkerCrashes \/ RequestStop \/ WindowEnds
  \/ Finished

\* Each thread of control keeps running; the event loop runs its ready tasks
\* in turn, so the heartbeat does not keep the receiver's task waiting for
\* ever (strong fairness).  Nothing is assumed of the provider, of a signal,
\* of the clock reaching the end of the window, or of a crash.
Fairness ==
  /\ SF_vars(ReceiverCode)
  /\ SF_vars(ShutdownStep)
  /\ WF_vars(HeartbeatStep)
  /\ WF_vars(WorkerStep)

Spec == Init /\ [][Next]_vars
FairSpec == Spec /\ Fairness

-----------------------------------------------------------------------------
(* Properties.                                                              *)

ParentPlaces == {"connect", "await", "overflow", "overflowPut", "error",
                 "errorPut", "returned", "draining", "joined", "exited"}
WorkerPlaces == {"open", "collect", "apply", "persist", "count", "publish",
                 "final", "fatal", "mark", "close", "dead"}

\* The type of every variable but pendingBytes, a sum of sizes.
TypeOK ==
  /\ ppc \in ParentPlaces /\ wpc \in WorkerPlaces
  /\ hb \in {"idle", "check", "over"}
  /\ {stop, fatal, failed, workerDone, windowOver, endSeen, shutOut}
       \subseteq BOOLEAN
  /\ {received, admitted, overflow, acked, batch, faults, durable, committed,
      gaps, failures} \subseteq Nat
  /\ exitcode \in {0, 1}
  /\ pending \in Seq(Sizes)
  /\ q \in Seq([kind : PipeKind, upto : Nat])
  /\ progress \in Seq([durable : Nat, fatal : BOOLEAN])
  /\ seal \in {"OPEN", "NOT_STARTED", "INCOMPLETE",
              "COLLECTED_PENDING_RECONCILIATION"}
  /\ session \in {"ACTIVE", "STOPPED"}

\* Admission control counts what is really in flight although the parent
\* learns of commits late and in batches: frames accepted and not committed
\* never exceed Capacity, wherever they are (pipe, batch, unread progress).
AdmissionBound ==
  /\ admitted - committed <= Capacity
  /\ Len(pending) = admitted - acked

\* The parent never believes a frame durable that SQLite has not committed,
\* and what is committed was taken from the pipe in order, without a hole.
AckedIsCommitted ==
  /\ acked <= durable /\ durable <= committed
  /\ committed + batch <= admitted

\* A session that says STOPPED has lost nothing that was accepted: the pipe
\* is empty, every accepted frame is committed and every fault that reached
\* the pipe is in the checkpoint.
StoppedSessionIsDrained ==
  session = "STOPPED" =>
    /\ q = <<>> /\ batch = 0 /\ faults = 0
    /\ committed = admitted

\* A run that reports success (return code 0) kept every frame it received
\* and left the session marker STOPPED: no crash, overflow or failed write
\* of the other process can hide behind a clean exit.
CleanExitIsComplete ==
  ppc = "exited" /\ FinalState = "STOPPED" =>
    /\ received = committed
    /\ session = "STOPPED"
    /\ pending = <<>>

\* The day is closed as collected only if nothing is known to be missing: no
\* gap was recorded and every frame received is committed.
CollectedMeansComplete ==
  seal = "COLLECTED_PENDING_RECONCILIATION" =>
    /\ gaps = 0
    /\ received = committed

\* The worker has, or will take, a gap to count against the day.
Told ==
  \/ \E i \in DOMAIN q : q[i].kind = "fault"
  \/ faults > 0 \/ failures > 0

\* "Exceeding either bound records BACKPRESSURE_OVERFLOW ..., stops ingestion"
\* (COLLECTOR_BACKPRESSURE_REPAIR_20260906.md), as far as the code keeps it:
\* no frame is received after a refused one, unless the full pipe of a live
\* worker kept out the record of a gap; and then the receiver goes on only when
\* it has put another record down the pipe, which keeps the day INCOMPLETE.  So
\* an overflow ends the ingestion or the day's claim to be complete, whatever
\* times out and whoever dies.
OverflowStopsOrIsTold ==
  [][overflow > 0 /\ received' # received => shutOut /\ Told]_vars

\* Once a stop is requested, or the window is over, the run comes to its end:
\* neither process waits for the other for ever.
ShutdownTerminates == (stop \/ windowOver) ~> (ppc = "exited")

\* A dead worker ends the run even if nobody asked for a stop.
WorkerLossEndsRun == ~Alive ~> (ppc = "exited")

\* The pipeline implements the operator's view of it.
Ingest == INSTANCE BoundedIngest WITH
  accepted <- admitted,
  persisted <- committed,
  status <- IF session = "STOPPED" THEN "closed"
            ELSE IF Alive THEN "open" ELSE "failed"

IngestSpec == Ingest!Spec
=============================================================================
