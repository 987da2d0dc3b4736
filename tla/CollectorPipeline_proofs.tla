---------------------- MODULE CollectorPipeline_proofs ----------------------
(***************************************************************************)
(* Proofs about CollectorPipeline for every capacity, batch size, frame    *)
(* size and number of frames: the invariant PipelineInv is inductive, and  *)
(* it gives the admission bound, the acknowledgement order, the drained    *)
(* shutdown and the refinement of BoundedIngest.  AnswerInv says what the  *)
(* exit code rests on, GapsInv and OverflowInv what the receiver's faults  *)
(* lead to, and EndInv what is left to do once the sentinel is in the pipe.*)
(***************************************************************************)
EXTENDS CollectorPipeline, SequenceTheorems, TLAPS

Weight(item) == IF item.kind = "frame" THEN 1 ELSE 0

SentinelSent == ppc \in {"draining", "joined", "exited"}

\* The types the argument needs (pendingBytes and the sizes play no part).
Types ==
  /\ ppc \in ParentPlaces /\ wpc \in WorkerPlaces
  /\ hb \in {"idle", "check", "over"}
  /\ stop \in BOOLEAN /\ fatal \in BOOLEAN /\ failed \in BOOLEAN
  /\ shutOut \in BOOLEAN
  /\ workerDone \in BOOLEAN /\ windowOver \in BOOLEAN /\ endSeen \in BOOLEAN
  /\ received \in Nat /\ admitted \in Nat /\ overflow \in Nat /\ acked \in Nat
  /\ batch \in Nat /\ faults \in Nat /\ durable \in Nat /\ committed \in Nat
  /\ gaps \in Nat /\ failures \in Nat
  /\ exitcode \in {0, 1}
  /\ pending \in Seq(Sizes)
  /\ q \in Seq([kind : PipeKind, upto : Nat])
  /\ progress \in Seq([durable : Nat, fatal : BOOLEAN])
  /\ seal \in {"OPEN", "NOT_STARTED", "INCOMPLETE",
              "COLLECTED_PENDING_RECONCILIATION"}
  /\ session \in {"ACTIVE", "STOPPED"}

\* What the parent knows of the worker's progress is behind the worker, which
\* is behind SQLite; messages arrive in the order of their counts.
ProgressInv ==
  /\ acked <= durable /\ durable <= committed
  /\ \A i \in 1..Len(progress) :
       acked <= progress[i].durable /\ progress[i].durable <= durable
  /\ Len(pending) = admitted - acked

\* The marks of the pipe continue the count of frames the worker has taken
\* and end at the count of frames accepted.
PipeInv ==
  /\ \A i \in 1..Len(q) :
       /\ q[i].upto <= admitted
       /\ i = 1 => q[i].upto = committed + batch + Weight(q[i])
       /\ i > 1 => q[i].upto = q[i-1].upto + Weight(q[i])
       /\ i = Len(q) => q[i].upto = admitted
  /\ q = <<>> => committed + batch = admitted
  /\ committed + batch <= admitted

\* Nothing follows the sentinel, and the worker is past it when it closes.
SentinelInv ==
  /\ \A i \in 1..Len(q) : q[i].kind = "end" => SentinelSent /\ i = Len(q)
  /\ endSeen => SentinelSent /\ q = <<>>
  /\ wpc \in {"count", "publish", "final", "mark", "close"} => batch = 0
  /\ wpc = "persist" => batch > 0
  /\ wpc \in {"mark", "close"} => faults = 0
  /\ wpc \in {"final", "mark", "close"} => endSeen
  /\ session = "STOPPED" =>
       wpc = "dead" /\ endSeen /\ batch = 0 /\ faults = 0

PipelineInv == Types /\ ProgressInv /\ PipeInv /\ SentinelInv

-----------------------------------------------------------------------------
(* Draining the progress queue.                                             *)

\* Dropping the first k elements of a sequence.
LEMMA SuffixFacts ==
  ASSUME NEW S, NEW s \in Seq(S), NEW k \in Nat, k <= Len(s)
  PROVE  /\ SubSeq(s, k + 1, Len(s)) \in Seq(S)
         /\ Len(SubSeq(s, k + 1, Len(s))) = Len(s) - k
<1>1. Len(s) \in Nat /\ k + 1 \in Int /\ Len(s) \in Int
  OBVIOUS
<1>2. \A i \in (k + 1)..Len(s) : s[i] \in S
  BY <1>1, ElementOfSeq
<1>3. /\ SubSeq(s, k + 1, Len(s)) \in Seq(S)
      /\ Len(SubSeq(s, k + 1, Len(s)))
           = IF k + 1 <= Len(s) THEN Len(s) - (k + 1) + 1 ELSE 0
  BY <1>1, <1>2, SubSeqProperties
<1>. QED BY <1>1, <1>3

\* What the parent learns lies between what it knew and what the worker has
\* counted, and exactly the frames not reported stay pending.
LEMMA DrainFacts ==
  ASSUME PipelineInv
  PROVE  /\ Reported \in Nat
         /\ acked <= Reported /\ Reported <= durable
         /\ DrainedPending \in Seq(Sizes)
         /\ Len(DrainedPending) = admitted - Reported
         /\ FatalReported \in BOOLEAN
<1>1. /\ Reported \in Nat /\ acked <= Reported /\ Reported <= durable
  <2>1. CASE progress = <<>>
    BY <2>1 DEF PipelineInv, Types, ProgressInv, Reported
  <2>2. CASE progress # <<>>
    <3>1. progress \in Seq([durable : Nat, fatal : BOOLEAN])
      BY DEF PipelineInv, Types
    <3>2. Len(progress) \in 1..Len(progress)
      BY <2>2, <3>1
    <3>3. progress[Len(progress)] \in [durable : Nat, fatal : BOOLEAN]
      BY <3>1, <3>2, ElementOfSeq
    <3>4. progress[Len(progress)].durable \in Nat
      BY <3>3
    <3>. QED BY <2>2, <3>2, <3>4 DEF PipelineInv, ProgressInv, Reported
  <2>. QED BY <2>1, <2>2
<1>2. /\ acked \in Nat /\ admitted \in Nat /\ durable \in Nat
      /\ committed \in Nat /\ batch \in Nat
      /\ Len(pending) = admitted - acked /\ durable <= admitted
      /\ pending \in Seq(Sizes)
  BY DEF PipelineInv, Types, ProgressInv, PipeInv
<1>3. Reported - acked \in Nat /\ Reported - acked <= Len(pending)
  BY <1>1, <1>2
<1>4. /\ DrainedPending \in Seq(Sizes)
      /\ Len(DrainedPending) = admitted - Reported
  <2>1. /\ DrainedPending \in Seq(Sizes)
        /\ Len(DrainedPending) = Len(pending) - (Reported - acked)
    BY <1>2, <1>3, SuffixFacts DEF DrainedPending
  <2>. QED BY <1>1, <1>2, <2>1
<1>5. FatalReported \in BOOLEAN
  BY DEF FatalReported
<1>. QED BY <1>1, <1>4, <1>5

\* The initial states satisfy the invariant.
THEOREM InitInv == Init => PipelineInv
<1>. SUFFICES ASSUME Init PROVE PipelineInv
  OBVIOUS
<1>1. Types
  <2>1. /\ pending \in Seq(Sizes)
        /\ q \in Seq([kind : PipeKind, upto : Nat])
        /\ progress \in Seq([durable : Nat, fatal : BOOLEAN])
    BY EmptySeq DEF Init
  <2>2. faults \in Nat /\ gaps \in Nat
    BY DEF Init
  <2>. QED BY <2>1, <2>2 DEF Init, Types, ParentPlaces, WorkerPlaces
<1>2. ProgressInv /\ PipeInv /\ SentinelInv
  BY DEF Init, ProgressInv, PipeInv, SentinelInv
<1>. QED BY <1>1, <1>2 DEF PipelineInv

\* Steps of the parent, the clock and the signals that leave the frames, the
\* pipe and the progress queue alone.
LEMMA ParentControlInv ==
  ASSUME PipelineInv,
         ReceiverStops \/ Connect \/ RecvTimesOut \/ ConnectionLost \/
         RecordGap \/ PutFaultTimesOut \/ RunEnds \/ HeartbeatLooks \/
         RequestStop \/ WindowEnds \/ Finished
  PROVE  PipelineInv'
<1>1. CASE ReceiverStops
  BY <1>1, SMTT(30) DEF ReceiverStops, PipelineInv, Types, ProgressInv, PipeInv,
      SentinelInv, SentinelSent, vars, workerVars, fileVars, ParentPlaces
<1>2. CASE Connect
  BY <1>2, SMTT(30) DEF Connect, PipelineInv, Types, ProgressInv, PipeInv,
      SentinelInv, SentinelSent, vars, workerVars, fileVars, ParentPlaces
<1>3. CASE RecvTimesOut
  BY <1>3, SMTT(30) DEF RecvTimesOut, PipelineInv, Types, ProgressInv, PipeInv,
      SentinelInv, SentinelSent, vars, workerVars, fileVars, ParentPlaces
<1>4. CASE ConnectionLost
  BY <1>4, SMTT(30) DEF ConnectionLost, PipelineInv, Types, ProgressInv, PipeInv,
      SentinelInv, SentinelSent, vars, workerVars, fileVars, ParentPlaces
<1>5. CASE RecordGap
  BY <1>5, SMTT(30) DEF RecordGap, PipelineInv, Types, ProgressInv, PipeInv,
      SentinelInv, SentinelSent, vars, workerVars, fileVars, ParentPlaces
<1>6. CASE PutFaultTimesOut
  <2>1. Types'
    <3>1. /\ ppc' \in ParentPlaces /\ stop' \in BOOLEAN /\ failed' \in BOOLEAN
          /\ shutOut' \in BOOLEAN
      BY <1>6 DEF PutFaultTimesOut, PipelineInv, Types, ParentPlaces
    <3>. QED BY <1>6, <3>1 DEF PutFaultTimesOut, PipelineInv, Types,
           workerVars, fileVars
  <2>2. ProgressInv' /\ PipeInv'
    BY <1>6 DEF PutFaultTimesOut, PipelineInv, Types, ProgressInv, PipeInv,
        workerVars, fileVars
  <2>3. SentinelInv'
    BY <1>6 DEF PutFaultTimesOut, PipelineInv, Types, SentinelInv,
        SentinelSent, workerVars, fileVars
  <2>. QED BY <2>1, <2>2, <2>3 DEF PipelineInv
<1>7. CASE RunEnds
  <2>1. Types'
    BY <1>7 DEF RunEnds, PipelineInv, Types, ParentPlaces, workerVars, fileVars
  <2>2. ProgressInv' /\ PipeInv'
    BY <1>7 DEF RunEnds, PipelineInv, ProgressInv, PipeInv, workerVars, fileVars
  <2>3. SentinelInv'
    BY <1>7 DEF RunEnds, PipelineInv, SentinelInv, SentinelSent, workerVars,
        fileVars
  <2>. QED BY <2>1, <2>2, <2>3 DEF PipelineInv
<1>8. CASE HeartbeatLooks
  BY <1>8, SMTT(30) DEF HeartbeatLooks, PipelineInv, Types, ProgressInv, PipeInv,
      SentinelInv, SentinelSent, vars, workerVars, fileVars, ParentPlaces
<1>9. CASE RequestStop
  BY <1>9, SMTT(30) DEF RequestStop, PipelineInv, Types, ProgressInv, PipeInv,
      SentinelInv, SentinelSent, vars, workerVars, fileVars, ParentPlaces
<1>10. CASE WindowEnds
  BY <1>10, SMTT(30) DEF WindowEnds, PipelineInv, Types, ProgressInv, PipeInv,
      SentinelInv, SentinelSent, parentVars, workerVars, fileVars, ParentPlaces
<1>11. CASE Finished
  BY <1>11, SMTT(30) DEF Finished, PipelineInv, Types, ProgressInv, PipeInv,
      SentinelInv, SentinelSent, vars, workerVars, fileVars, ParentPlaces
<1>. QED BY <1>1, <1>2, <1>3, <1>4, <1>5, <1>6, <1>7, <1>8, <1>9, <1>10, <1>11

\* Steps of the worker that take, commit and report nothing.
LEMMA WorkerControlInv ==
  ASSUME PipelineInv,
         WorkerOpens \/ BatchCloses \/ ApplyFaults \/ PublishTimesOut \/
         FinishWork \/ MarkFinished \/ CloseSession
  PROVE  PipelineInv'
<1>1. CASE WorkerOpens
  BY <1>1, SMTT(30) DEF WorkerOpens, PipelineInv, Types, ProgressInv, PipeInv,
      SentinelInv, SentinelSent, parentVars, fileVars, WorkerPlaces
<1>2. CASE BatchCloses
  BY <1>2, SMTT(30) DEF BatchCloses, PipelineInv, Types, ProgressInv, PipeInv,
      SentinelInv, SentinelSent, parentVars, fileVars, WorkerPlaces
<1>3. CASE ApplyFaults
  BY <1>3, SMTT(30) DEF ApplyFaults, PipelineInv, Types, ProgressInv, PipeInv,
      SentinelInv, SentinelSent, parentVars, fileVars, WorkerPlaces, AfterBatch
<1>4. CASE PublishTimesOut
  BY <1>4, SMTT(30) DEF PublishTimesOut, PipelineInv, Types, ProgressInv, PipeInv,
      SentinelInv, SentinelSent, parentVars, fileVars, WorkerPlaces
<1>5. CASE FinishWork
  <2>1. wpc' \in {"mark", "fatal"} /\ workerDone' \in BOOLEAN
    BY <1>5 DEF FinishWork, PipelineInv, Types
  <2>2. Types'
    BY <1>5, <2>1 DEF FinishWork, PipelineInv, Types, parentVars, WorkerPlaces
  <2>3. ProgressInv' /\ PipeInv'
    BY <1>5 DEF FinishWork, PipelineInv, Types, ProgressInv, PipeInv,
        parentVars
  <2>4. SentinelInv'
    BY <1>5, <2>1 DEF FinishWork, PipelineInv, Types, SentinelInv,
        SentinelSent, parentVars
  <2>. QED BY <2>2, <2>3, <2>4 DEF PipelineInv
<1>6. CASE MarkFinished
  <2>1. Types'
    <3>1. seal' \in {"OPEN", "NOT_STARTED", "INCOMPLETE",
                     "COLLECTED_PENDING_RECONCILIATION"}
      BY <1>6 DEF MarkFinished, FinishedStatus, PipelineInv, Types
    <3>. QED BY <1>6, <3>1 DEF MarkFinished, PipelineInv, Types, parentVars,
           WorkerPlaces
  <2>2. ProgressInv' /\ PipeInv'
    BY <1>6 DEF MarkFinished, PipelineInv, Types, ProgressInv, PipeInv,
        parentVars
  <2>3. SentinelInv'
    BY <1>6 DEF MarkFinished, PipelineInv, Types, SentinelInv,
        SentinelSent, parentVars
  <2>. QED BY <2>1, <2>2, <2>3 DEF PipelineInv
<1>7. CASE CloseSession
  BY <1>7, SMTT(30) DEF CloseSession, PipelineInv, Types, ProgressInv, PipeInv,
      SentinelInv, SentinelSent, parentVars, fileVars, WorkerPlaces
<1>. QED BY <1>1, <1>2, <1>3, <1>4, <1>5, <1>6, <1>7

\* The messages of the progress queue are well formed.
LEMMA ProgressElements ==
  ASSUME PipelineInv
  PROVE  /\ progress \in Seq([durable : Nat, fatal : BOOLEAN])
         /\ Len(progress) \in Nat
         /\ \A i \in 1..Len(progress) :
              /\ progress[i] \in [durable : Nat, fatal : BOOLEAN]
              /\ progress[i].durable \in Nat
<1>1. progress \in Seq([durable : Nat, fatal : BOOLEAN])
  BY DEF PipelineInv, Types
<1>2. \A i \in 1..Len(progress) :
        progress[i] \in [durable : Nat, fatal : BOOLEAN]
  BY <1>1, ElementOfSeq
<1>. QED BY <1>1, <1>2

\* A progress message of the worker, and the queue it is appended to.
LEMMA MessageTypes ==
  ASSUME PipelineInv, NEW f \in BOOLEAN
  PROVE  /\ Message(f) \in [durable : Nat, fatal : BOOLEAN]
         /\ Append(progress, Message(f))
              \in Seq([durable : Nat, fatal : BOOLEAN])
<1>1. Message(f) \in [durable : Nat, fatal : BOOLEAN]
  BY DEF Message, PipelineInv, Types
<1>2. progress \in Seq([durable : Nat, fatal : BOOLEAN])
  BY DEF PipelineInv, Types
<1>. QED BY <1>1, <1>2, AppendProperties

\* A report tells the parent what the worker has counted, and comes last.
LEMMA ReportKeepsProgress ==
  ASSUME PipelineInv, NEW f \in BOOLEAN,
         progress' = Append(progress, Message(f)),
         UNCHANGED <<acked, durable, committed, pending, admitted>>
  PROVE  ProgressInv'
<1>1. progress \in Seq([durable : Nat, fatal : BOOLEAN])
  BY DEF PipelineInv, Types
<1>2. Len(progress') = Len(progress) + 1
  BY <1>1, MessageTypes, AppendProperties
<1>3. \A i \in 1..Len(progress) : progress'[i] = progress[i]
  BY <1>1, MessageTypes, AppendProperties
<1>4. progress'[Len(progress) + 1].durable = durable
  BY <1>1, MessageTypes, AppendProperties DEF Message
<1>5. acked <= durable /\ durable \in Nat /\ Len(progress) \in Nat
  BY <1>1 DEF PipelineInv, Types, ProgressInv
<1>6. \A i \in 1..Len(progress') :
        acked <= progress'[i].durable /\ progress'[i].durable <= durable
  BY <1>2, <1>3, <1>4, <1>5 DEF PipelineInv, ProgressInv
<1>. QED BY <1>6 DEF PipelineInv, ProgressInv

\* Steps of the worker that commit a batch, count it and report it.
LEMMA WorkerProgressInv ==
  ASSUME PipelineInv, NEW malformed \in BOOLEAN,
         Persist \/ PersistFails \/ CountBatch(malformed) \/
         PublishProgress \/ WorkerFails \/ WorkerCrashes
  PROVE  PipelineInv'
<1>1. CASE Persist
  <2>1. /\ committed' \in Nat /\ batch' \in Nat
        /\ committed' + batch' = committed + batch
        /\ committed <= committed'
    BY <1>1 DEF Persist, PipelineInv, Types
  <2>2. Types'
    BY <1>1, <2>1 DEF Persist, PipelineInv, Types, parentVars, WorkerPlaces
  <2>3. ProgressInv'
    <3>1. UNCHANGED <<acked, durable, admitted, pending, progress>>
      BY <1>1 DEF Persist, parentVars
    <3>2. durable <= committed'
      BY <2>1 DEF PipelineInv, Types, ProgressInv
    <3>. QED BY <3>1, <3>2 DEF PipelineInv, ProgressInv
  <2>4. PipeInv'
    <3>1. UNCHANGED <<q, admitted>>
      BY <1>1 DEF Persist, parentVars
    <3>2. committed' + batch' <= admitted'
      BY <2>1, <3>1 DEF PipelineInv, PipeInv
    <3>. QED BY <2>1, <3>1, <3>2 DEF PipelineInv, PipeInv, Weight
  <2>5. SentinelInv'
    BY <1>1 DEF Persist, PipelineInv, Types, SentinelInv, SentinelSent,
       parentVars
  <2>. QED BY <2>2, <2>3, <2>4, <2>5 DEF PipelineInv
<1>2. CASE PersistFails
  <2>1. /\ committed' \in Nat /\ batch' \in Nat
        /\ committed' + batch' = committed + batch
        /\ committed <= committed'
    BY <1>2 DEF PersistFails, PipelineInv, Types
  <2>2. Types'
    BY <1>2, <2>1 DEF PersistFails, PipelineInv, Types, parentVars,
       WorkerPlaces
  <2>3. ProgressInv'
    <3>1. UNCHANGED <<acked, durable, admitted, pending, progress>>
      BY <1>2 DEF PersistFails, parentVars
    <3>2. durable <= committed'
      BY <2>1 DEF PipelineInv, Types, ProgressInv
    <3>. QED BY <3>1, <3>2 DEF PipelineInv, ProgressInv
  <2>4. PipeInv'
    <3>1. UNCHANGED <<q, admitted>>
      BY <1>2 DEF PersistFails, parentVars
    <3>2. committed' + batch' <= admitted'
      BY <2>1, <3>1 DEF PipelineInv, PipeInv
    <3>. QED BY <2>1, <3>1, <3>2 DEF PipelineInv, PipeInv, Weight
  <2>5. SentinelInv'
    BY <1>2 DEF PersistFails, PipelineInv, Types, SentinelInv,
       SentinelSent, parentVars
  <2>. QED BY <2>2, <2>3, <2>4, <2>5 DEF PipelineInv
<1>3. CASE CountBatch(malformed)
  <2>1. gaps' \in Nat /\ faults' \in Nat
    BY <1>3 DEF CountBatch, PipelineInv, Types
  <2>2. Types'
    BY <1>3, <2>1 DEF CountBatch, PipelineInv, Types, parentVars,
       WorkerPlaces
  <2>3. ProgressInv'
    <3>1. /\ acked <= durable' /\ durable' <= committed'
          /\ durable <= durable' /\ durable \in Nat /\ durable' \in Nat
      BY <1>3 DEF CountBatch, PipelineInv, Types, ProgressInv, parentVars
    <3>2. UNCHANGED <<acked, pending, admitted, progress>>
      BY <1>3 DEF CountBatch, parentVars
    <3>3. \A i \in 1..Len(progress) : progress[i].durable <= durable'
      BY <3>1, ProgressElements DEF PipelineInv, ProgressInv
    <3>. QED BY <3>1, <3>2, <3>3 DEF PipelineInv, ProgressInv
  <2>4. PipeInv'
    BY <1>3 DEF CountBatch, PipelineInv, Types, PipeInv, parentVars
  <2>5. SentinelInv'
    BY <1>3 DEF CountBatch, PipelineInv, Types, SentinelInv,
       SentinelSent, parentVars
  <2>. QED BY <2>2, <2>3, <2>4, <2>5 DEF PipelineInv
<1>4. CASE PublishProgress
  <2>1. wpc' \in WorkerPlaces
    BY <1>4 DEF PublishProgress, AfterBatch, WorkerPlaces
  <2>2. progress' = Append(progress, Message(FALSE))
    BY <1>4 DEF PublishProgress
  <2>3. Types'
    <3>1. progress' \in Seq([durable : Nat, fatal : BOOLEAN])
      BY <2>2, MessageTypes
    <3>2. UNCHANGED <<parentVars, q, workerDone, windowOver, exitcode,
                      endSeen, batch, faults, durable, fileVars>>
      BY <1>4 DEF PublishProgress
    <3>. QED BY <2>1, <3>1, <3>2 DEF PipelineInv, Types, parentVars, fileVars
  <2>4. ProgressInv'
    <3>1. UNCHANGED <<acked, durable, committed, pending, admitted>>
      BY <1>4 DEF PublishProgress, parentVars, fileVars
    <3>. QED BY <2>2, <3>1, ReportKeepsProgress
  <2>5. PipeInv'
    BY <1>4 DEF PublishProgress, PipelineInv, Types, PipeInv, parentVars,
       fileVars
  <2>6. SentinelInv'
    BY <1>4 DEF PublishProgress, AfterBatch, PipelineInv, Types,
       SentinelInv, SentinelSent, parentVars, fileVars
  <2>. QED BY <2>3, <2>4, <2>5, <2>6 DEF PipelineInv
<1>5. CASE WorkerFails
  <2>1. progress' \in Seq([durable : Nat, fatal : BOOLEAN])
    BY <1>5, MessageTypes DEF WorkerFails, PipelineInv, Types
  <2>2. Types'
    <3>1. /\ gaps' \in Nat /\ faults' \in Nat /\ wpc' \in WorkerPlaces
          /\ exitcode' \in {0, 1} /\ workerDone' \in BOOLEAN
      BY <1>5 DEF WorkerFails, PipelineInv, Types, WorkerPlaces
    <3>2. UNCHANGED <<parentVars, q, windowOver, endSeen, batch, durable,
                      committed, failures, seal, session>>
      BY <1>5 DEF WorkerFails
    <3>. QED BY <2>1, <3>1, <3>2 DEF PipelineInv, Types, parentVars
  <2>3. ProgressInv'
    <3>1. UNCHANGED <<acked, durable, committed, pending, admitted>>
      BY <1>5 DEF WorkerFails, parentVars
    <3>2. CASE progress' = Append(progress, Message(TRUE))
      BY <3>1, <3>2, ReportKeepsProgress
    <3>3. CASE progress' = progress
      BY <3>1, <3>3 DEF PipelineInv, ProgressInv
    <3>. QED BY <1>5, <3>2, <3>3 DEF WorkerFails
  <2>4. PipeInv'
    BY <1>5 DEF WorkerFails, PipelineInv, Types, PipeInv, parentVars
  <2>5. SentinelInv'
    BY <1>5 DEF WorkerFails, PipelineInv, Types, SentinelInv,
       SentinelSent, parentVars
  <2>. QED BY <2>2, <2>3, <2>4, <2>5 DEF PipelineInv
<1>6. CASE WorkerCrashes
  <2>1. PICK n \in 0..Len(progress) : progress' = SubSeq(progress, 1, n)
    BY <1>6 DEF WorkerCrashes
  <2>2. \A i \in 1..n : progress[i] \in [durable : Nat, fatal : BOOLEAN]
    BY <2>1, ProgressElements
  <2>3. /\ progress' \in Seq([durable : Nat, fatal : BOOLEAN])
        /\ Len(progress') = n
        /\ \A i \in 1..n : progress'[i] = progress[i]
    BY <2>1, <2>2, SubSeqProperties
  <2>4. Types'
    BY <1>6, <2>3 DEF WorkerCrashes, PipelineInv, Types, parentVars,
       fileVars, WorkerPlaces
  <2>5. ProgressInv'
    BY <1>6, <2>3 DEF WorkerCrashes, PipelineInv, Types, ProgressInv,
       parentVars, fileVars
  <2>6. PipeInv'
    BY <1>6 DEF WorkerCrashes, PipelineInv, Types, PipeInv, parentVars,
       fileVars
  <2>7. SentinelInv'
    BY <1>6 DEF WorkerCrashes, PipelineInv, Types, SentinelInv,
       SentinelSent, parentVars, fileVars, Alive
  <2>. QED BY <2>4, <2>5, <2>6, <2>7 DEF PipelineInv
<1>. QED BY <1>1, <1>2, <1>3, <1>4, <1>5, <1>6

-----------------------------------------------------------------------------
(* Steps that drain the progress queue and accept nothing.                  *)

\* Draining keeps the parent behind the worker and the pipe as it is.
LEMMA DrainingInv ==
  ASSUME PipelineInv,
         acked' = Reported, progress' = <<>>, pending' = DrainedPending,
         UNCHANGED <<admitted, q, workerVars, fileVars>>,
         ppc' \in ParentPlaces, SentinelSent => SentinelSent',
         hb' \in {"idle", "check", "over"},
         stop' \in BOOLEAN, fatal' \in BOOLEAN, failed' \in BOOLEAN,
         shutOut' \in BOOLEAN,
         workerDone' \in BOOLEAN, windowOver' \in BOOLEAN,
         received' \in Nat, overflow' \in Nat
  PROVE  PipelineInv'
<1>1. Types'
  <2>1. acked' \in Nat /\ pending' \in Seq(Sizes)
    BY DrainFacts
  <2>2. progress' \in Seq([durable : Nat, fatal : BOOLEAN])
    BY EmptySeq
  <2>. QED BY <2>1, <2>2 DEF PipelineInv, Types, workerVars, fileVars
<1>2. ProgressInv'
  <2>1. /\ acked' <= durable' /\ durable' <= committed'
        /\ Len(pending') = admitted' - acked'
    BY DrainFacts DEF PipelineInv, ProgressInv, workerVars, fileVars
  <2>2. Len(progress') = 0
    OBVIOUS
  <2>. QED BY <2>1, <2>2 DEF ProgressInv
<1>3. PipeInv'
  BY DEF PipelineInv, PipeInv, workerVars, fileVars
<1>4. SentinelInv'
  BY DEF PipelineInv, SentinelInv, workerVars, fileVars
<1>. QED BY <1>1, <1>2, <1>3, <1>4 DEF PipelineInv

\* The drains of put, of run_pipeline's polling loops and of the heartbeat.
LEMMA DrainStepsInv ==
  ASSUME PipelineInv, NEW size,
         RefuseFrame(size) \/ PollProgress \/ JoinWorker \/
         HeartbeatDrains \/ HeartbeatEnds
  PROVE  PipelineInv'
<1>1. FatalReported \in BOOLEAN
  BY DrainFacts
<1>2. CASE RefuseFrame(size)
  BY <1>1, <1>2, DrainingInv DEF RefuseFrame, DrainOnly, Drain, SentinelSent,
     PipelineInv, Types, ParentPlaces
<1>3. CASE PollProgress
  BY <1>1, <1>3, DrainingInv DEF PollProgress, DrainOnly, Drain,
     SentinelSent, PipelineInv, Types
<1>4. CASE JoinWorker
  BY <1>1, <1>4, DrainingInv DEF JoinWorker, SentinelSent, PipelineInv,
     Types, ParentPlaces
<1>5. CASE HeartbeatDrains
  BY <1>1, <1>5, DrainingInv DEF HeartbeatDrains, DrainOnly, Drain,
     SentinelSent, PipelineInv, Types
<1>6. CASE HeartbeatEnds
  <2>1. CASE FinishedReceiving
    BY <1>6, <2>1 DEF HeartbeatEnds, PipelineInv, Types, ProgressInv,
       PipeInv, SentinelInv, SentinelSent, workerVars, fileVars
  <2>2. CASE ~FinishedReceiving
    BY <1>6, <2>2, DrainingInv DEF HeartbeatEnds, SentinelSent, PipelineInv,
       Types
  <2>. QED BY <2>1, <2>2
<1>. QED BY <1>2, <1>3, <1>4, <1>5, <1>6

-----------------------------------------------------------------------------
(* Steps that put something in the pipe or take it out.                     *)

\* The items of the pipe are well formed.
LEMMA PipeElements ==
  ASSUME PipelineInv
  PROVE  /\ q \in Seq([kind : PipeKind, upto : Nat])
         /\ Len(q) \in Nat
         /\ \A i \in 1..Len(q) :
              /\ q[i] \in [kind : PipeKind, upto : Nat]
              /\ q[i].upto \in Nat /\ Weight(q[i]) \in {0, 1}
<1>1. q \in Seq([kind : PipeKind, upto : Nat])
  BY DEF PipelineInv, Types
<1>2. \A i \in 1..Len(q) : q[i] \in [kind : PipeKind, upto : Nat]
  BY <1>1, ElementOfSeq
<1>3. \A i \in 1..Len(q) : Weight(q[i]) \in {0, 1}
  BY DEF Weight
<1>. QED BY <1>1, <1>2, <1>3

\* An item put behind the others continues the count, unless the sentinel is
\* already there.
LEMMA AppendInv ==
  ASSUME PipelineInv, NEW kind \in PipeKind,
         admitted' = admitted + (IF kind = "frame" THEN 1 ELSE 0),
         q' = Append(q, Item(kind, admitted')),
         UNCHANGED <<workerVars, fileVars>>,
         ~SentinelSent, SentinelSent' = (kind = "end")
  PROVE  /\ q' \in Seq([kind : PipeKind, upto : Nat])
         /\ PipeInv'
         /\ SentinelInv'
<1>1. /\ admitted \in Nat /\ admitted' \in Nat /\ admitted <= admitted'
      /\ committed \in Nat /\ batch \in Nat
      /\ committed' = committed /\ batch' = batch
      /\ committed + batch <= admitted
  BY DEF PipelineInv, Types, PipeInv, workerVars, fileVars
<1>2. /\ Item(kind, admitted') \in [kind : PipeKind, upto : Nat]
      /\ Item(kind, admitted').kind = kind
      /\ Item(kind, admitted').upto = admitted'
      /\ admitted' = admitted + Weight(Item(kind, admitted'))
  BY <1>1 DEF Item, Weight
<1>3. /\ q' \in Seq([kind : PipeKind, upto : Nat])
      /\ q' # <<>>
      /\ Len(q') = Len(q) + 1
      /\ \A i \in 1..Len(q) : q'[i] = q[i]
      /\ q'[Len(q) + 1] = Item(kind, admitted')
  BY <1>2, PipeElements, AppendProperties
<1>4. PipeInv'
  <2>0. /\ q' = <<>> => committed' + batch' = admitted'
        /\ committed' + batch' <= admitted'
    BY <1>1, <1>3
  <2>. SUFFICES ASSUME NEW i \in 1..Len(q')
                PROVE  /\ q'[i].upto <= admitted'
                       /\ i = 1 => q'[i].upto
                                     = committed' + batch' + Weight(q'[i])
                       /\ i > 1 => q'[i].upto = q'[i-1].upto + Weight(q'[i])
                       /\ i = Len(q') => q'[i].upto = admitted'
    BY <2>0 DEF PipeInv, Weight
  <2>1. CASE i <= Len(q)
    <3>1. i \in 1..Len(q) /\ q'[i] = q[i] /\ i # Len(q')
      BY <2>1, <1>3, PipeElements
    <3>2. i > 1 => q'[i-1] = q[i-1]
      BY <3>1, <1>3, PipeElements
    <3>3. /\ q[i].upto <= admitted
          /\ i = 1 => q[i].upto = committed + batch + Weight(q[i])
          /\ i > 1 => q[i].upto = q[i-1].upto + Weight(q[i])
      BY <3>1 DEF PipelineInv, PipeInv
    <3>4. q[i].upto <= admitted'
      BY <1>1, <3>1, <3>3, PipeElements
    <3>. QED BY <1>1, <1>3, <3>1, <3>2, <3>3, <3>4
  <2>2. CASE i = Len(q) + 1
    <3>1. q'[i] = Item(kind, admitted')
      BY <2>2, <1>3
    <3>2. q'[i].upto = admitted' /\ admitted' = admitted + Weight(q'[i])
      BY <3>1, <1>2
    <3>3. i = 1 => committed + batch = admitted
      BY <2>2, PipeElements DEF PipelineInv, PipeInv
    <3>4. i > 1 => q'[i-1].upto = admitted
      <4>1. i > 1 => Len(q) \in 1..Len(q) /\ i - 1 = Len(q)
        BY <2>2, PipeElements
      <4>. QED BY <4>1, <1>3 DEF PipelineInv, PipeInv
    <3>. QED BY <1>1, <2>2, <3>2, <3>3, <3>4
  <2>. QED BY <1>3, <2>1, <2>2, PipeElements
<1>5. SentinelInv'
  <2>1. \A i \in 1..Len(q) : q[i].kind # "end"
    BY DEF PipelineInv, SentinelInv
  <2>2. \A i \in 1..(Len(q) + 1) : i \in 1..Len(q) \/ i = Len(q) + 1
    BY PipeElements
  <2>3. \A i \in 1..Len(q') :
          q'[i].kind = "end" => SentinelSent' /\ i = Len(q')
    BY <1>2, <1>3, <2>1, <2>2
  <2>4. ~endSeen
    BY DEF PipelineInv, SentinelInv
  <2>5. UNCHANGED <<wpc, endSeen, batch, faults, session>>
    BY DEF workerVars, fileVars
  <2>. QED BY <2>3, <2>4, <2>5 DEF PipelineInv, SentinelInv
<1>. QED BY <1>3, <1>4, <1>5

\* A frame accepted, a fault or the sentinel put in the pipe.
LEMMA PutStepsInv ==
  ASSUME PipelineInv, NEW size,
         (size \in Sizes /\ AcceptFrame(size)) \/ PutFault \/ PlaceSentinel
  PROVE  PipelineInv'
<1>1. CASE size \in Sizes /\ AcceptFrame(size)
  <2>1. /\ UNCHANGED <<overflow, failed, hb, shutOut, workerDone, windowOver,
                       workerVars, fileVars>>
        /\ ppc = "await" /\ ppc' \in {"connect", "await"}
        /\ admitted' = admitted + 1 /\ received' = received + 1
        /\ q' = Append(q, Item("frame", admitted'))
        /\ acked' = Reported /\ progress' = <<>>
        /\ pending' = Append(DrainedPending, size)
        /\ stop' = (stop \/ FatalReported) /\ fatal' = (fatal \/ FatalReported)
    BY <1>1 DEF AcceptFrame, Drain
  <2>2. /\ q' \in Seq([kind : PipeKind, upto : Nat])
        /\ PipeInv' /\ SentinelInv'
    <3>1. ~SentinelSent /\ SentinelSent' = FALSE
      BY <2>1 DEF SentinelSent
    <3>. QED BY <2>1, <3>1, AppendInv DEF PipeKind
  <2>3. /\ pending' \in Seq(Sizes)
        /\ Len(pending') = admitted - Reported + 1
    BY <1>1, <2>1, DrainFacts, AppendProperties
  <2>4. progress' \in Seq([durable : Nat, fatal : BOOLEAN]) /\ acked' \in Nat
    BY <2>1, DrainFacts, EmptySeq
  <2>5. Types'
    <3>1. /\ ppc' \in ParentPlaces /\ stop' \in BOOLEAN /\ fatal' \in BOOLEAN
          /\ admitted' \in Nat /\ received' \in Nat
      BY <2>1, DrainFacts DEF PipelineInv, Types, ParentPlaces
    <3>. QED BY <2>1, <2>2, <2>3, <2>4, <3>1 DEF PipelineInv, Types,
           workerVars, fileVars
  <2>6. ProgressInv'
    <3>1. /\ acked' <= durable' /\ durable' <= committed'
          /\ Len(pending') = admitted' - acked'
      BY <2>1, <2>3, DrainFacts DEF PipelineInv, Types, ProgressInv,
         workerVars, fileVars
    <3>2. Len(progress') = 0
      BY <2>1
    <3>. QED BY <3>1, <3>2 DEF ProgressInv
  <2>. QED BY <2>2, <2>5, <2>6 DEF PipelineInv
<1>2. CASE PutFault
  <2>1. /\ UNCHANGED <<received, admitted, overflow, pending, acked, fatal,
                       failed, hb, shutOut, progress, workerDone, windowOver,
                       workerVars, fileVars>>
        /\ ppc \in {"overflowPut", "errorPut"} /\ ppc' = "connect"
        /\ stop' \in BOOLEAN
        /\ q' = Append(q, Item("fault", admitted))
    BY <1>2 DEF PutFault, PipelineInv, Types
  <2>2. /\ q' \in Seq([kind : PipeKind, upto : Nat])
        /\ PipeInv' /\ SentinelInv'
    <3>1. ~SentinelSent /\ SentinelSent' = FALSE
      BY <2>1 DEF SentinelSent
    <3>2. admitted' = admitted + 0
      BY <2>1 DEF PipelineInv, Types
    <3>. QED BY <2>1, <3>1, <3>2, AppendInv DEF PipeKind
  <2>3. Types'
    BY <2>1, <2>2 DEF PipelineInv, Types, ParentPlaces, workerVars, fileVars
  <2>4. ProgressInv'
    BY <2>1 DEF PipelineInv, ProgressInv, workerVars, fileVars
  <2>. QED BY <2>2, <2>3, <2>4 DEF PipelineInv
<1>3. CASE PlaceSentinel
  <2>1. /\ UNCHANGED <<received, admitted, overflow, failed, hb, shutOut, workerDone,
                       windowOver, workerVars, fileVars>>
        /\ ppc = "returned" /\ ppc' = "draining"
        /\ acked' = Reported /\ progress' = <<>>
        /\ pending' = DrainedPending
        /\ stop' \in BOOLEAN /\ fatal' \in BOOLEAN
    BY <1>3, DrainFacts DEF PlaceSentinel, DrainOnly, Drain, PipelineInv,
       Types
  <2>2. /\ q' \in Seq([kind : PipeKind, upto : Nat])
        /\ PipeInv' /\ SentinelInv'
    <3>1. ~SentinelSent /\ SentinelSent' = TRUE
      BY <2>1 DEF SentinelSent
    <3>2. CASE Alive
      <4>1. q' = Append(q, Item("end", admitted)) /\ admitted' = admitted + 0
        BY <1>3, <2>1, <3>2 DEF PlaceSentinel, PipelineInv, Types
      <4>. QED BY <2>1, <3>1, <4>1, AppendInv DEF PipeKind
    <3>3. CASE ~Alive
      <4>1. q' = q
        BY <1>3, <3>3 DEF PlaceSentinel
      <4>2. PipeInv'
        BY <2>1, <4>1 DEF PipelineInv, PipeInv, workerVars, fileVars
      <4>3. SentinelInv'
        BY <2>1, <3>1, <4>1 DEF PipelineInv, SentinelInv, workerVars,
           fileVars
      <4>. QED BY <4>1, <4>2, <4>3, PipeElements
    <3>. QED BY <3>2, <3>3
  <2>3. Types'
    <3>1. acked' \in Nat /\ pending' \in Seq(Sizes)
      BY <2>1, DrainFacts
    <3>2. progress' \in Seq([durable : Nat, fatal : BOOLEAN])
      BY <2>1, EmptySeq
    <3>. QED BY <2>1, <2>2, <3>1, <3>2 DEF PipelineInv, Types, ParentPlaces,
           workerVars, fileVars
  <2>4. ProgressInv'
    <3>1. /\ acked' <= durable' /\ durable' <= committed'
          /\ Len(pending') = admitted' - acked'
      BY <2>1, DrainFacts DEF PipelineInv, ProgressInv, workerVars, fileVars
    <3>2. Len(progress') = 0
      BY <2>1
    <3>. QED BY <3>1, <3>2 DEF ProgressInv
  <2>. QED BY <2>2, <2>3, <2>4 DEF PipelineInv
<1>. QED BY <1>1, <1>2, <1>3

\* The worker takes the next item: the count of the pipe continues behind it.
LEMMA TakeItemInv ==
  ASSUME PipelineInv, TakeItem
  PROVE  PipelineInv'
<1>1. /\ q # <<>> /\ q' = Tail(q)
      /\ wpc = "collect"
      /\ batch' = batch + Weight(q[1])
      /\ faults' = faults + (IF q[1].kind = "fault" THEN 1 ELSE 0)
      /\ endSeen' = (q[1].kind = "end")
      /\ wpc' = IF q[1].kind = "end" THEN "apply" ELSE "collect"
      /\ UNCHANGED <<parentVars, progress, workerDone, windowOver, exitcode,
                     durable, fileVars>>
  <2>1. q # <<>> => Head(q) = q[1]
    BY PipeElements
  <2>. QED BY <2>1 DEF TakeItem, Weight
<1>2. /\ Len(q) \in Nat \ {0} /\ 1 \in 1..Len(q)
      /\ q' \in Seq([kind : PipeKind, upto : Nat])
      /\ Len(q') = Len(q) - 1
      /\ \A i \in 1..Len(q') : q'[i] = q[i + 1] /\ i + 1 \in 1..Len(q)
  BY <1>1, PipeElements, HeadTailProperties
<1>3. Weight(q[1]) \in {0, 1} /\ q[1].upto \in Nat
  BY <1>2, PipeElements
<1>4. /\ admitted' = admitted /\ committed' = committed
      /\ committed \in Nat /\ batch \in Nat /\ admitted \in Nat
      /\ batch' \in Nat /\ faults' \in Nat
  BY <1>1, <1>3 DEF PipelineInv, Types, parentVars, fileVars
<1>5. /\ q[1].upto = committed + batch'
      /\ committed + batch' <= admitted
  <2>1. q[1].upto = committed + batch + Weight(q[1]) /\ q[1].upto <= admitted
    BY <1>2 DEF PipelineInv, PipeInv
  <2>. QED BY <1>1, <1>3, <1>4, <2>1
<1>6. Types'
  <2>1. endSeen' \in BOOLEAN /\ wpc' \in WorkerPlaces
    BY <1>1 DEF WorkerPlaces
  <2>. QED BY <1>1, <1>2, <1>4, <2>1 DEF PipelineInv, Types, parentVars,
         fileVars
<1>7. ProgressInv'
  BY <1>1 DEF PipelineInv, ProgressInv, parentVars, fileVars
<1>8. PipeInv'
  <2>1. q' = <<>> => committed' + batch' = admitted'
    <3>1. q' = <<>> => Len(q) = 1
      BY <1>2
    <3>2. Len(q) = 1 => q[1].upto = admitted
      BY <1>2 DEF PipelineInv, PipeInv
    <3>. QED BY <1>4, <1>5, <3>1, <3>2
  <2>. SUFFICES ASSUME NEW i \in 1..Len(q')
                PROVE  /\ q'[i].upto <= admitted'
                       /\ i = 1 => q'[i].upto
                                     = committed' + batch' + Weight(q'[i])
                       /\ i > 1 => q'[i].upto = q'[i-1].upto + Weight(q'[i])
                       /\ i = Len(q') => q'[i].upto = admitted'
    BY <1>4, <1>5, <2>1 DEF PipeInv, Weight
  <2>2. i \in Nat /\ i + 1 \in 1..Len(q) /\ q'[i] = q[i+1] /\ (i + 1) - 1 = i
    BY <1>2
  <2>3. /\ q[i+1].upto <= admitted
        /\ q[i+1].upto = q[i].upto + Weight(q[i+1])
        /\ i + 1 = Len(q) => q[i+1].upto = admitted
    BY <2>2 DEF PipelineInv, PipeInv
  <2>4. i > 1 => i - 1 \in 1..Len(q') /\ q'[i-1] = q[i]
    BY <1>2, <2>2
  <2>5. i = 1 => q'[i].upto = committed' + batch' + Weight(q'[i])
    BY <1>4, <1>5, <2>2, <2>3
  <2>6. i > 1 => q'[i].upto = q'[i-1].upto + Weight(q'[i])
    BY <2>2, <2>3, <2>4
  <2>7. i = Len(q') => q'[i].upto = admitted'
    BY <1>2, <1>4, <2>2, <2>3
  <2>. QED BY <1>4, <2>2, <2>3, <2>5, <2>6, <2>7
<1>9. SentinelInv'
  <2>1. \A i \in 1..Len(q') :
          q'[i].kind = "end" => SentinelSent' /\ i = Len(q')
    <3>. SUFFICES ASSUME NEW i \in 1..Len(q'), q'[i].kind = "end"
                  PROVE  SentinelSent' /\ i = Len(q')
      OBVIOUS
    <3>1. q[i+1].kind = "end" /\ i + 1 \in 1..Len(q)
      BY <1>2
    <3>2. SentinelSent /\ i + 1 = Len(q)
      BY <3>1 DEF PipelineInv, SentinelInv
    <3>3. SentinelSent'
      BY <1>1, <3>2 DEF SentinelSent, parentVars
    <3>4. i \in Nat /\ i = Len(q')
      BY <1>2, <3>2
    <3>. QED BY <3>3, <3>4
  <2>2. endSeen' => SentinelSent' /\ q' = <<>>
    <3>1. endSeen' => SentinelSent /\ Len(q) = 1
      BY <1>1, <1>2 DEF PipelineInv, SentinelInv
    <3>. QED BY <1>1, <1>2, <3>1 DEF SentinelSent, parentVars
  <2>3. session' # "STOPPED"
    BY <1>1 DEF PipelineInv, SentinelInv, fileVars
  <2>. QED BY <1>1, <2>1, <2>2, <2>3 DEF SentinelInv
<1>. QED BY <1>6, <1>7, <1>8, <1>9 DEF PipelineInv

\* Every step of the two processes and of their environment keeps it.
THEOREM NextInv == PipelineInv /\ [Next]_vars => PipelineInv'
<1>. SUFFICES ASSUME PipelineInv, [Next]_vars
              PROVE  PipelineInv'
  OBVIOUS
<1>1. CASE ReceiverCode
  BY <1>1, ParentControlInv, PutStepsInv DEF ReceiverCode
<1>2. CASE Provider
  BY <1>2, ParentControlInv, DrainStepsInv, PutStepsInv DEF Provider
<1>3. CASE ShutdownStep
  BY <1>3, ParentControlInv, PutStepsInv, DrainStepsInv DEF ShutdownStep
<1>4. CASE HeartbeatStep
  BY <1>4, ParentControlInv, DrainStepsInv DEF HeartbeatStep
<1>5. CASE WorkerStep
  <2>1. TRUE \in BOOLEAN
    OBVIOUS
  <2>. QED BY <1>5, <2>1, WorkerControlInv, WorkerProgressInv, TakeItemInv
         DEF WorkerStep
<1>6. CASE WorkerCrashes
  BY <1>6, WorkerProgressInv
<1>7. CASE RequestStop \/ WindowEnds \/ Finished
  BY <1>7, ParentControlInv
<1>8. CASE UNCHANGED vars
  BY <1>8 DEF vars, PipelineInv, Types, ProgressInv, PipeInv, SentinelInv,
     SentinelSent, Weight
<1>. QED BY <1>1, <1>2, <1>3, <1>4, <1>5, <1>6, <1>7, <1>8 DEF Next

\* The inductive invariant holds in every reachable state.
THEOREM Invariance == Spec => []PipelineInv
BY InitInv, NextInv, PTL DEF Spec

-----------------------------------------------------------------------------
(* Admission control.                                                       *)

\* The parent's own account of the frames in flight is within the bound.
PendingBound == Len(pending) <= Capacity

\* put() counts after it has drained, and nothing else adds to the account.
LEMMA PendingBoundNext ==
  ASSUME PipelineInv, PendingBound, [Next]_vars
  PROVE  PendingBound'
<1>1. /\ Capacity \in Nat /\ acked \in Nat /\ admitted \in Nat
      /\ Reported \in Nat /\ acked <= Reported
      /\ Len(pending) = admitted - acked
      /\ Len(DrainedPending) = admitted - Reported
  BY DrainFacts, PipelineAssumption DEF PipelineInv, Types, ProgressInv
<1>2. Len(DrainedPending) <= Capacity
  BY <1>1 DEF PendingBound
<1>3. CASE pending' = pending \/ pending' = DrainedPending
  BY <1>2, <1>3 DEF PendingBound
<1>4. ASSUME NEW size \in Sizes, AcceptFrame(size)
      PROVE  PendingBound'
  <2>1. /\ pending' = Append(DrainedPending, size)
        /\ ~(Len(DrainedPending) >= Capacity)
    BY <1>4 DEF AcceptFrame, Refused
  <2>2. Len(pending') = Len(DrainedPending) + 1
    BY <1>4, <2>1, DrainFacts, AppendProperties
  <2>. QED BY <1>1, <2>1, <2>2 DEF PendingBound
<1>5. \/ pending' = pending \/ pending' = DrainedPending
      \/ \E size \in Sizes : AcceptFrame(size)
  <2>1. CASE ReceiverCode
    BY <2>1 DEF ReceiverCode, ReceiverStops, Connect, RecvTimesOut,
       RecordGap, PutFault, PutFaultTimesOut
  <2>2. CASE Provider
    BY <2>2 DEF Provider, ConnectionLost, RefuseFrame, DrainOnly
  <2>3. CASE ShutdownStep
    BY <2>3 DEF ShutdownStep, PlaceSentinel, PollProgress, JoinWorker,
       RunEnds, DrainOnly
  <2>4. CASE HeartbeatStep
    BY <2>4 DEF HeartbeatStep, HeartbeatDrains, HeartbeatLooks,
       HeartbeatEnds, DrainOnly
  <2>5. CASE WorkerStep
    BY <2>5 DEF WorkerStep, WorkerOpens, TakeItem, BatchCloses,
       ApplyFaults, Persist, PersistFails, CountBatch, PublishProgress,
       PublishTimesOut, FinishWork, WorkerFails, MarkFinished, CloseSession,
       parentVars
  <2>6. CASE WorkerCrashes \/ RequestStop \/ WindowEnds \/ Finished
    BY <2>6 DEF WorkerCrashes, RequestStop, WindowEnds, Finished,
       parentVars, vars
  <2>7. CASE UNCHANGED vars
    BY <2>7 DEF vars
  <2>. QED BY <2>1, <2>2, <2>3, <2>4, <2>5, <2>6, <2>7 DEF Next
<1>. QED BY <1>3, <1>4, <1>5

LEMMA BoundInvariance == Spec => [](PipelineInv /\ PendingBound)
<1>1. Init => PendingBound
  BY PipelineAssumption DEF Init, PendingBound
<1>2. PipelineInv /\ PendingBound /\ [Next]_vars => PendingBound'
  BY PendingBoundNext
<1>. QED BY <1>1, <1>2, Invariance, PTL DEF Spec

-----------------------------------------------------------------------------
(* The properties.                                                          *)

\* Every variable keeps its type.
THEOREM TypeCorrect == Spec => []TypeOK
<1>1. PipelineInv => TypeOK
  BY DEF PipelineInv, Types, TypeOK
<1>. QED BY <1>1, Invariance, PTL

\* However late the parent hears of commits, the frames accepted and not yet
\* committed are never more than Capacity.
THEOREM AdmissionIsBounded == Spec => []AdmissionBound
<1>1. PipelineInv /\ PendingBound => AdmissionBound
  BY PipelineAssumption DEF PipelineInv, Types, ProgressInv, PendingBound,
     AdmissionBound
<1>. QED BY <1>1, BoundInvariance, PTL

\* The parent's count of durable frames is never ahead of SQLite's.
THEOREM AckedFramesAreCommitted == Spec => []AckedIsCommitted
<1>1. PipelineInv => AckedIsCommitted
  BY DEF PipelineInv, ProgressInv, PipeInv, AckedIsCommitted
<1>. QED BY <1>1, Invariance, PTL

\* The session marker says STOPPED only after every accepted frame is
\* committed and every fault of the pipe is in the checkpoint.
THEOREM StoppedSessionsAreDrained == Spec => []StoppedSessionIsDrained
<1>1. PipelineInv => StoppedSessionIsDrained
  BY DEF PipelineInv, Types, PipeInv, SentinelInv, StoppedSessionIsDrained
<1>. QED BY <1>1, Invariance, PTL

-----------------------------------------------------------------------------
(* The pipeline implements BoundedIngest.                                   *)

\* A step of the pipeline is a step of the abstract queue or a stutter.
LEMMA IngestStep ==
  ASSUME PipelineInv, PendingBound, [Next]_vars
  PROVE  [Ingest!Next]_(Ingest!vars)
<1>. USE DEF Alive
<1>1. /\ admitted \in Nat /\ committed \in Nat /\ batch \in Nat
      /\ committed + batch <= admitted
  BY DEF PipelineInv, Types, PipeInv
<1>2. ASSUME UNCHANGED <<admitted, committed, session>>,
             Alive <=> Alive'
      PROVE  UNCHANGED Ingest!vars
  BY <1>2 DEF Ingest!vars
<1>3. Alive => session # "STOPPED"
  BY DEF PipelineInv, SentinelInv
<1>4. ASSUME NEW size \in Sizes, AcceptFrame(size)
      PROVE  Ingest!Accept
  <2>1. /\ admitted' = admitted + 1 /\ UNCHANGED <<committed, wpc, session>>
        /\ ppc = "await" /\ ~(Len(DrainedPending) >= Capacity)
    BY <1>4 DEF AcceptFrame, Refused, workerVars, fileVars
  <2>2. session # "STOPPED"
    BY <2>1 DEF PipelineInv, SentinelInv, SentinelSent
  <2>3. admitted - committed < Capacity
    <3>1. /\ Len(DrainedPending) = admitted - Reported
          /\ Reported \in Nat /\ Reported <= durable
          /\ durable \in Nat /\ durable <= committed /\ Capacity \in Nat
      BY DrainFacts, PipelineAssumption DEF PipelineInv, Types, ProgressInv
    <3>. QED BY <1>1, <2>1, <3>1
  <2>. QED BY <2>1, <2>2, <2>3 DEF Ingest!Accept
<1>5. ASSUME committed' = committed + batch, wpc = "persist",
             wpc' # "dead", UNCHANGED <<admitted, session>>
      PROVE  Ingest!Persist
  <2>1. batch > 0 /\ session # "STOPPED"
    BY <1>5, <1>3 DEF PipelineInv, SentinelInv
  <2>2. committed + batch \in (committed + 1)..admitted
    BY <1>1, <2>1
  <2>. QED BY <1>5, <2>1, <2>2 DEF Ingest!Persist
<1>6. ASSUME Alive, ~Alive', UNCHANGED <<admitted, committed, session>>
      PROVE  Ingest!Fail
  BY <1>3, <1>6 DEF Ingest!Fail
<1>7. CASE CloseSession
  <2>1. endSeen /\ batch = 0 /\ q = <<>> /\ session # "STOPPED"
    BY <1>7, <1>3 DEF CloseSession, PipelineInv, SentinelInv
  <2>2. committed = admitted
    BY <1>1, <2>1 DEF PipelineInv, PipeInv
  <2>3. Ingest!Close
    BY <1>7, <2>1, <2>2 DEF CloseSession, Ingest!Close, parentVars
  <2>. QED BY <2>3 DEF Ingest!Next
<1>8. CASE ReceiverCode
  BY <1>2, <1>8 DEF ReceiverCode, ReceiverStops, Connect, RecvTimesOut,
     RecordGap, PutFault, PutFaultTimesOut, workerVars, fileVars
<1>9. CASE Provider
  BY <1>2, <1>4, <1>9 DEF Provider, ConnectionLost, RefuseFrame, workerVars,
     fileVars, Ingest!Next
<1>10. CASE ShutdownStep
  BY <1>2, <1>10 DEF ShutdownStep, PlaceSentinel, PollProgress, JoinWorker,
     RunEnds, workerVars, fileVars
<1>11. CASE HeartbeatStep
  BY <1>2, <1>11 DEF HeartbeatStep, HeartbeatDrains, HeartbeatLooks,
     HeartbeatEnds, workerVars, fileVars
<1>12. CASE WorkerStep
  <2>1. CASE WorkerOpens \/ TakeItem \/ BatchCloses \/ PublishTimesOut \/
             FinishWork \/ MarkFinished
    BY <1>2, <2>1 DEF WorkerOpens, TakeItem, BatchCloses, PublishTimesOut,
       FinishWork, MarkFinished, parentVars, fileVars
  <2>2. CASE ApplyFaults \/ PublishProgress
    BY <1>2, <2>2 DEF ApplyFaults, PublishProgress, AfterBatch, parentVars,
       fileVars
  <2>3. CASE Persist
    BY <1>5, <2>3 DEF Persist, parentVars, Ingest!Next
  <2>4. CASE PersistFails
    <3>1. CASE UNCHANGED committed
      BY <1>2, <2>4, <3>1 DEF PersistFails, parentVars
    <3>2. CASE committed' = committed + batch
      BY <1>5, <2>4, <3>2 DEF PersistFails, parentVars, Ingest!Next
    <3>. QED BY <2>4, <3>1, <3>2 DEF PersistFails
  <2>5. ASSUME NEW malformed \in BOOLEAN, CountBatch(malformed)
        PROVE  UNCHANGED Ingest!vars
    BY <1>2, <2>5 DEF CountBatch, parentVars
  <2>6. CASE WorkerFails
    BY <1>6, <2>6 DEF WorkerFails, parentVars, Ingest!Next
  <2>. QED BY <1>7, <1>12, <2>1, <2>2, <2>3, <2>4, <2>5, <2>6 DEF WorkerStep
<1>13. CASE WorkerCrashes
  BY <1>6, <1>13 DEF WorkerCrashes, parentVars, fileVars, Ingest!Next
<1>14. CASE RequestStop \/ WindowEnds \/ Finished
  BY <1>2, <1>14 DEF RequestStop, WindowEnds, Finished, vars, parentVars,
     workerVars, fileVars
<1>15. CASE UNCHANGED vars
  BY <1>2, <1>15 DEF vars
<1>. QED BY <1>8, <1>9, <1>10, <1>11, <1>12, <1>13, <1>14, <1>15 DEF Next

\* The two processes, their pipe and their progress queue implement the
\* bounded ingest their operator is promised.
THEOREM RefinesIngest == Spec => IngestSpec
<1>1. Init => Ingest!Init
  BY DEF Init, Ingest!Init, Alive
<1>2. PipelineInv /\ PendingBound /\ [Next]_vars
        => [Ingest!Next]_(Ingest!vars)
  BY IngestStep
<1>. QED BY <1>1, <1>2, BoundInvariance, PTL DEF Spec, IngestSpec, Ingest!Spec

-----------------------------------------------------------------------------
(* A clean exit.                                                            *)

\* What the parent knows once it has joined the worker: how it ended, and
\* everything it committed.
AnswerInv ==
  /\ received = admitted + overflow
  /\ wpc = "dead" /\ exitcode = 0 => session = "STOPPED"
  /\ exitcode = 0 /\ wpc \notin {"count", "fatal"} => durable = committed
  /\ exitcode = 0 /\ wpc \notin {"count", "publish", "fatal"} => Reported = committed
  /\ ppc \in {"joined", "exited"} =>
       wpc = "dead" /\ progress = <<>> /\ (exitcode = 0 \/ failed)


\* A drain does not change what has been reported, a report does.
LEMMA ReportedFacts ==
  ASSUME PipelineInv
  PROVE  /\ progress' = progress /\ acked' = acked => Reported' = Reported
         /\ progress' = <<>> /\ acked' = Reported => Reported' = Reported
         /\ progress' = Append(progress, Message(FALSE)) /\ acked' = acked =>
              Reported' = durable
<1>1. ASSUME progress' = Append(progress, Message(FALSE))
      PROVE  Reported' = durable
  <2>1. progress \in Seq([durable : Nat, fatal : BOOLEAN])
    BY DEF PipelineInv, Types
  <2>2. /\ Len(progress') = Len(progress) + 1 /\ Len(progress) \in Nat
        /\ progress'[Len(progress) + 1] = Message(FALSE)
    <3>. DEFINE Messages == [durable : Nat, fatal : BOOLEAN]
                m == Message(FALSE)
    <3>1. m \in Messages /\ progress \in Seq(Messages)
      BY <2>1 DEF Message, PipelineInv, Types
    <3>2. progress' = Append(progress, m)
      BY <1>1
    <3>. HIDE DEF m, Messages
    <3>3. /\ Len(Append(progress, m)) = Len(progress) + 1
          /\ Append(progress, m)[Len(progress) + 1] = m
          /\ Len(progress) \in Nat
      BY <3>1, AppendProperties
    <3>4. /\ Len(progress') = Len(progress) + 1 /\ Len(progress) \in Nat
          /\ progress'[Len(progress) + 1] = m
      BY <3>2, <3>3
    <3>. QED BY <3>4 DEF m
  <2>3. progress' # <<>>
    BY <2>2
  <2>. QED BY <2>2, <2>3 DEF Reported, Message
<1>. QED BY <1>1 DEF Reported

\* Steps that only the parent takes.
LEMMA AnswerOfParent ==
  ASSUME PipelineInv, AnswerInv, NEW size,
         \/ ReceiverCode \/ ConnectionLost \/ AcceptFrame(size)
         \/ RefuseFrame(size) \/ ShutdownStep \/ HeartbeatStep
  PROVE  AnswerInv'
<1>0. /\ received \in Nat /\ admitted \in Nat /\ overflow \in Nat
      /\ exitcode \in {0, 1} /\ failed \in BOOLEAN
  BY DEF PipelineInv, Types
<1>1. ASSUME UNCHANGED <<acked, progress, received, admitted, overflow>>,
             UNCHANGED <<workerVars, fileVars>> \/ RecordGap,
             failed => failed',
             ppc' \in {"joined", "exited"} => ppc \in {"joined", "exited"}
      PROVE  AnswerInv'
  <2>1. Reported' = Reported
    BY <1>1, ReportedFacts
  <2>2. UNCHANGED <<wpc, exitcode, durable, committed, session>>
    BY <1>1 DEF workerVars, fileVars, RecordGap
  <2>. QED BY <1>0, <1>1, <2>1, <2>2 DEF AnswerInv
<1>2. ASSUME progress' = <<>>, acked' = Reported, received' = admitted' + overflow',
             UNCHANGED <<workerVars, fileVars, failed>>,
             ppc' \in {"joined", "exited"} => ppc \in {"joined", "exited"}
      PROVE  AnswerInv'
  <2>1. Reported' = Reported
    BY <1>2, ReportedFacts
  <2>2. UNCHANGED <<wpc, exitcode, durable, committed, session>>
    BY <1>2 DEF workerVars, fileVars
  <2>. QED BY <1>0, <1>2, <2>1, <2>2 DEF AnswerInv
<1>3. received = admitted + overflow
  BY DEF AnswerInv
<1>4. CASE ReceiverStops \/ Connect \/ RecvTimesOut \/ RecordGap
  BY <1>1, <1>4 DEF ReceiverStops, Connect, RecvTimesOut, RecordGap
<1>5. CASE PutFault \/ PutFaultTimesOut \/ ConnectionLost
  BY <1>1, <1>5 DEF PutFault, PutFaultTimesOut, ConnectionLost
<1>6. CASE AcceptFrame(size)
  BY <1>0, <1>2, <1>3, <1>6 DEF AcceptFrame, Drain
<1>7. CASE RefuseFrame(size)
  BY <1>0, <1>2, <1>3, <1>7 DEF RefuseFrame, DrainOnly, Drain
<1>8. CASE PlaceSentinel \/ PollProgress
  BY <1>0, <1>2, <1>3, <1>8 DEF PlaceSentinel, PollProgress, DrainOnly, Drain
<1>9. CASE JoinWorker
  <2>1. /\ wpc = "dead" /\ progress' = <<>> /\ acked' = Reported
        /\ failed' = (failed \/ exitcode # 0)
        /\ UNCHANGED <<received, admitted, overflow>>
        /\ UNCHANGED <<wpc, exitcode, durable, committed, session>>
    BY <1>9 DEF JoinWorker, Alive, workerVars, fileVars
  <2>2. Reported' = Reported
    BY <2>1, ReportedFacts
  <2>. QED BY <1>0, <2>1, <2>2 DEF AnswerInv
<1>10. CASE RunEnds
  BY <1>1, <1>10 DEF RunEnds
<1>11. CASE HeartbeatDrains
  BY <1>2, <1>3, <1>11 DEF HeartbeatDrains, DrainOnly, Drain
<1>12. CASE HeartbeatLooks
  BY <1>1, <1>12 DEF HeartbeatLooks
<1>13. CASE HeartbeatEnds
  BY <1>1, <1>2, <1>3, <1>13 DEF HeartbeatEnds
<1>. QED BY <1>4, <1>5, <1>6, <1>7, <1>8, <1>9, <1>10, <1>11, <1>12, <1>13
     DEF ReceiverCode, ShutdownStep, HeartbeatStep

\* Steps of the worker, its crash and the environment.
LEMMA AnswerOfWorker ==
  ASSUME PipelineInv, AnswerInv,
         WorkerStep \/ WorkerCrashes \/ RequestStop \/ WindowEnds \/ UNCHANGED vars
  PROVE  AnswerInv'
<1>0. /\ received \in Nat /\ admitted \in Nat /\ overflow \in Nat
      /\ exitcode \in {0, 1} /\ failed \in BOOLEAN /\ wpc \in WorkerPlaces
  BY DEF PipelineInv, Types
<1>1. ASSUME UNCHANGED <<acked, progress, received, admitted, overflow, failed,
                         ppc, exitcode>>,
             wpc # "dead",
             \/ /\ UNCHANGED <<durable, committed, session>>
                /\ \/ wpc \notin {"count", "publish", "fatal"}
                   \/ wpc' \in {"count", "fatal"}
                /\ wpc' # "dead"
             \/ wpc' \in {"count", "fatal"}
             \/ wpc' = "publish" /\ durable' = committed'
             \/ /\ wpc = "close" /\ session' = "STOPPED"
                /\ UNCHANGED <<durable, committed>>
      PROVE  AnswerInv'
  <2>1. Reported' = Reported
    BY <1>1, ReportedFacts
  <2>. QED BY <1>0, <1>1, <2>1 DEF AnswerInv
<1>2. CASE WorkerOpens \/ TakeItem \/ BatchCloses
  BY <1>1, <1>2 DEF WorkerOpens, TakeItem, BatchCloses, parentVars, fileVars
<1>3. CASE ApplyFaults
  BY <1>1, <1>3 DEF ApplyFaults, parentVars, AfterBatch
<1>4. CASE Persist \/ PersistFails
  BY <1>1, <1>4 DEF Persist, PersistFails, parentVars
<1>5. ASSUME NEW malformed \in BOOLEAN, CountBatch(malformed) PROVE AnswerInv'
  BY <1>1, <1>5 DEF CountBatch, parentVars
<1>6. CASE PublishProgress
  <2>1. /\ wpc = "publish" /\ wpc' \in {"final", "collect"}
        /\ progress' = Append(progress, Message(FALSE))
        /\ UNCHANGED <<acked, received, admitted, overflow, failed, ppc, exitcode>>
        /\ UNCHANGED <<durable, committed, session>>
    BY <1>6 DEF PublishProgress, AfterBatch, parentVars, fileVars
  <2>2. Reported' = durable
    BY <2>1, ReportedFacts
  <2>. QED BY <1>0, <2>1, <2>2 DEF AnswerInv
<1>7. CASE PublishTimesOut \/ FinishWork
  BY <1>1, <1>7 DEF PublishTimesOut, FinishWork, parentVars, fileVars
<1>8. CASE WorkerFails \/ WorkerCrashes
  <2>1. /\ wpc # "dead" /\ wpc' = "dead" /\ exitcode' = 1
        /\ UNCHANGED <<received, admitted, overflow, failed, ppc>>
    BY <1>8 DEF WorkerFails, WorkerCrashes, Alive, parentVars
  <2>. QED BY <1>0, <2>1 DEF AnswerInv
<1>9. CASE MarkFinished \/ CloseSession
  BY <1>1, <1>9 DEF MarkFinished, CloseSession, parentVars
<1>10. CASE RequestStop \/ WindowEnds \/ UNCHANGED vars
  <2>1. /\ UNCHANGED <<acked, progress, received, admitted, overflow, failed>>
        /\ UNCHANGED <<ppc, exitcode, wpc, durable, committed, session>>
    BY <1>10 DEF RequestStop, WindowEnds, vars, parentVars, workerVars, fileVars
  <2>2. Reported' = Reported
    BY <2>1, ReportedFacts
  <2>. QED BY <1>0, <2>1, <2>2 DEF AnswerInv
<1>. QED BY <1>2, <1>3, <1>4, <1>5, <1>6, <1>7, <1>8, <1>9, <1>10
     DEF WorkerStep

LEMMA AnswerNext ==
  ASSUME PipelineInv, AnswerInv, [Next]_vars
  PROVE  AnswerInv'
<1>1. CASE ReceiverCode \/ ShutdownStep \/ HeartbeatStep \/ Provider
  BY <1>1, AnswerOfParent DEF Provider
<1>2. CASE WorkerStep \/ WorkerCrashes \/ RequestStop \/ WindowEnds
           \/ UNCHANGED vars
  BY <1>2, AnswerOfWorker
<1>. QED BY <1>1, <1>2 DEF Next, Finished

\* What an exit code of 0 rests on holds in every reachable state.
LEMMA AnswerInvariance == Spec => [](PipelineInv /\ AnswerInv)
<1>1. Init => AnswerInv
  BY DEF Init, AnswerInv, Reported
<1>2. PipelineInv /\ AnswerInv /\ [Next]_vars => AnswerInv'
  BY AnswerNext
<1>. QED BY <1>1, <1>2, Invariance, PTL DEF Spec

\* A run that exits with code 0 has committed every frame it received, has
\* none pending, and leaves a session marker that says STOPPED.
THEOREM CleanExitsAreComplete == Spec => []CleanExitIsComplete
<1>1. PipelineInv /\ AnswerInv => CleanExitIsComplete
  <2>. SUFFICES ASSUME PipelineInv, AnswerInv, ppc = "exited",
                       FinalState = "STOPPED"
                PROVE  received = committed /\ session = "STOPPED" /\ pending = <<>>
    BY DEF CleanExitIsComplete
  <2>1. ~failed /\ overflow = 0
    BY DEF FinalState, PipelineInv, Types
  <2>2. exitcode = 0 /\ wpc = "dead" /\ progress = <<>>
    BY <2>1 DEF AnswerInv
  <2>3. session = "STOPPED" /\ Reported = committed
    BY <2>2 DEF AnswerInv
  <2>4. committed = admitted
    BY <2>3 DEF PipelineInv, Types, PipeInv, SentinelInv
  <2>5. received = committed
    BY <2>1, <2>4 DEF AnswerInv, PipelineInv, Types
  <2>6. acked = committed
    BY <2>2, <2>3 DEF Reported
  <2>7. pending = <<>>
    <3>1. Len(pending) = 0 /\ pending \in Seq(Sizes)
      BY <2>4, <2>6 DEF PipelineInv, Types, ProgressInv
    <3>. QED BY <3>1, EmptySeq
  <2>. QED BY <2>3, <2>5, <2>7
<1>. QED BY <1>1, AnswerInvariance, PTL

-----------------------------------------------------------------------------
(* Gaps on their way to the checkpoint, and what follows an overflow.       *)

Sent(kind) == \E i \in 1..Len(q) : q[i].kind = kind
FaultSent == Sent("fault")

\* What becomes of a fault record that a live worker's full pipe has kept out,
\* and the one after it too: the receiver fails.
FaultLost == failed /\ shutOut

\* A recorded gap is at the receiver, in the pipe, with the worker or in the
\* checkpoint; a day is sealed as collected behind the sentinel.
GapsInv ==
  /\ wpc \notin {"fatal", "dead"} /\ gaps > 0 =>
       \/ failures > 0 \/ faults > 0 \/ FaultSent
       \/ ppc \in {"overflowPut", "error", "errorPut"} \/ FaultLost
  /\ overflow > 0 => gaps > 0 \/ ppc = "overflow"
  /\ seal = "COLLECTED_PENDING_RECONCILIATION" =>
       /\ SentinelSent /\ wpc \in {"close", "dead"}
       /\ (gaps = 0 /\ received = committed) \/ FaultLost

\* A new item leaves those in the pipe where they are, ...
LEMMA ItemStays ==
  ASSUME PipelineInv, NEW kind \in PipeKind, NEW n \in Nat,
         q' = Append(q, Item(kind, n)), NEW k
  PROVE  Sent(k) \/ kind = k => Sent(k)'
<1>. DEFINE Items == [kind : PipeKind, upto : Nat]
            item == Item(kind, n)
<1>1. q \in Seq(Items) /\ item \in Items /\ item.kind = kind
  BY PipeElements DEF Item
<1>2. q' = Append(q, item)
  OBVIOUS
<1>. HIDE DEF Items, item
<1>3. /\ Len(q) \in Nat /\ Len(q') = Len(q) + 1
      /\ \A i \in 1..Len(q) : q'[i] = q[i]
      /\ q'[Len(q) + 1] = item
  BY <1>1, <1>2, AppendProperties
<1>4. Len(q) + 1 \in 1..Len(q') /\ \A i \in 1..Len(q) : i \in 1..Len(q')
  BY <1>3
<1>. QED BY <1>1, <1>3, <1>4 DEF Sent

\* ... and the worker takes the first of them.
LEMMA ItemTaken ==
  ASSUME PipelineInv, TakeItem, NEW k, Sent(k)
  PROVE  Sent(k)' \/ Head(q).kind = k
<1>1. q # <<>> /\ q' = Tail(q) /\ Head(q) = q[1]
  BY PipeElements DEF TakeItem
<1>2. /\ Len(q) \in Nat /\ Len(q') = Len(q) - 1
      /\ \A i \in 1..Len(q') : q'[i] = q[i + 1]
  BY <1>1, PipeElements, HeadTailProperties
<1>3. PICK i \in 1..Len(q) : q[i].kind = k
  BY DEF Sent
<1>4. CASE i = 1
  BY <1>1, <1>3, <1>4
<1>5. CASE i # 1
  <2>1. i - 1 \in 1..Len(q') /\ (i - 1) + 1 = i
    BY <1>2, <1>5
  <2>2. q'[i - 1].kind = k
    BY <1>2, <1>3, <2>1
  <2>. QED BY <2>1, <2>2 DEF Sent
<1>. QED BY <1>4, <1>5

LEMMA FaultStays ==
  ASSUME PipelineInv, NEW kind \in PipeKind, NEW n \in Nat,
         q' = Append(q, Item(kind, n))
  PROVE  FaultSent \/ kind = "fault" => FaultSent'
BY ItemStays DEF FaultSent

LEMMA FaultTaken ==
  ASSUME PipelineInv, TakeItem, FaultSent
  PROVE  FaultSent' \/ faults' > 0
<1>1. FaultSent' \/ Head(q).kind = "fault"
  BY ItemTaken DEF FaultSent
<1>. QED BY <1>1 DEF TakeItem, PipelineInv, Types

LEMMA GapsOfParent ==
  ASSUME PipelineInv, GapsInv, NEW size,
         \/ ReceiverCode \/ ConnectionLost \/ AcceptFrame(size)
         \/ RefuseFrame(size) \/ ShutdownStep \/ HeartbeatStep
  PROVE  GapsInv'
<1>. USE DEF FaultLost
<1>0. /\ gaps \in Nat /\ failures \in Nat /\ faults \in Nat /\ overflow \in Nat
      /\ admitted \in Nat
  BY DEF PipelineInv, Types
<1>1. ASSUME UNCHANGED <<workerVars, fileVars, overflow, received, q>>,
             ppc \in {"overflow", "overflowPut", "error", "errorPut"} =>
               ppc' = ppc,
             failed => failed', shutOut => shutOut',
             SentinelSent => SentinelSent'
      PROVE  GapsInv'
  <2>1. FaultSent' = FaultSent
    BY <1>1 DEF FaultSent, Sent
  <2>. QED BY <1>0, <1>1, <2>1 DEF GapsInv, workerVars, fileVars
<1>2. CASE ReceiverStops \/ Connect \/ RecvTimesOut \/ ConnectionLost
  BY <1>1, <1>2 DEF ReceiverStops, Connect, RecvTimesOut, ConnectionLost,
     SentinelSent
<1>3. CASE RecordGap
  BY <1>0, <1>3 DEF RecordGap, GapsInv, SentinelSent, workerVars
<1>4. CASE PutFault
  <2>1. FaultSent'
    BY <1>0, <1>4, FaultStays DEF PutFault, PipeKind
  <2>. QED BY <1>0, <1>4, <2>1
           DEF PutFault, GapsInv, SentinelSent, workerVars, fileVars
<1>5. CASE PutFaultTimesOut
  BY <1>0, <1>5
     DEF PutFaultTimesOut, PutTimesOut, Alive, GapsInv, SentinelSent, workerVars,
         fileVars
<1>6. CASE AcceptFrame(size)
  <2>1. FaultSent => FaultSent'
    BY <1>0, <1>6, FaultStays DEF AcceptFrame, PipeKind
  <2>. QED BY <1>0, <1>6, <2>1
           DEF AcceptFrame, GapsInv, SentinelSent, workerVars, fileVars
<1>7. CASE RefuseFrame(size)
  <2>1. FaultSent' = FaultSent
    BY <1>7 DEF RefuseFrame, FaultSent, Sent
  <2>. QED BY <1>0, <1>7, <2>1
           DEF RefuseFrame, GapsInv, SentinelSent, workerVars, fileVars
<1>8. CASE PlaceSentinel
  <2>1. FaultSent => FaultSent'
    <3>1. CASE Alive
      BY <1>0, <1>8, <3>1, FaultStays DEF PlaceSentinel, PipeKind
    <3>2. CASE ~Alive
      BY <1>8, <3>2 DEF PlaceSentinel, FaultSent, Sent
    <3>. QED BY <3>1, <3>2
  <2>. QED BY <1>0, <1>8, <2>1
           DEF PlaceSentinel, GapsInv, SentinelSent, workerVars, fileVars
<1>9. CASE PollProgress \/ JoinWorker \/ RunEnds
  BY <1>1, <1>9 DEF PollProgress, JoinWorker, RunEnds, SentinelSent
<1>10. CASE HeartbeatStep
  BY <1>1, <1>10 DEF HeartbeatStep, HeartbeatDrains, HeartbeatLooks,
     HeartbeatEnds, SentinelSent
<1>. QED BY <1>2, <1>3, <1>4, <1>5, <1>6, <1>7, <1>8, <1>9, <1>10
     DEF ReceiverCode, ShutdownStep

LEMMA GapsOfWorker ==
  ASSUME PipelineInv, AnswerInv, GapsInv,
         WorkerStep \/ WorkerCrashes \/ RequestStop \/ WindowEnds \/ UNCHANGED vars
  PROVE  GapsInv'
<1>. USE DEF FaultLost
<1>0. /\ gaps \in Nat /\ failures \in Nat /\ faults \in Nat /\ overflow \in Nat
      /\ wpc \in WorkerPlaces
  BY DEF PipelineInv, Types
<1>1. q' = q => FaultSent' = FaultSent
  BY DEF FaultSent, Sent
<1>2. CASE WorkerOpens \/ BatchCloses
  BY <1>0, <1>1, <1>2 DEF WorkerOpens, BatchCloses, GapsInv, SentinelSent,
     parentVars, fileVars
<1>3. CASE TakeItem
  <2>1. FaultSent => FaultSent' \/ faults' > 0
    BY <1>3, FaultTaken
  <2>2. faults' \in Nat /\ (faults > 0 => faults' > 0)
    BY <1>0, <1>3 DEF TakeItem
  <2>3. /\ wpc = "collect" /\ wpc' \in {"apply", "collect"}
        /\ UNCHANGED <<parentVars, fileVars>>
    BY <1>3 DEF TakeItem
  <2>. QED BY <1>0, <2>1, <2>2, <2>3 DEF GapsInv, SentinelSent, parentVars, fileVars
<1>4. CASE ApplyFaults \/ FinishWork
  BY <1>0, <1>1, <1>4 DEF ApplyFaults, FinishWork, AfterBatch, GapsInv,
     SentinelSent, parentVars
<1>5. CASE Persist \/ PersistFails
  BY <1>0, <1>1, <1>5 DEF Persist, PersistFails, GapsInv, SentinelSent, parentVars
<1>6. ASSUME NEW malformed \in BOOLEAN, CountBatch(malformed) PROVE GapsInv'
  BY <1>0, <1>1, <1>6 DEF CountBatch, GapsInv, SentinelSent, parentVars
<1>7. CASE PublishProgress \/ PublishTimesOut
  BY <1>0, <1>1, <1>7 DEF PublishProgress, PublishTimesOut, AfterBatch, GapsInv,
     SentinelSent, parentVars, fileVars
<1>8. CASE WorkerFails \/ WorkerCrashes
  <2>1. /\ wpc # "dead" /\ wpc' = "dead" /\ gaps' \in {gaps, gaps + 1}
        /\ gaps' = gaps \/ wpc = "fatal"
        /\ UNCHANGED <<ppc, received, overflow, committed, seal, failed, shutOut>>
    BY <1>8 DEF WorkerFails, WorkerCrashes, Alive, parentVars, fileVars
  <2>. QED BY <1>0, <2>1 DEF GapsInv, SentinelSent
<1>9. CASE MarkFinished
  <2>1. /\ wpc = "mark" /\ wpc' = "close" /\ seal' = FinishedStatus
        /\ UNCHANGED <<gaps, failures, faults, q, ppc, overflow, received,
                       committed, failed, shutOut>>
    BY <1>9 DEF MarkFinished, parentVars
  <2>2. faults = 0 /\ batch = 0 /\ SentinelSent /\ q = <<>>
    BY <2>1 DEF PipelineInv, SentinelInv
  <2>3. committed = admitted /\ received = admitted + overflow
    BY <2>2 DEF PipelineInv, PipeInv, Types, AnswerInv
  <2>4. ~FaultSent /\ ppc \notin {"overflow", "overflowPut", "error", "errorPut"}
    BY <2>2 DEF FaultSent, Sent, SentinelSent
  <2>5. ASSUME FinishedStatus = "COLLECTED_PENDING_RECONCILIATION"
        PROVE  (gaps = 0 /\ received = committed) \/ FaultLost
    <3>. SUFFICES ASSUME ~FaultLost PROVE gaps = 0 /\ received = committed
      OBVIOUS
    <3>1. failures = 0
      BY <1>0, <2>5 DEF FinishedStatus
    <3>2. gaps = 0
      BY <1>0, <2>1, <2>2, <2>4, <3>1 DEF GapsInv
    <3>3. overflow = 0
      BY <1>0, <2>4, <3>2 DEF GapsInv
    <3>. QED BY <2>3, <3>2, <3>3 DEF PipelineInv, Types
  <2>. QED BY <1>0, <1>1, <2>1, <2>2, <2>5 DEF GapsInv, SentinelSent
<1>10. CASE CloseSession
  BY <1>0, <1>1, <1>10 DEF CloseSession, GapsInv, SentinelSent, parentVars
<1>11. CASE RequestStop \/ WindowEnds \/ UNCHANGED vars
  BY <1>0, <1>1, <1>11 DEF RequestStop, WindowEnds, vars, GapsInv, SentinelSent,
     parentVars, workerVars, fileVars
<1>. QED BY <1>2, <1>3, <1>4, <1>5, <1>6, <1>7, <1>8, <1>9, <1>10, <1>11
     DEF WorkerStep

LEMMA GapsInvariance ==
  Spec => [](PipelineInv /\ AnswerInv /\ GapsInv)
<1>1. Init => GapsInv
  BY DEF Init, GapsInv, FaultSent, Sent
<1>2. PipelineInv /\ AnswerInv /\ GapsInv /\ [Next]_vars => GapsInv'
  <2>. SUFFICES ASSUME PipelineInv, AnswerInv, GapsInv, [Next]_vars PROVE GapsInv'
    OBVIOUS
  <2>1. CASE ReceiverCode \/ ShutdownStep \/ HeartbeatStep \/ Provider
    BY <2>1, GapsOfParent DEF Provider
  <2>2. CASE WorkerStep \/ WorkerCrashes \/ RequestStop \/ WindowEnds
             \/ UNCHANGED vars
    BY <2>2, GapsOfWorker
  <2>. QED BY <2>1, <2>2 DEF Next, Finished
<1>. QED BY <1>1, <1>2, AnswerInvariance, PTL DEF Spec

\* A day is sealed as collected only without a recorded gap and with every
\* frame received committed, unless the full pipe of a live worker has kept out
\* the record of a gap and the receiver has failed: then that record can get
\* lost on its way to the worker.
THEOREM CollectedIsComplete ==
  Spec => [](CollectedMeansComplete \/ (failed /\ shutOut))
<1>1. GapsInv => CollectedMeansComplete \/ (failed /\ shutOut)
  BY DEF GapsInv, FaultLost, CollectedMeansComplete
<1>. QED BY <1>1, GapsInvariance, PTL

\* Once told of a gap the worker stays told: its fault goes from the pipe to
\* its queue and into the count of the checkpoint.
LEMMA ToldStays ==
  ASSUME PipelineInv, Told, [Next]_vars
  PROVE  Told'
<1>0. /\ faults \in Nat /\ failures \in Nat /\ admitted \in Nat
      /\ Len(q) \in Nat /\ DOMAIN q = 1..Len(q)
  BY PipeElements DEF PipelineInv, Types
<1>1. Told => FaultSent \/ faults > 0 \/ failures > 0
  BY <1>0 DEF Told, FaultSent, Sent
<1>2. DOMAIN q' = 1..Len(q')
  <2>1. PipelineInv'
    BY NextInv
  <2>. QED BY <2>1 DEF PipelineInv, Types
<1>3. FaultSent' \/ faults' > 0 \/ failures' > 0 => Told'
  BY <1>2 DEF Told, FaultSent, Sent
<1>4. ASSUME FaultSent => FaultSent', faults' \in {faults, faults + 1},
             failures' = failures
      PROVE  Told'
  BY <1>0, <1>1, <1>3, <1>4
<1>5. q' = q => FaultSent' = FaultSent
  BY DEF FaultSent, Sent
<1>6. CASE PutFault \/ \E size \in Sizes : AcceptFrame(size)
  <2>1. PICK kind \in PipeKind, n \in Nat : q' = Append(q, Item(kind, n))
    BY <1>0, <1>6 DEF PutFault, AcceptFrame, PipeKind
  <2>2. FaultSent => FaultSent'
    BY <2>1, FaultStays
  <2>. QED BY <1>4, <1>6, <2>2 DEF PutFault, AcceptFrame, workerVars, fileVars
<1>7. CASE PlaceSentinel
  <2>1. FaultSent => FaultSent'
    <3>1. CASE Alive
      BY <1>0, <1>7, <3>1, FaultStays DEF PlaceSentinel, PipeKind
    <3>2. CASE ~Alive
      BY <1>5, <1>7, <3>2 DEF PlaceSentinel
    <3>. QED BY <3>1, <3>2
  <2>. QED BY <1>4, <1>7, <2>1 DEF PlaceSentinel, workerVars, fileVars
<1>8. CASE RecordGap \/ ReceiverStops \/ Connect \/ RecvTimesOut
           \/ PutFaultTimesOut \/ ConnectionLost
           \/ \E size \in Sizes : RefuseFrame(size)
  BY <1>4, <1>5, <1>8
     DEF RecordGap, ReceiverStops, Connect, RecvTimesOut, PutFaultTimesOut,
         ConnectionLost, RefuseFrame, workerVars, fileVars
<1>9. CASE PollProgress \/ JoinWorker \/ RunEnds \/ HeartbeatStep
  BY <1>4, <1>5, <1>9
     DEF PollProgress, JoinWorker, RunEnds, HeartbeatStep, HeartbeatDrains,
         HeartbeatLooks, HeartbeatEnds, workerVars, fileVars
<1>10. CASE TakeItem
  <2>1. FaultSent => FaultSent' \/ faults' > 0
    BY <1>10, FaultTaken
  <2>2. faults' \in Nat /\ (faults > 0 => faults' > 0) /\ failures' = failures
    BY <1>0, <1>10 DEF TakeItem, fileVars
  <2>. QED BY <1>0, <1>1, <1>3, <2>1, <2>2
<1>11. CASE ApplyFaults \/ FinishWork
  <2>1. q' = q /\ failures' = failures + faults
    BY <1>11 DEF ApplyFaults, FinishWork
  <2>. QED BY <1>0, <1>1, <1>3, <1>5, <2>1
<1>12. CASE \E malformed \in BOOLEAN : CountBatch(malformed)
  BY <1>0, <1>4, <1>5, <1>12 DEF CountBatch
<1>13. CASE WorkerFails
  BY <1>4, <1>5, <1>13 DEF WorkerFails
<1>14. CASE WorkerOpens \/ BatchCloses \/ Persist \/ PersistFails
            \/ PublishProgress \/ PublishTimesOut \/ MarkFinished
            \/ CloseSession \/ WorkerCrashes
  BY <1>4, <1>5, <1>14
     DEF WorkerOpens, BatchCloses, Persist, PersistFails, PublishProgress,
         PublishTimesOut, MarkFinished, CloseSession, WorkerCrashes, fileVars
<1>15. CASE RequestStop \/ WindowEnds \/ UNCHANGED vars
  BY <1>4, <1>5, <1>15 DEF RequestStop, WindowEnds, vars, workerVars, fileVars
<1>. QED BY <1>6, <1>7, <1>8, <1>9, <1>10, <1>11, <1>12, <1>13, <1>14, <1>15
     DEF Next, ReceiverCode, Provider, ShutdownStep, WorkerStep, Finished

\* After an overflow the receiver is about to stop, unless its gap found the
\* pipe of a dead worker full, which stays full, or that of a live one: then
\* it fails, or the next record tells the worker.
OverflowInv ==
  overflow > 0 =>
    \/ ppc \in {"overflow", "overflowPut"}
    \/ stop /\ ppc \in {"connect", "returned", "draining", "joined", "exited"}
    \/ ppc \in {"error", "errorPut"} /\ PipeFull /\ ~Alive
    \/ shutOut /\ (ppc \in {"error", "errorPut"} \/ Told)

LEMMA OverflowNext ==
  ASSUME PipelineInv, OverflowInv, [Next]_vars
  PROVE  OverflowInv' /\ (overflow > 0 /\ received' # received => shutOut /\ Told)
<1>0. /\ overflow \in Nat /\ stop \in BOOLEAN /\ ppc \in ParentPlaces
      /\ shutOut \in BOOLEAN
  BY DEF PipelineInv, Types
<1>t. Told => Told'
  BY ToldStays
<1>1. ASSUME UNCHANGED <<ppc, overflow, received, shutOut>>, stop => stop',
             ~Alive => q' = q /\ ~Alive'
      PROVE  OverflowInv' /\ received' = received
  BY <1>0, <1>t, <1>1 DEF OverflowInv, PipeFull
<1>2. CASE ReceiverStops \/ Connect \/ RecvTimesOut \/ RecordGap
  BY <1>0, <1>t, <1>2 DEF ReceiverStops, Connect, RecvTimesOut, RecordGap,
     OverflowInv, PipeFull, Alive, workerVars
<1>3. CASE PutFault
  <2>1. Told'
    <3>1. admitted \in Nat /\ "fault" \in PipeKind
      BY DEF PipelineInv, Types, PipeKind
    <3>2. FaultSent'
      BY <1>3, <3>1, FaultStays DEF PutFault
    <3>3. DOMAIN q' = 1..Len(q')
      BY <1>3, NextInv DEF PipelineInv, Types
    <3>. QED BY <3>2, <3>3 DEF Told, FaultSent, Sent
  <2>. QED BY <1>0, <1>3, <2>1
           DEF PutFault, OverflowInv, PipeFull, Alive, workerVars
<1>4. CASE PutFaultTimesOut
  BY <1>0, <1>t, <1>4
     DEF PutFaultTimesOut, PutTimesOut, OverflowInv, PipeFull, Alive, workerVars
<1>5. CASE ConnectionLost
  BY <1>0, <1>5 DEF ConnectionLost, OverflowInv
<1>6. ASSUME NEW size \in Sizes, AcceptFrame(size) \/ RefuseFrame(size)
      PROVE  /\ OverflowInv'
             /\ overflow > 0 /\ received' # received => shutOut /\ Told
  BY <1>0, <1>t, <1>6 DEF AcceptFrame, RefuseFrame, OverflowInv
<1>7. CASE ShutdownStep
  BY <1>0, <1>t, <1>7 DEF ShutdownStep, PlaceSentinel, PollProgress, JoinWorker,
     RunEnds, DrainOnly, Drain, OverflowInv
<1>8. CASE HeartbeatStep
  <2>1. /\ UNCHANGED <<ppc, overflow, received, shutOut, q, workerVars>>
        /\ stop => stop'
    BY <1>8 DEF HeartbeatStep, HeartbeatDrains, HeartbeatLooks, HeartbeatEnds,
       DrainOnly, Drain
  <2>. QED BY <1>1, <2>1 DEF workerVars, Alive
<1>9. CASE WorkerStep
  <2>1. Alive /\ UNCHANGED parentVars
    BY <1>9 DEF WorkerStep, WorkerOpens, TakeItem, BatchCloses, ApplyFaults,
       Persist, PersistFails, CountBatch, PublishProgress, PublishTimesOut,
       FinishWork, WorkerFails, MarkFinished, CloseSession, Alive
  <2>. QED BY <1>1, <2>1 DEF parentVars
<1>10. CASE WorkerCrashes \/ WindowEnds \/ UNCHANGED vars
  BY <1>1, <1>10 DEF WorkerCrashes, WindowEnds, vars, parentVars, workerVars, Alive
<1>11. CASE RequestStop
  BY <1>1, <1>11 DEF RequestStop, workerVars, Alive
<1>. QED BY <1>2, <1>3, <1>4, <1>5, <1>6, <1>7, <1>8, <1>9, <1>10, <1>11
     DEF Next, ReceiverCode, Provider, Finished

\* No frame is received after a refused one, unless the full pipe of a live
\* worker has kept out the record of a gap and another record has reached the
\* worker, whose day then stays INCOMPLETE: for every capacity, batch size and
\* number of frames, and with every put that times out.
THEOREM OverflowsStopOrAreTold == Spec => OverflowStopsOrIsTold
<1>1. Init => OverflowInv
  BY DEF Init, OverflowInv
<1>2. PipelineInv /\ OverflowInv /\ [Next]_vars => OverflowInv'
  BY OverflowNext
<1>3. PipelineInv /\ OverflowInv /\ [Next]_vars =>
        [overflow > 0 /\ received' # received => shutOut /\ Told]_vars
  BY OverflowNext
<1>. QED BY <1>1, <1>2, <1>3, Invariance, PTL DEF Spec, OverflowStopsOrIsTold

-----------------------------------------------------------------------------
(* The end of a run: how much is left to do behind the sentinel.            *)

\* The sentinel is in the pipe until the worker has taken it, and the worker
\* that has taken it does not collect again; the queues keep their bounds.
EndInv ==
  /\ SentinelSent /\ Alive => endSeen \/ Sent("end")
  /\ endSeen => wpc \notin {"open", "collect"}
  /\ wpc = "open" => batch = 0
  /\ Len(q) <= Capacity /\ Len(progress) <= ProgressMax

\* At most so many steps of the worker before it is dead or waits for the
\* next item, and one more for each message it may leave to be read.
WorkerStepsLeft ==
  CASE wpc = "open" -> 6
    [] wpc = "collect" -> IF batch > 0 THEN 11 ELSE IF faults > 0 THEN 5 ELSE 3
    [] wpc = "apply" -> IF batch > 0 THEN 10 ELSE 4
    [] wpc = "persist" -> 9
    [] wpc = "count" -> 8
    [] wpc = "publish" -> 7
    [] wpc = "final" -> 3
    [] wpc \in {"fatal", "mark"} -> 2
    [] wpc = "close" -> 1
    [] wpc = "dead" -> 0

ParentStepsLeft ==
  CASE ppc = "draining" -> 2 [] ppc = "joined" -> 1 [] OTHER -> 0

\* An item costs nine steps at most: the taking of it, a batch of its own, and
\* the gap of its malformed frame.
StepsLeft ==
  9 * Len(q) + WorkerStepsLeft + Len(progress) + ParentStepsLeft

\* Behind the sentinel no step of anybody adds to what is left to do, and each
\* step of the worker and of run_pipeline takes away from it.
ShutdownShrinks ==
  [][SentinelSent =>
       /\ SentinelSent' /\ StepsLeft' <= StepsLeft
       /\ WorkerStep \/ ShutdownStep => StepsLeft' < StepsLeft]_vars

ShutdownIsBounded ==
  SentinelSent => StepsLeft \in 0..(9 * Capacity + ProgressMax + 13)

\* What the counts of the argument are.
Counts ==
  /\ Len(q) \in Nat /\ Len(progress) \in Nat
  /\ batch \in Nat /\ faults \in Nat
  /\ WorkerStepsLeft \in 0..11 /\ ParentStepsLeft \in 0..2
  /\ StepsLeft \in Nat

LEMMA CountFacts == PipelineInv => Counts
<1>. SUFFICES ASSUME PipelineInv PROVE Counts
  OBVIOUS
<1>1. /\ Len(q) \in Nat /\ Len(progress) \in Nat
      /\ batch \in Nat /\ faults \in Nat
      /\ wpc \in WorkerPlaces
  BY DEF PipelineInv, Types
<1>2. WorkerStepsLeft \in 0..11
  BY <1>1 DEF WorkerStepsLeft, WorkerPlaces
<1>3. ParentStepsLeft \in 0..2
  BY DEF ParentStepsLeft
<1>. QED BY <1>1, <1>2, <1>3 DEF Counts, StepsLeft

\* They are so in the next state as well.
LEMMA CountsNext ==
  ASSUME PipelineInv, [Next]_vars PROVE Counts /\ Counts'
<1>1. PipelineInv'
  BY NextInv
<1>2. Counts'
  BY <1>1, CountFacts, PTL
<1>. QED BY <1>2, CountFacts

LEMMA NoMessageLeft ==
  ASSUME Drain \/ progress' = <<>>
  PROVE  Len(progress') = 0
BY DEF Drain

LEMMA OneMessageMore ==
  ASSUME PipelineInv, NEW isFatal \in BOOLEAN,
         progress' = Append(progress, Message(isFatal))
  PROVE  Len(progress') = Len(progress) + 1
<1>1. Message(isFatal) \in [durable : Nat, fatal : BOOLEAN]
  BY DEF Message, PipelineInv, Types
<1>. QED BY <1>1, AppendProperties DEF PipelineInv, Types

LEMMA OneItemMore ==
  ASSUME PipelineInv, NEW kind \in PipeKind, NEW n \in Nat,
         q' = Append(q, Item(kind, n))
  PROVE  Len(q') = Len(q) + 1
<1>1. Item(kind, n) \in [kind : PipeKind, upto : Nat]
  BY DEF Item
<1>. QED BY <1>1, AppendProperties DEF PipelineInv, Types

LEMMA OneItemLess ==
  ASSUME PipelineInv, TakeItem
  PROVE  Len(q) >= 1 /\ Len(q') = Len(q) - 1
BY HeadTailProperties DEF TakeItem, PipelineInv, Types

LEMMA FewerMessages ==
  ASSUME PipelineInv, WorkerCrashes
  PROVE  Len(progress') <= Len(progress)
<1>1. PICK n \in 0..Len(progress) : progress' = SubSeq(progress, 1, n)
  BY DEF WorkerCrashes
<1>2. progress \in Seq([durable : Nat, fatal : BOOLEAN])
  BY DEF PipelineInv, Types
<1>3. Len(progress') = n
  BY <1>1, <1>2
<1>. QED BY <1>1, <1>2, <1>3

LEMMA EndOfParent ==
  ASSUME PipelineInv, EndInv, NEW size,
         \/ ReceiverCode \/ ConnectionLost \/ AcceptFrame(size)
         \/ RefuseFrame(size) \/ ShutdownStep \/ HeartbeatStep
  PROVE  EndInv'
<1>0. /\ Len(q) \in Nat /\ Len(progress) \in Nat /\ admitted \in Nat
      /\ Capacity \in Nat /\ ProgressMax \in Nat
  BY PipelineAssumption DEF PipelineInv, Types
<1>1. ASSUME UNCHANGED <<q, workerVars>>, SentinelSent' => SentinelSent,
             progress' = progress \/ Len(progress') = 0
      PROVE  EndInv'
  BY <1>0, <1>1 DEF EndInv, Sent, Alive, workerVars
<1>2. CASE ReceiverStops \/ Connect \/ RecvTimesOut \/ ConnectionLost
           \/ RecordGap \/ PutFaultTimesOut
  BY <1>1, <1>2 DEF ReceiverStops, Connect, RecvTimesOut, ConnectionLost,
     RecordGap, PutFaultTimesOut, SentinelSent
<1>3. CASE PutFault
  <2>1. Len(q') = Len(q) + 1
    BY <1>0, <1>3, OneItemMore DEF PutFault, PipeKind
  <2>. QED BY <1>0, <1>3, <2>1
           DEF PutFault, PipeFull, EndInv, SentinelSent, workerVars
<1>4. CASE AcceptFrame(size)
  <2>1. Len(q') = Len(q) + 1 /\ Len(progress') = 0
    BY <1>0, <1>4, OneItemMore, NoMessageLeft DEF AcceptFrame, PipeKind
  <2>2. ~SentinelSent' /\ ~PipeFull
    BY <1>4 DEF AcceptFrame, Refused, SentinelSent
  <2>. QED BY <1>0, <1>4, <2>1, <2>2
           DEF AcceptFrame, PipeFull, EndInv, workerVars
<1>5. CASE RefuseFrame(size)
  <2>1. Len(progress') = 0
    BY <1>5, NoMessageLeft DEF RefuseFrame, DrainOnly
  <2>. QED BY <1>1, <1>5, <2>1 DEF RefuseFrame, SentinelSent
<1>6. CASE PlaceSentinel
  <2>1. Len(progress') = 0
    BY <1>6, NoMessageLeft DEF PlaceSentinel, DrainOnly
  <2>2. UNCHANGED workerVars
    BY <1>6 DEF PlaceSentinel
  <2>3. CASE Alive
    <3>1. q' = Append(q, Item("end", admitted)) /\ ~PipeFull
      BY <1>6, <2>3 DEF PlaceSentinel
    <3>2. Sent("end")' /\ Len(q') = Len(q) + 1
      BY <1>0, <3>1, ItemStays, OneItemMore DEF PipeKind
    <3>. QED BY <1>0, <2>1, <2>2, <3>1, <3>2 DEF EndInv, PipeFull, workerVars
  <2>4. CASE ~Alive
    <3>1. q' = q
      BY <1>6, <2>4 DEF PlaceSentinel
    <3>. QED BY <1>0, <2>1, <2>2, <2>4, <3>1 DEF EndInv, Alive, workerVars
  <2>. QED BY <2>3, <2>4
<1>7. CASE PollProgress \/ JoinWorker
  <2>1. Len(progress') = 0
    BY <1>7, NoMessageLeft DEF PollProgress, JoinWorker, DrainOnly
  <2>. QED BY <1>1, <1>7, <2>1 DEF PollProgress, JoinWorker, SentinelSent
<1>8. CASE RunEnds
  BY <1>1, <1>8 DEF RunEnds, SentinelSent
<1>9. CASE HeartbeatStep
  <2>1. progress' = progress \/ Len(progress') = 0
    BY <1>9, NoMessageLeft
       DEF HeartbeatStep, HeartbeatDrains, HeartbeatLooks, HeartbeatEnds,
           DrainOnly
  <2>. QED BY <1>1, <1>9, <2>1
           DEF HeartbeatStep, HeartbeatDrains, HeartbeatLooks, HeartbeatEnds,
               SentinelSent
<1>. QED BY <1>2, <1>3, <1>4, <1>5, <1>6, <1>7, <1>8, <1>9
     DEF ReceiverCode, ShutdownStep

LEMMA EndOfWorker ==
  ASSUME PipelineInv, EndInv,
         WorkerStep \/ WorkerCrashes \/ RequestStop \/ WindowEnds \/ UNCHANGED vars
  PROVE  EndInv'
<1>0. /\ Len(q) \in Nat /\ Len(progress) \in Nat /\ wpc \in WorkerPlaces
      /\ Capacity \in Nat /\ ProgressMax \in Nat
  BY PipelineAssumption DEF PipelineInv, Types
<1>1. ASSUME UNCHANGED <<ppc, q, progress, endSeen>>, Alive' => Alive,
             endSeen => wpc' \notin {"open", "collect"},
             wpc' = "open" => batch' = 0
      PROVE  EndInv'
  BY <1>0, <1>1 DEF EndInv, Sent, SentinelSent
<1>2. CASE WorkerOpens \/ BatchCloses \/ ApplyFaults \/ Persist \/ PersistFails
           \/ PublishTimesOut \/ FinishWork \/ MarkFinished \/ CloseSession
  <2>1. UNCHANGED <<ppc, q, progress, endSeen>> /\ Alive
    BY <1>2 DEF WorkerOpens, BatchCloses, ApplyFaults, Persist, PersistFails,
       PublishTimesOut, FinishWork, MarkFinished, CloseSession, parentVars, Alive
  <2>2. endSeen => wpc' \notin {"open", "collect"}
    BY <1>2 DEF WorkerOpens, BatchCloses, ApplyFaults, Persist, PersistFails,
       PublishTimesOut, FinishWork, MarkFinished, CloseSession, AfterBatch,
       EndInv
  <2>3. wpc' # "open"
    BY <1>2 DEF WorkerOpens, BatchCloses, ApplyFaults, Persist, PersistFails,
       PublishTimesOut, FinishWork, MarkFinished, CloseSession, AfterBatch
  <2>. QED BY <1>1, <2>1, <2>2, <2>3
<1>3. CASE TakeItem
  <2>1. Len(q') = Len(q) - 1
    BY <1>3, OneItemLess
  <2>2. /\ wpc = "collect" /\ ppc' = ppc /\ progress' = progress
        /\ endSeen' = (Head(q).kind = "end")
        /\ Head(q).kind = "end" => wpc' = "apply"
        /\ wpc' # "open"
    BY <1>3 DEF TakeItem, parentVars
  <2>3. Sent("end") => Sent("end")' \/ Head(q).kind = "end"
    BY <1>3, ItemTaken
  <2>4. ~endSeen
    BY <2>2 DEF EndInv
  <2>5. Len(q') <= Capacity /\ Len(progress') <= ProgressMax
    BY <1>0, <2>1, <2>2 DEF EndInv
  <2>6. CASE Head(q).kind = "end"
    BY <2>2, <2>5, <2>6 DEF EndInv
  <2>7. CASE Head(q).kind # "end"
    <3>1. endSeen' = FALSE
      BY <2>2, <2>7
    <3>2. SentinelSent' => Sent("end")'
      BY <2>2, <2>3, <2>4, <2>7 DEF EndInv, SentinelSent, Alive
    <3>. QED BY <2>2, <2>5, <3>1, <3>2 DEF EndInv
  <2>. QED BY <2>6, <2>7
<1>4. ASSUME NEW malformed \in BOOLEAN, CountBatch(malformed) PROVE EndInv'
  BY <1>1, <1>4 DEF CountBatch, parentVars, Alive
<1>5. CASE PublishProgress
  <2>1. Len(progress') = Len(progress) + 1 /\ Len(progress) < ProgressMax
    BY <1>5, OneMessageMore DEF PublishProgress
  <2>. QED BY <1>0, <1>5, <2>1
           DEF PublishProgress, AfterBatch, EndInv, Sent, SentinelSent, Alive,
               parentVars
<1>6. CASE WorkerFails \/ WorkerCrashes
  <2>1. Len(progress') <= ProgressMax
    <3>1. CASE WorkerFails /\ Len(progress) < ProgressMax
      BY <1>0, <3>1, OneMessageMore DEF WorkerFails
    <3>2. CASE WorkerFails /\ ~(Len(progress) < ProgressMax)
      BY <1>0, <3>2 DEF WorkerFails, EndInv
    <3>3. CASE WorkerCrashes
      <4>1. progress' \in Seq([durable : Nat, fatal : BOOLEAN])
        BY <1>6, NextInv DEF Next, WorkerStep, PipelineInv, Types
      <4>. QED BY <1>0, <3>3, <4>1, FewerMessages DEF EndInv
    <3>. QED BY <1>6, <3>1, <3>2, <3>3
  <2>. QED BY <1>6, <2>1 DEF WorkerFails, WorkerCrashes, EndInv, Alive
<1>7. CASE RequestStop \/ WindowEnds \/ UNCHANGED vars
  BY <1>1, <1>7 DEF RequestStop, WindowEnds, vars, parentVars, workerVars,
     Alive, EndInv
<1>. QED BY <1>2, <1>3, <1>4, <1>5, <1>6, <1>7 DEF WorkerStep

LEMMA EndInvariance == Spec => [](PipelineInv /\ EndInv)
<1>1. Init => EndInv
  BY PipelineAssumption DEF Init, EndInv, SentinelSent
<1>2. PipelineInv /\ EndInv /\ [Next]_vars => EndInv'
  <2>. SUFFICES ASSUME PipelineInv, EndInv, [Next]_vars PROVE EndInv'
    OBVIOUS
  <2>1. CASE ReceiverCode \/ ShutdownStep \/ HeartbeatStep \/ Provider
    BY <2>1, EndOfParent DEF Provider
  <2>2. CASE WorkerStep \/ WorkerCrashes \/ RequestStop \/ WindowEnds
             \/ UNCHANGED vars
    BY <2>2, EndOfWorker
  <2>. QED BY <2>1, <2>2 DEF Next, Finished
<1>. QED BY <1>1, <1>2, Invariance, PTL DEF Spec

\* Steps of the worker, one place after the other.
LEMMA WorkerShrinks ==
  ASSUME PipelineInv, EndInv, SentinelSent, WorkerStep
  PROVE  UNCHANGED ppc /\ StepsLeft' < StepsLeft
<1>0. /\ Len(q) \in Nat /\ Len(progress) \in Nat
      /\ batch \in Nat /\ faults \in Nat
      /\ WorkerStepsLeft \in 0..11 /\ ParentStepsLeft \in 0..2
  BY CountFacts DEF Counts
<1>1. UNCHANGED ppc /\ ParentStepsLeft' = ParentStepsLeft
  BY DEF WorkerStep, WorkerOpens, TakeItem, BatchCloses, ApplyFaults,
     Persist, PersistFails, CountBatch, PublishProgress, PublishTimesOut,
     FinishWork, WorkerFails, MarkFinished, CloseSession, parentVars,
     ParentStepsLeft
<1>2. WorkerStepsLeft' \in 0..11
  BY CountsNext DEF Next, Counts
<1>. SUFFICES StepsLeft' < StepsLeft
  BY <1>1
<1>3. ASSUME q' = q, progress' = progress, WorkerStepsLeft' < WorkerStepsLeft
      PROVE  StepsLeft' < StepsLeft
  BY <1>0, <1>1, <1>2, <1>3 DEF StepsLeft
<1>4. CASE WorkerOpens
  BY <1>0, <1>3, <1>4 DEF WorkerOpens, WorkerStepsLeft, EndInv, parentVars
<1>5. CASE TakeItem
  <2>1. Len(q') = Len(q) - 1 /\ Len(q) >= 1 /\ progress' = progress
    BY <1>5, OneItemLess DEF TakeItem
  <2>2. WorkerStepsLeft >= 3 /\ WorkerStepsLeft' <= 11
    BY <1>2, <1>5 DEF TakeItem, WorkerStepsLeft
  <2>. QED BY <1>0, <1>1, <1>2, <2>1, <2>2 DEF StepsLeft
<1>6. CASE BatchCloses
  <2>1. batch > 0 \/ faults > 0
    <3>1. ~endSeen /\ Sent("end")
      BY <1>6 DEF BatchCloses, EndInv, Alive
    <3>2. q # <<>>
      BY <3>1 DEF Sent
    <3>. QED BY <1>6, <3>2 DEF BatchCloses
  <2>. QED BY <1>0, <1>3, <1>6, <2>1 DEF BatchCloses, WorkerStepsLeft
<1>7. CASE ApplyFaults
  BY <1>0, <1>3, <1>7 DEF ApplyFaults, AfterBatch, WorkerStepsLeft
<1>8. CASE Persist \/ PersistFails
  BY <1>3, <1>8 DEF Persist, PersistFails, WorkerStepsLeft
<1>9. ASSUME NEW malformed \in BOOLEAN, CountBatch(malformed)
      PROVE  StepsLeft' < StepsLeft
  BY <1>3, <1>9 DEF CountBatch, WorkerStepsLeft
<1>10. CASE PublishProgress
  <2>1. Len(progress') = Len(progress) + 1 /\ q' = q
    BY <1>10, OneMessageMore DEF PublishProgress
  <2>2. batch' = 0
    BY <1>10 DEF PublishProgress, PipelineInv, SentinelInv
  <2>3. WorkerStepsLeft = 7 /\ WorkerStepsLeft' <= 5
    BY <1>10, <2>2 DEF PublishProgress, AfterBatch, WorkerStepsLeft
  <2>. QED BY <1>0, <1>1, <1>2, <2>1, <2>3 DEF StepsLeft
<1>11. CASE PublishTimesOut \/ FinishWork \/ MarkFinished \/ CloseSession
  BY <1>3, <1>11 DEF PublishTimesOut, FinishWork, MarkFinished, CloseSession,
     WorkerStepsLeft
<1>12. CASE WorkerFails
  <2>1. q' = q /\ WorkerStepsLeft = 2 /\ WorkerStepsLeft' = 0
    BY <1>12 DEF WorkerFails, WorkerStepsLeft
  <2>2. Len(progress') \in {Len(progress), Len(progress) + 1}
    BY <1>12, OneMessageMore DEF WorkerFails
  <2>. QED BY <1>0, <1>1, <2>1, <2>2 DEF StepsLeft
<1>. QED BY <1>1, <1>4, <1>5, <1>6, <1>7, <1>8, <1>9, <1>10, <1>11, <1>12
     DEF WorkerStep

LEMMA ShutdownStepShrinks ==
  ASSUME PipelineInv, SentinelSent, ShutdownStep
  PROVE  SentinelSent' /\ StepsLeft' < StepsLeft
<1>0. /\ Len(q) \in Nat /\ Len(progress) \in Nat
      /\ WorkerStepsLeft \in 0..11 /\ ParentStepsLeft \in 0..2
  BY CountFacts DEF Counts
<1>1. CASE PlaceSentinel
  BY <1>1 DEF PlaceSentinel, SentinelSent
<1>2. CASE PollProgress
  <2>1. /\ q' = q /\ ppc' = ppc
        /\ WorkerStepsLeft' = WorkerStepsLeft
        /\ ParentStepsLeft' = ParentStepsLeft
    BY <1>2 DEF PollProgress, workerVars, WorkerStepsLeft, ParentStepsLeft
  <2>2. Len(progress') = 0 /\ Len(progress) > 0
    <3>1. Len(progress') = 0
      BY <1>2, NoMessageLeft DEF PollProgress, DrainOnly
    <3>2. Len(progress) # 0
      BY <1>2, EmptySeq DEF PollProgress, PipelineInv, Types
    <3>. QED BY <1>0, <3>1, <3>2
  <2>. QED BY <1>0, <2>1, <2>2 DEF StepsLeft, SentinelSent
<1>3. CASE JoinWorker
  <2>1. /\ q' = q /\ WorkerStepsLeft' = WorkerStepsLeft /\ Len(progress') = 0
    BY <1>3 DEF JoinWorker, workerVars, WorkerStepsLeft
  <2>2. ParentStepsLeft = 2 /\ ParentStepsLeft' = 1 /\ SentinelSent'
    BY <1>3 DEF JoinWorker, ParentStepsLeft, SentinelSent
  <2>. QED BY <1>0, <2>1, <2>2 DEF StepsLeft
<1>4. CASE RunEnds
  <2>1. /\ q' = q /\ progress' = progress /\ WorkerStepsLeft' = WorkerStepsLeft
    BY <1>4 DEF RunEnds, workerVars, WorkerStepsLeft
  <2>2. ParentStepsLeft = 1 /\ ParentStepsLeft' = 0 /\ SentinelSent'
    BY <1>4 DEF RunEnds, ParentStepsLeft, SentinelSent
  <2>. QED BY <1>0, <2>1, <2>2 DEF StepsLeft
<1>. QED BY <1>1, <1>2, <1>3, <1>4 DEF ShutdownStep

\* The receiver and the provider are done, and a heartbeat or a crash leaves
\* less to do.
LEMMA OthersDoNotGrow ==
  ASSUME PipelineInv, SentinelSent, [Next]_vars, ~WorkerStep, ~ShutdownStep
  PROVE  SentinelSent' /\ StepsLeft' <= StepsLeft
<1>0. /\ Len(q) \in Nat /\ Len(progress) \in Nat
      /\ WorkerStepsLeft \in 0..11 /\ ParentStepsLeft \in 0..2
  BY CountFacts DEF Counts
<1>1. ASSUME UNCHANGED <<ppc, q>>, Len(progress') \in 0..Len(progress),
             WorkerStepsLeft' \in 0..WorkerStepsLeft
      PROVE  SentinelSent' /\ StepsLeft' <= StepsLeft
  <2>1. ParentStepsLeft' = ParentStepsLeft /\ SentinelSent'
    BY <1>1 DEF ParentStepsLeft, SentinelSent
  <2>2. /\ Len(q') = Len(q) /\ Len(progress') <= Len(progress)
        /\ WorkerStepsLeft' <= WorkerStepsLeft
        /\ Len(progress') \in Nat /\ WorkerStepsLeft' \in Nat
    BY <1>0, <1>1
  <2>. QED BY <1>0, <2>1, <2>2 DEF StepsLeft
<1>2. ~ReceiverCode /\ ~Provider
  BY DEF SentinelSent, ReceiverCode, Provider, ReceiverStops, Connect,
     RecvTimesOut, RecordGap, PutFault, PutFaultTimesOut, ConnectionLost,
     AcceptFrame, RefuseFrame
<1>3. CASE HeartbeatStep
  <2>1. progress' = progress \/ Len(progress') = 0
    BY <1>3, NoMessageLeft
       DEF HeartbeatStep, HeartbeatDrains, HeartbeatLooks, HeartbeatEnds,
           DrainOnly
  <2>2. UNCHANGED <<ppc, q, workerVars>>
    BY <1>3 DEF HeartbeatStep, HeartbeatDrains, HeartbeatLooks, HeartbeatEnds
  <2>3. WorkerStepsLeft' = WorkerStepsLeft
    BY <2>2 DEF WorkerStepsLeft, workerVars
  <2>. QED BY <1>0, <1>1, <2>1, <2>2, <2>3
<1>4. CASE WorkerCrashes
  <2>2. Len(progress') \in Nat
    BY CountsNext DEF Counts
  <2>3. Len(progress') <= Len(progress)
    BY <1>4, FewerMessages
  <2>4. UNCHANGED <<ppc, q>> /\ WorkerStepsLeft' = 0
    BY <1>4 DEF WorkerCrashes, WorkerStepsLeft, parentVars
  <2>. QED BY <1>0, <1>1, <2>2, <2>3, <2>4
<1>5. CASE RequestStop \/ WindowEnds \/ UNCHANGED vars
  <2>1. UNCHANGED <<ppc, q, progress, workerVars>>
    BY <1>5 DEF RequestStop, WindowEnds, vars, parentVars, workerVars
  <2>2. WorkerStepsLeft' = WorkerStepsLeft
    BY <2>1 DEF WorkerStepsLeft, workerVars
  <2>. QED BY <1>0, <1>1, <2>1, <2>2
<1>. QED BY <1>2, <1>3, <1>4, <1>5 DEF Next, Finished

\* Once the sentinel has been placed, whatever crashes, waits or is polled
\* meanwhile, the worker and run_pipeline have at most so many steps left as the
\* bounds of the queues allow, and cannot wait for each other in a circle of
\* steps: each of theirs leaves fewer.
THEOREM ShutdownIsFinite == Spec => ShutdownShrinks /\ []ShutdownIsBounded
<1>1. PipelineInv /\ EndInv => ShutdownIsBounded
  <2>. SUFFICES ASSUME Counts, Len(q) <= Capacity, Len(progress) <= ProgressMax
                PROVE  StepsLeft \in 0..(9 * Capacity + ProgressMax + 13)
    BY CountFacts DEF ShutdownIsBounded, EndInv
  <2>1. /\ Len(q) \in Nat /\ Len(progress) \in Nat
        /\ WorkerStepsLeft \in 0..11 /\ ParentStepsLeft \in 0..2
    BY DEF Counts
  <2>2. Capacity \in Nat /\ ProgressMax \in Nat
    BY PipelineAssumption
  <2>. QED BY <2>1, <2>2 DEF StepsLeft
<1>2. PipelineInv /\ EndInv /\ [Next]_vars =>
        [SentinelSent =>
           /\ SentinelSent' /\ StepsLeft' <= StepsLeft
           /\ WorkerStep \/ ShutdownStep => StepsLeft' < StepsLeft]_vars
  <2>. SUFFICES ASSUME PipelineInv, EndInv, [Next]_vars, SentinelSent
                PROVE  /\ SentinelSent' /\ StepsLeft' <= StepsLeft
                       /\ WorkerStep \/ ShutdownStep => StepsLeft' < StepsLeft
    OBVIOUS
  <2>1. StepsLeft \in Nat /\ StepsLeft' \in Nat
    BY CountsNext DEF Counts
  <2>3. CASE WorkerStep
    BY <2>1, <2>3, WorkerShrinks DEF SentinelSent
  <2>4. CASE ShutdownStep
    BY <2>1, <2>4, ShutdownStepShrinks
  <2>5. CASE ~WorkerStep /\ ~ShutdownStep
    BY <2>5, OthersDoNotGrow
  <2>. QED BY <2>3, <2>4, <2>5
<1>. QED BY <1>1, <1>2, EndInvariance, PTL DEF Spec, ShutdownShrinks
=============================================================================
