------------------------- MODULE MemecoinData_proofs -------------------------
(***************************************************************************)
(* For every number of launches, pools, horizons, frames and restarts: no  *)
(* outcome job is lost, what is committed is final, and what is captured   *)
(* is causal, as far as the strings that the code compares can tell.       *)
(* For every number of hours, blocks, workers and runs: only whole hours   *)
(* of the archived day count as complete, and reports rest on whole hours. *)
(***************************************************************************)
EXTENDS MCMemecoinData, TLAPS

IsRecord(database) ==
  database = [launches |-> database.launches, jobs |-> database.jobs,
              snapshots |-> database.snapshots]

\* A job's target is its launch's time and its horizon.
JobsFit(database) ==
  \A job \in DOMAIN database.jobs :
    /\ job \in Jobs /\ job[1] \in DOMAIN database.launches
    /\ database.jobs[job] = database.launches[job[1]].time + job[2]

GoodDatabase(database) ==
  IsRecord(database) /\ IsDatabase(database) /\ JobsFit(database)

\* The running process has added to what is committed and changed none of it.
Ahead ==
  /\ Extends(disk.launches, live.launches)
  /\ Extends(disk.jobs, live.jobs)
  /\ Extends(disk.snapshots, live.snapshots)

StatesFit ==
  \A p \in Pools : states[p] = Unseen
    \/ (states[p] \in Sources /\ states[p].pool = p /\ states[p].time # NoTime)

RecordInv ==
  /\ TypeOK
  /\ GoodDatabase(live) /\ GoodDatabase(disk)
  /\ PendingIsQueued
  /\ pc = "down" => live = disk
  /\ Ahead /\ StatesFit

\* What the code has made sure of when it finds that t is not after u.
UpTo(t, u) == Second(t) <= Second(u) /\ (t % 2 = u % 2 => t <= u)

\* A snapshot that is missing nothing is causal.
CausalSnapshot(snapshot, target, pool) ==
  snapshot.missing = {} =>
    /\ snapshot.source # Unseen
    /\ snapshot.source.pool = pool
    /\ UpTo(snapshot.source.time, target)
    /\ UpTo(snapshot.source.available, target)

Causal(database) ==
  \A job \in DOMAIN database.snapshots :
    CausalSnapshot(database.snapshots[job], database.jobs[job],
                   database.launches[job[1]].pool)

CausalInv == Causal(live) /\ Causal(disk) /\ StatesAreNewest

\* How the time s of a pool's state is related to the newest time n.
NewestUpTo(s, n) ==
  s <= n /\ Second(s) = Second(n) /\ (s % 2 = n % 2 => s = n)

-----------------------------------------------------------------------------
(* Times as strings.                                                        *)

\* A time whose string is not after another's is not of a later second, and,
\* written in the same form, not later at all.
LEMMA StringOrder ==
  ASSUME NEW t \in Nat, NEW u \in Nat, ~IsoAfter(t, u)
  PROVE  UpTo(t, u)
BY DEF IsoAfter, IsoRank, UpTo, Second

\* A state that is replaced when the strings say so stays as new as they can
\* tell.
LEMMA NewestKeeps ==
  ASSUME NEW s \in Nat, NEW n \in Nat, NEW t \in Nat, NewestUpTo(s, n)
  PROVE  NewestUpTo(IF ~IsoAfter(s, t) THEN t ELSE s, IF n > t THEN n ELSE t)
<1>1. n = s \/ (s % 2 = 0 /\ n = s + 1)
  BY DEF NewestUpTo, Second
<1>2. CASE t % 2 = 0
  BY <1>1, <1>2 DEF NewestUpTo, Second, IsoAfter, IsoRank
<1>3. CASE t % 2 # 0
  BY <1>1, <1>3 DEF NewestUpTo, Second, IsoAfter, IsoRank
<1>. QED BY <1>2, <1>3

-----------------------------------------------------------------------------
(* What a frame does to the snapshots.                                      *)

\* Captures keep the snapshots there are and add one for each due job.
LEMMA CapturedFacts ==
  ASSUME RecordInv, pc = "up", NEW at
  PROVE  /\ DOMAIN Captured(at) = DOMAIN live.snapshots \cup Due(at)
         /\ Due(at) \subseteq DOMAIN live.jobs \ DOMAIN live.snapshots
         /\ Extends(live.snapshots, Captured(at))
         /\ \A job \in DOMAIN Captured(at) :
              Captured(at)[job] \in [source : Sources,
                                     missing : SUBSET Evidence]
<1>1. DOMAIN Captured(at) = DOMAIN live.snapshots \cup Due(at)
  BY DEF Captured
<1>2. Due(at) \subseteq DOMAIN live.jobs \ DOMAIN live.snapshots
  BY DEF Due, RecordInv, PendingIsQueued
<1>3. \A job \in DOMAIN live.snapshots :
        Captured(at)[job] = live.snapshots[job]
  BY DEF Captured
<1>4. \A job \in Due(at) : Captured(at)[job] = SnapshotOf(job)
  BY <1>2 DEF Captured
<1>5. \A job \in DOMAIN live.snapshots :
        live.snapshots[job] \in [source : Sources, missing : SUBSET Evidence]
  BY DEF RecordInv, TypeOK, IsDatabase
<1>6. \A job \in Due(at) :
        SnapshotOf(job) \in [source : Sources, missing : SUBSET Evidence]
  <2>. SUFFICES ASSUME NEW job \in Due(at)
                PROVE  SourceOf(job) \in Sources
                       /\ Missing(job, SourceOf(job)) \subseteq Evidence
    BY DEF SnapshotOf
  <2>1. PoolOf(job) \in Pools \cup {NoPool}
    BY <1>2 DEF PoolOf, RecordInv, GoodDatabase, IsDatabase, JobsFit
  <2>2. SourceOf(job) \in Sources
    BY <2>1 DEF SourceOf, RecordInv, TypeOK, Sources
  <2>. QED BY <2>2 DEF Missing, Evidence
<1>. QED BY <1>1, <1>2, <1>3, <1>4, <1>5, <1>6 DEF Extends

\* The database after a frame that is not a new launch.
LEMMA CaptureKeeps ==
  ASSUME RecordInv, pc = "up", NEW at, NEW after,
         after = [live EXCEPT !.snapshots = Captured(at)]
  PROVE  /\ GoodDatabase(after)
         /\ after.launches = live.launches /\ after.jobs = live.jobs
         /\ after.snapshots = Captured(at)
<1>1. /\ after.launches = live.launches /\ after.jobs = live.jobs
      /\ after.snapshots = Captured(at) /\ IsRecord(after)
  BY DEF RecordInv, GoodDatabase, IsRecord
<1>2. IsDatabase(live) /\ JobsFit(live)
  BY DEF RecordInv, GoodDatabase
<1>3. IsDatabase(after)
  BY <1>1, <1>2, CapturedFacts DEF IsDatabase
<1>4. JobsFit(after)
  BY <1>1, <1>2 DEF JobsFit
<1>. QED BY <1>1, <1>3, <1>4 DEF GoodDatabase

\* The database after a new launch.
LEMMA LaunchKeeps ==
  ASSUME RecordInv, pc = "up", NEW at, NEW event \in Events, IsLaunch(event),
         NEW after, after = Registered(event, Captured(at))
  PROVE  /\ GoodDatabase(after)
         /\ Extends(live.launches, after.launches)
         /\ Extends(live.jobs, after.jobs)
         /\ after.snapshots = Captured(at)
         /\ DOMAIN after.jobs = DOMAIN live.jobs \cup ({event.mint} \X Horizons)
         /\ ({event.mint} \X Horizons) \cap DOMAIN live.jobs = {}
<1>. DEFINE new == {event.mint} \X Horizons
<1>1. /\ event.mint \in Mints /\ event.mint \notin DOMAIN live.launches
      /\ event.time \in Instants /\ event.pool \in Pools \cup {NoPool}
  BY DEF IsLaunch, Events
<1>2. IsDatabase(live) /\ JobsFit(live)
  BY DEF RecordInv, GoodDatabase
<1>3. /\ DOMAIN after.launches = DOMAIN live.launches \cup {event.mint}
      /\ DOMAIN after.jobs = DOMAIN live.jobs \cup new
      /\ after.snapshots = Captured(at)
      /\ IsRecord(after)
  BY DEF Registered, IsRecord
<1>4. /\ after.launches[event.mint] = [time |-> event.time, pool |-> event.pool]
      /\ \A m \in DOMAIN live.launches : after.launches[m] = live.launches[m]
  BY <1>1 DEF Registered
<1>5. /\ \A job \in new : after.jobs[job] = event.time + job[2]
      /\ \A job \in DOMAIN live.jobs : /\ job[1] # event.mint
                                       /\ after.jobs[job] = live.jobs[job]
  <2>1. \A job \in DOMAIN live.jobs : job[1] # event.mint
    BY <1>1, <1>2 DEF JobsFit
  <2>2. \A job \in new : job[1] = event.mint
    OBVIOUS
  <2>. QED BY <2>1, <2>2 DEF Registered
<1>6. new \cap DOMAIN live.jobs = {}
  BY <1>5
<1>7. DOMAIN after.jobs = (DOMAIN after.launches) \X Horizons
  BY <1>2, <1>3 DEF IsDatabase
<1>8. IsDatabase(after)
  <2>1. \A m \in DOMAIN after.launches :
          after.launches[m] \in [time : Instants, pool : Pools \cup {NoPool}]
    BY <1>1, <1>2, <1>3, <1>4 DEF IsDatabase
  <2>2. DOMAIN after.launches \subseteq Mints
    BY <1>1, <1>2, <1>3 DEF IsDatabase
  <2>3. DOMAIN after.snapshots \subseteq DOMAIN after.jobs
    <3>1. DOMAIN after.snapshots = DOMAIN live.snapshots \cup Due(at)
      BY <1>3, CapturedFacts
    <3>2. Due(at) \subseteq DOMAIN live.jobs
      BY CapturedFacts
    <3>3. DOMAIN live.snapshots \subseteq DOMAIN live.jobs
      BY <1>2 DEF IsDatabase
    <3>. QED BY <1>3, <3>1, <3>2, <3>3
  <2>. QED BY <1>3, <1>7, <2>1, <2>2, <2>3, CapturedFacts DEF IsDatabase
<1>9. JobsFit(after)
  <2>. SUFFICES ASSUME NEW job \in DOMAIN after.jobs
                PROVE  /\ job \in Jobs /\ job[1] \in DOMAIN after.launches
                       /\ after.jobs[job] = after.launches[job[1]].time + job[2]
    BY DEF JobsFit
  <2>1. CASE job \in new
    BY <1>1, <1>3, <1>4, <1>5, <2>1 DEF Jobs
  <2>2. CASE job \in DOMAIN live.jobs
    BY <1>2, <1>3, <1>4, <1>5, <2>2 DEF JobsFit
  <2>. QED BY <1>3, <2>1, <2>2
<1>. QED BY <1>3, <1>4, <1>5, <1>6, <1>8, <1>9 DEF Extends, GoodDatabase

LEMMA ExtendsAgain ==
  ASSUME NEW f, NEW g, NEW h, Extends(f, g), Extends(g, h)
  PROVE  Extends(f, h)
BY DEF Extends

-----------------------------------------------------------------------------
(* Steps.                                                                   *)

LEMMA InitRecords == ASSUME Init PROVE RecordInv
<1>1. IsRecord(EmptyDatabase) /\ IsDatabase(EmptyDatabase)
      /\ JobsFit(EmptyDatabase)
  BY DEF IsRecord, IsDatabase, JobsFit, EmptyDatabase
<1>2. live = EmptyDatabase /\ disk = EmptyDatabase
  BY DEF Init
<1>3. TypeOK
  <2>1. states \in [Pools -> Sources] /\ newest \in [Pools -> Instants \cup {NoTime}]
    BY DEF Init, Sources
  <2>2. frames \in 0..MaxFrames /\ starts \in 0..MaxStarts
    BY OutcomeAssumption DEF Init
  <2>. QED BY <1>1, <1>2, <2>1, <2>2 DEF Init, TypeOK
<1>4. Ahead
  BY <1>2 DEF Ahead, Extends
<1>. QED BY <1>1, <1>2, <1>3, <1>4
     DEF Init, RecordInv, GoodDatabase, PendingIsQueued, StatesFit

\* Every frame leaves the queue, the types and what is committed in order.
LEMMA FrameRecords ==
  ASSUME RecordInv, NEW at \in Instants, Frame(at),
         GoodDatabase(live'),
         Extends(live.launches, live'.launches),
         Extends(live.jobs, live'.jobs),
         live'.snapshots = Captured(at),
         heap' = (heap \ Due(at)) \cup (DOMAIN live'.jobs \ DOMAIN live.jobs),
         states' \in [Pools -> Sources], StatesFit',
         newest' \in [Pools -> Instants \cup {NoTime}]
  PROVE  RecordInv'
<1>1. /\ pc = "up" /\ pc' = "up" /\ disk' = disk /\ now' = at
      /\ starts' = starts /\ frames' = frames + 1 /\ frames < MaxFrames
  BY DEF Frame
<1>2. /\ DOMAIN Captured(at) = DOMAIN live.snapshots \cup Due(at)
      /\ Due(at) \subseteq DOMAIN live.jobs \ DOMAIN live.snapshots
      /\ Extends(live.snapshots, Captured(at))
  BY <1>1, CapturedFacts
<1>3. heap = DOMAIN live.jobs \ DOMAIN live.snapshots
  BY <1>1 DEF RecordInv, PendingIsQueued
<1>4. DOMAIN live.snapshots \subseteq DOMAIN live.jobs
  BY DEF RecordInv, GoodDatabase, IsDatabase
<1>5. heap' = DOMAIN live'.jobs \ DOMAIN live'.snapshots
  <2>1. DOMAIN live.jobs \subseteq DOMAIN live'.jobs
    BY DEF Extends
  <2>2. DOMAIN live'.snapshots = DOMAIN live.snapshots \cup Due(at)
    BY <1>2
  <2>. QED BY <1>2, <1>3, <1>4, <2>1, <2>2
<1>6. Ahead'
  BY <1>1, <1>2, ExtendsAgain DEF RecordInv, Ahead
<1>7. frames' \in 0..MaxFrames /\ starts' \in 0..MaxStarts
  BY <1>1, OutcomeAssumption DEF RecordInv, TypeOK
<1>8. TypeOK'
  <2>1. IsDatabase(live') /\ IsDatabase(disk')
    BY <1>1 DEF GoodDatabase, RecordInv
  <2>. QED BY <1>1, <1>5, <1>7, <2>1 DEF TypeOK
<1>. QED BY <1>1, <1>5, <1>6, <1>8 DEF RecordInv, PendingIsQueued

\* The pool states stay what they are said to be.
LEMMA StatesStep ==
  ASSUME RecordInv, NEW at \in Instants, NEW event \in Events,
         states' = Updated(event, at),
         newest' = IF event.pool = NoPool \/ event.time = NoTime THEN newest
                   ELSE [newest EXCEPT ![event.pool] =
                           IF @ > event.time THEN @ ELSE event.time]
  PROVE  /\ states' \in [Pools -> Sources] /\ StatesFit'
         /\ newest' \in [Pools -> Instants \cup {NoTime}]
<1>1. /\ states \in [Pools -> Sources] /\ StatesFit
      /\ newest \in [Pools -> Instants \cup {NoTime}]
  BY DEF RecordInv, TypeOK
<1>2. CASE event.pool = NoPool \/ event.time = NoTime
  BY <1>1, <1>2 DEF Updated, StatesFit
<1>3. CASE event.pool # NoPool /\ event.time # NoTime
  <2>. DEFINE source ==
         [pool |-> event.pool, time |-> event.time, available |-> at]
  <2>1. /\ event.pool \in Pools /\ event.time \in Instants
        /\ source \in Sources
    BY <1>3 DEF Events, Sources
  <2>2. /\ DOMAIN states' = Pools
        /\ \A p \in Pools : states'[p] = states[p]
                             \/ (p = event.pool /\ states'[p] = source)
        /\ states' = [p \in Pools |-> states'[p]]
    BY <1>1, <1>3, <2>1 DEF Updated
  <2>3. states' \in [Pools -> Sources]
    BY <1>1, <2>1, <2>2
  <2>4. StatesFit'
    BY <1>1, <1>3, <2>1, <2>2 DEF StatesFit
  <2>5. newest' \in [Pools -> Instants \cup {NoTime}]
    BY <1>1, <1>3, <2>1
  <2>. QED BY <2>3, <2>4, <2>5
<1>. QED BY <1>2, <1>3

LEMMA RecordStep == ASSUME RecordInv, [Next]_vars PROVE RecordInv'
<1>1. CASE Construct
  <2>1. /\ pc = "down" /\ pc' = "up" /\ heap' = Pending(disk)
        /\ UNCHANGED <<now, live, disk, states, newest, frames>>
        /\ starts' = starts + 1 /\ starts < MaxStarts
    BY <1>1 DEF Construct
  <2>2. live = disk /\ heap' = DOMAIN live.jobs \ DOMAIN live.snapshots
    BY <2>1 DEF RecordInv, Pending
  <2>3. starts' \in 0..MaxStarts
    BY <2>1, OutcomeAssumption DEF RecordInv, TypeOK
  <2>4. TypeOK'
    BY <2>1, <2>2, <2>3 DEF RecordInv, TypeOK
  <2>. QED BY <2>1, <2>2, <2>4
       DEF RecordInv, PendingIsQueued, Ahead, StatesFit
<1>2. CASE Crash
  <2>1. /\ pc' = "down" /\ live' = disk /\ disk' = disk /\ heap' = {}
        /\ states' = [p \in Pools |-> Unseen]
        /\ newest' = [p \in Pools |-> NoTime]
        /\ UNCHANGED <<now, frames, starts>>
    BY <1>2 DEF Crash
  <2>2. states' \in [Pools -> Sources]
        /\ newest' \in [Pools -> Instants \cup {NoTime}]
    BY <2>1 DEF Sources
  <2>3. TypeOK'
    BY <2>1, <2>2 DEF RecordInv, TypeOK
  <2>4. Ahead'
    BY <2>1 DEF Ahead, Extends
  <2>. QED BY <2>1, <2>3, <2>4 DEF RecordInv, PendingIsQueued, StatesFit
<1>3. CASE Commit
  <2>1. /\ pc = "up" /\ disk' = live
        /\ UNCHANGED <<pc, now, live, heap, states, newest, frames, starts>>
    BY <1>3 DEF Commit
  <2>2. TypeOK'
    BY <2>1 DEF RecordInv, TypeOK
  <2>3. Ahead'
    BY <2>1 DEF Ahead, Extends
  <2>. QED BY <2>1, <2>2, <2>3 DEF RecordInv, PendingIsQueued, StatesFit
<1>4. ASSUME NEW at \in Instants, OtherFrame(at)
      PROVE  RecordInv'
  <2>1. /\ Frame(at) /\ live' = [live EXCEPT !.snapshots = Captured(at)]
        /\ heap' = heap \ Due(at) /\ UNCHANGED <<states, newest>>
        /\ pc = "up"
    BY <1>4 DEF OtherFrame, Frame
  <2>2. /\ GoodDatabase(live') /\ live'.launches = live.launches
        /\ live'.jobs = live.jobs /\ live'.snapshots = Captured(at)
    BY <2>1, CaptureKeeps
  <2>3. /\ Extends(live.launches, live'.launches)
        /\ Extends(live.jobs, live'.jobs)
        /\ heap' = (heap \ Due(at)) \cup (DOMAIN live'.jobs \ DOMAIN live.jobs)
    BY <2>1, <2>2 DEF Extends
  <2>4. /\ states' \in [Pools -> Sources] /\ StatesFit'
        /\ newest' \in [Pools -> Instants \cup {NoTime}]
    BY <2>1 DEF RecordInv, TypeOK, StatesFit
  <2>. QED BY <2>1, <2>2, <2>3, <2>4, FrameRecords
<1>5. ASSUME NEW at \in Instants, NEW event \in Events, EventFrame(event, at)
      PROVE  RecordInv'
  <2>1. Frame(at) /\ pc = "up"
    BY <1>5 DEF EventFrame, Frame
  <2>2. /\ states' \in [Pools -> Sources] /\ StatesFit'
        /\ newest' \in [Pools -> Instants \cup {NoTime}]
    BY <1>5, StatesStep DEF EventFrame
  <2>3. CASE IsLaunch(event)
    <3>1. /\ live' = Registered(event, Captured(at))
          /\ heap' = (heap \ Due(at)) \cup ({event.mint} \X Horizons)
      BY <1>5, <2>3 DEF EventFrame
    <3>2. /\ GoodDatabase(live')
          /\ Extends(live.launches, live'.launches)
          /\ Extends(live.jobs, live'.jobs)
          /\ live'.snapshots = Captured(at)
          /\ DOMAIN live'.jobs =
               DOMAIN live.jobs \cup ({event.mint} \X Horizons)
          /\ ({event.mint} \X Horizons) \cap DOMAIN live.jobs = {}
      BY <2>1, <2>3, <3>1, LaunchKeeps
    <3>3. heap' =
            (heap \ Due(at)) \cup (DOMAIN live'.jobs \ DOMAIN live.jobs)
      BY <3>1, <3>2
    <3>. QED BY <2>1, <2>2, <3>2, <3>3, FrameRecords
  <2>4. CASE ~IsLaunch(event)
    <3>1. /\ live' = [live EXCEPT !.snapshots = Captured(at)]
          /\ heap' = heap \ Due(at)
      BY <1>5, <2>4 DEF EventFrame
    <3>2. /\ GoodDatabase(live') /\ live'.launches = live.launches
          /\ live'.jobs = live.jobs /\ live'.snapshots = Captured(at)
      BY <2>1, <3>1, CaptureKeeps
    <3>3. /\ Extends(live.launches, live'.launches)
          /\ Extends(live.jobs, live'.jobs)
          /\ heap' =
               (heap \ Due(at)) \cup (DOMAIN live'.jobs \ DOMAIN live.jobs)
      BY <3>1, <3>2 DEF Extends
    <3>. QED BY <2>1, <2>2, <3>2, <3>3, FrameRecords
  <2>. QED BY <2>3, <2>4
<1>6. CASE UNCHANGED vars
  BY <1>6 DEF vars, RecordInv, TypeOK, PendingIsQueued, Ahead, StatesFit
<1>. QED BY <1>1, <1>2, <1>3, <1>4, <1>5, <1>6 DEF Next

-----------------------------------------------------------------------------
\* The rows of the database, the queue and the pool states fit each other in
\* every state.
THEOREM RecordsFit == Spec => []RecordInv
<1>1. Init => RecordInv
  BY InitRecords
<1>2. RecordInv /\ [Next]_vars => RecordInv'
  BY RecordStep
<1>. QED BY <1>1, <1>2, PTL DEF Spec

\* Every variable keeps its type.
THEOREM TypeCorrect == Spec => []TypeOK
<1>1. RecordInv => TypeOK
  BY DEF RecordInv
<1>. QED BY <1>1, RecordsFit, PTL

\* No outcome job is forgotten: whatever has been scheduled and not answered
\* is on the heap of the process that runs.
THEOREM NoJobIsForgotten == Spec => []PendingIsQueued
<1>1. RecordInv => PendingIsQueued
  BY DEF RecordInv
<1>. QED BY <1>1, RecordsFit, PTL

\* No step changes a committed launch, target or outcome.
THEOREM CommittedIsFinal == Spec => RecordsAreFinal
<1>. DEFINE Grows == /\ Extends(disk.launches, disk'.launches)
                    /\ Extends(disk.jobs, disk'.jobs)
                    /\ Extends(disk.snapshots, disk'.snapshots)
<1>1. RecordInv /\ [Next]_vars => [Grows]_disk
  <2>. SUFFICES ASSUME RecordInv, [Next]_vars, disk' # disk PROVE Grows
    OBVIOUS
  <2>1. CASE Commit
    BY <2>1 DEF Commit, RecordInv, Ahead
  <2>2. ~Construct /\ ~Crash
    BY DEF Construct, Crash
  <2>3. \A at \in Instants : ~Frame(at)
    BY DEF Frame
  <2>4. \A at \in Instants : /\ ~OtherFrame(at)
                             /\ \A event \in Events : ~EventFrame(event, at)
    BY <2>3 DEF OtherFrame, EventFrame
  <2>5. vars' # vars
    BY DEF vars
  <2>. QED BY <2>1, <2>2, <2>4, <2>5 DEF Next
<1>. QED BY <1>1, RecordsFit, PTL DEF Spec, RecordsAreFinal

-----------------------------------------------------------------------------
(* Causality.                                                               *)

\* What a due job is answered with is causal.
LEMMA SnapshotIsCausal ==
  ASSUME RecordInv, NEW job \in DOMAIN live.jobs
  PROVE  CausalSnapshot(SnapshotOf(job), live.jobs[job], PoolOf(job))
<1>. DEFINE source == SourceOf(job)
            target == live.jobs[job]
<1>1. /\ PoolOf(job) \in Pools \cup {NoPool}
      /\ live.launches[job[1]].time \in Instants /\ job[2] \in Horizons
      /\ target = live.launches[job[1]].time + job[2]
  BY DEF RecordInv, GoodDatabase, IsDatabase, JobsFit, PoolOf, Jobs
<1>. SUFFICES ASSUME Missing(job, source) = {}
              PROVE  /\ source # Unseen /\ source.pool = PoolOf(job)
                     /\ UpTo(source.time, target)
                     /\ UpTo(source.available, target)
  BY DEF SnapshotOf, CausalSnapshot
<1>2. /\ source # Unseen
      /\ ~IsoAfter(source.time, target) /\ ~IsoAfter(source.available, target)
  BY DEF Missing
<1>3. PoolOf(job) \in Pools /\ source = states[PoolOf(job)]
  BY <1>1, <1>2 DEF SourceOf
<1>4. /\ source.pool = PoolOf(job)
      /\ source.time \in Instants /\ source.available \in Instants
  BY <1>2, <1>3 DEF RecordInv, StatesFit, Sources
<1>5. target \in Nat
  <2>1. live.launches[job[1]].time \in Nat /\ job[2] \in Nat
    BY <1>1, OutcomeAssumption
  <2>. QED BY <1>1, <2>1
<1>6. source.time \in Nat /\ source.available \in Nat
  BY <1>4, OutcomeAssumption
<1>. HIDE DEF target, source
<1>. QED BY <1>2, <1>4, <1>5, <1>6, StringOrder

\* A frame leaves every snapshot causal.
LEMMA FrameIsCausal ==
  ASSUME RecordInv, Causal(live), pc = "up", NEW at, NEW after,
         Extends(live.launches, after.launches),
         Extends(live.jobs, after.jobs),
         after.snapshots = Captured(at)
  PROVE  Causal(after)
<1>. SUFFICES ASSUME NEW job \in DOMAIN Captured(at)
              PROVE  CausalSnapshot(Captured(at)[job], after.jobs[job],
                                    after.launches[job[1]].pool)
  BY DEF Causal
<1>1. DOMAIN live.snapshots \subseteq DOMAIN live.jobs
  BY DEF RecordInv, GoodDatabase, IsDatabase
<1>2. job \in DOMAIN live.jobs /\ (job \in DOMAIN live.snapshots \/ job \in Due(at))
  BY <1>1, CapturedFacts
<1>3. /\ after.jobs[job] = live.jobs[job]
      /\ after.launches[job[1]].pool = PoolOf(job)
  BY <1>2 DEF Extends, RecordInv, GoodDatabase, JobsFit, PoolOf
<1>4. CASE job \in DOMAIN live.snapshots
  <2>1. Captured(at)[job] = live.snapshots[job]
    BY <1>4 DEF Captured
  <2>. QED BY <1>3, <1>4, <2>1 DEF Causal, PoolOf
<1>5. CASE job \in Due(at) /\ job \notin DOMAIN live.snapshots
  <2>1. Captured(at)[job] = SnapshotOf(job)
    BY <1>5 DEF Captured
  <2>. QED BY <1>2, <1>3, <2>1, SnapshotIsCausal
<1>. QED BY <1>2, <1>4, <1>5

\* An event leaves every pool with the state of its newest event.
LEMMA NewestStep ==
  ASSUME RecordInv, StatesAreNewest,
         NEW at \in Instants, NEW event \in Events, EventFrame(event, at)
  PROVE  StatesAreNewest'
<1>1. /\ states \in [Pools -> Sources] /\ StatesFit
      /\ newest \in [Pools -> Instants \cup {NoTime}]
      /\ \A p \in Pools : /\ (states[p] = Unseen) <=> (newest[p] = NoTime)
                          /\ states[p] # Unseen =>
                               NewestUpTo(states[p].time, newest[p])
  BY DEF RecordInv, TypeOK, StatesAreNewest, NewestUpTo
<1>2. /\ states' = Updated(event, at)
      /\ newest' = IF event.pool = NoPool \/ event.time = NoTime THEN newest
                   ELSE [newest EXCEPT ![event.pool] =
                           IF @ > event.time THEN @ ELSE event.time]
  BY DEF EventFrame
<1>3. CASE event.pool = NoPool \/ event.time = NoTime
  BY <1>2, <1>3 DEF Updated, StatesAreNewest
<1>4. CASE event.pool # NoPool /\ event.time # NoTime
  <2>. DEFINE p == event.pool
              t == event.time
  <2>1. p \in Pools /\ t \in Instants /\ t \in Nat
    BY <1>4, OutcomeAssumption DEF Events
  <2>2. /\ states' = [states EXCEPT ![p] =
             IF @ = Unseen \/ ~IsoAfter(@.time, t)
             THEN [pool |-> p, time |-> t, available |-> at] ELSE @]
        /\ newest' = [newest EXCEPT ![p] = IF @ > t THEN @ ELSE t]
    BY <1>2, <1>4 DEF Updated
  <2>. HIDE DEF p, t
  <2>3. /\ newest'[p] = IF newest[p] > t THEN newest[p] ELSE t
        /\ states'[p] = IF states[p] = Unseen \/ ~IsoAfter(states[p].time, t)
                        THEN [pool |-> p, time |-> t, available |-> at]
                        ELSE states[p]
        /\ \A r \in Pools : r # p => states'[r] = states[r]
                                     /\ newest'[r] = newest[r]
    BY <1>1, <2>1, <2>2
  <2>4. /\ states'[p] # Unseen /\ newest'[p] # NoTime
        /\ NewestUpTo(states'[p].time, newest'[p])
    <3>1. CASE states[p] = Unseen
      <4>1. newest[p] = -1 /\ states'[p].time = t
        BY <1>1, <2>1, <2>3, <3>1 DEF NoTime
      <4>2. newest'[p] = t
        BY <2>1, <2>3, <4>1
      <4>. QED BY <2>1, <4>1, <4>2 DEF Unseen, NoTime, NewestUpTo, Second
    <3>2. CASE states[p] # Unseen
      <4>1. states[p].time \in Nat /\ NewestUpTo(states[p].time, newest[p])
        BY <1>1, <2>1, <3>2, OutcomeAssumption DEF StatesFit, Sources
      <4>2. newest[p] \in Nat
        BY <1>1, <2>1, <3>2, OutcomeAssumption
      <4>3. states'[p].time = IF ~IsoAfter(states[p].time, t)
                              THEN t ELSE states[p].time
        BY <2>3, <3>2
      <4>4. NewestUpTo(states'[p].time, newest'[p])
        BY <2>1, <2>3, <4>1, <4>2, <4>3, NewestKeeps
      <4>5. states'[p].time \in Nat /\ newest'[p] \in Nat
        BY <2>1, <2>3, <4>1, <4>2, <4>3
      <4>. QED BY <4>4, <4>5 DEF Unseen, NoTime
    <3>. QED BY <3>1, <3>2
  <2>5. ASSUME NEW r \in Pools
        PROVE  /\ (states'[r] = Unseen) <=> (newest'[r] = NoTime)
               /\ states'[r] # Unseen => NewestUpTo(states'[r].time, newest'[r])
    BY <1>1, <2>3, <2>4
  <2>6. \A r \in Pools : states'[r] = Unseen => states'[r].time <= newest'[r]
    BY <2>5 DEF Unseen, NoTime
  <2>. QED BY <2>5, <2>6 DEF StatesAreNewest, NewestUpTo
<1>. QED BY <1>3, <1>4

LEMMA CausalStep ==
  ASSUME RecordInv, CausalInv, [Next]_vars PROVE CausalInv'
<1>. USE DEF CausalInv
<1>1. CASE Construct
  BY <1>1 DEF Construct, StatesAreNewest
<1>2. CASE Crash
  <2>1. live' = disk /\ disk' = disk /\ StatesAreNewest'
    BY <1>2 DEF Crash, StatesAreNewest, Unseen, NoTime
  <2>. QED BY <2>1
<1>3. CASE Commit
  BY <1>3 DEF Commit, StatesAreNewest
<1>4. ASSUME NEW at \in Instants, OtherFrame(at)
      PROVE  CausalInv'
  <2>1. /\ pc = "up" /\ disk' = disk /\ UNCHANGED <<states, newest>>
        /\ live' = [live EXCEPT !.snapshots = Captured(at)]
    BY <1>4 DEF OtherFrame, Frame
  <2>2. Causal(live')
    BY <2>1, CaptureKeeps, FrameIsCausal DEF Extends
  <2>. QED BY <2>1, <2>2 DEF StatesAreNewest
<1>5. ASSUME NEW at \in Instants, NEW event \in Events, EventFrame(event, at)
      PROVE  CausalInv'
  <2>1. pc = "up" /\ disk' = disk
    BY <1>5 DEF EventFrame, Frame
  <2>2. Causal(live')
    <3>1. CASE IsLaunch(event)
      <4>1. live' = Registered(event, Captured(at))
        BY <1>5, <3>1 DEF EventFrame
      <4>. QED BY <2>1, <3>1, <4>1, LaunchKeeps, FrameIsCausal
    <3>2. CASE ~IsLaunch(event)
      <4>1. live' = [live EXCEPT !.snapshots = Captured(at)]
        BY <1>5, <3>2 DEF EventFrame
      <4>. QED BY <2>1, <4>1, CaptureKeeps, FrameIsCausal DEF Extends
    <3>. QED BY <3>1, <3>2
  <2>3. StatesAreNewest'
    BY <1>5, NewestStep
  <2>. QED BY <2>1, <2>2, <2>3
<1>6. CASE UNCHANGED vars
  BY <1>6 DEF vars, StatesAreNewest
<1>. QED BY <1>1, <1>2, <1>3, <1>4, <1>5, <1>6 DEF Next

\* What a worker has recorded is causal and the pool states it keeps are the
\* newest, whatever it is given, as far as strings can tell.
LEMMA CausalAlways == Spec => []CausalInv
<1>1. Init => CausalInv
  BY DEF Init, CausalInv, Causal, EmptyDatabase, StatesAreNewest, Unseen,
         NoTime
<1>2. RecordInv /\ CausalInv /\ [Next]_vars => CausalInv'
  BY CausalStep
<1>. QED BY <1>1, <1>2, RecordsFit, PTL DEF Spec

\* An outcome recorded as captured is of its launch's pool and causal to the
\* second, and exactly so between times of one form.
THEOREM CapturedOutcomesAreCausal == Spec => []CapturedToTheSecond
<1>1. CausalInv => CapturedToTheSecond
  BY DEF CausalInv, Causal, CausalSnapshot, UpTo, CapturedToTheSecond, PoolOf
<1>. QED BY <1>1, CausalAlways, PTL

\* The state kept of a pool is that of the newest event seen of it, or of one
\* in the same second written otherwise, in whatever order the frames came.
THEOREM StatesStayNewest == Spec => []StatesAreNewest
<1>1. CausalInv => StatesAreNewest
  BY DEF CausalInv
<1>. QED BY <1>1, CausalAlways, PTL

------------------------------------------------------------------------------
(***************************************************************************)
(* The archived day.                                                        *)
(***************************************************************************)
\* A run that has marked nothing has no streams, and a consumer that has no
\* output open has written nothing.
StreamsFit ==
  /\ \A r \in Runs, h \in Hours :
       progress[r] \in {"new", "started", "loaded"} => stream[r][h] = "none"
  /\ \A r \in Runs, h \in Hours : stream[r][h] # "open" => pos[r][h] = 0

\* What the consumer of a living run has written is in its output, and it is all
\* there when its stream has ended well.
Prefixes ==
  \A r \in Runs, h \in Hours :
    stream[r][h] = "open" =>
      /\ output[h] # Nothing
      /\ Alive(r) => h \in contended \/ 1 .. pos[r][h] \subseteq output[h]
EndedWell ==
  \A r \in Runs, h \in Hours :
    Alive(r) /\ stream[r][h] = "ended" /\ result[r][h].status = "COMPLETE" =>
      output[h] \in {Nothing, Rows} \/ h \in contended

\* The hours a verification has still to read are whole, and those in the table
\* are too.
HoursToRead ==
  \A h \in Hours :
    audit = "checking" \/ (audit = "making" /\ hour <= h) =>
      output[h] \in {Nothing, Rows} \/ h \in contended \cup putBack \cup moved
HoursInTable ==
  table \in [Hours -> SUBSET Rows] =>
    \A h \in Hours :
      (audit = "making" => h < hour) =>
        table[h] = Rows \/ h \in contended \cup putBack \cup unread
TableFits ==
  /\ audit = "making" => table \in [Hours -> SUBSET Rows] /\ hour <= LastHour
  /\ audit = "reporting" \/ short # {} => table # Nothing
  /\ short # {} => audit # "making"

FetchInv == StreamsFit /\ Prefixes /\ EndedWell /\ CompleteIsWhole
TableInv == HoursToRead /\ HoursInTable /\ TableFits /\ ReportSawTheDay

LEMMA MarksAreEntries ==
  /\ \A s \in {"absent", "RUNNING", "FAILED", "COMPLETE_WITH_WARNINGS"} :
       Mark(s) \in Entries
  /\ NoEntries \in [Hours -> Entries]
  /\ \A s : Mark(s).status = s
BY DEF Mark, NoEntries, Entries

LEMMA ResultIsEntry ==
  ASSUME NEW curl \in BOOLEAN, NEW zstd \in BOOLEAN, NEW consumer \in BOOLEAN,
         NEW n \in 0 .. Blocks, NEW h \in Hours, DayTypeOK
  PROVE  /\ Result(curl, zstd, consumer, n, Size(output[h])) \in Entries
         /\ Result(curl, zstd, consumer, n, Size(output[h])).status = "COMPLETE"
              => curl /\ zstd /\ consumer
<1>1. Size(output[h]) \in SUBSET Rows
  BY DEF Size
<1>. QED BY <1>1 DEF Result, Mark, Entries

LEMMA DayInitInv == ASSUME DayInit PROVE DayTypeOK /\ FetchInv /\ TableInv
<1>1. DayTypeOK
  BY MarksAreEntries, DayAssumption DEF DayInit, DayTypeOK, NoSizes, Tables, Hours
<1>2. FetchInv
  BY MarksAreEntries DEF DayInit, FetchInv, StreamsFit, Prefixes, EndedWell, CompleteIsWhole, NoEntries, Mark
<1>3. TableInv
  <2>1. ~ (table \in [Hours -> SUBSET Rows])
    BY NothingAssumption DEF DayInit
  <2>. QED BY <2>1 DEF DayInit, TableInv, HoursToRead, HoursInTable, TableFits, ReportSawTheDay
<1>. QED BY <1>1, <1>2, <1>3

------------------------------------------------------------------------------
\* Steps of a run: the checkpoint.

LEMMA WriteKeepsComplete ==
  ASSUME DayTypeOK, CompleteIsWhole, NEW c \in [Hours -> Entries],
         NEW own \in SUBSET Hours, WriteCheckpoint(c, own),
         \A h \in own : c[h].status = "COMPLETE" =>
           output[h] \in {Nothing, Rows} \/ h \in contended,
         UNCHANGED <<output, contended>>
  PROVE  CompleteIsWhole' /\ checkpoint' \in [Hours -> Entries]
         /\ putBack \subseteq putBack' /\ putBack' \subseteq Hours
BY DEF WriteCheckpoint, CompleteIsWhole, DayTypeOK

\* What a run does leaves a verification's promises alone, as long as an output
\* that is no longer whole is one that moved.
LEMMA RunKeepsTable ==
  ASSUME DayTypeOK, TableInv,
         contended \subseteq contended', putBack \subseteq putBack',
         moved \subseteq moved',
         UNCHANGED <<table, audit, hour, unread, short>>,
         \A h \in Hours :
           audit \in {"checking", "making"} /\ output[h] \in {Nothing, Rows} =>
             output'[h] \in {Nothing, Rows} \/ h \in moved'
  PROVE  TableInv'
<1>1. HoursToRead'
  BY DEF TableInv, HoursToRead
<1>2. HoursInTable'
  BY DEF TableInv, HoursInTable
<1>3. TableFits' /\ ReportSawTheDay'
  BY DEF TableInv, TableFits, ReportSawTheDay
<1>. QED BY <1>1, <1>2, <1>3 DEF TableInv

LEMMA StartRunStep ==
  ASSUME DayTypeOK, FetchInv, NEW r \in Runs, StartRun(r)
  PROVE  DayTypeOK' /\ FetchInv'
<1>1. DayTypeOK'
  BY DEF StartRun, DayTypeOK, streamVars, auditVars, dayHistory
<1>2. StreamsFit'
  BY DEF StartRun, DayTypeOK, streamVars, FetchInv, StreamsFit
<1>3. \A q \in Runs, h \in Hours :
        Alive(q)' => Alive(q) \/ (q = r /\ stream[q][h] = "none")
  BY DEF StartRun, DayTypeOK, FetchInv, StreamsFit, Alive
<1>4. Prefixes' /\ EndedWell' /\ CompleteIsWhole'
  BY <1>3 DEF StartRun, streamVars, dayHistory, FetchInv, Prefixes, EndedWell, CompleteIsWhole
<1>. QED BY <1>1, <1>2, <1>4 DEF FetchInv

LEMMA NoteSelectionStep ==
  ASSUME DayTypeOK, FetchInv, NEW r \in Runs, NoteSelection(r)
  PROVE  DayTypeOK' /\ FetchInv' /\ putBack \subseteq putBack'
<1>1. CompleteIsWhole' /\ checkpoint' \in [Hours -> Entries]
      /\ putBack \subseteq putBack' /\ putBack' \subseteq Hours
  <2>1. copy[r] \in [Hours -> Entries]
    BY DEF DayTypeOK
  <2>2. WriteCheckpoint(copy[r], {}) /\ UNCHANGED <<output, contended>>
    BY DEF NoteSelection
  <2>3. CompleteIsWhole /\ {} \in SUBSET Hours
    BY DEF FetchInv
  <2>4. \A h \in {} : copy[r][h].status = "COMPLETE" =>
          output[h] \in {Nothing, Rows} \/ h \in contended
    OBVIOUS
  <2>. QED BY <2>1, <2>2, <2>3, <2>4, WriteKeepsComplete
<1>2. DayTypeOK'
  BY <1>1 DEF NoteSelection, DayTypeOK, streamVars, auditVars
<1>3. \A q \in Runs : Alive(q)' => Alive(q)
  BY DEF NoteSelection, Alive, DayTypeOK
<1>4. StreamsFit' /\ Prefixes' /\ EndedWell'
  BY <1>3 DEF NoteSelection, streamVars, DayTypeOK, FetchInv, StreamsFit, Prefixes, EndedWell
<1>. QED BY <1>1, <1>2, <1>4 DEF FetchInv

LEMMA MarkPendingStep ==
  ASSUME DayTypeOK, FetchInv, NEW r \in Runs, MarkPending(r)
  PROVE  DayTypeOK' /\ FetchInv' /\ putBack \subseteq putBack'
<1>1. PICK span \in Spans :
        LET pending == Unfetched(copy[r], span)
            marked  == [h \in Hours |-> IF h \in pending THEN Mark("RUNNING") ELSE copy[r][h]]
        IN /\ copy' = [copy EXCEPT ![r] = marked]
           /\ WriteCheckpoint(marked, pending)
           /\ stream' = [stream EXCEPT ![r] =
                           [h \in Hours |-> IF h \in pending THEN "queued" ELSE "none"]]
           /\ progress' = [progress EXCEPT ![r] = IF pending = {} THEN "over" ELSE "fetching"]
  BY DEF MarkPending
<1>. DEFINE pending == Unfetched(copy[r], span)
            marked == [h \in Hours |-> IF h \in pending THEN Mark("RUNNING") ELSE copy[r][h]]
<1>2. /\ progress[r] = "loaded"
      /\ UNCHANGED <<output, metrics, table, pos, result, auditVars,
                     contended, moved, unread, short>>
  BY DEF MarkPending
<1>3. pending \in SUBSET Hours
  <2>1. PICK from \in Hours, to \in Hours : span = from .. to
    BY DEF Spans
  <2>2. span \subseteq Hours
    BY <2>1, DayAssumption DEF Hours
  <2>. QED BY <2>2 DEF Unfetched
<1>4. marked \in [Hours -> Entries] /\ \A h \in pending : marked[h].status = "RUNNING"
  BY <1>3, MarksAreEntries DEF DayTypeOK
<1>5. CompleteIsWhole' /\ checkpoint' \in [Hours -> Entries]
      /\ putBack \subseteq putBack' /\ putBack' \subseteq Hours
  BY <1>1, <1>2, <1>3, <1>4, WriteKeepsComplete DEF FetchInv
<1>6. \A q \in Runs, h \in Hours :
        q # r => stream'[q][h] = stream[q][h] /\ (Alive(q)' <=> Alive(q))
                 /\ progress'[q] = progress[q]
  BY <1>1 DEF DayTypeOK, Alive
<1>7. \A h \in Hours : stream'[r][h] \in {"queued", "none"} /\ stream[r][h] = "none"
                       /\ progress'[r] \in {"over", "fetching"}
  BY <1>1, <1>2 DEF DayTypeOK, FetchInv, StreamsFit
<1>8. DayTypeOK'
  <2>1. copy' \in [Runs -> [Hours -> Entries]]
    BY <1>1, <1>4 DEF DayTypeOK
  <2>2. stream' \in [Runs -> [Hours -> {"none", "queued", "piped", "open", "ended"}]]
    BY <1>1 DEF DayTypeOK
  <2>3. progress' \in [Runs -> {"new", "started", "loaded", "fetching", "over"}]
    BY <1>1 DEF DayTypeOK
  <2>. QED BY <1>2, <1>5, <2>1, <2>2, <2>3 DEF DayTypeOK, auditVars
<1>9. StreamsFit' /\ Prefixes' /\ EndedWell'
  BY <1>2, <1>6, <1>7 DEF FetchInv, StreamsFit, Prefixes, EndedWell
<1>. QED BY <1>5, <1>8, <1>9 DEF FetchInv

LEMMA StartStreamStep ==
  ASSUME DayTypeOK, FetchInv, NEW r \in Runs, NEW h \in Hours, StartStream(r, h)
  PROVE  DayTypeOK' /\ FetchInv'
<1>1. DayTypeOK'
  BY DEF StartStream, DayTypeOK, auditVars, dayHistory
<1>2. StreamsFit' /\ Prefixes' /\ EndedWell' /\ CompleteIsWhole'
  BY DEF StartStream, DayTypeOK, auditVars, dayHistory, FetchInv, StreamsFit, Prefixes,
         EndedWell, CompleteIsWhole, Alive
<1>. QED BY <1>1, <1>2 DEF FetchInv

LEMMA OpenOutputStep ==
  ASSUME DayTypeOK, FetchInv, NEW r \in Runs, NEW h \in Hours, OpenOutput(r, h)
  PROVE  /\ DayTypeOK' /\ FetchInv'
         /\ contended \subseteq contended' /\ moved \subseteq moved'
         /\ \A g \in Hours :
              audit \in {"checking", "making"} =>
                output'[g] = output[g] \/ g \in moved'
<1>1. /\ stream[r][h] = "piped"
      /\ stream' = [stream EXCEPT ![r][h] = "open"]
      /\ output' = [output EXCEPT ![h] = {}]
      /\ contended' = contended \cup {g \in {h} : Contended(r, g)}
      /\ moved' = Moved(h)
      /\ UNCHANGED <<checkpoint, metrics, table, progress, copy, pos, result, auditVars,
                     putBack, unread, short>>
  BY DEF OpenOutput
<1>2. moved \subseteq moved' /\ moved' \subseteq Hours
      /\ (audit \in {"checking", "making"} => h \in moved')
  BY <1>1 DEF Moved, DayTypeOK
<1>3. DayTypeOK'
  BY <1>1, <1>2 DEF DayTypeOK, auditVars
<1>4. \A q \in Runs, g \in Hours :
        /\ stream'[q][g] = IF q = r /\ g = h THEN "open" ELSE stream[q][g]
        /\ output'[g] = IF g = h THEN {} ELSE output[g]
  BY <1>1 DEF DayTypeOK
<1>5. \A q \in Runs : Alive(q)' <=> Alive(q)
  BY <1>1 DEF Alive
<1>6. \A q \in Runs : q # r /\ Alive(q) /\ stream[q][h] \in {"open", "ended"} => h \in contended'
  BY <1>1 DEF Contended
<1>7. StreamsFit'
  BY <1>1, <1>4 DEF FetchInv, StreamsFit
<1>8. Prefixes'
  <2>1. pos[r][h] = 0 /\ 1 .. pos[r][h] = {}
    BY <1>1 DEF FetchInv, StreamsFit
  <2>2. {} # Nothing
    BY NothingAssumption
  <2>. QED BY <1>1, <1>4, <1>5, <1>6, <2>1, <2>2 DEF FetchInv, Prefixes
<1>9. EndedWell'
  BY <1>1, <1>4, <1>5, <1>6 DEF FetchInv, EndedWell
<1>10. CompleteIsWhole'
  <2>1. checkpoint[h].status = "COMPLETE" => h \in contended'
    BY <1>1 DEF Contended, Finished
  <2>. QED BY <1>1, <1>4, <2>1 DEF FetchInv, CompleteIsWhole
<1>. QED BY <1>1, <1>2, <1>3, <1>4, <1>7, <1>8, <1>9, <1>10 DEF FetchInv

LEMMA WriteBlockStep ==
  ASSUME DayTypeOK, FetchInv, NEW r \in Runs, NEW h \in Hours, WriteBlock(r, h)
  PROVE  /\ DayTypeOK' /\ FetchInv'
         /\ \A g \in Hours : output[g] \in {Nothing, Rows} => output'[g] = output[g]
<1>1. /\ stream[r][h] = "open"
      /\ pos[r][h] < Blocks
      /\ pos' = [pos EXCEPT ![r][h] = pos[r][h] + 1]
      /\ output' = [output EXCEPT ![h] = output[h] \cup {pos'[r][h]}]
      /\ UNCHANGED <<checkpoint, metrics, table, progress, copy, stream, result, auditVars,
                     dayHistory>>
  BY DEF WriteBlock
<1>2. output[h] \in SUBSET Rows /\ output[h] # Nothing
  BY <1>1 DEF FetchInv, Prefixes, DayTypeOK
<1>3. pos[r][h] \in 0 .. Blocks /\ pos[r][h] + 1 \in Rows /\ Blocks \in Nat
  BY <1>1, DayAssumption DEF DayTypeOK, Rows
<1>4. \A q \in Runs, g \in Hours :
        /\ pos'[q][g] = IF q = r /\ g = h THEN pos[r][h] + 1 ELSE pos[q][g]
        /\ output'[g] = IF g = h THEN output[h] \cup {pos[r][h] + 1} ELSE output[g]
  BY <1>1 DEF DayTypeOK
<1>5. DayTypeOK'
  <2>1. pos' \in [Runs -> [Hours -> 0 .. Blocks]]
    BY <1>1, <1>3 DEF DayTypeOK, Rows
  <2>2. output' \in [Hours -> {Nothing} \cup SUBSET Rows]
    BY <1>1, <1>2, <1>3, <1>4 DEF DayTypeOK
  <2>. QED BY <1>1, <2>1, <2>2 DEF DayTypeOK, auditVars, dayHistory
<1>6. \A g \in Hours : output[g] \in {Nothing, Rows} => output'[g] = output[g]
  BY <1>2, <1>3, <1>4
<1>7. \A g \in Hours : output'[g] # Nothing \/ output[g] = Nothing
  BY <1>2, <1>3, <1>4, NothingAssumption
<1>8. StreamsFit'
  BY <1>1, <1>4 DEF FetchInv, StreamsFit
<1>9. Prefixes'
  <2>1. SUFFICES ASSUME NEW q \in Runs, NEW g \in Hours, stream'[q][g] = "open"
                 PROVE  /\ output'[g] # Nothing
                        /\ Alive(q)' => g \in contended' \/ 1 .. pos'[q][g] \subseteq output'[g]
    BY DEF Prefixes
  <2>2. output[g] # Nothing
        /\ (Alive(q) => g \in contended \/ 1 .. pos[q][g] \subseteq output[g])
    BY <1>1, <2>1 DEF FetchInv, Prefixes
  <2>3. Alive(q)' <=> Alive(q)
    BY <1>1 DEF Alive
  <2>4. CASE q = r /\ g = h
    <3>1. 1 .. pos'[q][g] = (1 .. pos[r][h]) \cup {pos[r][h] + 1}
      BY <1>3, <1>4, <2>4
    <3>. QED BY <1>1, <1>4, <1>7, <2>2, <2>3, <2>4, <3>1 DEF dayHistory
  <2>5. CASE ~ (q = r /\ g = h)
    <3>1. pos'[q][g] = pos[q][g] /\ output[g] \subseteq output'[g]
      BY <1>4, <2>5
    <3>. QED BY <1>1, <1>7, <2>2, <2>3, <3>1 DEF dayHistory
  <2>. QED BY <2>4, <2>5
<1>10. EndedWell' /\ CompleteIsWhole'
  <2>1. \A q \in Runs : Alive(q)' <=> Alive(q)
    BY <1>1 DEF Alive
  <2>2. EndedWell'
    BY <1>1, <1>6, <2>1 DEF dayHistory, FetchInv, EndedWell
  <2>3. CompleteIsWhole'
    <3>1. \A g \in Hours : output'[g] # Nothing => output[g] # Nothing
      BY <1>2, <1>4
    <3>. QED BY <1>1, <1>6, <3>1 DEF dayHistory, FetchInv, CompleteIsWhole
  <2>. QED BY <2>2, <2>3
<1>. QED BY <1>5, <1>6, <1>8, <1>9, <1>10 DEF FetchInv

LEMMA EndStreamStep ==
  ASSUME DayTypeOK, FetchInv, NEW r \in Runs, NEW h \in Hours, EndStream(r, h)
  PROVE  DayTypeOK' /\ FetchInv'
<1>1. PICK curl \in BOOLEAN, zstd \in BOOLEAN, consumer \in BOOLEAN, counted \in BOOLEAN :
        /\ counted => stream[r][h] = "open"
        /\ consumer => counted
        /\ curl /\ zstd /\ consumer => pos[r][h] = Blocks
        /\ metrics' = IF counted THEN [metrics EXCEPT ![h] = pos[r][h]] ELSE metrics
        /\ result' = IF Alive(r)
                     THEN [result EXCEPT ![r][h] =
                             Result(curl, zstd, consumer, pos[r][h], Size(output[h]))]
                     ELSE result
  BY DEF EndStream
<1>2. /\ stream[r][h] \in {"piped", "open"}
      /\ stream' = [stream EXCEPT ![r][h] = IF Alive(r) THEN "ended" ELSE "none"]
      /\ pos' = [pos EXCEPT ![r][h] = 0]
      /\ UNCHANGED <<checkpoint, output, table, progress, copy, auditVars, dayHistory>>
  BY DEF EndStream
<1>3. pos[r][h] \in 0 .. Blocks
  BY DEF DayTypeOK
<1>. DEFINE res == Result(curl, zstd, consumer, pos[r][h], Size(output[h]))
<1>4. res \in Entries /\ (res.status = "COMPLETE" => curl /\ zstd /\ consumer)
  BY <1>3, ResultIsEntry
<1>5. DayTypeOK'
  <2>1. result' \in [Runs -> [Hours -> Entries]]
    BY <1>1, <1>4 DEF DayTypeOK
  <2>2. metrics' \in [Hours -> {Nothing} \cup 0 .. Blocks]
    BY <1>1, <1>3 DEF DayTypeOK
  <2>3. 0 \in 0 .. Blocks
    BY DayAssumption
  <2>. QED BY <1>2, <2>1, <2>2, <2>3 DEF DayTypeOK, auditVars, dayHistory
<1>6. \A q \in Runs, g \in Hours :
        /\ stream'[q][g] = IF q = r /\ g = h THEN (IF Alive(r) THEN "ended" ELSE "none")
                           ELSE stream[q][g]
        /\ pos'[q][g] = IF q = r /\ g = h THEN 0 ELSE pos[q][g]
        /\ ~ (q = r /\ g = h) => result'[q][g] = result[q][g]
  BY <1>1, <1>2 DEF DayTypeOK
<1>7. \A q \in Runs : Alive(q)' <=> Alive(q)
  BY <1>2 DEF Alive
<1>8. StreamsFit' /\ Prefixes' /\ CompleteIsWhole'
  BY <1>2, <1>6, <1>7 DEF dayHistory, FetchInv, StreamsFit, Prefixes, CompleteIsWhole
<1>9. Alive(r) /\ result'[r][h].status = "COMPLETE" =>
        output[h] \in {Nothing, Rows} \/ h \in contended
  <2>1. SUFFICES ASSUME Alive(r), result'[r][h].status = "COMPLETE", h \notin contended
                 PROVE  output[h] = Rows
    OBVIOUS
  <2>2. result'[r][h] = res
    BY <1>1, <2>1 DEF DayTypeOK
  <2>3. stream[r][h] = "open" /\ pos[r][h] = Blocks
    BY <1>1, <1>4, <2>1, <2>2
  <2>4. Rows \subseteq output[h] /\ output[h] # Nothing
    BY <2>1, <2>3 DEF FetchInv, Prefixes, Rows
  <2>. QED BY <2>4 DEF DayTypeOK
<1>10. EndedWell'
  BY <1>2, <1>6, <1>7, <1>9 DEF dayHistory, FetchInv, EndedWell
<1>. QED BY <1>5, <1>8, <1>10 DEF FetchInv

LEMMA RecordResultStep ==
  ASSUME DayTypeOK, FetchInv, NEW r \in Runs, NEW h \in Hours, RecordResult(r, h)
  PROVE  DayTypeOK' /\ FetchInv' /\ putBack \subseteq putBack'
<1>1. /\ progress[r] = "fetching"
      /\ stream[r][h] = "ended"
      /\ copy' = [copy EXCEPT ![r][h] = result[r][h]]
      /\ WriteCheckpoint(copy'[r], {h})
      /\ stream' = [stream EXCEPT ![r][h] = "none"]
      /\ result' = [result EXCEPT ![r][h] = Mark("absent")]
      /\ UNCHANGED <<output, metrics, table, progress, pos, auditVars,
                     contended, moved, unread, short>>
  BY DEF RecordResult
<1>2. copy' \in [Runs -> [Hours -> Entries]] /\ copy'[r][h] = result[r][h]
  BY <1>1 DEF DayTypeOK
<1>3. result[r][h].status = "COMPLETE" => output[h] \in {Nothing, Rows} \/ h \in contended
  BY <1>1 DEF FetchInv, EndedWell, Alive
<1>4. CompleteIsWhole' /\ checkpoint' \in [Hours -> Entries]
      /\ putBack \subseteq putBack' /\ putBack' \subseteq Hours
  <2>1. copy'[r] \in [Hours -> Entries]
    BY <1>2
  <2>2. WriteCheckpoint(copy'[r], {h}) /\ UNCHANGED <<output, contended>>
    BY <1>1
  <2>3. CompleteIsWhole /\ {h} \in SUBSET Hours
    BY DEF FetchInv
  <2>4. \A g \in {h} : copy'[r][g].status = "COMPLETE" =>
          output[g] \in {Nothing, Rows} \/ g \in contended
    BY <1>2, <1>3
  <2>. QED BY <2>1, <2>2, <2>3, <2>4, WriteKeepsComplete
<1>5. DayTypeOK'
  BY <1>1, <1>2, <1>4, MarksAreEntries DEF DayTypeOK, auditVars
<1>6. \A q \in Runs, g \in Hours :
        /\ stream'[q][g] = IF q = r /\ g = h THEN "none" ELSE stream[q][g]
        /\ ~ (q = r /\ g = h) => result'[q][g] = result[q][g]
  BY <1>1 DEF DayTypeOK
<1>7. \A q \in Runs : Alive(q)' <=> Alive(q)
  BY <1>1 DEF Alive
<1>8. StreamsFit' /\ Prefixes' /\ EndedWell'
  BY <1>1, <1>6, <1>7 DEF FetchInv, StreamsFit, Prefixes, EndedWell
<1>. QED BY <1>4, <1>5, <1>8 DEF FetchInv

LEMMA EndRunStep ==
  ASSUME DayTypeOK, FetchInv, NEW r \in Runs, EndRun(r)
  PROVE  DayTypeOK' /\ FetchInv' /\ putBack \subseteq putBack'
<1>1. CompleteIsWhole' /\ checkpoint' \in [Hours -> Entries]
      /\ putBack \subseteq putBack' /\ putBack' \subseteq Hours
  <2>1. copy[r] \in [Hours -> Entries]
    BY DEF DayTypeOK
  <2>2. WriteCheckpoint(copy[r], {}) /\ UNCHANGED <<output, contended>>
    BY DEF EndRun
  <2>3. CompleteIsWhole /\ {} \in SUBSET Hours
    BY DEF FetchInv
  <2>4. \A h \in {} : copy[r][h].status = "COMPLETE" =>
          output[h] \in {Nothing, Rows} \/ h \in contended
    OBVIOUS
  <2>. QED BY <2>1, <2>2, <2>3, <2>4, WriteKeepsComplete
<1>2. DayTypeOK'
  BY <1>1, MarksAreEntries DEF EndRun, DayTypeOK, streamVars, auditVars
<1>3. \A q \in Runs : Alive(q)' => Alive(q)
  BY DEF EndRun, Alive, DayTypeOK
<1>4. StreamsFit' /\ Prefixes' /\ EndedWell'
  BY <1>3 DEF EndRun, streamVars, DayTypeOK, FetchInv, StreamsFit, Prefixes, EndedWell
<1>. QED BY <1>1, <1>2, <1>4 DEF FetchInv

LEMMA KillRunStep ==
  ASSUME DayTypeOK, FetchInv, NEW r \in Runs, KillRun(r)
  PROVE  DayTypeOK' /\ FetchInv'
<1>1. \A q \in Runs, h \in Hours :
        stream'[q][h] = IF q = r /\ stream[q][h] \notin {"piped", "open"} THEN "none"
                        ELSE stream[q][h]
  BY DEF KillRun, DayTypeOK
<1>2. \A q \in Runs : Alive(q)' => Alive(q) /\ q # r
  BY DEF KillRun, Alive, DayTypeOK
<1>3. DayTypeOK'
  <2>1. stream' \in [Runs -> [Hours -> {"none", "queued", "piped", "open", "ended"}]]
    BY DEF KillRun, DayTypeOK
  <2>. QED BY <2>1, MarksAreEntries DEF KillRun, DayTypeOK, auditVars, dayHistory
<1>4. StreamsFit' /\ Prefixes' /\ EndedWell' /\ CompleteIsWhole'
  BY <1>1, <1>2 DEF KillRun, dayHistory, DayTypeOK, FetchInv, StreamsFit, Prefixes,
                    EndedWell, CompleteIsWhole
<1>. QED BY <1>3, <1>4 DEF FetchInv

LEMMA RemoveHourStep ==
  ASSUME DayTypeOK, FetchInv, NEW h \in Hours, RemoveHour(h)
  PROVE  /\ DayTypeOK' /\ FetchInv' /\ moved \subseteq moved'
         /\ \A g \in Hours : output[g] \in {Nothing, Rows} => output'[g] \in {Nothing, Rows}
<1>1. moved \subseteq moved' /\ moved' \subseteq Hours
  BY DEF RemoveHour, Moved, DayTypeOK
<1>2. \A g \in Hours : output'[g] = IF g = h THEN Nothing ELSE output[g]
  BY DEF RemoveHour, DayTypeOK
<1>3. DayTypeOK'
  BY <1>1 DEF RemoveHour, DayTypeOK, streamVars, auditVars
<1>4. FetchInv'
  BY <1>2 DEF RemoveHour, streamVars, FetchInv, StreamsFit, Prefixes, EndedWell,
              CompleteIsWhole, Alive
<1>. QED BY <1>1, <1>2, <1>3, <1>4

------------------------------------------------------------------------------
\* Steps of the verification.

\* It changes nothing of what the runs rest on.
LEMMA AuditKeepsFetch ==
  ASSUME FetchInv,
         UNCHANGED <<checkpoint, output, progress, stream, pos, result, contended, putBack>>
  PROVE  FetchInv'
BY DEF FetchInv, StreamsFit, Prefixes, EndedWell, CompleteIsWhole, Alive

LEMMA StartAuditStep ==
  ASSUME DayTypeOK, FetchInv, TableInv, StartAudit
  PROVE  DayTypeOK' /\ TableInv'
<1>1. DayTypeOK'
  <2>1. \A h \in Hours : checkpoint[h].bytes \in SUBSET Rows
    BY DEF DayTypeOK, Entries
  <2>. QED BY <2>1 DEF StartAudit, DayTypeOK, streamVars, dayHistory
<1>2. HoursToRead'
  BY DEF StartAudit, dayHistory, FetchInv, CompleteIsWhole, HoursToRead
<1>3. HoursInTable'
  BY DEF StartAudit, dayHistory, TableInv, HoursInTable
<1>4. TableFits' /\ ReportSawTheDay'
  BY DEF StartAudit, dayHistory, TableInv, TableFits, ReportSawTheDay
<1>. QED BY <1>1, <1>2, <1>3, <1>4 DEF TableInv

LEMMA CheckHourStep ==
  ASSUME DayTypeOK, TableInv, CheckHour
  PROVE  DayTypeOK' /\ TableInv'
<1>1. DayTypeOK'
  BY DayAssumption DEF CheckHour, DayTypeOK, streamVars, dayHistory
<1>2. HoursToRead' /\ HoursInTable'
  BY DEF CheckHour, dayHistory, TableInv, HoursToRead, HoursInTable
<1>3. TableFits' /\ ReportSawTheDay'
  BY DEF CheckHour, dayHistory, TableInv, TableFits, ReportSawTheDay
<1>. QED BY <1>1, <1>2, <1>3 DEF TableInv

LEMMA LookForTableStep ==
  ASSUME DayTypeOK, TableInv, LookForTable
  PROVE  DayTypeOK' /\ TableInv'
<1>1. /\ audit = "checking" /\ hour' = 0 /\ sizes' = NoSizes
      /\ UNCHANGED <<checkpoint, output, metrics, progress, copy, streamVars,
                     contended, putBack, unread, short>>
  BY DEF LookForTable
<1>2. NoSizes \in [Hours -> SUBSET Rows] /\ 0 \in 0 .. LastHour + 1 /\ 0 <= LastHour
  BY DayAssumption DEF NoSizes
<1>3. CASE table # Nothing /\ audit' = "reporting" /\ table' = table /\ moved' = {}
  <2>1. DayTypeOK'
    BY <1>1, <1>2, <1>3 DEF DayTypeOK, streamVars
  <2>2. HoursToRead' /\ HoursInTable'
    BY <1>1, <1>3 DEF TableInv, HoursToRead, HoursInTable
  <2>3. TableFits' /\ ReportSawTheDay'
    BY <1>1, <1>3 DEF TableInv, TableFits, ReportSawTheDay
  <2>. QED BY <2>1, <2>2, <2>3 DEF TableInv
<1>4. CASE /\ table = Nothing /\ audit' = "making"
           /\ table' = [h \in Hours |-> {}] /\ moved' = moved
  <2>1. table' \in [Hours -> SUBSET Rows]
    BY <1>4
  <2>2. DayTypeOK'
    BY <1>1, <1>2, <1>4, <2>1 DEF DayTypeOK, Tables, streamVars
  <2>3. HoursToRead'
    BY <1>1, <1>4 DEF TableInv, HoursToRead
  <2>4. HoursInTable'
    <3>1. \A h \in Hours : ~ (h < 0)
      BY DEF Hours
    <3>. QED BY <1>1, <1>4, <3>1 DEF HoursInTable
  <2>5. TableFits' /\ ReportSawTheDay'
    BY <1>1, <1>2, <1>4, <2>1, NothingAssumption DEF TableInv, TableFits, ReportSawTheDay
  <2>. QED BY <2>2, <2>3, <2>4, <2>5 DEF TableInv
<1>. QED BY <1>3, <1>4 DEF LookForTable

LEMMA AddHourStep ==
  ASSUME DayTypeOK, TableInv, AddHour
  PROVE  DayTypeOK' /\ TableInv'
<1>1. /\ audit = "making" /\ output[hour] # Nothing
      /\ table' = [table EXCEPT ![hour] = output[hour]]
      /\ unread' = unread \cup {h \in moved : h = hour /\ output[h] # Rows}
      /\ UNCHANGED <<checkpoint, output, metrics, progress, copy, streamVars, sizes,
                     contended, putBack, short>>
  BY DEF AddHour
<1>2. /\ table \in [Hours -> SUBSET Rows]
      /\ hour \in Hours /\ hour <= LastHour /\ LastHour \in Nat
      /\ short = {} /\ audit # "checking"
  BY <1>1, DayAssumption DEF TableInv, TableFits, DayTypeOK, Hours
<1>3. /\ table' \in [Hours -> SUBSET Rows]
      /\ \A h \in Hours : table'[h] = IF h = hour THEN output[hour] ELSE table[h]
  BY <1>1, <1>2 DEF DayTypeOK
<1>4. \/ hour = LastHour /\ audit' = "reporting" /\ hour' = 0 /\ moved' = {}
      \/ hour # LastHour /\ audit' = "making" /\ hour' = hour + 1 /\ moved' = moved
  BY DEF AddHour
<1>5. unread' \subseteq Hours /\ hour' \in 0 .. LastHour + 1
      /\ (audit' = "making" => hour' <= LastHour)
  <2>1. unread' \subseteq Hours
    BY <1>1 DEF DayTypeOK
  <2>2. hour \in 0 .. LastHour
    BY <1>2 DEF Hours
  <2>3. CASE hour = LastHour
    BY <1>2, <1>4, <2>1, <2>3
  <2>4. CASE hour # LastHour
    BY <1>2, <1>4, <2>1, <2>2, <2>4
  <2>. QED BY <2>3, <2>4
<1>6. DayTypeOK'
  BY <1>1, <1>3, <1>4, <1>5 DEF DayTypeOK, Tables, streamVars
<1>7. HoursToRead'
  <2>1. \A h \in Hours : hour + 1 <= h => hour <= h
    BY <1>2 DEF Hours
  <2>. QED BY <1>1, <1>2, <1>4, <2>1 DEF TableInv, HoursToRead
<1>8. HoursInTable'
  <2>1. SUFFICES ASSUME NEW h \in Hours, audit' = "making" => h < hour'
                 PROVE  table'[h] = Rows \/ h \in contended' \cup putBack' \cup unread'
    BY DEF HoursInTable
  <2>2. CASE h = hour
    <3>1. output[h] = Rows \/ h \in contended \cup putBack \cup moved
      BY <1>1, <1>2, <2>2 DEF TableInv, HoursToRead, Hours
    <3>. QED BY <1>1, <1>3, <2>2, <3>1
  <2>3. CASE h # hour
    <3>1. h < hour
      BY <1>2, <1>4, <2>1, <2>3 DEF Hours
    <3>. QED BY <1>1, <1>2, <1>3, <2>3, <3>1 DEF TableInv, HoursInTable
  <2>. QED BY <2>2, <2>3
<1>9. TableFits' /\ ReportSawTheDay'
  BY <1>1, <1>2, <1>3, <1>4, <1>5, NothingAssumption DEF TableInv, TableFits, ReportSawTheDay
<1>. QED BY <1>6, <1>7, <1>8, <1>9 DEF TableInv

LEMMA ReportStep ==
  ASSUME DayTypeOK, TableInv, Report
  PROVE  DayTypeOK' /\ TableInv'
<1>1. table \in [Hours -> SUBSET Rows] /\ table # Nothing
  BY DEF Report, TableInv, TableFits, DayTypeOK, Tables
<1>2. DayTypeOK'
  BY DEF Report, DayTypeOK, streamVars
<1>3. HoursToRead' /\ HoursInTable'
  BY DEF Report, TableInv, HoursToRead, HoursInTable
<1>4. TableFits' /\ ReportSawTheDay'
  BY <1>1 DEF Report, TableInv, HoursInTable, TableFits, ReportSawTheDay
<1>. QED BY <1>2, <1>3, <1>4 DEF TableInv

LEMMA EndAuditStep ==
  ASSUME DayTypeOK, TableInv, EndAudit
  PROVE  DayTypeOK' /\ TableInv'
<1>1. /\ audit' = "idle" /\ hour' = 0 /\ sizes' = NoSizes /\ moved' = {}
      /\ UNCHANGED <<checkpoint, output, metrics, progress, copy, streamVars,
                     contended, putBack, short>>
  BY DEF EndAudit
<1>2. NoSizes \in [Hours -> SUBSET Rows] /\ 0 \in 0 .. LastHour + 1
  BY DayAssumption DEF NoSizes
<1>3. HoursToRead'
  BY <1>1 DEF HoursToRead
<1>4. CASE audit # "making" /\ UNCHANGED <<table, unread>>
  <2>1. DayTypeOK'
    BY <1>1, <1>2, <1>4 DEF DayTypeOK, streamVars
  <2>2. HoursInTable'
    BY <1>1, <1>4 DEF TableInv, HoursInTable
  <2>3. TableFits' /\ ReportSawTheDay'
    BY <1>1, <1>4 DEF TableInv, TableFits, ReportSawTheDay
  <2>. QED BY <1>3, <2>1, <2>2, <2>3 DEF TableInv
<1>5. CASE audit = "making" /\ table' \in {Nothing, Broken} /\ unread' = {}
  <2>1. table' \notin [Hours -> SUBSET Rows]
    BY <1>5, NothingAssumption
  <2>2. short = {}
    BY <1>5 DEF TableInv, TableFits
  <2>3. DayTypeOK'
    BY <1>1, <1>2, <1>5 DEF DayTypeOK, Tables, streamVars
  <2>. QED BY <1>1, <1>3, <2>1, <2>2, <2>3
              DEF TableInv, HoursInTable, TableFits, ReportSawTheDay
<1>6. CASE audit = "making" /\ \E n \in 1 .. hour :
             /\ table' = [h \in Hours |-> IF h < n THEN table[h] ELSE {}]
             /\ unread' = unread \cup n .. LastHour
  <2>1. PICK n \in 1 .. hour :
             /\ table' = [h \in Hours |-> IF h < n THEN table[h] ELSE {}]
             /\ unread' = unread \cup n .. LastHour
    BY <1>6
  <2>2. table \in [Hours -> SUBSET Rows] /\ short = {} /\ hour \in Nat /\ LastHour \in Nat
    BY <1>6, DayAssumption DEF TableInv, TableFits, DayTypeOK
  <2>3. table' \in [Hours -> SUBSET Rows] /\ unread' \subseteq Hours
    BY <2>1, <2>2 DEF DayTypeOK, Hours
  <2>4. DayTypeOK'
    BY <1>1, <1>2, <2>3 DEF DayTypeOK, Tables, streamVars
  <2>5. HoursInTable'
    <3>1. \A h \in Hours : h < n \/ h \in unread'
      BY <2>1, <2>2 DEF Hours
    <3>2. \A h \in Hours : h < n => h < hour
      BY <2>2 DEF Hours
    <3>. QED BY <1>1, <1>6, <2>1, <2>2, <3>1, <3>2 DEF TableInv, HoursInTable
  <2>6. TableFits' /\ ReportSawTheDay'
    BY <1>1, <2>2, <2>3, NothingAssumption DEF TableInv, TableFits, ReportSawTheDay
  <2>. QED BY <1>3, <2>4, <2>5, <2>6 DEF TableInv
<1>. QED BY <1>4, <1>5, <1>6 DEF EndAudit

------------------------------------------------------------------------------
LEMMA DayStep ==
  ASSUME DayTypeOK, FetchInv, TableInv, [DayNext]_dayVars
  PROVE  DayTypeOK' /\ FetchInv' /\ TableInv'
<1>1. CASE UNCHANGED dayVars
  BY <1>1 DEF dayVars, streamVars, auditVars, dayHistory, DayTypeOK, FetchInv, StreamsFit,
       Prefixes, EndedWell, CompleteIsWhole, Alive, TableInv, HoursToRead, HoursInTable,
       TableFits, ReportSawTheDay
<1>2. ASSUME NEW r \in Runs, StartRun(r) PROVE DayTypeOK' /\ FetchInv' /\ TableInv'
  <2>1. TableInv'
    BY <1>2, RunKeepsTable DEF StartRun, auditVars, dayHistory
  <2>. QED BY <1>2, <2>1, StartRunStep
<1>3. ASSUME NEW r \in Runs, NoteSelection(r) PROVE DayTypeOK' /\ FetchInv' /\ TableInv'
  <2>1. DayTypeOK' /\ FetchInv' /\ putBack \subseteq putBack'
    BY <1>3, NoteSelectionStep
  <2>2. TableInv'
    BY <1>3, <2>1, RunKeepsTable DEF NoteSelection, auditVars
  <2>. QED BY <2>1, <2>2
<1>4. ASSUME NEW r \in Runs, MarkPending(r) PROVE DayTypeOK' /\ FetchInv' /\ TableInv'
  <2>1. DayTypeOK' /\ FetchInv' /\ putBack \subseteq putBack'
    BY <1>4, MarkPendingStep
  <2>2. TableInv'
    BY <1>4, <2>1, RunKeepsTable DEF MarkPending, auditVars
  <2>. QED BY <2>1, <2>2
<1>5. ASSUME NEW r \in Runs, EndRun(r) PROVE DayTypeOK' /\ FetchInv' /\ TableInv'
  <2>1. DayTypeOK' /\ FetchInv' /\ putBack \subseteq putBack'
    BY <1>5, EndRunStep
  <2>2. TableInv'
    BY <1>5, <2>1, RunKeepsTable DEF EndRun, auditVars
  <2>. QED BY <2>1, <2>2
<1>6. ASSUME NEW r \in Runs, KillRun(r) PROVE DayTypeOK' /\ FetchInv' /\ TableInv'
  <2>1. TableInv'
    BY <1>6, RunKeepsTable DEF KillRun, auditVars, dayHistory
  <2>. QED BY <1>6, <2>1, KillRunStep
<1>7. ASSUME NEW r \in Runs, NEW h \in Hours, StartStream(r, h)
      PROVE  DayTypeOK' /\ FetchInv' /\ TableInv'
  <2>1. TableInv'
    BY <1>7, RunKeepsTable DEF StartStream, auditVars, dayHistory
  <2>. QED BY <1>7, <2>1, StartStreamStep
<1>8. ASSUME NEW r \in Runs, NEW h \in Hours, OpenOutput(r, h)
      PROVE  DayTypeOK' /\ FetchInv' /\ TableInv'
  <2>1. /\ DayTypeOK' /\ FetchInv'
        /\ contended \subseteq contended' /\ moved \subseteq moved'
        /\ \A g \in Hours :
             audit \in {"checking", "making"} => output'[g] = output[g] \/ g \in moved'
    BY <1>8, OpenOutputStep
  <2>2. TableInv'
    BY <1>8, <2>1, RunKeepsTable DEF OpenOutput, auditVars
  <2>. QED BY <2>1, <2>2
<1>9. ASSUME NEW r \in Runs, NEW h \in Hours, WriteBlock(r, h)
      PROVE  DayTypeOK' /\ FetchInv' /\ TableInv'
  <2>1. /\ DayTypeOK' /\ FetchInv'
        /\ \A g \in Hours : output[g] \in {Nothing, Rows} => output'[g] = output[g]
    BY <1>9, WriteBlockStep
  <2>2. UNCHANGED <<table, audit, hour, contended, putBack, moved, unread, short>>
    BY <1>9 DEF WriteBlock, auditVars, dayHistory
  <2>3. TableInv'
    BY <2>1, <2>2, RunKeepsTable
  <2>. QED BY <2>1, <2>3
<1>10. ASSUME NEW r \in Runs, NEW h \in Hours, EndStream(r, h)
      PROVE  DayTypeOK' /\ FetchInv' /\ TableInv'
  <2>1. UNCHANGED <<output, table, audit, hour, contended, putBack, moved, unread, short>>
    BY <1>10 DEF EndStream, auditVars, dayHistory
  <2>2. TableInv'
    BY <2>1, RunKeepsTable
  <2>. QED BY <1>10, <2>2, EndStreamStep
<1>11. ASSUME NEW r \in Runs, NEW h \in Hours, RecordResult(r, h)
       PROVE  DayTypeOK' /\ FetchInv' /\ TableInv'
  <2>1. DayTypeOK' /\ FetchInv' /\ putBack \subseteq putBack'
    BY <1>11, RecordResultStep
  <2>2. TableInv'
    BY <1>11, <2>1, RunKeepsTable DEF RecordResult, auditVars
  <2>. QED BY <2>1, <2>2
<1>12. ASSUME NEW h \in Hours, RemoveHour(h) PROVE DayTypeOK' /\ FetchInv' /\ TableInv'
  <2>1. /\ DayTypeOK' /\ FetchInv' /\ moved \subseteq moved'
        /\ \A g \in Hours : output[g] \in {Nothing, Rows} => output'[g] \in {Nothing, Rows}
    BY <1>12, RemoveHourStep
  <2>2. TableInv'
    BY <1>12, <2>1, RunKeepsTable DEF RemoveHour, auditVars
  <2>. QED BY <2>1, <2>2
<1>13. CASE StartAudit
  BY <1>13, StartAuditStep, AuditKeepsFetch DEF StartAudit, streamVars, dayHistory
<1>14. CASE CheckHour
  BY <1>14, CheckHourStep, AuditKeepsFetch DEF CheckHour, streamVars, dayHistory
<1>15. CASE LookForTable
  BY <1>15, LookForTableStep, AuditKeepsFetch DEF LookForTable, streamVars
<1>16. CASE AddHour
  BY <1>16, AddHourStep, AuditKeepsFetch DEF AddHour, streamVars
<1>17. CASE Report
  BY <1>17, ReportStep, AuditKeepsFetch DEF Report, streamVars
<1>18. CASE EndAudit
  BY <1>18, EndAuditStep, AuditKeepsFetch DEF EndAudit, streamVars
<1>. QED BY <1>1, <1>2, <1>3, <1>4, <1>5, <1>6, <1>7, <1>8, <1>9, <1>10, <1>11, <1>12,
            <1>13, <1>14, <1>15, <1>16, <1>17, <1>18 DEF DayNext

\* No failure, death, orphan or later run leaves a part of an hour recorded as
\* complete, and reports rest on whole hours, but for the named exceptions: for
\* every number of runs, hours, blocks and workers.
THEOREM DayStaysWhole == DaySpec => []DayIsWhole
<1>1. DayTypeOK /\ FetchInv /\ TableInv => DayIsWhole
  BY DEF FetchInv, TableInv, DayIsWhole
<1>. QED BY DayInitInv, DayStep, <1>1, PTL DEF DaySpec

\* The types of all variables of both parts hold in every behaviour.
THEOREM DataTypeCorrect == DataSpec => []DataTypeOK
<1>1. DataInit => RecordInv /\ DayTypeOK /\ FetchInv /\ TableInv
  BY InitRecords, DayInitInv DEF DataInit
<1>2. [DataNext]_dataVars => [Next]_vars /\ [DayNext]_dayVars
  BY DEF DataNext, dataVars
<1>3. RecordInv => TypeOK
  BY DEF RecordInv
<1>. QED BY <1>1, <1>2, <1>3, RecordStep, DayStep, PTL DEF DataSpec, DataTypeOK
==============================================================================
