--------------------------- MODULE OutcomeCapture ---------------------------
(***************************************************************************)
(* Outcome jobs of the prospective collector (_capture_due_outcomes,       *)
(* _update_pool_state, _upsert_launch, _schedule_outcomes and              *)
(* _load_pending_outcome_jobs of research/nave/prospective_collection.py). *)
(*                                                                         *)
(* A launch schedules one job for each horizon.  The first frame at or     *)
(* after a job's target makes it a snapshot of the pool state that the     *)
(* process holds at that moment, or of UNKNOWN with the evidence that is   *)
(* missing.  Jobs and snapshots are rows of the open transaction; the heap *)
(* of pending jobs and the pool states are only in memory.                 *)
(*                                                                         *)
(* Time is counted in half seconds, because the code compares some of its  *)
(* times as strings: iso() writes no fraction when there is none, so       *)
(* "12:00:00.500000Z" sorts before "12:00:00Z".                            *)
(***************************************************************************)
EXTENDS Integers, FiniteSets

CONSTANTS
  Mints, Pools,
  Horizons,   \* from a launch to its targets, decision delay included
  Instants,   \* times of events and of receipts
  MaxFrames,  \* bound: frames processed
  MaxStarts   \* bound: processes started

ASSUME OutcomeAssumption ==
  /\ Instants \subseteq Nat /\ Horizons \subseteq {n \in Nat : n % 2 = 0}
  /\ MaxFrames \in Nat /\ MaxStarts \in Nat

NoPool == "none"
NoTime == -1
Unseen == [pool |-> NoPool, time |-> NoTime, available |-> NoTime]

VARIABLES
  pc,      \* "down" or "up"
  now,     \* received_at of the latest frame
  live,    \* the database as the process sees it
  disk,    \* the database as it was last committed
  heap,    \* job keys in _outcome_heap and _outcome_jobs
  states,  \* _pool_states
  newest,  \* pool -> time of its newest event in this process (not in the code)
  frames, starts

vars == <<pc, now, live, disk, heap, states, newest, frames, starts>>

-----------------------------------------------------------------------------
Events == [action : {"create", "trade"}, mint : Mints,
           pool : Pools \cup {NoPool}, time : Instants \cup {NoTime}]
Jobs == Mints \X Horizons

\* The place of a time among the strings that iso() makes of times.
IsoRank(t) == IF t % 2 = 0 THEN t + 1 ELSE t - 1
IsoAfter(t, u) == IsoRank(t) > IsoRank(u)

EmptyDatabase == [launches |-> <<>>, jobs |-> <<>>, snapshots |-> <<>>]

Init ==
  /\ pc = "down" /\ now = 0
  /\ live = EmptyDatabase /\ disk = EmptyDatabase
  /\ heap = {}
  /\ states = [p \in Pools |-> Unseen] /\ newest = [p \in Pools |-> NoTime]
  /\ frames = 0 /\ starts = 0

\* Faulty variant: only the jobs of launches without any snapshot.
PendingLaunches(database) ==
  {job \in DOMAIN database.jobs :
     \A h \in Horizons : <<job[1], h>> \notin DOMAIN database.snapshots}

\* The jobs that have no snapshot.
Pending(database) == DOMAIN database.jobs \ DOMAIN database.snapshots

\* _open_db and _load_pending_outcome_jobs.
Construct ==
  /\ pc = "down"
  /\ starts < MaxStarts
  /\ starts' = starts + 1
  /\ pc' = "up"
  /\ heap' = Pending(disk)
  /\ UNCHANGED <<now, live, disk, states, newest, frames>>

\* The process dies, and its transaction and memory with it.
Crash ==
  /\ pc = "up"
  /\ pc' = "down"
  /\ live' = disk
  /\ heap' = {}
  /\ states' = [p \in Pools |-> Unseen] /\ newest' = [p \in Pools |-> NoTime]
  /\ UNCHANGED <<now, disk, frames, starts>>

Commit ==
  /\ pc = "up"
  /\ disk' = live
  /\ UNCHANGED <<pc, now, live, heap, states, newest, frames, starts>>

-----------------------------------------------------------------------------
(* _capture_due_outcomes                                                    *)

Due(at) == {job \in heap : live.jobs[job] <= at}

PoolOf(job) == live.launches[job[1]].pool
SourceOf(job) == IF PoolOf(job) = NoPool THEN Unseen ELSE states[PoolOf(job)]

\* Faulty variant: a delayed launch is answered with what came after.
EventClockOnly(job, source) ==
  (IF PoolOf(job) = NoPool THEN {"pool_address"} ELSE {}) \cup
  (IF source = Unseen THEN {"pool_state"}
   ELSE IF IsoAfter(source.time, live.jobs[job]) THEN {"causal_event_time"}
   ELSE {})

Missing(job, source) ==
  (IF PoolOf(job) = NoPool THEN {"pool_address"} ELSE {}) \cup
  (IF source = Unseen THEN {"pool_state"}
   ELSE (IF IsoAfter(source.time, live.jobs[job])
         THEN {"causal_event_time"} ELSE {}) \cup
        (IF IsoAfter(source.available, live.jobs[job])
         THEN {"causal_available_at"} ELSE {}))

SnapshotOf(job) ==
  [source |-> SourceOf(job), missing |-> Missing(job, SourceOf(job))]

\* INSERT OR IGNORE of the due jobs' snapshots.
Captured(at) ==
  [job \in DOMAIN live.snapshots \cup Due(at) |->
     IF job \in DOMAIN live.snapshots THEN live.snapshots[job]
                                      ELSE SnapshotOf(job)]

-----------------------------------------------------------------------------
(* process_message                                                          *)

Frame(at) ==
  /\ pc = "up" /\ frames < MaxFrames
  /\ at >= now
  /\ now' = at /\ frames' = frames + 1
  /\ UNCHANGED <<pc, disk, starts>>

\* A malformed frame, or one whose event is in the database.
OtherFrame(at) ==
  /\ Frame(at)
  /\ live' = [live EXCEPT !.snapshots = Captured(at)]
  /\ heap' = heap \ Due(at)
  /\ UNCHANGED <<states, newest>>

\* Faulty variant: the state of the event that came last.
UpdatedByReceipt(event, at) ==
  IF event.pool = NoPool \/ event.time = NoTime THEN states
  ELSE [states EXCEPT ![event.pool] =
          [pool |-> event.pool, time |-> event.time, available |-> at]]

\* _update_pool_state
Updated(event, at) ==
  IF event.pool = NoPool \/ event.time = NoTime THEN states
  ELSE [states EXCEPT ![event.pool] =
          IF @ = Unseen \/ ~IsoAfter(@.time, event.time)
          THEN [pool |-> event.pool, time |-> event.time, available |-> at]
          ELSE @]

\* Faulty variant: the latest of a mint's creates is its launch.
IsLaunchAgain(event) == event.action = "create" /\ event.time # NoTime

\* Faulty variant: a create without a time is a launch, too.
IsLaunchUntimed(event) ==
  event.action = "create" /\ event.mint \notin DOMAIN live.launches

\* _upsert_launch: a mint's first create that has a time.
IsLaunch(event) ==
  /\ event.action = "create" /\ event.time # NoTime
  /\ event.mint \notin DOMAIN live.launches

\* The launch and its jobs; `captured` are the snapshots so far.
Registered(event, captured) ==
  [launches |-> [m \in DOMAIN live.launches \cup {event.mint} |->
                   IF m = event.mint
                   THEN [time |-> event.time, pool |-> event.pool]
                   ELSE live.launches[m]],
   jobs |-> [job \in DOMAIN live.jobs \cup ({event.mint} \X Horizons) |->
               IF job[1] = event.mint THEN event.time + job[2]
                                      ELSE live.jobs[job]],
   snapshots |-> captured]

\* A frame whose event is new to the database.
EventFrame(event, at) ==
  /\ Frame(at)
  /\ live' = IF IsLaunch(event) THEN Registered(event, Captured(at))
             ELSE [live EXCEPT !.snapshots = Captured(at)]
  /\ heap' = (heap \ Due(at)) \cup
             (IF IsLaunch(event) THEN {event.mint} \X Horizons ELSE {})
  /\ states' = Updated(event, at)
  /\ newest' = IF event.pool = NoPool \/ event.time = NoTime THEN newest
               ELSE [newest EXCEPT ![event.pool] =
                       IF @ > event.time THEN @ ELSE event.time]

Next ==
  \/ Construct \/ Crash \/ Commit
  \/ \E at \in Instants :
       OtherFrame(at) \/ \E event \in Events : EventFrame(event, at)

Spec == Init /\ [][Next]_vars

-----------------------------------------------------------------------------
(* Properties.                                                              *)

Sources == [pool : Pools, time : Instants, available : Instants] \cup {Unseen}
Evidence ==
  {"pool_address", "pool_state", "causal_event_time", "causal_available_at"}

IsDatabase(database) ==
  /\ DOMAIN database.launches \subseteq Mints
  /\ \A m \in DOMAIN database.launches :
       database.launches[m] \in [time : Instants, pool : Pools \cup {NoPool}]
  /\ DOMAIN database.jobs = (DOMAIN database.launches) \X Horizons
  /\ DOMAIN database.snapshots \subseteq DOMAIN database.jobs
  /\ \A job \in DOMAIN database.snapshots :
       database.snapshots[job] \in [source : Sources, missing : SUBSET Evidence]

\* The databases hold the jobs of their launches and snapshots of those jobs;
\* states and times are of the frames that came.
TypeOK ==
  /\ pc \in {"down", "up"} /\ now \in Instants \cup {0}
  /\ IsDatabase(live) /\ IsDatabase(disk)
  /\ heap \subseteq DOMAIN live.jobs
  /\ states \in [Pools -> Sources]
  /\ newest \in [Pools -> Instants \cup {NoTime}]
  /\ frames \in 0..MaxFrames /\ starts \in 0..MaxStarts

\* "Raw state, causal and of the same pool": a snapshot that is missing
\* nothing shows the pool of its launch, in a state that had happened and had
\* been received by the target, however late the launch was heard of and
\* whatever crash lay between.  This is what the code means; it is violated,
\* because it compares times as strings.
CapturedIsCausal ==
  \A job \in DOMAIN live.snapshots :
    LET snapshot == live.snapshots[job]
    IN  snapshot.missing = {} =>
          /\ snapshot.source # Unseen
          /\ snapshot.source.pool = PoolOf(job)
          /\ snapshot.source.time <= live.jobs[job]
          /\ snapshot.source.available <= live.jobs[job]

\* What the strings do order: seconds, and so any two times of one form.
Second(t) == t \div 2

\* What holds of a snapshot that is missing nothing, whatever forms its times
\* have: it shows the pool of its launch, in a state that had happened and had
\* been received by the end of the target's second, and, where the target is
\* written as the state's times are, by the target itself.
CapturedToTheSecond ==
  \A job \in DOMAIN live.snapshots :
    LET snapshot == live.snapshots[job]
        target == live.jobs[job]
    IN  snapshot.missing = {} =>
          /\ snapshot.source # Unseen
          /\ snapshot.source.pool = PoolOf(job)
          /\ \A t \in {snapshot.source.time, snapshot.source.available} :
               /\ Second(t) <= Second(target)
               /\ t % 2 = target % 2 => t <= target

\* A pool's state is that of its newest event, or of one in the same second
\* that is written in the other form, in whatever order the events of the
\* pool are received.
StatesAreNewest ==
  \A p \in Pools :
    /\ (states[p] = Unseen) <=> (newest[p] = NoTime)
    /\ states[p].time <= newest[p]
    /\ states[p] # Unseen =>
         /\ Second(states[p].time) = Second(newest[p])
         /\ states[p].time % 2 = newest[p] % 2 => states[p].time = newest[p]

\* A running process has every pending job of the database on its heap, those
\* scheduled by processes before it included, and no other.
PendingIsQueued ==
  pc = "up" => heap = DOMAIN live.jobs \ DOMAIN live.snapshots

\* What has been committed about a launch, its targets and its outcomes is
\* final: no later create, crash or second capture changes it.
Extends(f, g) == DOMAIN f \subseteq DOMAIN g /\ \A x \in DOMAIN f : g[x] = f[x]
RecordsAreFinal ==
  [][/\ Extends(disk.launches, disk'.launches)
     /\ Extends(disk.jobs, disk'.jobs)
     /\ Extends(disk.snapshots, disk'.snapshots)]_disk
=============================================================================
