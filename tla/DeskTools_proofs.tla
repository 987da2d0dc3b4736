---------------------------- MODULE DeskTools_proofs ----------------------------
(***************************************************************************)
(* What the locks, the files and the remote branch of the desk's smaller    *)
(* tools are worth, for every number of programs, files and runs: the Dune  *)
(* query, the scan of disclosures, the synchronisation of the journal, and  *)
(* the forward tracker of options.                                          *)
(***************************************************************************)
EXTENDS DeskTools, EntryZoneMonitor_proofs, TLAPS

------------------------------------------------------------------------------
(***************************************************************************)
(* The Dune query.                                                          *)
(***************************************************************************)
\* A caller that is called knows what it asks for, and one between flock and
\* the end of the with statement owns the lock of its output.
LockInv ==
  \A c \in Callers :
    /\ at[c] # "idle" => request[c] \in Request
    /\ at[c] \in Holding => lock[request[c].output] = c

\* What the preflight and the look at the file have found is still so when the
\* query is executed.
ClearedInv ==
  \A c \in Callers :
    at[c] = "cleared" => ~FromCache(c) /\ Allowed(request[c].budget)

\* A command that has outlived its caller was cleared as well.
OrphansInv ==
  \A c \in Callers : orphans[c] # NoBudget => Allowed(orphans[c])

DuneInv == DuneTypeOK /\ LockInv /\ ClearedInv /\ OrphansInv /\ SpendIsBounded

-----------------------------------------------------------------------------
LEMMA DuneInitInv == ASSUME DuneInit PROVE DuneInv
<1>1. NoBudget \in Budget /\ NoFile \in Cached
  BY DEF NoBudget, Budget, NoFile, Cached
<1>2. DuneTypeOK
  BY <1>1 DEF DuneInit, DuneTypeOK, Places
<1>3. LockInv /\ ClearedInv /\ OrphansInv
  BY DEF DuneInit, LockInv, ClearedInv, OrphansInv, Holding
<1>4. SpendIsBounded
  BY CreditsAssumption DEF DuneInit, SpendIsBounded
<1>. QED BY <1>2, <1>3, <1>4 DEF DuneInv

\* Only the holder of a lock changes the file, so a step of one caller leaves
\* the others as they were.
LEMMA TickKeepsInv == ASSUME DuneInv, Tick PROVE DuneInv'
BY DEF DuneInv, DuneTypeOK, LockInv, ClearedInv, OrphansInv, SpendIsBounded, Tick,
       FromCache, Exists, Allowed

LEMMA ReadAccountKeepsInv == ASSUME DuneInv, ReadAccount PROVE DuneInv'
<1>1. budget' \in Budget
  <2>. PICK q \in Queries, e \in Estimates :
         budget' = [query |-> q, observed |-> clock, used |-> used, estimate |-> e]
    BY DEF ReadAccount
  <2>. QED BY CreditsAssumption DEF DuneInv, DuneTypeOK, Budget
<1>. QED
  BY <1>1 DEF DuneInv, DuneTypeOK, LockInv, ClearedInv, OrphansInv, SpendIsBounded,
              ReadAccount, FromCache, Exists, Allowed

LEMMA CallKeepsInv ==
  ASSUME DuneInv, NEW c \in Callers, Call(c) PROVE DuneInv'
<1>. PICK o \in Outputs, q \in Queries, force \in BOOLEAN :
       request' = [request EXCEPT ![c] =
                     [output |-> o, query |-> q, force |-> force, budget |-> budget]]
  BY DEF Call
<1>1. request'[c] \in Request
  BY DEF DuneInv, DuneTypeOK, Request
<1>2. DuneTypeOK'
  BY <1>1 DEF DuneInv, DuneTypeOK, Call, Places
<1>3. LockInv'
  BY <1>1 DEF DuneInv, DuneTypeOK, LockInv, Call, Holding
<1>4. ClearedInv'
  BY DEF DuneInv, DuneTypeOK, ClearedInv, Call, FromCache, Exists, Allowed
<1>. QED BY <1>2, <1>3, <1>4 DEF DuneInv, OrphansInv, SpendIsBounded, Call,
                                 Allowed

LEMMA LockKeepsInv ==
  ASSUME DuneInv, NEW c \in Callers, Lock(c) PROVE DuneInv'
<1>1. request[c] \in Request /\ request[c].output \in Outputs
  BY DEF DuneInv, LockInv, Lock, Request
<1>2. DuneTypeOK'
  BY <1>1 DEF DuneInv, DuneTypeOK, Lock, Places
<1>3. LockInv'
  BY <1>1, NobodyAssumption DEF DuneInv, DuneTypeOK, LockInv, Lock, Holding
<1>4. ClearedInv'
  BY DEF DuneInv, DuneTypeOK, ClearedInv, Lock, FromCache, Exists, Allowed
<1>. QED BY <1>2, <1>3, <1>4 DEF DuneInv, OrphansInv, SpendIsBounded, Lock,
                                 Allowed

LEMMA ReleaseKeepsInv ==
  ASSUME DuneInv, NEW c \in Callers, Release(c),
         UNCHANGED <<clock, budget, cache, used, executions, orphans, outdated>>
  PROVE  DuneInv'
<1>1. DuneTypeOK'
  BY DEF DuneInv, DuneTypeOK, Release, Places
<1>2. LockInv'
  BY DEF DuneInv, DuneTypeOK, LockInv, Release, Holding, Request
<1>3. ClearedInv'
  BY DEF DuneInv, DuneTypeOK, ClearedInv, Release, FromCache, Exists, Allowed
<1>. QED BY <1>1, <1>2, <1>3 DEF DuneInv, OrphansInv, SpendIsBounded, Allowed

LEMMA ClearKeepsInv ==
  ASSUME DuneInv, NEW c \in Callers, Clear(c) PROVE DuneInv'
<1>1. DuneTypeOK'
  BY DEF DuneInv, DuneTypeOK, Clear, Places
<1>2. LockInv'
  BY DEF DuneInv, DuneTypeOK, LockInv, Clear, Holding
<1>3. ClearedInv'
  BY DEF DuneInv, DuneTypeOK, ClearedInv, Clear, Cleared, FromCache, Exists, Allowed
<1>. QED BY <1>1, <1>2, <1>3 DEF DuneInv, OrphansInv, SpendIsBounded, Clear,
                                 Allowed

\* The charge is at most the estimate.  On a reading that is not outdated the
\* account stays under both limits; on an outdated one it goes up by at most
\* HardStop, and so does the bound.
LEMMA ChargeKeepsBound ==
  ASSUME DuneTypeOK, SpendIsBounded, NEW b \in Budget, Allowed(b), Charge(b)
  PROVE  /\ SpendIsBounded'
         /\ used' \in Nat /\ executions' \in Nat /\ outdated' \in Nat
<1>1. PICK cost \in 0 .. b.estimate : used' = used + cost
  BY DEF Charge
<1>2. used \in Nat /\ outdated \in Nat /\ cost \in Nat /\ b.estimate \in Nat
      /\ b.used \in Nat
  BY DEF DuneTypeOK, Budget
<1>3. used' \in Nat /\ outdated' \in Nat /\ executions' \in Nat
  BY <1>1, <1>2 DEF DuneTypeOK, Charge
<1>4. outdated * HardStop \in Nat
  BY <1>2, CreditsAssumption
<1>5. CASE b.used = used
  <2>1. used' <= CheckpointCap /\ used' <= Included
    BY <1>1, <1>2, <1>5, CreditsAssumption DEF Allowed
  <2>2. outdated' = outdated
    BY <1>5 DEF Charge
  <2>3. SpendIsBounded'
    BY <1>3, <1>4, <2>1, <2>2, CreditsAssumption DEF SpendIsBounded
  <2>. QED BY <1>3, <2>3
<1>6. CASE b.used # used
  <2>1. outdated' * HardStop = outdated * HardStop + HardStop
    BY <1>2, <1>6, CreditsAssumption DEF Charge
  <2>2. used' <= used + HardStop
    BY <1>1, <1>2, CreditsAssumption DEF Allowed
  <2>3. used <= CheckpointCap + outdated * HardStop
        /\ used <= Included + outdated * HardStop
    BY DEF SpendIsBounded
  <2>4. SpendIsBounded'
    <3>1. \A m, n, u, v, h \in Int : u <= m + n /\ v <= u + h => v <= m + (n + h)
      OBVIOUS
    <3>2. /\ used \in Int /\ used' \in Int /\ outdated * HardStop \in Int
          /\ CheckpointCap \in Int /\ Included \in Int /\ HardStop \in Int
      BY <1>2, <1>3, <1>4, CreditsAssumption
    <3>3. /\ used' <= CheckpointCap + (outdated * HardStop + HardStop)
          /\ used' <= Included + (outdated * HardStop + HardStop)
      BY <2>2, <2>3, <3>1, <3>2
    <3>. QED BY <2>1, <3>3 DEF SpendIsBounded
  <2>. QED BY <1>3, <2>4
<1>. QED BY <1>5, <1>6

LEMMA ExecuteKeepsInv ==
  ASSUME DuneInv, NEW c \in Callers, Execute(c) PROVE DuneInv'
<1>1. request[c].budget \in Budget /\ Allowed(request[c].budget)
  BY DEF DuneInv, LockInv, ClearedInv, Execute, Request
<1>2. /\ SpendIsBounded'
      /\ used' \in Nat /\ executions' \in Nat /\ outdated' \in Nat
  BY <1>1, ChargeKeepsBound DEF DuneInv, Execute
<1>3. DuneTypeOK'
  BY <1>2 DEF DuneInv, DuneTypeOK, Execute, Places
<1>4. LockInv'
  BY DEF DuneInv, DuneTypeOK, LockInv, Execute, Holding
<1>5. ClearedInv' /\ OrphansInv'
  BY DEF DuneInv, DuneTypeOK, ClearedInv, OrphansInv, Execute, FromCache, Exists, Allowed
<1>. QED BY <1>2, <1>3, <1>4, <1>5 DEF DuneInv

LEMMA KillKeepsInv ==
  ASSUME DuneInv, NEW c \in Callers, KillBeforeCharge(c) PROVE DuneInv'
<1>1. request[c].budget \in Budget /\ Allowed(request[c].budget)
  BY DEF DuneInv, LockInv, ClearedInv, KillBeforeCharge, Request
<1>2. DuneTypeOK'
  BY <1>1 DEF DuneInv, DuneTypeOK, KillBeforeCharge, Release, Places
<1>3. LockInv'
  BY DEF DuneInv, DuneTypeOK, LockInv, KillBeforeCharge, Release, Holding, Request
<1>4. ClearedInv'
  BY DEF DuneInv, DuneTypeOK, ClearedInv, KillBeforeCharge, Release, FromCache, Exists,
         Allowed
<1>5. OrphansInv'
  BY <1>1 DEF DuneInv, DuneTypeOK, OrphansInv, KillBeforeCharge, Allowed
<1>. QED BY <1>2, <1>3, <1>4, <1>5 DEF DuneInv, SpendIsBounded, KillBeforeCharge

LEMMA ExecuteOrphanKeepsInv ==
  ASSUME DuneInv, NEW c \in Callers, ExecuteOrphan(c) PROVE DuneInv'
<1>1. orphans[c] \in Budget /\ Allowed(orphans[c])
  BY DEF DuneInv, DuneTypeOK, OrphansInv, ExecuteOrphan
<1>2. /\ SpendIsBounded'
      /\ used' \in Nat /\ executions' \in Nat /\ outdated' \in Nat
  BY <1>1, ChargeKeepsBound DEF DuneInv, ExecuteOrphan
<1>3. DuneTypeOK'
  <2>1. NoBudget \in Budget
    BY DEF NoBudget, Budget
  <2>. QED BY <1>2, <2>1 DEF DuneInv, DuneTypeOK, ExecuteOrphan
<1>4. LockInv' /\ ClearedInv'
  BY DEF DuneInv, LockInv, ClearedInv, ExecuteOrphan, FromCache, Exists, Allowed
<1>5. OrphansInv'
  BY DEF DuneInv, DuneTypeOK, OrphansInv, ExecuteOrphan, Allowed
<1>. QED BY <1>2, <1>3, <1>4, <1>5 DEF DuneInv

LEMMA WriteKeepsInv ==
  ASSUME DuneInv, NEW c \in Callers, Write(c) PROVE DuneInv'
<1>1. request[c] \in Request /\ lock[request[c].output] = c
  BY DEF DuneInv, LockInv, Write, Holding
<1>2. cache' = [cache EXCEPT ![request[c].output] =
                  [query |-> request[c].query, fetched |-> clock]]
  BY DEF Write
<1>3. DuneTypeOK'
  <2>1. [query |-> request[c].query, fetched |-> clock] \in Cached
    BY <1>1 DEF DuneInv, DuneTypeOK, Request, Cached
  <2>2. cache' \in [Outputs -> Cached]
    BY <1>2, <2>1 DEF DuneInv, DuneTypeOK
  <2>. QED BY <2>2 DEF DuneInv, DuneTypeOK, Write, Release, Places
<1>4. LockInv'
  BY DEF DuneInv, DuneTypeOK, LockInv, Write, Release, Holding, Request
<1>5. ClearedInv'
  <2>. SUFFICES ASSUME NEW d \in Callers, at'[d] = "cleared"
                PROVE  ~FromCache(d)' /\ Allowed(request'[d].budget)
    BY DEF ClearedInv, Allowed
  <2>1. d # c /\ at[d] = "cleared" /\ request'[d] = request[d]
    BY DEF DuneInv, DuneTypeOK, Write, Release
  <2>2. request[d].output # request[c].output
    BY <1>1, <2>1 DEF DuneInv, LockInv, Holding
  <2>3. cache'[request[d].output] = cache[request[d].output]
    BY <1>2, <2>1, <2>2 DEF DuneInv, DuneTypeOK, LockInv, Request
  <2>. QED BY <2>1, <2>3 DEF DuneInv, ClearedInv, FromCache, Exists
<1>. QED BY <1>3, <1>4, <1>5 DEF DuneInv, OrphansInv, SpendIsBounded, Write, Allowed

LEMMA DuneNextKeepsInv == ASSUME DuneInv, [DuneNext]_duneVars PROVE DuneInv'
<1>1. CASE Tick
  BY <1>1, TickKeepsInv
<1>2. CASE ReadAccount
  BY <1>2, ReadAccountKeepsInv
<1>3. ASSUME NEW c \in Callers,
             Call(c) \/ Lock(c) \/ AnswerFromCache(c) \/ Refuse(c) \/ Clear(c)
             \/ Execute(c) \/ Write(c) \/ Fail(c) \/ KillBeforeCharge(c) \/ ExecuteOrphan(c)
      PROVE  DuneInv'
  <2>1. CASE Call(c)
    BY <2>1, CallKeepsInv
  <2>2. CASE Lock(c)
    BY <2>2, LockKeepsInv
  <2>3. CASE AnswerFromCache(c) \/ Refuse(c) \/ Fail(c)
    <3>1. Release(c) /\ UNCHANGED <<clock, budget, cache, used, executions, orphans, outdated>>
      BY <2>3 DEF AnswerFromCache, Refuse, Fail
    <3>. QED BY <3>1, ReleaseKeepsInv
  <2>4. CASE Clear(c)
    BY <2>4, ClearKeepsInv
  <2>5. CASE Execute(c)
    BY <2>5, ExecuteKeepsInv
  <2>6. CASE Write(c)
    BY <2>6, WriteKeepsInv
  <2>7. CASE KillBeforeCharge(c)
    BY <2>7, KillKeepsInv
  <2>8. CASE ExecuteOrphan(c)
    BY <2>8, ExecuteOrphanKeepsInv
  <2>. QED BY <1>3, <2>1, <2>2, <2>3, <2>4, <2>5, <2>6, <2>7, <2>8
<1>4. CASE UNCHANGED duneVars
  BY <1>4 DEF DuneInv, DuneTypeOK, LockInv, ClearedInv, OrphansInv, SpendIsBounded,
              FromCache, Exists, Allowed, duneVars
<1>. QED BY <1>1, <1>2, <1>3, <1>4 DEF DuneNext

\* The invariant of the lock and the preflight holds in every reachable state.
THEOREM DuneInvariance == DuneSpec => []DuneInv
<1>1. DuneInit => DuneInv
  BY DuneInitInv
<1>2. DuneInv /\ [DuneNext]_duneVars => DuneInv'
  BY DuneNextKeepsInv
<1>. QED BY <1>1, <1>2, PTL DEF DuneSpec

\* The variables keep their types.
THEOREM DuneTypeCorrect == DuneSpec => []DuneTypeOK
<1>1. DuneInv => DuneTypeOK
  BY DEF DuneInv
<1>. QED BY <1>1, DuneInvariance, PTL

\* Concurrent callers cannot double-spend: nobody pays for an output whose file
\* already holds rows, unless forced, for any number of callers.
THEOREM NothingIsPaidTwice == DuneSpec => NoDoubleSpend
<1>1. DuneInv =>
        [\A c \in Callers :
           at[c] = "cleared" /\ at'[c] = "paid" /\ Exists(c) => request[c].force]_duneVars
  BY DEF DuneInv, ClearedInv, FromCache
<1>. QED BY <1>1, DuneInvariance, PTL DEF NoDoubleSpend

\* What is used exceeds the cap and the included credits by at most one hard
\* stop per execution on an outdated reading, for all credits and estimates.
THEOREM SpendingIsBounded == DuneSpec => []SpendIsBounded
<1>1. DuneInv => SpendIsBounded
  BY DEF DuneInv
<1>. QED BY <1>1, DuneInvariance, PTL

------------------------------------------------------------------------------
(***************************************************************************)
(* The scan of disclosures.                                                 *)
(***************************************************************************)
\* A trade waits to be recorded only in a scan that has still to come to it,
\* and a row a scan is about to write keeps the status it read.
RecordingInv ==
  \A p \in Scanners :
    /\ step[p] \in {"idle", "fetching"} => todo[p] = {}
    /\ draft[p] # NoDraft =>
         draft[p].status = UpsertedStatus(draft[p].base, draft[p].event)

\* Every filing in the file, or in the store of a scan, was new to a scan.
FilingsWereFound ==
  /\ \A f \in seenFile : \E d \in found : FilingOf[d] = f
  /\ \A p \in Scanners : \A f \in seen[p] : \E d \in found : FilingOf[d] = f

\* A trade that was new to a scan is in the journal, or about to be, or lost in
\* one of the two ways.
TradesAreKept ==
  \A d \in found :
    \/ journal[d] # "absent"
    \/ \E p \in Scanners : d \in todo[p]
    \/ d \in cutShort \cup overwritten

ScanInv ==
  ScanTypeOK /\ RecordingInv /\ FilingsWereFound /\ TradesAreKept /\ ReviewsStand

LEMMA ScanInitInv == ASSUME ScanInit PROVE ScanInv
<1>1. ScanTypeOK
  BY DEF ScanInit, ScanTypeOK, NoEvents, Journals, Steps
<1>. QED BY <1>1 DEF ScanInit, ScanInv, RecordingInv, FilingsWereFound,
                     TradesAreKept, ReviewsStand, NoEvents

\* The status an upsert gives is one, and never that of a missing row.
LEMMA UpsertsAStatus ==
  ASSUME NEW old \in Journals, NEW d \in Disclosures
  PROVE  UpsertedStatus(old, d) \in Statuses
BY DEF UpsertedStatus, Journals, Statuses

LEMMA BeginKeepsInv ==
  ASSUME ScanInv, NEW p \in Scanners, BeginScan(p) PROVE ScanInv'
<1>. USE DEF ScanInv
<1>1. ScanTypeOK'
  BY ScanBoundsAssumption DEF ScanTypeOK, BeginScan, Steps, scanHistory
<1>2. RecordingInv' /\ TradesAreKept' /\ ReviewsStand'
  BY DEF BeginScan, scanHistory, RecordingInv, TradesAreKept, ReviewsStand, ScanTypeOK
<1>3. FilingsWereFound'
  BY DEF BeginScan, scanHistory, FilingsWereFound, ScanTypeOK
<1>. QED BY <1>1, <1>2, <1>3

LEMMA FetchKeepsInv ==
  ASSUME ScanInv, NEW p \in Scanners, Fetch(p) PROVE ScanInv'
<1>. USE DEF ScanInv
<1>1. PICK trades \in SUBSET Disclosures :
        /\ todo' = [todo EXCEPT ![p] = NewTrades(seen[p], trades)]
        /\ seen' = [seen EXCEPT ![p] = @ \cup {FilingOf[d] : d \in trades}]
        /\ found' = found \cup {d \in trades : FilingOf[d] \notin seen[p]}
  BY DEF Fetch
<1>2. /\ step[p] = "fetching" /\ seenFile' = {}
      /\ step' = [step EXCEPT ![p] = "savingSeen"]
      /\ UNCHANGED <<journal, draft, scans, marks, cutShort, overwritten, verdict>>
  BY DEF Fetch
<1>3. ScanTypeOK'
  BY <1>1, <1>2, FilingAssumption DEF ScanTypeOK, Steps, NewTrades
<1>4. RecordingInv'
  BY <1>1, <1>2 DEF RecordingInv, ScanTypeOK
<1>5. FilingsWereFound'
  BY <1>1, <1>2 DEF FilingsWereFound, ScanTypeOK
<1>6. TradesAreKept'
  <2>1. todo[p] = {}
    BY <1>2 DEF RecordingInv
  <2>. QED BY <1>1, <1>2, <2>1 DEF TradesAreKept, NewTrades, ScanTypeOK
<1>7. ReviewsStand'
  BY <1>2 DEF ReviewsStand
<1>. QED BY <1>3, <1>4, <1>5, <1>6, <1>7

LEMMA SaveSeenKeepsInv ==
  ASSUME ScanInv, NEW p \in Scanners, SaveSeen(p) PROVE ScanInv'
<1>. USE DEF ScanInv
<1>1. /\ seenFile' \in {seen[p], {}}
      /\ seen' = [seen EXCEPT ![p] = {}]
      /\ todo' = [todo EXCEPT ![p] = todo[p]]
      /\ step' = [step EXCEPT ![p] = IF todo[p] = {} THEN "idle" ELSE "recording"]
      /\ UNCHANGED <<journal, draft, scans, marks, found, cutShort, overwritten, verdict>>
  BY DEF SaveSeen, Continue, scanHistory
<1>2. ScanTypeOK'
  BY <1>1 DEF ScanTypeOK, Steps
<1>3. RecordingInv'
  BY <1>1 DEF RecordingInv, ScanTypeOK
<1>4. FilingsWereFound'
  BY <1>1 DEF FilingsWereFound, ScanTypeOK
<1>5. TradesAreKept' /\ ReviewsStand'
  BY <1>1 DEF TradesAreKept, ReviewsStand, ScanTypeOK
<1>. QED BY <1>2, <1>3, <1>4, <1>5

LEMMA LoadForUpsertKeepsInv ==
  ASSUME ScanInv, NEW p \in Scanners, LoadForUpsert(p) PROVE ScanInv'
<1>. USE DEF ScanInv
<1>1. PICK d \in todo[p] :
        draft' = [draft EXCEPT ![p] =
          [base |-> journal, event |-> d, status |-> UpsertedStatus(journal, d)]]
  BY DEF LoadForUpsert
<1>2. UNCHANGED <<seenFile, journal, step, seen, todo, scans, marks, found, cutShort,
                  overwritten, verdict>>
  BY DEF LoadForUpsert, scanHistory
<1>3. d \in Disclosures /\ journal \in Journals
  BY DEF ScanTypeOK
<1>4. [base |-> journal, event |-> d, status |-> UpsertedStatus(journal, d)] \in Drafts
  BY <1>3, UpsertsAStatus DEF Drafts
<1>5. ScanTypeOK'
  BY <1>1, <1>2, <1>4 DEF ScanTypeOK
<1>6. RecordingInv'
  BY <1>1, <1>2 DEF RecordingInv, ScanTypeOK
<1>7. FilingsWereFound' /\ TradesAreKept' /\ ReviewsStand'
  BY <1>2 DEF FilingsWereFound, TradesAreKept, ReviewsStand
<1>. QED BY <1>5, <1>6, <1>7

\* What the rewrite of a row does to the journal and to what was in it.
LEMMA ReplacesOneRow ==
  ASSUME ScanTypeOK, NEW row \in Drafts, ReplaceJournal(row)
  PROVE  /\ journal' \in Journals /\ overwritten' \subseteq Disclosures
         /\ overwritten \subseteq overwritten'
         /\ journal'[row.event] = row.status
         /\ \A d \in Disclosures \ {row.event} :
              journal'[d] = journal[d] \/ d \in overwritten'
         /\ row.base[row.event] = journal[row.event] \/ row.event \in overwritten'
BY DEF ScanTypeOK, ReplaceJournal, Drafts, Journals

LEMMA SaveUpsertKeepsInv ==
  ASSUME ScanInv, NEW p \in Scanners, SaveUpsert(p) PROVE ScanInv'
<1>. USE DEF ScanInv
<1>. DEFINE row == draft[p]
<1>1. row \in Drafts /\ row.status = UpsertedStatus(row.base, row.event)
  BY DEF SaveUpsert, ScanTypeOK, RecordingInv
<1>2. /\ todo' = [todo EXCEPT ![p] = @ \ {row.event}]
      /\ step' = [step EXCEPT ![p] = IF todo[p] \ {row.event} = {}
                                     THEN "idle" ELSE "recording"]
      /\ draft' = [draft EXCEPT ![p] = NoDraft]
      /\ UNCHANGED <<seenFile, seen, scans, marks, found, cutShort, verdict>>
  BY DEF SaveUpsert, Continue, ScanTypeOK
<1>3. /\ journal' \in Journals /\ overwritten' \subseteq Disclosures
      /\ overwritten \subseteq overwritten'
      /\ journal'[row.event] = row.status
      /\ \A d \in Disclosures \ {row.event} :
           journal'[d] = journal[d] \/ d \in overwritten'
      /\ row.base[row.event] = journal[row.event] \/ row.event \in overwritten'
  BY <1>1, ReplacesOneRow DEF SaveUpsert
<1>4. row.event \in Disclosures /\ row.base \in Journals /\ row.status \in Statuses
  BY <1>1 DEF Drafts
<1>. HIDE DEF row
<1>5. ScanTypeOK'
  BY <1>2, <1>3 DEF ScanTypeOK, Steps
<1>6. RecordingInv'
  BY <1>2 DEF RecordingInv, ScanTypeOK
<1>7. FilingsWereFound'
  BY <1>2 DEF FilingsWereFound
<1>8. TradesAreKept'
  <2>. SUFFICES ASSUME NEW d \in found
                PROVE  \/ journal'[d] # "absent"
                       \/ \E s \in Scanners : d \in todo'[s]
                       \/ d \in cutShort' \cup overwritten'
    BY <1>2 DEF TradesAreKept
  <2>1. CASE d = row.event
    BY <2>1, <1>3, <1>4 DEF Statuses
  <2>2. CASE d # row.event
    BY <2>2, <1>2, <1>3 DEF TradesAreKept, ScanTypeOK
  <2>. QED BY <2>1, <2>2
<1>9. ReviewsStand'
  <2>. SUFFICES ASSUME NEW d \in Disclosures, verdict[d] # "absent"
                PROVE  journal'[d] = verdict[d] \/ d \in overwritten'
    BY <1>2 DEF ReviewsStand
  <2>1. CASE d = row.event
    BY <2>1, <1>1, <1>3 DEF ReviewsStand, UpsertedStatus
  <2>2. CASE d # row.event
    BY <2>2, <1>3 DEF ReviewsStand
  <2>. QED BY <2>1, <2>2
<1>. QED BY <1>5, <1>6, <1>7, <1>8, <1>9

LEMMA EndScanKeepsInv ==
  ASSUME ScanInv, NEW p \in Scanners, EndScan(p) PROVE ScanInv'
<1>. USE DEF ScanInv
<1>1. ScanTypeOK'
  BY DEF EndScan, ScanTypeOK, Steps
<1>2. RecordingInv' /\ FilingsWereFound'
  BY DEF EndScan, ScanTypeOK, RecordingInv, FilingsWereFound
<1>3. TradesAreKept' /\ ReviewsStand'
  BY DEF EndScan, ScanTypeOK, TradesAreKept, ReviewsStand
<1>. QED BY <1>1, <1>2, <1>3

LEMMA LoadForMarkKeepsInv == ASSUME ScanInv, LoadForMark PROVE ScanInv'
<1>. USE DEF ScanInv
<1>1. PICK d \in Disclosures, s \in Verdicts :
        draft' = [draft EXCEPT ![Reviewer] = [base |-> journal, event |-> d, status |-> s]]
  BY DEF LoadForMark
<1>2. /\ marks' = marks + 1
      /\ UNCHANGED <<seenFile, journal, step, seen, todo, scans, found, cutShort,
                     overwritten, verdict>>
  BY DEF LoadForMark, scanHistory
<1>3. [base |-> journal, event |-> d, status |-> s] \in Drafts
  BY VerdictsAssumption DEF Drafts, ScanTypeOK
<1>4. ScanTypeOK'
  BY <1>1, <1>2, <1>3 DEF ScanTypeOK
<1>5. RecordingInv'
  BY <1>1, <1>2, ReviewerAssumption DEF RecordingInv, ScanTypeOK
<1>6. FilingsWereFound' /\ TradesAreKept' /\ ReviewsStand'
  BY <1>2 DEF FilingsWereFound, TradesAreKept, ReviewsStand
<1>. QED BY <1>4, <1>5, <1>6

LEMMA SaveMarkKeepsInv == ASSUME ScanInv, SaveMark PROVE ScanInv'
<1>. USE DEF ScanInv
<1>. DEFINE row == draft[Reviewer]
<1>1. row \in Drafts
  BY DEF SaveMark, ScanTypeOK
<1>2. /\ verdict' = [verdict EXCEPT ![row.event] = row.status]
      /\ draft' = [draft EXCEPT ![Reviewer] = NoDraft]
      /\ UNCHANGED <<seenFile, step, seen, todo, scans, marks, found, cutShort>>
  BY DEF SaveMark
<1>3. /\ journal' \in Journals /\ overwritten' \subseteq Disclosures
      /\ overwritten \subseteq overwritten'
      /\ journal'[row.event] = row.status
      /\ \A d \in Disclosures \ {row.event} :
           journal'[d] = journal[d] \/ d \in overwritten'
  BY <1>1, ReplacesOneRow DEF SaveMark
<1>4. row.event \in Disclosures /\ row.status \in Statuses
  BY <1>1 DEF Drafts
<1>. HIDE DEF row
<1>5. ScanTypeOK'
  BY <1>2, <1>3, <1>4 DEF ScanTypeOK, Journals
<1>6. RecordingInv' /\ FilingsWereFound'
  BY <1>2, ReviewerAssumption DEF RecordingInv, FilingsWereFound, ScanTypeOK
<1>7. TradesAreKept'
  BY <1>2, <1>3, <1>4 DEF TradesAreKept, ScanTypeOK, Statuses
<1>8. ReviewsStand'
  BY <1>2, <1>3, <1>4 DEF ReviewsStand, ScanTypeOK, Journals
<1>. QED BY <1>5, <1>6, <1>7, <1>8

LEMMA EndMarkKeepsInv == ASSUME ScanInv, EndMark PROVE ScanInv'
BY ReviewerAssumption
   DEF ScanInv, EndMark, scanHistory, ScanTypeOK, RecordingInv, FilingsWereFound,
       TradesAreKept, ReviewsStand

LEMMA ScanNextKeepsInv == ASSUME ScanInv, [ScanNext]_scanVars PROVE ScanInv'
<1>1. CASE LoadForMark
  BY <1>1, LoadForMarkKeepsInv
<1>2. CASE SaveMark
  BY <1>2, SaveMarkKeepsInv
<1>3. CASE EndMark
  BY <1>3, EndMarkKeepsInv
<1>4. ASSUME NEW p \in Scanners,
             \/ BeginScan(p) \/ Fetch(p) \/ SaveSeen(p) \/ LoadForUpsert(p)
             \/ SaveUpsert(p) \/ EndScan(p)
      PROVE  ScanInv'
  BY <1>4, BeginKeepsInv, FetchKeepsInv, SaveSeenKeepsInv, LoadForUpsertKeepsInv,
     SaveUpsertKeepsInv, EndScanKeepsInv
<1>5. CASE UNCHANGED scanVars
  BY <1>5 DEF ScanInv, ScanTypeOK, RecordingInv, FilingsWereFound, TradesAreKept,
              ReviewsStand, scanVars, scanHistory
<1>. QED BY <1>1, <1>2, <1>3, <1>4, <1>5 DEF ScanNext

\* The invariant of the scans and the journal holds in every reachable state.
THEOREM ScanInvariance == ScanSpec => []ScanInv
<1>1. ScanInit => ScanInv
  BY ScanInitInv
<1>2. ScanInv /\ [ScanNext]_scanVars => ScanInv'
  BY ScanNextKeepsInv
<1>. QED BY <1>1, <1>2, PTL DEF ScanSpec

\* The variables keep their types.
THEOREM ScanTypeCorrect == ScanSpec => []ScanTypeOK
<1>1. ScanInv => ScanTypeOK
  BY DEF ScanInv
<1>. QED BY <1>1, ScanInvariance, PTL

\* Disclosures do not disappear, but for a scan that ended before it recorded
\* them or a journal put back from an older copy, and a review stands until one
\* is put back, for any number of scans that observe the event again.
THEOREM DisclosuresAreKept == ScanSpec => []JournalKeeps
<1>1. ScanInv => SeenIsJournaled
  BY DEF ScanInv, FilingsWereFound, TradesAreKept, SeenIsJournaled
<1>2. ScanInv => ReviewsStand
  BY DEF ScanInv
<1>3. ScanInv => JournalKeeps
  BY <1>1, <1>2 DEF JournalKeeps
<1>. QED BY <1>3, ScanInvariance, PTL
------------------------------------------------------------------------------
(***************************************************************************)
(* The synchronisation of the trade journal.                                *)
(***************************************************************************)
\* The pages have a trade at most once, and a branch without commits none.
PagesInv ==
  /\ \A t \in Trades : wiki.entries[t] <= 1
  /\ wiki.commits = 0 => wiki = NoBranch

\* A trade is marked, or about to be, only when it is on the pages.
MarksInv ==
  /\ \A t \in Trades : tradeFile[t].synced => wiki.entries[t] = 1
  /\ \A p \in Syncers \cup {Editor} :
       fileEdit[p] # NoEdit /\ fileEdit[p].content.synced
         => wiki.entries[fileEdit[p].trade] = 1
  /\ \A p \in Syncers : phase[p] = "marking" =>
       \A t \in rows[p] : wiki.entries[t] = 1

\* A working copy that the remote would take has what the pages have, once, and
\* the trades of its sync.
ClonesInv ==
  \A p \in Syncers : phase[p] = "committed" =>
    /\ clone[p].commits <= wiki.commits
    /\ clone[p].commits = wiki.commits =>
         \A t \in Trades :
           /\ clone[p].entries[t] <= 1
           /\ wiki.entries[t] = 1 \/ t \in rows[p] => clone[p].entries[t] = 1

WikiInv == JournalTypeOK /\ PagesInv /\ MarksInv /\ ClonesInv

LEMMA JournalInitInv == ASSUME JournalInit PROVE WikiInv
<1>1. NoBranch \in Branches /\ NoTrade \in TradeFile
  BY DEF NoBranch, Branches, NoTrade, TradeFile
<1>2. JournalTypeOK
  BY <1>1 DEF JournalInit, JournalTypeOK, Phases
<1>3. PagesInv
  BY DEF JournalInit, PagesInv, NoBranch
<1>4. MarksInv /\ ClonesInv
  BY DEF JournalInit, MarksInv, ClonesInv, NoTrade
<1>. QED BY <1>2, <1>3, <1>4 DEF WikiInv

\* Steps that leave the pages and the working copies alone keep both invariants.
LEMMA PagesUntouched ==
  ASSUME PagesInv, ClonesInv, UNCHANGED <<wiki, clone, phase, rows>>
  PROVE  PagesInv' /\ ClonesInv'
BY DEF PagesInv, ClonesInv

LEMMA CreateTradeKeepsInv ==
  ASSUME WikiInv, NEW t \in Trades, CreateTrade(t) PROVE WikiInv'
<1>. USE DEF WikiInv
<1>1. JournalTypeOK'
  BY DEF CreateTrade, JournalTypeOK, TradeFile
<1>2. MarksInv'
  BY DEF CreateTrade, MarksInv, JournalTypeOK, TradeFile
<1>. QED BY <1>1, <1>2, PagesUntouched DEF CreateTrade

LEMMA LoadForUpdateKeepsInv ==
  ASSUME WikiInv, NEW t \in Trades, LoadForUpdate(t) PROVE WikiInv'
<1>. USE DEF WikiInv
<1>1. PICK status \in {tradeFile[t].status, "closed"} :
        fileEdit' = [fileEdit EXCEPT ![Editor] =
          [trade |-> t, content |-> [tradeFile[t] EXCEPT !.status = status]]]
  BY DEF LoadForUpdate
<1>2. UNCHANGED <<tradeFile, wiki, phase, rows, clone, syncs>> /\ updates' = updates + 1
  BY DEF LoadForUpdate
<1>. DEFINE content == [tradeFile[t] EXCEPT !.status = status]
<1>3. content \in TradeFile /\ content.synced = tradeFile[t].synced
  BY DEF JournalTypeOK, TradeFile
<1>4. [trade |-> t, content |-> content] \in FileEdits
  BY <1>3 DEF FileEdits
<1>. HIDE DEF content
<1>5. fileEdit' = [fileEdit EXCEPT ![Editor] = [trade |-> t, content |-> content]]
  BY <1>1 DEF content
<1>6. JournalTypeOK'
  BY <1>2, <1>4, <1>5 DEF JournalTypeOK
<1>7. MarksInv'
  <2>1. \A p \in Syncers \cup {Editor} :
          \/ fileEdit'[p] = fileEdit[p]
          \/ /\ fileEdit'[p].trade = t
             /\ fileEdit'[p].content.synced = tradeFile[t].synced
    BY <1>3, <1>5 DEF JournalTypeOK
  <2>. QED BY <1>2, <2>1 DEF MarksInv
<1>. QED BY <1>2, <1>6, <1>7, PagesUntouched

\* A file that is replaced by what a program was about to write.
LEMMA ReplacedFile ==
  ASSUME JournalTypeOK, MarksInv, NEW p \in Syncers \cup {Editor}, ReplaceFile(p),
         wiki' = wiki
  PROVE  /\ tradeFile' \in [Trades -> TradeFile]
         /\ fileEdit' \in [Syncers \cup {Editor} -> FileEdits \cup {NoEdit}]
         /\ \A t \in Trades : tradeFile'[t].synced => wiki'.entries[t] = 1
         /\ \A s \in Syncers \cup {Editor} :
              fileEdit'[s] # NoEdit /\ fileEdit'[s].content.synced
                => wiki'.entries[fileEdit'[s].trade] = 1
<1>1. fileEdit[p] \in FileEdits
  BY DEF ReplaceFile, JournalTypeOK
<1>2. fileEdit[p].trade \in Trades /\ fileEdit[p].content \in TradeFile
  BY <1>1 DEF FileEdits
<1>3. \A t \in Trades :
        \/ tradeFile'[t] = tradeFile[t]
        \/ (t = fileEdit[p].trade /\ tradeFile'[t] = fileEdit[p].content)
  BY DEF ReplaceFile, JournalTypeOK
<1>4. \A s \in Syncers \cup {Editor} : fileEdit'[s] \in {fileEdit[s], NoEdit}
  BY DEF ReplaceFile, JournalTypeOK
<1>. QED BY <1>2, <1>3, <1>4 DEF ReplaceFile, JournalTypeOK, MarksInv

LEMMA SaveUpdateKeepsInv == ASSUME WikiInv, SaveUpdate PROVE WikiInv'
<1>. USE DEF WikiInv
<1>1. JournalTypeOK'
  BY ReplacedFile DEF SaveUpdate, JournalTypeOK
<1>2. MarksInv'
  BY ReplacedFile DEF SaveUpdate, MarksInv
<1>. QED BY <1>1, <1>2, PagesUntouched DEF SaveUpdate

LEMMA EndUpdateKeepsInv == ASSUME WikiInv, EndUpdate PROVE WikiInv'
<1>. USE DEF WikiInv
<1>1. JournalTypeOK' /\ MarksInv'
  BY DEF EndUpdate, JournalTypeOK, MarksInv
<1>. QED BY <1>1, PagesUntouched DEF EndUpdate

LEMMA ListKeepsInv ==
  ASSUME WikiInv, NEW p \in Syncers, ListUnsynced(p) PROVE WikiInv'
<1>. USE DEF WikiInv
<1>1. JournalTypeOK'
  BY DEF ListUnsynced, JournalTypeOK, Phases
<1>2. PagesInv' /\ MarksInv' /\ ClonesInv'
  BY DEF ListUnsynced, JournalTypeOK, PagesInv, MarksInv, ClonesInv
<1>. QED BY <1>1, <1>2

\* A working copy at the remote's commit has the remote's pages.
LEMMA CommitKeepsInv ==
  ASSUME WikiInv, NEW p \in Syncers, CloneAndCommit(p) PROVE WikiInv'
<1>. USE DEF WikiInv
<1>1. PICK branch \in {wiki, NoBranch} :
        clone' = [clone EXCEPT ![p] =
          [branch EXCEPT !.entries = [t \in Trades |->
             IF t \in Unmarked(branch, rows[p]) THEN @[t] + 1 ELSE @[t]]]]
  BY DEF CloneAndCommit
<1>2. /\ phase[p] = "listed" /\ phase' = [phase EXCEPT ![p] = "committed"]
      /\ UNCHANGED <<tradeFile, wiki, rows, fileEdit, updates, syncs>>
  BY DEF CloneAndCommit
<1>3. branch \in Branches /\ branch.commits <= wiki.commits
  BY DEF JournalTypeOK, NoBranch, Branches
<1>4. branch.commits = wiki.commits => branch = wiki
  BY <1>3 DEF PagesInv, NoBranch
<1>5. /\ clone'[p] \in Branches /\ clone'[p].commits = branch.commits
      /\ \A t \in Trades : clone'[p].entries[t] =
           IF t \in Unmarked(branch, rows[p]) THEN branch.entries[t] + 1
                                              ELSE branch.entries[t]
  BY <1>1, <1>3 DEF JournalTypeOK, Branches
<1>6. \A s \in Syncers \ {p} : clone'[s] = clone[s] /\ phase'[s] = phase[s]
  BY <1>1, <1>2 DEF JournalTypeOK
<1>7. clone' \in [Syncers -> Branches]
  BY <1>1, <1>5, <1>6 DEF JournalTypeOK
<1>8. JournalTypeOK'
  BY <1>2, <1>7 DEF JournalTypeOK, Phases
<1>9. PagesInv' /\ MarksInv'
  BY <1>2 DEF PagesInv, MarksInv, JournalTypeOK
<1>10. ClonesInv'
  <2>1. ASSUME branch = wiki, NEW t \in Trades
        PROVE  /\ clone'[p].entries[t] <= 1
               /\ wiki.entries[t] = 1 \/ t \in rows[p] => clone'[p].entries[t] = 1
    <3>1. wiki.entries[t] \in Nat /\ wiki.entries[t] <= 1
      BY DEF JournalTypeOK, Branches, PagesInv
    <3>2. t \in Unmarked(branch, rows[p]) <=> t \in rows[p] /\ wiki.entries[t] = 0
      BY <2>1 DEF Unmarked
    <3>. QED BY <1>5, <2>1, <3>1, <3>2
  <2>. QED BY <1>2, <1>3, <1>4, <1>5, <1>6, <2>1 DEF ClonesInv
<1>. QED BY <1>8, <1>9, <1>10

\* An accepted push replaces the pages by a working copy that has every trade
\* they had, and leaves every other working copy behind.
LEMMA AcceptedPush ==
  ASSUME WikiInv, NEW p \in Syncers, phase[p] = "committed", Accepts(clone[p]),
         wiki' = [clone[p] EXCEPT !.commits = @ + 1]
  PROVE  /\ wiki' \in Branches /\ wiki'.commits = wiki.commits + 1
         /\ \A t \in Trades :
              /\ wiki'.entries[t] <= 1
              /\ wiki.entries[t] = 1 \/ t \in rows[p] => wiki'.entries[t] = 1
<1>1. clone[p] \in Branches /\ clone[p].commits = wiki.commits
  BY DEF WikiInv, JournalTypeOK, Accepts
<1>2. wiki' \in Branches /\ wiki'.commits = wiki.commits + 1
      /\ wiki'.entries = clone[p].entries
  BY <1>1 DEF Branches
<1>. QED BY <1>1, <1>2 DEF WikiInv, ClonesInv

LEMMA PushKeepsInv == ASSUME WikiInv, NEW p \in Syncers, Push(p) PROVE WikiInv'
<1>1. /\ wiki' \in Branches /\ wiki'.commits = wiki.commits + 1
      /\ \A t \in Trades :
           /\ wiki'.entries[t] <= 1
           /\ wiki.entries[t] = 1 \/ t \in rows[p] => wiki'.entries[t] = 1
  BY AcceptedPush DEF Push
<1>2. /\ clone' = [clone EXCEPT ![p] = NoBranch]
      /\ phase' = [phase EXCEPT ![p] = "marking"]
      /\ UNCHANGED <<tradeFile, rows, fileEdit, updates, syncs>>
  BY DEF Push
<1>3. wiki.commits \in Nat
  BY DEF WikiInv, JournalTypeOK, Branches
<1>. USE DEF WikiInv
<1>4. JournalTypeOK'
  BY <1>1, <1>2 DEF JournalTypeOK, Phases, NoBranch, Branches
<1>5. PagesInv'
  BY <1>1, <1>3 DEF PagesInv
<1>6. MarksInv'
  <2>1. \A s \in Syncers \cup {Editor} : fileEdit[s] # NoEdit => fileEdit[s].trade \in Trades
    BY DEF JournalTypeOK, FileEdits
  <2>2. \A s \in Syncers : rows[s] \subseteq Trades
    BY DEF JournalTypeOK
  <2>. QED BY <1>1, <1>2, <2>1, <2>2 DEF MarksInv, JournalTypeOK
<1>7. ClonesInv'
  <2>1. \A s \in Syncers : phase'[s] = "committed" =>
          clone'[s] = clone[s] /\ phase[s] = "committed" /\ clone[s].commits \in Nat
    BY <1>2 DEF JournalTypeOK, Branches
  <2>. QED BY <1>1, <1>3, <2>1 DEF ClonesInv
<1>. QED BY <1>4, <1>5, <1>6, <1>7

\* A sync that is over has no rows to mark, no working copy and no file to write.
LEMMA Left ==
  ASSUME JournalTypeOK, NEW p \in Syncers, Leave(p)
  PROVE  /\ phase' \in [Syncers -> Phases] /\ rows' \in [Syncers -> SUBSET Trades]
         /\ clone' \in [Syncers -> Branches]
         /\ fileEdit' \in [Syncers \cup {Editor} -> FileEdits \cup {NoEdit}]
         /\ \A s \in Syncers :
              \/ phase'[s] = "idle"
              \/ /\ phase'[s] = phase[s] /\ rows'[s] = rows[s]
                 /\ clone'[s] = clone[s]
         /\ \A s \in Syncers \cup {Editor} : fileEdit'[s] \in {fileEdit[s], NoEdit}
<1>1. NoBranch \in Branches
  BY DEF NoBranch, Branches
<1>. QED BY <1>1 DEF Leave, JournalTypeOK, Phases

LEMMA EndSyncKeepsInv == ASSUME WikiInv, NEW p \in Syncers, EndSync(p) PROVE WikiInv'
<1>. USE DEF WikiInv
<1>1. Leave(p) /\ UNCHANGED <<tradeFile, wiki, updates, syncs>>
  BY DEF EndSync, Leave
<1>2. JournalTypeOK'
  BY <1>1, Left DEF JournalTypeOK
<1>3. PagesInv' /\ MarksInv' /\ ClonesInv'
  BY <1>1, Left DEF PagesInv, MarksInv, ClonesInv
<1>. QED BY <1>2, <1>3

LEMMA LosePushKeepsInv == ASSUME WikiInv, NEW p \in Syncers, LosePush(p) PROVE WikiInv'
<1>1. /\ wiki' \in Branches /\ wiki'.commits = wiki.commits + 1
      /\ \A t \in Trades :
           /\ wiki'.entries[t] <= 1
           /\ wiki.entries[t] = 1 \/ t \in rows[p] => wiki'.entries[t] = 1
  BY AcceptedPush DEF LosePush
<1>2. Leave(p) /\ UNCHANGED <<tradeFile, updates, syncs>>
  BY DEF LosePush, Leave
<1>3. wiki.commits \in Nat
  BY DEF WikiInv, JournalTypeOK, Branches
<1>. USE DEF WikiInv
<1>4. JournalTypeOK'
  BY <1>1, <1>2, Left DEF JournalTypeOK
<1>5. PagesInv'
  BY <1>1, <1>3 DEF PagesInv
<1>6. MarksInv'
  <2>1. \A s \in Syncers \cup {Editor} : fileEdit[s] # NoEdit => fileEdit[s].trade \in Trades
    BY DEF JournalTypeOK, FileEdits
  <2>2. \A s \in Syncers : rows[s] \subseteq Trades
    BY DEF JournalTypeOK
  <2>. QED BY <1>1, <1>2, <2>1, <2>2, Left DEF MarksInv
<1>7. ClonesInv'
  <2>1. \A s \in Syncers : phase'[s] = "committed" =>
          clone'[s] = clone[s] /\ phase[s] = "committed" /\ clone[s].commits \in Nat
    BY <1>2, Left DEF JournalTypeOK, Branches
  <2>. QED BY <1>1, <1>3, <2>1 DEF ClonesInv
<1>. QED BY <1>4, <1>5, <1>6, <1>7

LEMMA LoadForSyncMarkKeepsInv ==
  ASSUME WikiInv, NEW p \in Syncers, LoadForSyncMark(p) PROVE WikiInv'
<1>. USE DEF WikiInv
<1>1. PICK t \in rows[p] :
        fileEdit' = [fileEdit EXCEPT ![p] =
          [trade |-> t, content |-> [tradeFile[t] EXCEPT !.synced = TRUE]]]
  BY DEF LoadForSyncMark
<1>2. /\ phase[p] = "marking"
      /\ UNCHANGED <<tradeFile, wiki, phase, rows, clone, updates, syncs>>
  BY DEF LoadForSyncMark
<1>3. t \in Trades /\ wiki.entries[t] = 1
  BY <1>2 DEF JournalTypeOK, MarksInv
<1>4. [tradeFile[t] EXCEPT !.synced = TRUE] \in TradeFile
  BY <1>3 DEF JournalTypeOK, TradeFile
<1>5. JournalTypeOK'
  BY <1>1, <1>2, <1>3, <1>4 DEF JournalTypeOK, FileEdits
<1>6. MarksInv'
  <2>1. \A s \in Syncers \cup {Editor} :
          fileEdit'[s] = fileEdit[s] \/ fileEdit'[s].trade = t
    BY <1>1 DEF JournalTypeOK
  <2>. QED BY <1>2, <1>3, <2>1 DEF MarksInv
<1>. QED BY <1>2, <1>5, <1>6, PagesUntouched

LEMMA SaveSyncMarkKeepsInv ==
  ASSUME WikiInv, NEW p \in Syncers, SaveSyncMark(p) PROVE WikiInv'
<1>. USE DEF WikiInv
<1>1. /\ ReplaceFile(p) /\ phase[p] = "marking"
      /\ rows' = [rows EXCEPT ![p] = @ \ {fileEdit[p].trade}]
      /\ phase' = [phase EXCEPT ![p] = IF rows'[p] = {} THEN "idle" ELSE "marking"]
      /\ UNCHANGED <<wiki, clone, updates, syncs>>
  BY DEF SaveSyncMark
<1>2. \A s \in Syncers :
        /\ rows'[s] \subseteq rows[s]
        /\ \/ (phase'[s] = phase[s] /\ rows'[s] = rows[s])
           \/ phase'[s] \in {"idle", "marking"}
        /\ phase'[s] = "marking" => phase[s] = "marking"
  BY <1>1 DEF JournalTypeOK
<1>3. JournalTypeOK'
  BY <1>1, ReplacedFile DEF JournalTypeOK, Phases
<1>4. MarksInv'
  BY <1>1, <1>2, ReplacedFile DEF MarksInv
<1>5. PagesInv' /\ ClonesInv'
  BY <1>1, <1>2 DEF PagesInv, ClonesInv
<1>. QED BY <1>3, <1>4, <1>5

LEMMA JournalNextKeepsInv == ASSUME WikiInv, [JournalNext]_journalVars PROVE WikiInv'
<1>1. CASE SaveUpdate
  BY <1>1, SaveUpdateKeepsInv
<1>2. CASE EndUpdate
  BY <1>2, EndUpdateKeepsInv
<1>3. ASSUME NEW t \in Trades, CreateTrade(t) \/ LoadForUpdate(t) PROVE WikiInv'
  BY <1>3, CreateTradeKeepsInv, LoadForUpdateKeepsInv
<1>4. ASSUME NEW p \in Syncers,
             \/ ListUnsynced(p) \/ CloneAndCommit(p) \/ Push(p) \/ LosePush(p)
             \/ LoadForSyncMark(p) \/ SaveSyncMark(p) \/ EndSync(p)
      PROVE  WikiInv'
  BY <1>4, ListKeepsInv, CommitKeepsInv, PushKeepsInv, LosePushKeepsInv,
     LoadForSyncMarkKeepsInv, SaveSyncMarkKeepsInv, EndSyncKeepsInv
<1>5. CASE UNCHANGED journalVars
  BY <1>5 DEF WikiInv, JournalTypeOK, PagesInv, MarksInv, ClonesInv, journalVars
<1>. QED BY <1>1, <1>2, <1>3, <1>4, <1>5 DEF JournalNext

\* The invariant of the journal and the wiki holds in every reachable state.
THEOREM JournalInvariance == JournalSpec => []WikiInv
<1>1. JournalInit => WikiInv
  BY JournalInitInv
<1>2. WikiInv /\ [JournalNext]_journalVars => WikiInv'
  BY JournalNextKeepsInv
<1>. QED BY <1>1, <1>2, PTL DEF JournalSpec

\* The variables keep their types.
THEOREM JournalTypeCorrect == JournalSpec => []JournalTypeOK
<1>1. WikiInv => JournalTypeOK
  BY DEF WikiInv
<1>. QED BY <1>1, JournalInvariance, PTL

\* Syncs are idempotent, for any number of syncs and trades: the pages have no
\* trade twice, and every trade whose file says so once.
THEOREM SyncsAreIdempotent == JournalSpec => []SyncedOnce
<1>1. WikiInv => SyncedOnce
  BY DEF WikiInv, PagesInv, MarksInv, SyncedOnce
<1>. QED BY <1>1, JournalInvariance, PTL

------------------------------------------------------------------------------
(***************************************************************************)
(* The forward tracker of option recommendations.                           *)
(***************************************************************************)
\* Every mark that was made is one of these.
Made == log \cup cut \cup UNION {out[p] : p \in Markers}

\* Rows with ids of their own that were given out, and with marks of their own
\* that were made.
Sound(rs, last, made) ==
  \A r \in rs :
    /\ \A s \in rs : s.id = r.id => s = r
    /\ r.id.number <= last
    /\ \A m \in r.marks : m.id = r.id /\ m \in made

\* Where rows stand, and of which day they are.
RowsInv ==
  /\ \A d \in Days :
       /\ dayFile[d].form # "whole" => dayFile[d].rows = {}
       /\ \A r \in dayFile[d].rows : r.id.day = d
       /\ Sound(dayFile[d].rows, recordings, Made)
  /\ \A p \in TrackPrograms :
       /\ place[p] \notin {"holding", "writing"} => copy[p] = NoDayCopy
       /\ \A r \in copy[p].rows : r.id.day = copy[p].day
       /\ Sound(copy[p].rows, recordings, Made)
  /\ \A p \in Markers : Sound(held[p], recordings, Made)
  /\ \A m \in Made : m.id.number <= recordings

\* What a marking run holds at each place.
RunFits(spot, holds, reads, made, writes, run) ==
  /\ spot = "idle" => holds = {}
  /\ spot # "reading" => reads = {}
  /\ spot \in {"idle", "reading"} => made = {}
  /\ spot \in {"holding", "writing"} => OfDay(holds, writes.day) # {}
  /\ \A h \in holds : h.id.day \notin reads
  /\ \A m \in made : m.run = run
  /\ \A m \in made, h \in holds : h.id = m.id => m \in h.marks

PlaceInv ==
  /\ \A p \in Recorders : place[p] \in {"idle", "holding", "writing"}
  /\ \A p \in Markers :
       RunFits(place[p], held[p], toRead[p], out[p], copy[p], order[p].run)

\* A file that is being written is empty, and a copy has what was recorded,
\* unless two programs have met at it, one has died in it, or one that will is
\* writing it.
CopyInv ==
  \A p \in TrackPrograms :
    place[p] \in {"holding", "writing"} /\ copy[p].day \notin contended \cup tornDays =>
      LET d == copy[p].day IN
      /\ place[p] = "writing" => dayFile[d] = TornFile
      /\ \/ \E q \in TrackPrograms \ {p} : place[q] = "writing" /\ copy[q].day = d
         \/ \A id \in known : id.day = d => \E r \in copy[p].rows : r.id = id

\* The rows a run holds of a file nobody else has written are those of the file.
HeldInv ==
  \A p \in Markers : \A h \in held[p] :
    h.id.day \notin contended =>
      LET d == h.id.day IN
      /\ place[p] = "reading" => h \in dayFile[d].rows
      /\ place[p] \in {"holding", "writing"} /\ copy[p].day = d => h \in copy[p].rows
      /\ place[p] # "reading" /\ ~(place[p] = "writing" /\ copy[p].day = d) =>
           \E r \in dayFile[d].rows : r.id = h.id /\ h = MarkedRow(r, order[p])

\* The marks whose rows the run has written.
Settled ==
  log \cup UNION {{m \in out[p] : \A h \in held[p] : h.id # m.id} : p \in Markers}

Exempt(id) == id.day \in contended \/ id \in reset

SettledInv ==
  \A m \in Settled :
    ~Exempt(m.id) =>
      /\ \A r \in dayFile[m.id.day].rows : r.id = m.id => m \in r.marks
      /\ \A p \in TrackPrograms : \A r \in copy[p].rows : r.id = m.id => m \in r.marks
      /\ \A n \in log \cup UNION {out[p] : p \in Markers} :
           n.id = m.id /\ n.offset = m.offset => n = m

TrackInv ==
  /\ TrackTypeOK /\ RowsInv /\ PlaceInv /\ CopyInv /\ RecommendationsStay
  /\ HeldInv /\ SettledInv

LEMMA SoundIsMonotone ==
  ASSUME NEW rs, NEW n \in Nat, NEW k \in Nat, n <= k, NEW made, NEW more, made \subseteq more,
         rs \subseteq Rows, Sound(rs, n, made)
  PROVE  Sound(rs, k, more)
BY DEF Sound, Rows, Ids

LEMMA SoundParts ==
  ASSUME NEW rs, NEW n, NEW made, Sound(rs, n, made), NEW ss, ss \subseteq rs
  PROVE  Sound(ss, n, made)
BY DEF Sound

LEMMA TrackInitInv == ASSUME TrackInit PROVE TrackInv
<1>1. TrackTypeOK
  <2>1. NoOrder \in Orders
    BY ExitsAssumption, OffsetsAssumption DEF NoOrder, Orders
  <2>2. 0 \in Days /\ AbsentFile \in DayFiles /\ NoDayCopy \in Copies
    BY TrackBoundsAssumption DEF Days, AbsentFile, DayFiles, NoDayCopy, Copies
  <2>. QED BY <2>1, <2>2 DEF TrackInit, TrackTypeOK, TrackPlaces
<1>2. RowsInv
  BY DEF TrackInit, RowsInv, AbsentFile, NoDayCopy, Sound, Made
<1>3. PlaceInv
  BY DEF TrackInit, PlaceInv, RunFits, TrackPrograms
<1>4. CopyInv /\ RecommendationsStay /\ HeldInv
  BY DEF TrackInit, CopyInv, RecommendationsStay, HeldInv
<1>5. SettledInv
  BY DEF TrackInit, SettledInv, Settled
<1>. QED BY <1>1, <1>2, <1>3, <1>4, <1>5 DEF TrackInv

\* The invariant but for the types does not speak of the day it is.
LEMMA InvWithoutToday ==
  ASSUME TrackInv,
         UNCHANGED <<dayFile, log, place, copy, order, toRead, held, out, recordings,
                     markings, trackHistory>>
  PROVE  RowsInv' /\ PlaceInv' /\ CopyInv' /\ RecommendationsStay' /\ HeldInv' /\ SettledInv'
<1>. USE DEF TrackInv, trackHistory
<1>1. Made' = Made /\ Settled' = Settled /\ recordings' = recordings
  BY DEF Made, Settled
<1>2. RowsInv'
  BY <1>1 DEF RowsInv
<1>3. PlaceInv'
  BY DEF PlaceInv
<1>4. CopyInv' /\ RecommendationsStay'
  BY DEF CopyInv, RecommendationsStay, BeingWritten
<1>5. HeldInv'
  BY DEF HeldInv
<1>6. SettledInv'
  BY <1>1 DEF SettledInv, Exempt
<1>. QED BY <1>2, <1>3, <1>4, <1>5, <1>6

LEMMA StutterKeepsTrackInv == ASSUME TrackInv, UNCHANGED trackVars PROVE TrackInv'
<1>1. TrackTypeOK'
  BY DEF TrackInv, trackVars, trackHistory, TrackTypeOK
<1>. QED BY <1>1, InvWithoutToday DEF TrackInv, trackVars

LEMMA MidnightKeepsInv == ASSUME TrackInv, Midnight PROVE TrackInv'
<1>1. TrackTypeOK'
  BY TrackBoundsAssumption DEF TrackInv, Midnight, TrackTypeOK, Days, trackHistory
<1>. QED BY <1>1, InvWithoutToday DEF TrackInv, Midnight

LEMMA BeginMarkingKeepsInv ==
  ASSUME TrackInv, NEW p \in Markers, BeginMarking(p) PROVE TrackInv'
<1>. USE DEF TrackInv
<1>1. PICK o \in Orders : order' = [order EXCEPT ![p] = o]
  <2>1. PICK exit \in Exits, offsets \in OffsetLists :
          order' = [order EXCEPT ![p] =
                      [run |-> markings', exit |-> exit, offsets |-> offsets]]
    BY DEF BeginMarking
  <2>2. markings' \in Nat
    BY DEF BeginMarking, TrackTypeOK
  <2>. QED BY <2>1, <2>2 DEF Orders
<1>2. /\ place[p] = "idle" /\ place' = [place EXCEPT ![p] = "reading"]
      /\ markings' = markings + 1
      /\ toRead' = [toRead EXCEPT ![p] =
                      {d \in Days : dayFile[d].form # "absent" /\ d + MarkAge >= today}]
      /\ UNCHANGED <<today, dayFile, log, copy, held, out, recordings, known, reset,
                     contended, tornDays, cut>>
  BY DEF BeginMarking, trackHistory
<1>3. held[p] = {} /\ out[p] = {} /\ p \in TrackPrograms
  BY <1>2 DEF PlaceInv, RunFits, TrackPrograms
<1>4. TrackTypeOK'
  BY <1>1, <1>2, <1>3 DEF TrackTypeOK, TrackPlaces
<1>5. RowsInv'
  <2>1. Made' = Made
    BY <1>2 DEF Made
  <2>. QED BY <1>2, <1>3, <2>1 DEF RowsInv, TrackTypeOK
<1>6. PlaceInv'
  <2>1. /\ place'[p] = "reading" /\ held'[p] = {} /\ out'[p] = {}
        /\ \A q \in TrackPrograms : q # p => place'[q] = place[q]
        /\ \A q \in Markers : q # p => toRead'[q] = toRead[q] /\ order'[q] = order[q]
    BY <1>1, <1>2, <1>3 DEF TrackTypeOK
  <2>. QED BY <1>2, <2>1, ProgramsAssumption DEF PlaceInv, RunFits, TrackPrograms
<1>7. CopyInv' /\ RecommendationsStay'
  BY <1>2, <1>3 DEF CopyInv, RecommendationsStay, BeingWritten, TrackTypeOK
<1>8. HeldInv'
  BY <1>1, <1>2, <1>3 DEF HeldInv, TrackTypeOK, TrackPrograms
<1>9. SettledInv'
  BY <1>2 DEF SettledInv, Settled, Exempt
<1>. QED BY <1>4, <1>5, <1>6, <1>7, <1>8, <1>9

LEMMA ReadDayKeepsInv ==
  ASSUME TrackInv, NEW p \in Markers, ReadDay(p) PROVE TrackInv'
<1>. USE DEF TrackInv
<1>1. PICK d \in toRead[p] :
        /\ toRead' = [toRead EXCEPT ![p] = @ \ {d}]
        /\ held' = [held EXCEPT ![p] = @ \cup {r \in dayFile[d].rows : r.open}]
  BY DEF ReadDay
<1>2. /\ place[p] = "reading"
      /\ UNCHANGED <<today, dayFile, log, place, copy, order, out, recordings, markings,
                     known, reset, contended, tornDays, cut>>
  BY DEF ReadDay, trackHistory
<1>3. /\ d \in Days /\ p \in TrackPrograms /\ out[p] = {}
      /\ \A h \in held[p] : h.id.day \notin toRead[p]
      /\ \A r \in dayFile[d].rows : r.id.day = d
  BY <1>2 DEF PlaceInv, RunFits, RowsInv, TrackTypeOK, TrackPrograms
<1>4. TrackTypeOK'
  BY <1>1, <1>2, <1>3 DEF TrackTypeOK, DayFiles
<1>5. RowsInv'
  <2>1. Sound(held'[p], recordings, Made)
    <3>1. Sound(held[p], recordings, Made) /\ Sound(dayFile[d].rows, recordings, Made)
      BY <1>3 DEF RowsInv
    <3>2. held'[p] = held[p] \cup {r \in dayFile[d].rows : r.open}
      BY <1>1 DEF TrackTypeOK
    <3>3. \A r \in held[p], s \in dayFile[d].rows : r.id # s.id
      BY <1>1, <1>3
    <3>. QED BY <3>1, <3>2, <3>3 DEF Sound
  <2>2. \A q \in Markers : q # p => held'[q] = held[q]
    BY <1>1 DEF TrackTypeOK
  <2>3. Made' = Made
    BY <1>2 DEF Made
  <2>. QED BY <1>2, <2>1, <2>2, <2>3 DEF RowsInv
<1>6. PlaceInv'
  BY <1>1, <1>2, <1>3 DEF PlaceInv, RunFits, TrackTypeOK
<1>7. CopyInv' /\ RecommendationsStay'
  BY <1>2 DEF CopyInv, RecommendationsStay, BeingWritten
<1>8. HeldInv'
  BY <1>1, <1>2, <1>3 DEF HeldInv, TrackTypeOK
<1>9. SettledInv'
  <2>1. Settled' = Settled
    BY <1>1, <1>2, <1>3 DEF Settled, TrackTypeOK
  <2>. QED BY <1>2, <2>1 DEF SettledInv, Exempt
<1>. QED BY <1>4, <1>5, <1>6, <1>7, <1>8, <1>9

\* A run adds marks of its own for offsets the row has no mark for.
LEMMA MarkedRowFacts ==
  ASSUME NEW r \in Rows, NEW o \in Orders
  PROVE  /\ NewMarks(r, o) \subseteq Marks
         /\ MarkedRow(r, o) \in Rows
         /\ MarkedRow(r, o).id = r.id
         /\ MarkedRow(r, o).marks = r.marks \cup NewMarks(r, o)
         /\ \A m \in NewMarks(r, o) :
              /\ m.id = r.id /\ m.run = o.run
              /\ \A n \in r.marks : n.offset # m.offset
<1>1. o.offsets \subseteq Offsets /\ o.run \in Nat /\ r.id \in Ids /\ r.marks \subseteq Marks
  BY OffsetsAssumption DEF Orders, Rows
<1>2. NewMarks(r, o) \subseteq Marks
  BY <1>1 DEF NewMarks, Marks
<1>3. \A m \in NewMarks(r, o) :
        m.id = r.id /\ m.run = o.run /\ \A n \in r.marks : n.offset # m.offset
  BY DEF NewMarks
<1>4. /\ MarkedRow(r, o) \in Rows
      /\ MarkedRow(r, o).id = r.id
      /\ MarkedRow(r, o).marks = r.marks \cup NewMarks(r, o)
  <2>. DEFINE all == r.marks \cup NewMarks(r, o)
            open == all = {} \/ \E k \in o.offsets : r.id.day + k > o.exit
  <2>1. MarkedRow(r, o) = [r EXCEPT !.marks = all, !.open = open]
    BY DEF MarkedRow
  <2>2. all \in SUBSET Marks /\ open \in BOOLEAN
    BY <1>1, <1>2
  <2>. HIDE DEF all, open
  <2>3. /\ MarkedRow(r, o) \in Rows
        /\ MarkedRow(r, o).id = r.id
        /\ MarkedRow(r, o).marks = all
    BY <2>1, <2>2 DEF Rows
  <2>. QED BY <2>3 DEF all
<1>. QED BY <1>2, <1>3, <1>4

LEMMA ReplayKeepsInv ==
  ASSUME TrackInv, NEW p \in Markers, Replay(p) PROVE TrackInv'
<1>. USE DEF TrackInv
<1>. DEFINE o == order[p]
            fresh == UNION {NewMarks(r, o) : r \in held[p]}
            marked == {MarkedRow(r, o) : r \in held[p]}
<1>1. /\ place[p] = "reading" /\ toRead[p] = {}
      /\ held' = [held EXCEPT ![p] = marked]
      /\ out' = [out EXCEPT ![p] = fresh]
      /\ place' = [place EXCEPT ![p] = IF held[p] = {} THEN "idle" ELSE "patching"]
      /\ UNCHANGED <<today, dayFile, log, copy, order, toRead, recordings, markings,
                     known, reset, contended, tornDays, cut>>
  BY DEF Replay, trackHistory, TrackTypeOK
<1>2. /\ p \in TrackPrograms /\ o \in Orders /\ out[p] = {}
      /\ held[p] \subseteq Rows
      /\ Sound(held[p], recordings, Made)
  BY <1>1 DEF PlaceInv, RunFits, RowsInv, TrackTypeOK, TrackPrograms
<1>3. \A r \in held[p] :
        /\ NewMarks(r, o) \subseteq Marks
        /\ MarkedRow(r, o) \in Rows
        /\ MarkedRow(r, o).id = r.id
        /\ MarkedRow(r, o).marks = r.marks \cup NewMarks(r, o)
        /\ \A m \in NewMarks(r, o) :
             /\ m.id = r.id /\ m.run = o.run
             /\ \A n \in r.marks : n.offset # m.offset
  BY <1>2, MarkedRowFacts
<1>4. fresh \subseteq Marks /\ marked \subseteq Rows
  BY <1>3
<1>5. /\ \A m \in fresh : \E r \in held[p] : m \in NewMarks(r, o)
      /\ \A r \in held[p] : NewMarks(r, o) \subseteq fresh
      /\ \A h \in marked : \E r \in held[p] : h = MarkedRow(r, o)
      /\ \A r \in held[p] : MarkedRow(r, o) \in marked
  OBVIOUS
<1>6. held[p] = {} => fresh = {} /\ marked = {}
  OBVIOUS
<1>. HIDE DEF o, fresh, marked
<1>7. TrackTypeOK'
  BY <1>1, <1>4 DEF TrackTypeOK, TrackPlaces
<1>8. /\ held'[p] = marked /\ out'[p] = fresh
      /\ \A q \in Markers : q # p => held'[q] = held[q] /\ out'[q] = out[q]
      /\ place'[p] \in {"idle", "patching"} /\ (place'[p] = "idle" <=> held[p] = {})
      /\ \A q \in TrackPrograms : q # p => place'[q] = place[q]
  BY <1>1, <1>2 DEF TrackTypeOK
<1>9. Made' = Made \cup fresh
  <2>1. Made \subseteq Made' /\ fresh \subseteq Made'
    BY <1>1, <1>2, <1>8 DEF Made
  <2>2. Made' \subseteq Made \cup fresh
    BY <1>1, <1>8 DEF Made
  <2>. QED BY <2>1, <2>2
<1>10. RowsInv'
  <2>1. Sound(marked, recordings, Made')
    <3>. SUFFICES ASSUME NEW h \in marked
         PROVE  /\ \A s \in marked : s.id = h.id => s = h
                /\ h.id.number <= recordings
                /\ \A m \in h.marks : m.id = h.id /\ m \in Made'
      BY DEF Sound
    <3>1. PICK r \in held[p] : h = MarkedRow(r, o)
      BY <1>5
    <3>2. \A s \in marked : s.id = h.id => s = h
      BY <3>1, <1>2, <1>3, <1>5 DEF Sound
    <3>. QED BY <3>1, <3>2, <1>2, <1>3, <1>5, <1>9 DEF Sound
  <2>2. \A rs \in SUBSET Rows : Sound(rs, recordings, Made) => Sound(rs, recordings, Made')
    BY <1>9, SoundIsMonotone DEF TrackTypeOK
  <2>3. \A m \in Made' : m.id.number <= recordings
    BY <1>2, <1>3, <1>5, <1>9 DEF RowsInv, Sound
  <2>4. /\ \A d \in Days : dayFile[d].rows \in SUBSET Rows
        /\ \A q \in TrackPrograms : copy[q].rows \in SUBSET Rows
        /\ \A q \in Markers : held[q] \in SUBSET Rows
    BY DEF TrackTypeOK, DayFiles, Copies
  <2>5. place'[p] \notin {"holding", "writing"} /\ place[p] \notin {"holding", "writing"}
    BY <1>1, <1>8
  <2>6. \A q \in Markers : Sound(held'[q], recordings', Made')
    BY <1>1, <1>8, <2>1, <2>2, <2>4 DEF RowsInv
  <2>7. \A d \in Days :
          /\ dayFile'[d].form # "whole" => dayFile'[d].rows = {}
          /\ \A r \in dayFile'[d].rows : r.id.day = d
          /\ Sound(dayFile'[d].rows, recordings', Made')
    BY <1>1, <2>2, <2>4 DEF RowsInv
  <2>8. \A q \in TrackPrograms :
          /\ place'[q] \notin {"holding", "writing"} => copy'[q] = NoDayCopy
          /\ \A r \in copy'[q].rows : r.id.day = copy'[q].day
          /\ Sound(copy'[q].rows, recordings', Made')
    BY <1>1, <1>8, <2>2, <2>4, <2>5 DEF RowsInv
  <2>. QED BY <1>1, <2>3, <2>6, <2>7, <2>8 DEF RowsInv
<1>11. PlaceInv'
  <2>1. \A m \in fresh, h \in marked : h.id = m.id => m \in h.marks
    <3>. SUFFICES ASSUME NEW m \in fresh, NEW h \in marked, h.id = m.id
                  PROVE  m \in h.marks
      OBVIOUS
    <3>1. PICK r \in held[p] : m \in NewMarks(r, o)
      BY <1>5
    <3>2. PICK s \in held[p] : h = MarkedRow(s, o)
      BY <1>5
    <3>3. r = s
      BY <3>1, <3>2, <1>2, <1>3 DEF Sound
    <3>. QED BY <3>1, <3>2, <3>3, <1>3
  <2>2. \A m \in fresh : m.run = order[p].run
    BY <1>3, <1>5 DEF o
  <2>3. place'[p] = "idle" => held'[p] = {} /\ out'[p] = {}
    BY <1>6, <1>8
  <2>4. \A q \in Recorders : place'[q] \in {"idle", "holding", "writing"}
    BY <1>8, ProgramsAssumption DEF PlaceInv, TrackPrograms
  <2>5. \A q \in Markers : q # p =>
          /\ place'[q] = place[q] /\ held'[q] = held[q] /\ toRead'[q] = toRead[q]
          /\ out'[q] = out[q] /\ order'[q] = order[q] /\ copy'[q] = copy[q]
    BY <1>1, <1>8 DEF TrackPrograms
  <2>6. toRead'[p] = {} /\ order'[p] = order[p] /\ place'[p] \in {"idle", "patching"}
    BY <1>1, <1>8
  <2>7. \A h \in held'[p] : h.id.day \notin toRead'[p]
    BY <2>6
  <2>8. /\ \A m \in out'[p] : m.run = order'[p].run
        /\ \A m \in out'[p], h \in held'[p] : h.id = m.id => m \in h.marks
    BY <1>8, <2>1, <2>2, <2>6
  <2>9. \A q \in Markers : q # p =>
          RunFits(place'[q], held'[q], toRead'[q], out'[q], copy'[q], order'[q].run)
    BY <2>5 DEF PlaceInv
  <2>10. RunFits(place'[p], held'[p], toRead'[p], out'[p], copy'[p], order'[p].run)
    BY <2>3, <2>6, <2>7, <2>8 DEF RunFits
  <2>. QED BY <2>4, <2>9, <2>10 DEF PlaceInv
<1>12. CopyInv' /\ RecommendationsStay'
  BY <1>1, <1>8 DEF CopyInv, RecommendationsStay, BeingWritten
<1>13. HeldInv'
  <2>1. \A h \in marked : h.id.day \notin contended =>
          \E r \in dayFile[h.id.day].rows : r.id = h.id /\ h = MarkedRow(r, o)
    BY <1>1, <1>3, <1>5 DEF HeldInv
  <2>2. \A q \in Markers : q \in TrackPrograms
    BY DEF TrackPrograms
  <2>. QED BY <1>1, <1>6, <1>8, <2>1, <2>2 DEF HeldInv, o
<1>14. SettledInv'
  <2>1. \A m \in fresh : \E h \in marked : h.id = m.id
    BY <1>3, <1>5
  <2>2. Settled' = Settled
    BY <1>1, <1>2, <1>8, <2>1 DEF Settled
  <2>. SUFFICES ASSUME NEW m \in Settled, ~Exempt(m.id),
                       NEW n \in log \cup UNION {out'[q] : q \in Markers},
                       n.id = m.id, n.offset = m.offset
                PROVE  n = m
    BY <1>1, <2>2 DEF SettledInv, Exempt
  <2>3. CASE n \in fresh
    <3>1. PICK r \in held[p] : n \in NewMarks(r, o)
      BY <2>3, <1>5
    <3>2. r \in dayFile[r.id.day].rows /\ r.id = m.id
      BY <1>1, <1>3, <3>1 DEF HeldInv, Exempt
    <3>3. m \in r.marks
      BY <3>2 DEF SettledInv
    <3>. QED BY <1>3, <3>1, <3>3
  <2>4. CASE n \notin fresh
    <3>1. n \in log \cup UNION {out[q] : q \in Markers}
      BY <1>8, <2>4
    <3>. QED BY <3>1 DEF SettledInv
  <2>. QED BY <2>3, <2>4
<1>. QED BY <1>7, <1>10, <1>11, <1>12, <1>13, <1>14

\* A set of marks that only loses members, and settled marks that only lose
\* members, while files and copies stay, keep what is settled.
LEMMA SettledShrinks ==
  ASSUME SettledInv, Settled' \subseteq Settled,
         log' \cup UNION {out'[q] : q \in Markers}
           \subseteq log \cup UNION {out[q] : q \in Markers},
         \A q \in TrackPrograms : copy'[q] = copy[q] \/ copy'[q].rows = {},
         dayFile' = dayFile, contended' = contended, reset' = reset
  PROVE  SettledInv'
<1>. SUFFICES ASSUME NEW m \in Settled', ~Exempt(m.id)
     PROVE  /\ \A r \in dayFile[m.id.day].rows : r.id = m.id => m \in r.marks
            /\ \A p \in TrackPrograms : \A r \in copy'[p].rows : r.id = m.id => m \in r.marks
            /\ \A n \in log' \cup UNION {out'[q] : q \in Markers} :
                 n.id = m.id /\ n.offset = m.offset => n = m
  BY DEF SettledInv, Exempt
<1>1. /\ \A r \in dayFile[m.id.day].rows : r.id = m.id => m \in r.marks
      /\ \A p \in TrackPrograms : \A r \in copy[p].rows : r.id = m.id => m \in r.marks
      /\ \A n \in log \cup UNION {out[q] : q \in Markers} :
           n.id = m.id /\ n.offset = m.offset => n = m
  BY DEF SettledInv
<1>. QED BY <1>1

LEMMA AppendMarksKeepsInv ==
  ASSUME TrackInv, NEW p \in Markers, AppendMarks(p) PROVE TrackInv'
<1>. USE DEF TrackInv
<1>1. /\ place[p] = "patching" /\ held[p] = {}
      /\ log' = log \cup out[p]
      /\ out' = [out EXCEPT ![p] = {}]
      /\ place' = [place EXCEPT ![p] = "idle"]
      /\ UNCHANGED <<today, dayFile, copy, order, toRead, held, recordings, markings,
                     known, reset, contended, tornDays, cut>>
  BY DEF AppendMarks, AtLog, trackHistory
<1>2. p \in TrackPrograms /\ toRead[p] = {} /\ out[p] \subseteq Marks
  BY <1>1 DEF PlaceInv, RunFits, TrackTypeOK, TrackPrograms
<1>3. TrackTypeOK'
  BY <1>1, <1>2 DEF TrackTypeOK, TrackPlaces
<1>4. /\ out'[p] = {} /\ \A q \in Markers : q # p => out'[q] = out[q]
      /\ place'[p] = "idle" /\ \A q \in TrackPrograms : q # p => place'[q] = place[q]
  BY <1>1, <1>2 DEF TrackTypeOK
<1>5. /\ Made' = Made
      /\ log' \cup UNION {out'[q] : q \in Markers}
           \subseteq log \cup UNION {out[q] : q \in Markers}
  <2>1. \A m : m \in Made' <=> m \in Made
    BY <1>1, <1>4 DEF Made
  <2>2. Made' = Made
    BY <2>1
  <2>. QED BY <2>2, <1>1, <1>4
<1>6. RowsInv'
  BY <1>1, <1>2, <1>4, <1>5 DEF RowsInv
<1>7. PlaceInv'
  <2>1. RunFits("idle", {}, {}, {}, copy[p], order[p].run)
    BY DEF RunFits
  <2>2. \A q \in Recorders : place'[q] = place[q]
    BY <1>4, ProgramsAssumption DEF TrackPrograms
  <2>3. \A q \in Markers : q \in TrackPrograms
    BY DEF TrackPrograms
  <2>. QED BY <1>1, <1>2, <1>4, <2>1, <2>2, <2>3 DEF PlaceInv
<1>8. CopyInv' /\ RecommendationsStay'
  BY <1>1, <1>4 DEF CopyInv, RecommendationsStay, BeingWritten
<1>9. HeldInv'
  BY <1>1, <1>4 DEF HeldInv, TrackPrograms
<1>10. Settled' \subseteq Settled
  BY <1>1, <1>4 DEF Settled
<1>11. SettledInv'
  BY <1>1, <1>5, <1>10, SettledShrinks
<1>. QED BY <1>3, <1>6, <1>7, <1>8, <1>9, <1>11

\* A program that stops leaves a torn file if it was writing one.
LEMMA StoppedCopies ==
  ASSUME TrackInv, NEW p \in TrackPrograms,
         place' = [place EXCEPT ![p] = "idle"],
         copy' = [copy EXCEPT ![p] = NoDayCopy],
         tornDays' = tornDays \cup {d \in {copy[p].day} : place[p] = "writing"},
         UNCHANGED <<dayFile, known, contended>>
  PROVE  CopyInv' /\ RecommendationsStay'
<1>. USE DEF TrackInv
<1>1. /\ place'[p] = "idle"
      /\ \A q \in TrackPrograms : q # p => place'[q] = place[q] /\ copy'[q] = copy[q]
      /\ place[p] = "writing" => copy[p].day \in tornDays'
      /\ tornDays \subseteq tornDays'
  BY DEF TrackTypeOK
<1>2. CopyInv'
  <2>. SUFFICES ASSUME NEW q \in TrackPrograms, place'[q] \in {"holding", "writing"},
                       copy'[q].day \notin contended \cup tornDays'
       PROVE  /\ place'[q] = "writing" => dayFile[copy'[q].day] = TornFile
              /\ \/ \E s \in TrackPrograms \ {q} :
                       place'[s] = "writing" /\ copy'[s].day = copy'[q].day
                 \/ \A id \in known : id.day = copy'[q].day =>
                      \E r \in copy'[q].rows : r.id = id
    BY DEF CopyInv
  <2>. QED BY <1>1 DEF CopyInv
<1>3. RecommendationsStay'
  BY <1>1 DEF RecommendationsStay, BeingWritten
<1>. QED BY <1>2, <1>3

LEMMA StopRecorderKeepsInv ==
  ASSUME TrackInv, NEW p \in Recorders, StopRecorder(p) PROVE TrackInv'
<1>. USE DEF TrackInv
<1>1. /\ place' = [place EXCEPT ![p] = "idle"]
      /\ copy' = [copy EXCEPT ![p] = NoDayCopy]
      /\ tornDays' = tornDays \cup {d \in {copy[p].day} : place[p] = "writing"}
      /\ UNCHANGED <<today, dayFile, log, order, toRead, held, out, recordings, markings,
                     known, reset, contended, cut>>
  BY DEF StopRecorder
<1>2. p \in TrackPrograms /\ p \notin Markers
  BY ProgramsAssumption DEF TrackPrograms
<1>3. NoDayCopy \in Copies /\ NoDayCopy.rows = {} /\ copy[p].day \in Days
  BY <1>2, TrackBoundsAssumption DEF NoDayCopy, Copies, Days, TrackTypeOK
<1>4. TrackTypeOK'
  BY <1>1, <1>2, <1>3 DEF TrackTypeOK, TrackPlaces
<1>5. /\ place'[p] = "idle" /\ copy'[p] = NoDayCopy
      /\ \A q \in TrackPrograms : q # p => place'[q] = place[q] /\ copy'[q] = copy[q]
  BY <1>1, <1>2 DEF TrackTypeOK
<1>6. Made' = Made /\ Settled' = Settled
  BY <1>1 DEF Made, Settled
<1>7. RowsInv'
  BY <1>1, <1>3, <1>5, <1>6 DEF RowsInv, Sound
<1>8. PlaceInv'
  <2>1. \A q \in Markers : place'[q] = place[q] /\ copy'[q] = copy[q]
    BY <1>2, <1>5 DEF TrackPrograms
  <2>2. \A q \in Recorders : place'[q] \in {"idle", "holding", "writing"}
    BY <1>5 DEF PlaceInv, TrackPrograms
  <2>. QED BY <1>1, <2>1, <2>2 DEF PlaceInv
<1>9. CopyInv' /\ RecommendationsStay'
  BY <1>1, <1>2, StoppedCopies
<1>10. HeldInv'
  BY <1>1, <1>2, <1>5 DEF HeldInv, TrackPrograms
<1>11. SettledInv'
  BY <1>1, <1>3, <1>5, <1>6, SettledShrinks
<1>. QED BY <1>4, <1>7, <1>8, <1>9, <1>10, <1>11

LEMMA StopMarkerKeepsInv ==
  ASSUME TrackInv, NEW p \in Markers, StopMarker(p) PROVE TrackInv'
<1>. USE DEF TrackInv
<1>1. PICK some \in SUBSET out[p] :
        /\ some = {} \/ AtLog(p)
        /\ log' = log \cup some
        /\ cut' = cut \cup (out[p] \ some)
  BY DEF StopMarker
<1>2. /\ place' = [place EXCEPT ![p] = "idle"]
      /\ copy' = [copy EXCEPT ![p] = NoDayCopy]
      /\ tornDays' = tornDays \cup {d \in {copy[p].day} : place[p] = "writing"}
      /\ toRead' = [toRead EXCEPT ![p] = {}]
      /\ held' = [held EXCEPT ![p] = {}]
      /\ out' = [out EXCEPT ![p] = {}]
      /\ UNCHANGED <<today, dayFile, order, recordings, markings, known, reset, contended>>
  BY DEF StopMarker
<1>3. p \in TrackPrograms /\ out[p] \subseteq Marks
  BY DEF TrackPrograms, TrackTypeOK
<1>4. NoDayCopy \in Copies /\ NoDayCopy.rows = {} /\ copy[p].day \in Days
  BY <1>3, TrackBoundsAssumption DEF NoDayCopy, Copies, Days, TrackTypeOK
<1>5. TrackTypeOK'
  BY <1>1, <1>2, <1>3, <1>4 DEF TrackTypeOK, TrackPlaces
<1>6. /\ place'[p] = "idle" /\ copy'[p] = NoDayCopy
      /\ held'[p] = {} /\ out'[p] = {} /\ toRead'[p] = {}
      /\ \A q \in TrackPrograms : q # p => place'[q] = place[q] /\ copy'[q] = copy[q]
      /\ \A q \in Markers : q # p =>
           held'[q] = held[q] /\ out'[q] = out[q] /\ toRead'[q] = toRead[q]
  BY <1>2, <1>3 DEF TrackTypeOK
<1>7. Made' = Made
  <2>1. \A m : m \in Made' <=> m \in Made
    BY <1>1, <1>6 DEF Made
  <2>. QED BY <2>1
<1>8. RowsInv'
  BY <1>2, <1>4, <1>6, <1>7 DEF RowsInv, Sound
<1>9. PlaceInv'
  <2>1. RunFits(place'[p], held'[p], toRead'[p], out'[p], copy'[p], order'[p].run)
    BY <1>6 DEF RunFits
  <2>2. ASSUME NEW q \in Markers, q # p
        PROVE  RunFits(place'[q], held'[q], toRead'[q], out'[q], copy'[q], order'[q].run)
    <3>1. q \in TrackPrograms
      BY DEF TrackPrograms
    <3>2. /\ place'[q] = place[q] /\ copy'[q] = copy[q] /\ held'[q] = held[q]
          /\ out'[q] = out[q] /\ toRead'[q] = toRead[q] /\ order'[q] = order[q]
      BY <1>2, <1>6, <2>2, <3>1
    <3>3. RunFits(place[q], held[q], toRead[q], out[q], copy[q], order[q].run)
      BY DEF PlaceInv
    <3>. QED BY <3>2, <3>3
  <2>3. \A q \in Recorders : place'[q] \in {"idle", "holding", "writing"}
    BY <1>6, ProgramsAssumption DEF PlaceInv, TrackPrograms
  <2>. QED BY <2>1, <2>2, <2>3 DEF PlaceInv
<1>10. CopyInv' /\ RecommendationsStay'
  BY <1>2, <1>3, StoppedCopies
<1>11. HeldInv'
  BY <1>2, <1>6 DEF HeldInv, TrackPrograms
<1>12. Settled' \subseteq Settled
  BY <1>1, <1>6 DEF Settled, AtLog
<1>13. log' \cup UNION {out'[q] : q \in Markers}
         \subseteq log \cup UNION {out[q] : q \in Markers}
  BY <1>1, <1>6
<1>14. SettledInv'
  BY <1>2, <1>4, <1>6, <1>12, <1>13, SettledShrinks
<1>. QED BY <1>5, <1>8, <1>9, <1>10, <1>11, <1>14

LEMMA TouchFacts ==
  ASSUME TrackTypeOK, NEW p \in TrackPrograms, NEW file, Touch(p, file)
  PROVE  LET d == copy[p].day IN
         /\ d \in Days /\ dayFile'[d] = file
         /\ dayFile' = [dayFile EXCEPT ![d] = file]
         /\ \A e \in Days \ {d} : dayFile'[e] = dayFile[e]
         /\ contended \subseteq contended' /\ contended' \subseteq contended \cup {d}
         /\ \A q \in TrackPrograms \ {p} : HasCopyOf(q, d) => d \in contended'
<1>1. copy[p].day \in Days
  BY DEF TrackTypeOK, Copies
<1>. QED BY <1>1 DEF Touch, TrackTypeOK

LEMMA OpenDayKeepsInv ==
  ASSUME TrackInv, NEW p \in TrackPrograms, OpenDay(p) PROVE TrackInv'
<1>. USE DEF TrackInv
<1>. DEFINE d == copy[p].day
<1>1. /\ place[p] = "holding" /\ place' = [place EXCEPT ![p] = "writing"]
      /\ UNCHANGED <<today, log, copy, order, toRead, held, out, recordings, markings,
                     known, reset, tornDays, cut>>
  BY DEF OpenDay
<1>2. /\ d \in Days /\ dayFile'[d] = TornFile
      /\ dayFile' = [dayFile EXCEPT ![d] = TornFile]
      /\ \A e \in Days \ {d} : dayFile'[e] = dayFile[e]
      /\ contended \subseteq contended' /\ contended' \subseteq contended \cup {d}
      /\ \A q \in TrackPrograms \ {p} : HasCopyOf(q, d) => d \in contended'
  BY TouchFacts DEF OpenDay
<1>. HIDE DEF d
<1>3. TornFile \in DayFiles /\ TornFile.rows = {}
  BY DEF TornFile, DayFiles
<1>4. TrackTypeOK'
  BY <1>1, <1>2, <1>3 DEF TrackTypeOK, TrackPlaces
<1>5. /\ place'[p] = "writing"
      /\ \A q \in TrackPrograms : q # p => place'[q] = place[q]
      /\ \A q \in TrackPrograms :
           place'[q] \in {"holding", "writing"} <=> place[q] \in {"holding", "writing"}
  BY <1>1 DEF TrackTypeOK
<1>6. Made' = Made /\ Settled' = Settled
  BY <1>1 DEF Made, Settled
<1>7. \A q \in TrackPrograms \ {p} : d \notin contended' =>
        /\ ~(place[q] \in {"holding", "writing"} /\ copy[q].day = d)
        /\ q \in Markers => \A r \in held[q] : r.id.day # d
  BY <1>2 DEF HasCopyOf
<1>8. RowsInv'
  <2>1. \A e \in Days :
          /\ dayFile'[e].form # "whole" => dayFile'[e].rows = {}
          /\ \A r \in dayFile'[e].rows : r.id.day = e
          /\ Sound(dayFile'[e].rows, recordings', Made')
    BY <1>1, <1>2, <1>3, <1>6 DEF RowsInv, Sound
  <2>. QED BY <1>1, <1>5, <1>6, <2>1 DEF RowsInv
<1>9. PlaceInv'
  <2>1. \A q \in Recorders : place'[q] \in {"idle", "holding", "writing"}
    BY <1>5 DEF PlaceInv, TrackPrograms
  <2>2. ASSUME NEW q \in Markers
        PROVE  RunFits(place'[q], held[q], toRead[q], out[q], copy[q], order[q].run)
    <3>1. q \in TrackPrograms
            /\ RunFits(place[q], held[q], toRead[q], out[q], copy[q], order[q].run)
      BY DEF PlaceInv, TrackPrograms
    <3>. QED BY <1>1, <1>5, <3>1 DEF RunFits
  <2>. QED BY <1>1, <2>1, <2>2 DEF PlaceInv
<1>10. CopyInv'
  <2>. SUFFICES ASSUME NEW q \in TrackPrograms, place'[q] \in {"holding", "writing"},
                       copy[q].day \notin contended' \cup tornDays
       PROVE  /\ place'[q] = "writing" => dayFile'[copy[q].day] = TornFile
              /\ \/ \E s \in TrackPrograms \ {q} :
                       place'[s] = "writing" /\ copy[s].day = copy[q].day
                 \/ \A id \in known : id.day = copy[q].day =>
                      \E r \in copy[q].rows : r.id = id
    BY <1>1 DEF CopyInv
  <2>1. place[q] \in {"holding", "writing"} /\ copy[q].day \notin contended \cup tornDays
    BY <1>2, <1>5
  <2>2. \/ \E s \in TrackPrograms \ {q} :
             place'[s] = "writing" /\ copy[s].day = copy[q].day
        \/ \A id \in known : id.day = copy[q].day => \E r \in copy[q].rows : r.id = id
    BY <1>5, <2>1 DEF CopyInv
  <2>3. place'[q] = "writing" => dayFile'[copy[q].day] = TornFile
    <3>1. CASE q = p
      BY <1>2, <3>1 DEF d
    <3>2. CASE q # p
      <4>1. copy[q].day \in Days /\ copy[q].day # d
        BY <1>7, <2>1, <3>2 DEF TrackTypeOK, Copies
      <4>. QED BY <1>2, <1>5, <2>1, <3>2, <4>1 DEF CopyInv
    <3>. QED BY <3>1, <3>2
  <2>. QED BY <2>2, <2>3
<1>11. RecommendationsStay'
  <2>. SUFFICES ASSUME NEW id \in known, id.day \notin contended' \cup tornDays
       PROVE  \/ \E s \in TrackPrograms : place'[s] = "writing" /\ copy[s].day = id.day
              \/ \E r \in dayFile'[id.day].rows : r.id = id
    BY <1>1 DEF RecommendationsStay, BeingWritten
  <2>1. CASE id.day = d
    BY <1>5, <2>1 DEF d
  <2>2. CASE id.day # d
    <3>1. id.day \in Days
      BY DEF TrackTypeOK, Ids
    <3>2. dayFile'[id.day] = dayFile[id.day]
      BY <1>2, <2>2, <3>1
    <3>. QED BY <1>1, <1>2, <1>5, <3>2 DEF RecommendationsStay, BeingWritten
  <2>. QED BY <2>1, <2>2
<1>12. HeldInv'
  <2>. SUFFICES ASSUME NEW q \in Markers, NEW h \in held[q], h.id.day \notin contended'
       PROVE  /\ place'[q] = "reading" => h \in dayFile'[h.id.day].rows
              /\ place'[q] \in {"holding", "writing"} /\ copy[q].day = h.id.day =>
                   h \in copy[q].rows
              /\ place'[q] # "reading" /\ ~(place'[q] = "writing" /\ copy[q].day = h.id.day)
                   => \E r \in dayFile'[h.id.day].rows :
                        r.id = h.id /\ h = MarkedRow(r, order[q])
    BY <1>1 DEF HeldInv
  <2>1. /\ q \in TrackPrograms /\ h.id.day \in Days /\ h.id.day \notin contended
        /\ place[q] = "reading" => h \in dayFile[h.id.day].rows
        /\ place[q] \in {"holding", "writing"} /\ copy[q].day = h.id.day => h \in copy[q].rows
        /\ place[q] # "reading" /\ ~(place[q] = "writing" /\ copy[q].day = h.id.day) =>
             \E r \in dayFile[h.id.day].rows : r.id = h.id /\ h = MarkedRow(r, order[q])
    BY <1>2 DEF HeldInv, TrackPrograms, TrackTypeOK, Rows, Ids
  <2>2. CASE h.id.day = d
    <3>1. q = p
      BY <1>7, <2>1, <2>2
    <3>. QED BY <1>1, <1>5, <2>1, <2>2, <3>1 DEF d
  <2>3. CASE h.id.day # d
    <3>1. dayFile'[h.id.day] = dayFile[h.id.day]
      BY <1>2, <2>1, <2>3
    <3>. QED BY <1>1, <1>5, <2>1, <2>3, <3>1 DEF d
  <2>. QED BY <2>2, <2>3
<1>13. SettledInv'
  <2>1. \A e \in Days : dayFile'[e].rows \subseteq dayFile[e].rows
    BY <1>2, <1>3
  <2>2. \A m \in Settled : m.id.day \in Days
    BY DEF Settled, TrackTypeOK, Marks, Ids
  <2>3. \A id : Exempt(id) => Exempt(id)'
    BY <1>1, <1>2 DEF Exempt
  <2>. QED BY <1>1, <1>6, <2>1, <2>2, <2>3 DEF SettledInv
<1>. QED BY <1>4, <1>8, <1>9, <1>10, <1>11, <1>12, <1>13

LEMMA WriteDayKeepsInv ==
  ASSUME TrackInv, NEW p \in TrackPrograms, WriteDay(p) PROVE TrackInv'
<1>. USE DEF TrackInv
<1>. DEFINE d == copy[p].day
<1>1. /\ place[p] = "writing"
      /\ known' = known \cup {r.id : r \in copy[p].rows}
      /\ place' = [place EXCEPT ![p] = IF p \in Markers THEN "patching" ELSE "idle"]
      /\ held' = [q \in Markers |->
                    IF q = p THEN held[q] \ OfDay(held[q], d) ELSE held[q]]
      /\ copy' = [copy EXCEPT ![p] = NoDayCopy]
      /\ UNCHANGED <<today, log, order, toRead, out, recordings, markings, reset,
                     tornDays, cut>>
  BY DEF WriteDay
<1>2. PICK file \in Filled(p) : Touch(p, file)
  BY DEF WriteDay
<1>3. /\ d \in Days /\ dayFile'[d] = file
      /\ dayFile' = [dayFile EXCEPT ![d] = file]
      /\ \A e \in Days \ {d} : dayFile'[e] = dayFile[e]
      /\ contended \subseteq contended' /\ contended' \subseteq contended \cup {d}
      /\ \A q \in TrackPrograms \ {p} : HasCopyOf(q, d) => d \in contended'
  BY <1>2, TouchFacts
<1>4. /\ file \in DayFiles
      /\ \/ file.form = "whole" /\ file.rows = copy[p].rows
         \/ file.form = "torn" /\ file.rows = {} /\ dayFile[d] # TornFile
  BY <1>2 DEF Filled, WholeFile, TornFile, DayFiles, TrackTypeOK, Copies
<1>5. /\ copy[p].rows \subseteq Rows
      /\ \A r \in copy[p].rows : r.id.day = d /\ r.id \in Ids
      /\ Sound(copy[p].rows, recordings, Made)
  BY DEF RowsInv, TrackTypeOK, Copies, Rows
<1>6. NoDayCopy \in Copies /\ NoDayCopy.rows = {}
  BY TrackBoundsAssumption DEF NoDayCopy, Copies, Days
<1>. HIDE DEF d
<1>7. TrackTypeOK'
  BY <1>1, <1>3, <1>4, <1>5, <1>6 DEF TrackTypeOK, TrackPlaces
<1>8. /\ place'[p] \in {"idle", "patching"} /\ (p \in Markers <=> place'[p] = "patching")
      /\ copy'[p] = NoDayCopy
      /\ \A q \in TrackPrograms : q # p => place'[q] = place[q] /\ copy'[q] = copy[q]
      /\ \A q \in Markers : held'[q] \subseteq held[q]
      /\ \A q \in Markers : q # p => held'[q] = held[q]
      /\ p \in Markers => held'[p] = {h \in held[p] : h.id.day # d}
  BY <1>1 DEF TrackTypeOK, OfDay
<1>9. Made' = Made
  BY <1>1 DEF Made
<1>10. \A q \in TrackPrograms \ {p} : d \notin contended' =>
         /\ ~(place[q] \in {"holding", "writing"} /\ copy[q].day = d)
         /\ q \in Markers => \A r \in held[q] : r.id.day # d
  BY <1>3 DEF HasCopyOf
<1>11. RowsInv'
  <2>1. \A e \in Days :
          /\ dayFile'[e].form # "whole" => dayFile'[e].rows = {}
          /\ \A r \in dayFile'[e].rows : r.id.day = e
          /\ Sound(dayFile'[e].rows, recordings', Made')
    BY <1>1, <1>3, <1>4, <1>5, <1>9 DEF RowsInv, Sound
  <2>2. \A q \in Markers : Sound(held'[q], recordings', Made')
    BY <1>1, <1>8, <1>9, SoundParts DEF RowsInv
  <2>3. \A q \in TrackPrograms :
          /\ place'[q] \notin {"holding", "writing"} => copy'[q] = NoDayCopy
          /\ \A r \in copy'[q].rows : r.id.day = copy'[q].day
          /\ Sound(copy'[q].rows, recordings', Made')
    BY <1>1, <1>6, <1>8, <1>9 DEF RowsInv, Sound
  <2>. QED BY <1>1, <1>9, <2>1, <2>2, <2>3 DEF RowsInv
<1>12. PlaceInv'
  <2>1. \A q \in Recorders : place'[q] \in {"idle", "holding", "writing"}
    BY <1>8, ProgramsAssumption DEF PlaceInv, TrackPrograms
  <2>2. ASSUME NEW q \in Markers
        PROVE  RunFits(place'[q], held'[q], toRead[q], out[q], copy'[q], order[q].run)
    <3>1. q \in TrackPrograms
            /\ RunFits(place[q], held[q], toRead[q], out[q], copy[q], order[q].run)
      BY DEF PlaceInv, TrackPrograms
    <3>2. CASE q # p
      BY <1>8, <3>1, <3>2
    <3>3. CASE q = p
      <4>1. place'[p] = "patching" /\ place[p] = "writing" /\ held'[p] \subseteq held[p]
        BY <1>1, <1>8, <3>3
      <4>. QED BY <3>1, <3>3, <4>1 DEF RunFits
    <3>. QED BY <3>2, <3>3
  <2>. QED BY <1>1, <2>1, <2>2 DEF PlaceInv
<1>13. CopyInv'
  <2>. SUFFICES ASSUME NEW q \in TrackPrograms, place'[q] \in {"holding", "writing"},
                       copy'[q].day \notin contended' \cup tornDays
       PROVE  /\ place'[q] = "writing" => dayFile'[copy'[q].day] = TornFile
              /\ \/ \E s \in TrackPrograms \ {q} :
                       place'[s] = "writing" /\ copy'[s].day = copy'[q].day
                 \/ \A id \in known' : id.day = copy'[q].day =>
                      \E r \in copy'[q].rows : r.id = id
    BY <1>1 DEF CopyInv
  <2>1. /\ q # p /\ place'[q] = place[q] /\ copy'[q] = copy[q]
        /\ copy[q].day \notin contended \cup tornDays
    BY <1>3, <1>8
  <2>2. copy[q].day \in Days /\ copy[q].day # d
    BY <1>10, <2>1 DEF TrackTypeOK, Copies
  <2>3. /\ place[q] = "writing" => dayFile[copy[q].day] = TornFile
        /\ \/ \E s \in TrackPrograms \ {q} :
                 place[s] = "writing" /\ copy[s].day = copy[q].day
           \/ \A id \in known : id.day = copy[q].day =>
                \E r \in copy[q].rows : r.id = id
    BY <2>1 DEF CopyInv
  <2>4. \A s \in TrackPrograms : place[s] = "writing" /\ copy[s].day = copy[q].day =>
          place'[s] = "writing" /\ copy'[s].day = copy[q].day
    BY <1>8, <2>2 DEF d
  <2>5. \A id \in known' : id.day = copy[q].day => id \in known
    BY <1>1, <1>5, <2>2
  <2>. QED BY <1>3, <2>1, <2>2, <2>3, <2>4, <2>5
<1>14. RecommendationsStay'
  <2>. SUFFICES ASSUME NEW id \in known', id.day \notin contended' \cup tornDays
       PROVE  \/ \E s \in TrackPrograms : place'[s] = "writing" /\ copy'[s].day = id.day
              \/ \E r \in dayFile'[id.day].rows : r.id = id
    BY <1>1 DEF RecommendationsStay, BeingWritten
  <2>0. id.day \in Days /\ id.day \notin contended \cup tornDays
    BY <1>1, <1>3, <1>5 DEF TrackTypeOK, Ids
  <2>1. CASE id.day = d
    <3>1. dayFile[d] = TornFile
      BY <1>1, <2>0, <2>1 DEF CopyInv, d
    <3>2. dayFile'[d].rows = copy[p].rows
      BY <1>3, <1>4, <3>1
    <3>3. CASE id \in known
      <4>1. \/ \E q \in TrackPrograms \ {p} : place[q] = "writing" /\ copy[q].day = d
            \/ \E r \in copy[p].rows : r.id = id
        BY <1>1, <2>0, <2>1, <3>3 DEF CopyInv, d
      <4>. QED BY <1>10, <2>1, <3>2, <4>1
    <3>4. CASE id \notin known
      BY <1>1, <2>1, <3>2, <3>4
    <3>. QED BY <3>3, <3>4
  <2>2. CASE id.day # d
    <3>1. id \in known /\ dayFile'[id.day] = dayFile[id.day]
      BY <1>1, <1>3, <1>5, <2>0, <2>2
    <3>2. \/ \E s \in TrackPrograms : place[s] = "writing" /\ copy[s].day = id.day
          \/ \E r \in dayFile[id.day].rows : r.id = id
      BY <2>0, <3>1 DEF RecommendationsStay, BeingWritten
    <3>. QED BY <1>8, <2>2, <3>1, <3>2 DEF d
  <2>. QED BY <2>1, <2>2
<1>15. HeldInv'
  <2>. SUFFICES ASSUME NEW q \in Markers, NEW h \in held'[q], h.id.day \notin contended'
       PROVE  /\ place'[q] = "reading" => h \in dayFile'[h.id.day].rows
              /\ place'[q] \in {"holding", "writing"} /\ copy'[q].day = h.id.day =>
                   h \in copy'[q].rows
              /\ place'[q] # "reading" /\ ~(place'[q] = "writing" /\ copy'[q].day = h.id.day)
                   => \E r \in dayFile'[h.id.day].rows :
                        r.id = h.id /\ h = MarkedRow(r, order[q])
    BY <1>1 DEF HeldInv
  <2>1. /\ q \in TrackPrograms /\ h \in held[q]
        /\ h.id.day \in Days /\ h.id.day \notin contended
        /\ place[q] = "reading" => h \in dayFile[h.id.day].rows
        /\ place[q] \in {"holding", "writing"} /\ copy[q].day = h.id.day => h \in copy[q].rows
        /\ place[q] # "reading" /\ ~(place[q] = "writing" /\ copy[q].day = h.id.day) =>
             \E r \in dayFile[h.id.day].rows : r.id = h.id /\ h = MarkedRow(r, order[q])
    BY <1>3, <1>8 DEF HeldInv, TrackPrograms, TrackTypeOK, Rows, Ids
  <2>2. h.id.day # d
    BY <1>8, <1>10, <2>1
  <2>3. dayFile'[h.id.day] = dayFile[h.id.day]
    BY <1>3, <2>1, <2>2
  <2>4. CASE q = p
    BY <1>1, <1>8, <2>1, <2>2, <2>3, <2>4 DEF d
  <2>5. CASE q # p
    BY <1>8, <2>1, <2>3, <2>5
  <2>. QED BY <2>4, <2>5
<1>16. SettledInv'
  <2>. SUFFICES ASSUME NEW m \in Settled', ~Exempt(m.id)'
       PROVE  /\ \A r \in dayFile'[m.id.day].rows : r.id = m.id => m \in r.marks
              /\ \A q \in TrackPrograms : \A r \in copy'[q].rows : r.id = m.id => m \in r.marks
              /\ \A n \in log \cup UNION {out[q] : q \in Markers} :
                   n.id = m.id /\ n.offset = m.offset => n = m
    BY <1>1 DEF SettledInv
  <2>1. /\ ~Exempt(m.id) /\ m.id.day \notin contended' /\ m \in Marks /\ m.id.day \in Days
    BY <1>1, <1>3 DEF Exempt, Settled, TrackTypeOK, Marks, Ids
  <2>2. CASE m \in Settled
    <3>1. /\ \A r \in dayFile[m.id.day].rows : r.id = m.id => m \in r.marks
          /\ \A q \in TrackPrograms : \A r \in copy[q].rows : r.id = m.id => m \in r.marks
          /\ \A n \in log \cup UNION {out[q] : q \in Markers} :
               n.id = m.id /\ n.offset = m.offset => n = m
      BY <2>1, <2>2 DEF SettledInv
    <3>2. \A r \in dayFile'[m.id.day].rows : r.id = m.id => m \in r.marks
      BY <1>3, <1>4, <2>1, <3>1
    <3>3. \A q \in TrackPrograms : \A r \in copy'[q].rows : r.id = m.id => m \in r.marks
      BY <1>6, <1>8, <3>1
    <3>. QED BY <3>1, <3>2, <3>3
  <2>3. CASE m \notin Settled
    <3>1. /\ p \in Markers /\ m \in out[p]
          /\ \E h \in held[p] : h.id = m.id /\ h.id.day = d
      BY <1>1, <1>8, <2>3 DEF Settled
    <3>2. PICK h \in held[p] : h.id = m.id /\ h.id.day = d
      BY <3>1
    <3>3. m \in h.marks
      BY <3>1, <3>2 DEF PlaceInv, RunFits
    <3>4. m.id.day = d /\ d \notin contended' /\ d \notin contended
      BY <1>3, <2>1, <3>2
    <3>5. h \in copy[p].rows
      BY <1>1, <3>1, <3>2, <3>4 DEF HeldInv, d
    <3>6. \A r \in dayFile'[d].rows : r.id = m.id => m \in r.marks
      BY <1>3, <1>4, <1>5, <3>2, <3>3, <3>5 DEF Sound
    <3>7. ASSUME NEW q \in TrackPrograms, NEW r \in copy'[q].rows PROVE r.id # m.id
      <4>1. q # p /\ r \in copy[q].rows
        BY <1>6, <1>8, <3>7
      <4>2. r.id.day = copy[q].day /\ place[q] \in {"holding", "writing"}
        BY <1>6, <4>1 DEF RowsInv
      <4>. QED BY <1>10, <3>4, <4>1, <4>2
    <3>8. ASSUME NEW n \in log \cup UNION {out[q] : q \in Markers},
                 n.id = m.id, n.offset = m.offset
          PROVE  n = m
      <4>1. n \in Marks /\ ~Exempt(n.id)
        BY <2>1, <3>8 DEF TrackTypeOK
      <4>2. CASE n \in Settled
        <5>1. m \in log \cup UNION {out[q] : q \in Markers}
          BY <3>1
        <5>. QED BY <3>8, <4>1, <4>2, <5>1 DEF SettledInv
      <4>3. CASE n \notin Settled
        <5>1. PICK q \in Markers : n \in out[q] /\ \E g \in held[q] : g.id = n.id
          BY <4>3 DEF Settled
        <5>2. q \in TrackPrograms /\ q = p
          BY <1>10, <3>4, <3>8, <5>1 DEF TrackPrograms
        <5>3. n.run = m.run
          BY <3>1, <5>1, <5>2 DEF PlaceInv, RunFits
        <5>. QED BY <2>1, <3>8, <4>1, <5>3 DEF Marks
      <4>. QED BY <4>2, <4>3
    <3>. QED BY <3>4, <3>6, <3>7, <3>8
  <2>. QED BY <2>2, <2>3
<1>. QED BY <1>7, <1>11, <1>12, <1>13, <1>14, <1>15, <1>16

\* The rows a recording makes of the rows of its day keep every recommendation
\* under its id, and a marked one as it is; the others have new ids.
Recorded(existing, picks, merged) ==
  /\ merged \subseteq Rows
  /\ \A r \in merged : r.id.day = today
  /\ Sound(merged, recordings + 1, Made)
  /\ \A e \in existing : \E r \in merged : r.id = e.id
  /\ \A r \in merged :
       \/ r.id.number = recordings + 1
       \/ \E e \in existing :
            /\ r.id = e.id
            /\ r = e \/ (e.open /\ e.id.ticker \in picks /\ r.marks = {})

LEMMA MergedFacts ==
  ASSUME today \in Days, recordings \in Nat,
         NEW existing \in SUBSET Rows, NEW picks \in SUBSET Tickers,
         Sound(existing, recordings, Made),
         \A r \in existing : r.id.day = today,
         NEW merged, merged = Merged(existing, picks, recordings + 1)
  PROVE  Recorded(existing, picks, merged)
<1>. DEFINE n == recordings + 1
            kept == {r \in existing : r.id.ticker \notin picks \/ ~r.open}
            again == {e \in existing : e.id.ticker \in picks /\ e.open}
            Bare(e) == [e EXCEPT !.marks = {}]
            Id(t) == [day |-> today, ticker |-> t, number |-> n]
            Pick(t) == [id |-> Id(t), open |-> TRUE, marks |-> {}]
            absent == picks \ {r.id.ticker : r \in existing}
<1>1. merged = kept \cup {Bare(e) : e \in again} \cup {Pick(t) : t \in absent}
  BY DEF Merged
<1>2. /\ \A e \in existing : e \in kept \/ e \in again
      /\ kept \subseteq existing /\ again \subseteq existing
      /\ \A e \in again : e.id.ticker \in picks /\ e.open
      /\ \A e \in kept : e \notin again
      /\ absent \subseteq Tickers
  OBVIOUS
<1>3. n \in Nat /\ n > recordings
  OBVIOUS
<1>4. \A t \in Tickers : /\ Id(t) \in Ids
                         /\ Id(t).day = today /\ Id(t).number = n /\ Id(t).ticker = t
  BY <1>3 DEF Ids
<1>5. \A t \in Tickers : Pick(t) \in Rows /\ Pick(t).id = Id(t) /\ Pick(t).marks = {}
  BY <1>4 DEF Rows
<1>6. \A e \in existing : /\ Bare(e) \in Rows
                          /\ Bare(e).id = e.id /\ Bare(e).marks = {}
                          /\ e.id.number # n
                          /\ e.id.number <= n
  <2>1. \A e \in existing : Bare(e) \in Rows /\ Bare(e).id = e.id /\ Bare(e).marks = {}
    BY DEF Rows
  <2>2. \A e \in existing : e.id.number \in Nat /\ e.id.number <= recordings
    BY DEF Sound, Rows, Ids
  <2>3. \A k \in Nat : k <= recordings => k # n /\ k <= n
    BY <1>3
  <2>. HIDE DEF n, Bare
  <2>. QED BY <2>1, <2>2, <2>3
<1>7. \A r \in merged : \/ r \in kept
                        \/ \E e \in again : r = Bare(e)
                        \/ \E t \in absent : r = Pick(t)
  BY <1>1
<1>8. kept \subseteq merged /\ \A e \in again : Bare(e) \in merged
  BY <1>1
<1>. HIDE DEF n, kept, again, Bare, Id, Pick, absent
<1>9. \A r \in merged :
        \/ \E e \in existing : /\ r.id = e.id
                               /\ r = IF e \in again THEN Bare(e) ELSE e
        \/ \E t \in Tickers : r = Pick(t)
  BY <1>2, <1>6, <1>7
<1>10. merged \subseteq Rows /\ \A r \in merged : r.id.day = today
  BY <1>4, <1>5, <1>6, <1>9
<1>11. \A e \in existing : \E r \in merged : r.id = e.id
  BY <1>2, <1>6, <1>8
<1>12. \A r \in merged :
         \/ r.id.number = n
         \/ \E e \in existing :
              /\ r.id = e.id
              /\ r = e \/ (e.open /\ e.id.ticker \in picks /\ r.marks = {})
  BY <1>2, <1>4, <1>5, <1>6, <1>9
<1>13. \A r \in merged : \A s \in merged : s.id = r.id => s = r
  <2>. SUFFICES ASSUME NEW r \in merged, NEW s \in merged, s.id = r.id PROVE s = r
    OBVIOUS
  <2>1. CASE \E e \in existing : r.id = e.id /\ r = IF e \in again THEN Bare(e) ELSE e
    <3>1. PICK a \in existing : r.id = a.id /\ r = IF a \in again THEN Bare(a) ELSE a
      BY <2>1
    <3>2. PICK b \in existing : s.id = b.id /\ s = IF b \in again THEN Bare(b) ELSE b
      BY <1>4, <1>5, <1>6, <1>9, <3>1
    <3>3. a = b
      BY <3>1, <3>2 DEF Sound
    <3>. QED BY <3>1, <3>2, <3>3
  <2>2. CASE \E t \in Tickers : r = Pick(t)
    <3>1. PICK t \in Tickers : r = Pick(t)
      BY <2>2
    <3>2. PICK u \in Tickers : s = Pick(u)
      BY <1>4, <1>5, <1>6, <1>9, <3>1
    <3>3. Id(t) = Id(u)
      BY <1>5, <3>1, <3>2
    <3>4. t = u
      BY <1>4, <3>3
    <3>. QED BY <3>1, <3>2, <3>4
  <2>. QED BY <1>9, <2>1, <2>2
<1>14. Sound(merged, n, Made)
  <2>. SUFFICES ASSUME NEW r \in merged
       PROVE r.id.number <= n /\ \A m \in r.marks : m.id = r.id /\ m \in Made
    BY <1>13 DEF Sound
  <2>1. CASE \E e \in existing : r.id = e.id /\ r = IF e \in again THEN Bare(e) ELSE e
    BY <1>6, <2>1 DEF Sound
  <2>2. CASE \E t \in Tickers : r = Pick(t)
    BY <1>3, <1>4, <1>5, <2>2
  <2>. QED BY <1>9, <2>1, <2>2
<1>. QED BY <1>10, <1>11, <1>12, <1>14 DEF n, Recorded

\* A copy of a file is taken, with what a run or a recording does to it.
Taken(p, d, rs) ==
  /\ place[p] \notin {"holding", "writing"}
  /\ \A e \in dayFile[d].rows : \E r \in rs : r.id = e.id
  /\ place' = [place EXCEPT ![p] = "holding"]
  /\ copy' = [copy EXCEPT ![p] = [day |-> d, rows |-> rs]]
  /\ UNCHANGED <<dayFile, known, contended, tornDays>>

\* It has all that was recorded, unless somebody is writing that file.
LEMMA CopiesOfFiles ==
  ASSUME TrackInv, NEW p \in TrackPrograms, NEW d \in Days, NEW rs, Taken(p, d, rs)
  PROVE  CopyInv' /\ RecommendationsStay'
<1>. USE DEF TrackInv, Taken
<1>1. /\ place'[p] = "holding" /\ copy'[p].day = d /\ copy'[p].rows = rs
      /\ \A q \in TrackPrograms : q # p => place'[q] = place[q] /\ copy'[q] = copy[q]
  BY DEF TrackTypeOK
<1>2. RecommendationsStay'
  BY <1>1 DEF RecommendationsStay, BeingWritten
<1>3. CopyInv'
  <2>. SUFFICES ASSUME NEW q \in TrackPrograms, place'[q] \in {"holding", "writing"},
                       copy'[q].day \notin contended \cup tornDays
       PROVE  /\ place'[q] = "writing" => dayFile[copy'[q].day] = TornFile
              /\ \/ \E s \in TrackPrograms \ {q} :
                       place'[s] = "writing" /\ copy'[s].day = copy'[q].day
                 \/ \A id \in known : id.day = copy'[q].day =>
                      \E r \in copy'[q].rows : r.id = id
    BY DEF CopyInv
  <2>1. CASE q = p
    <3>1. ASSUME NEW id \in known, id.day = d,
                 ~ \E s \in TrackPrograms : place[s] = "writing" /\ copy[s].day = d
          PROVE  \E r \in rs : r.id = id
      BY <1>1, <2>1, <3>1 DEF RecommendationsStay, BeingWritten
    <3>2. \A s \in TrackPrograms : place[s] = "writing" /\ copy[s].day = d =>
            s # p /\ place'[s] = "writing" /\ copy'[s].day = d
      BY <1>1
    <3>. QED BY <1>1, <2>1, <3>1, <3>2
  <2>2. CASE q # p
    BY <1>1, <2>2 DEF CopyInv
  <2>. QED BY <2>1, <2>2
<1>. QED BY <1>2, <1>3

LEMMA RecordKeepsInv ==
  ASSUME TrackInv, NEW p \in Recorders, Record(p) PROVE TrackInv'
<1>. USE DEF TrackInv
<1>. DEFINE existing == dayFile[today].rows
<1>1. PICK picks \in SUBSET Tickers :
        /\ copy' = [copy EXCEPT ![p] =
                      [day |-> today, rows |-> Merged(existing, picks, recordings')]]
        /\ reset' = reset \cup
             {r.id : r \in {e \in existing :
                              e.id.ticker \in picks /\ e.open /\ e.marks # {}}}
  BY ReportsAssumption DEF Record
<1>2. /\ place[p] = "idle" /\ place' = [place EXCEPT ![p] = "holding"]
      /\ recordings' = recordings + 1
      /\ UNCHANGED <<today, dayFile, log, order, toRead, held, out, markings, known,
                     contended, tornDays, cut>>
  BY DEF Record
<1>3. /\ p \in TrackPrograms /\ p \notin Markers /\ today \in Days
      /\ recordings \in Nat /\ recordings' \in Nat
  BY <1>2, ProgramsAssumption DEF TrackPrograms, TrackTypeOK
<1>4. /\ existing \in SUBSET Rows /\ Sound(existing, recordings, Made)
      /\ \A r \in existing : r.id.day = today /\ r.id \in Ids
  BY <1>3 DEF RowsInv, TrackTypeOK, DayFiles, Rows
<1>. HIDE DEF existing
<1>. DEFINE merged == Merged(existing, picks, recordings + 1)
<1>5. /\ merged \subseteq Rows
      /\ \A r \in merged : r.id.day = today
      /\ Sound(merged, recordings + 1, Made)
      /\ \A e \in existing : \E r \in merged : r.id = e.id
      /\ \A r \in merged :
           \/ r.id.number = recordings + 1
           \/ \E e \in existing :
                /\ r.id = e.id
                /\ r = e \/ (e.open /\ e.id.ticker \in picks /\ r.marks = {})
  <2>1. \A r \in existing : r.id.day = today
    BY <1>4
  <2>2. Recorded(existing, picks, merged)
    BY <1>3, <1>4, <2>1, MergedFacts
  <2>. QED BY <2>2 DEF Recorded
<1>6. copy' = [copy EXCEPT ![p] = [day |-> today, rows |-> merged]]
  BY <1>1, <1>2
<1>. HIDE DEF merged
<1>7. TrackTypeOK'
  BY <1>1, <1>2, <1>3, <1>4, <1>5, <1>6 DEF TrackTypeOK, TrackPlaces, Copies
<1>8. /\ place'[p] = "holding" /\ copy'[p].day = today /\ copy'[p].rows = merged
      /\ \A q \in TrackPrograms : q # p => place'[q] = place[q] /\ copy'[q] = copy[q]
      /\ \A q \in Markers : place'[q] = place[q] /\ copy'[q] = copy[q]
  BY <1>2, <1>3, <1>6 DEF TrackTypeOK, TrackPrograms
<1>9. Made' = Made /\ Settled' = Settled
  BY <1>2 DEF Made, Settled
<1>10. RowsInv'
  <2>1. \A rs \in SUBSET Rows : Sound(rs, recordings, Made) => Sound(rs, recordings + 1, Made)
    BY <1>3, SoundIsMonotone
  <2>2. /\ \A d \in Days : dayFile[d].rows \in SUBSET Rows
        /\ \A q \in TrackPrograms : copy[q].rows \in SUBSET Rows
        /\ \A q \in Markers : held[q] \in SUBSET Rows
    BY DEF TrackTypeOK, DayFiles, Copies
  <2>3. \A m \in Made' : m.id.number <= recordings'
    <3>1. \A m \in Made : m.id.number \in Nat
      BY DEF Made, TrackTypeOK, Marks, Ids
    <3>. QED BY <1>2, <1>3, <1>9, <3>1 DEF RowsInv
  <2>4. \A q \in Markers : Sound(held'[q], recordings', Made')
    BY <1>2, <1>9, <2>1, <2>2 DEF RowsInv
  <2>5. \A d \in Days :
          /\ dayFile'[d].form # "whole" => dayFile'[d].rows = {}
          /\ \A r \in dayFile'[d].rows : r.id.day = d
          /\ Sound(dayFile'[d].rows, recordings', Made')
    BY <1>2, <1>9, <2>1, <2>2 DEF RowsInv
  <2>6. \A q \in TrackPrograms :
          /\ place'[q] \notin {"holding", "writing"} => copy'[q] = NoDayCopy
          /\ \A r \in copy'[q].rows : r.id.day = copy'[q].day
          /\ Sound(copy'[q].rows, recordings', Made')
    BY <1>2, <1>5, <1>8, <1>9, <2>1, <2>2 DEF RowsInv
  <2>. QED BY <2>3, <2>4, <2>5, <2>6 DEF RowsInv
<1>11. PlaceInv'
  BY <1>2, <1>8 DEF PlaceInv, TrackPrograms
<1>12. CopyInv' /\ RecommendationsStay'
  <2>1. \A e \in dayFile[today].rows : \E r \in merged : r.id = e.id
    BY <1>5 DEF existing
  <2>2. Taken(p, today, merged)
    BY <1>2, <1>6, <2>1 DEF Taken
  <2>. QED BY <1>3, <2>2, CopiesOfFiles
<1>13. HeldInv'
  BY <1>2, <1>8 DEF HeldInv
<1>14. SettledInv'
  <2>. SUFFICES ASSUME NEW m \in Settled, ~Exempt(m.id)'
       PROVE  /\ \A r \in dayFile[m.id.day].rows : r.id = m.id => m \in r.marks
              /\ \A q \in TrackPrograms : \A r \in copy'[q].rows : r.id = m.id => m \in r.marks
              /\ \A n \in log \cup UNION {out[q] : q \in Markers} :
                   n.id = m.id /\ n.offset = m.offset => n = m
    BY <1>2, <1>9 DEF SettledInv
  <2>1. ~Exempt(m.id) /\ m.id \notin reset'
    BY <1>1, <1>2 DEF Exempt
  <2>2. /\ \A r \in dayFile[m.id.day].rows : r.id = m.id => m \in r.marks
        /\ \A q \in TrackPrograms : \A r \in copy[q].rows : r.id = m.id => m \in r.marks
        /\ \A n \in log \cup UNION {out[q] : q \in Markers} :
             n.id = m.id /\ n.offset = m.offset => n = m
    BY <2>1 DEF SettledInv
  <2>3. m.id.number <= recordings /\ m.id.number \in Nat
    BY DEF RowsInv, Made, Settled, TrackTypeOK, Marks, Ids
  <2>4. ASSUME NEW r \in merged, r.id = m.id PROVE m \in r.marks
    <3>1. PICK e \in existing :
            /\ r.id = e.id
            /\ r = e \/ (e.open /\ e.id.ticker \in picks /\ r.marks = {})
      BY <1>3, <1>5, <2>3, <2>4
    <3>2. m \in e.marks
      BY <1>4, <2>2, <2>4, <3>1 DEF existing
    <3>. QED BY <1>1, <2>1, <2>4, <3>1, <3>2
  <2>. QED BY <1>8, <2>2, <2>4
<1>. QED BY <1>7, <1>10, <1>11, <1>12, <1>13, <1>14

\* A file that parses is read again for the rows the run has of it.
LEMMA LoadWholeDayKeepsInv ==
  ASSUME TrackInv, NEW p \in Markers, NEW d \in Days, NEW mine, NEW rs,
         place[p] = "patching", mine = OfDay(held[p], d), mine # {},
         rs = Patched(dayFile[d].rows, mine),
         copy' = [copy EXCEPT ![p] = [day |-> d, rows |-> rs]],
         place' = [place EXCEPT ![p] = "holding"],
         UNCHANGED <<today, dayFile, log, order, toRead, held, out, recordings, markings,
                     known, reset, contended, tornDays, cut>>
  PROVE  TrackInv'
<1>. USE DEF TrackInv
<1>1. /\ p \in TrackPrograms
      /\ held[p] \subseteq Rows /\ Sound(held[p], recordings, Made)
      /\ dayFile[d].rows \subseteq Rows /\ Sound(dayFile[d].rows, recordings, Made)
      /\ \A r \in dayFile[d].rows : r.id.day = d
  BY DEF RowsInv, TrackTypeOK, TrackPrograms, DayFiles
<1>2. mine \subseteq held[p] /\ \A g \in held[p] : g.id.day = d <=> g \in mine
  BY DEF OfDay
<1>3. \A r \in rs :
        \/ r \in dayFile[d].rows /\ \A g \in mine : g.id # r.id
        \/ r \in mine /\ \E e \in dayFile[d].rows : e.id = r.id
  BY DEF Patched
<1>4. /\ \A e \in dayFile[d].rows : \E r \in rs : r.id = e.id
      /\ \A g \in mine, e \in dayFile[d].rows : e.id = g.id => g \in rs
  BY DEF Patched
<1>5. rs \subseteq Rows /\ \A r \in rs : r.id.day = d
  BY <1>1, <1>2, <1>3
<1>6. Sound(rs, recordings, Made)
  BY <1>1, <1>2, <1>3 DEF Sound
<1>7. TrackTypeOK'
  BY <1>1, <1>5 DEF TrackTypeOK, TrackPlaces, Copies
<1>8. /\ place'[p] = "holding" /\ copy'[p].day = d /\ copy'[p].rows = rs
      /\ \A q \in TrackPrograms : q # p => place'[q] = place[q] /\ copy'[q] = copy[q]
  BY <1>1 DEF TrackTypeOK
<1>9. Made' = Made /\ Settled' = Settled
  BY DEF Made, Settled
<1>10. RowsInv'
  <2>1. \A q \in TrackPrograms :
          /\ place'[q] \notin {"holding", "writing"} => copy'[q] = NoDayCopy
          /\ \A r \in copy'[q].rows : r.id.day = copy'[q].day
          /\ Sound(copy'[q].rows, recordings', Made')
    BY <1>5, <1>6, <1>8, <1>9 DEF RowsInv
  <2>. QED BY <1>9, <2>1 DEF RowsInv
<1>11. PlaceInv'
  <2>1. \A q \in Recorders : place'[q] \in {"idle", "holding", "writing"}
    BY <1>8, ProgramsAssumption DEF PlaceInv, TrackPrograms
  <2>2. ASSUME NEW q \in Markers
        PROVE  RunFits(place'[q], held[q], toRead[q], out[q], copy'[q], order[q].run)
    <3>1. q \in TrackPrograms
            /\ RunFits(place[q], held[q], toRead[q], out[q], copy[q], order[q].run)
      BY DEF PlaceInv, TrackPrograms
    <3>2. CASE q # p
      BY <1>8, <3>1, <3>2
    <3>3. CASE q = p
      BY <1>8, <3>1, <3>3 DEF RunFits
    <3>. QED BY <3>2, <3>3
  <2>. QED BY <2>1, <2>2 DEF PlaceInv
<1>12. CopyInv' /\ RecommendationsStay'
  <2>1. Taken(p, d, rs)
    BY <1>4 DEF Taken
  <2>. QED BY <1>1, <2>1, CopiesOfFiles
<1>13. HeldInv'
  <2>. SUFFICES ASSUME NEW q \in Markers, NEW h \in held[q], h.id.day \notin contended
       PROVE  LET e == h.id.day IN
              /\ place'[q] = "reading" => h \in dayFile[e].rows
              /\ place'[q] \in {"holding", "writing"} /\ copy'[q].day = e =>
                   h \in copy'[q].rows
              /\ place'[q] # "reading" /\ ~(place'[q] = "writing" /\ copy'[q].day = e) =>
                   \E r \in dayFile[e].rows : r.id = h.id /\ h = MarkedRow(r, order[q])
    BY DEF HeldInv
  <2>1. CASE q # p
    BY <1>8, <2>1 DEF HeldInv, TrackPrograms
  <2>2. CASE q = p
    <3>1. \E r \in dayFile[h.id.day].rows : r.id = h.id /\ h = MarkedRow(r, order[p])
      BY <2>2 DEF HeldInv
    <3>2. h.id.day = d => h \in rs
      BY <1>2, <1>4, <2>2, <3>1
    <3>. QED BY <1>8, <2>2, <3>1, <3>2
  <2>. QED BY <2>1, <2>2
<1>14. SettledInv'
  <2>. SUFFICES ASSUME NEW m \in Settled, ~Exempt(m.id)
       PROVE  /\ \A r \in dayFile[m.id.day].rows : r.id = m.id => m \in r.marks
              /\ \A q \in TrackPrograms : \A r \in copy'[q].rows : r.id = m.id => m \in r.marks
              /\ \A n \in log \cup UNION {out[q] : q \in Markers} :
                   n.id = m.id /\ n.offset = m.offset => n = m
    BY <1>9 DEF SettledInv, Exempt
  <2>1. /\ \A r \in dayFile[m.id.day].rows : r.id = m.id => m \in r.marks
        /\ \A q \in TrackPrograms : \A r \in copy[q].rows : r.id = m.id => m \in r.marks
        /\ \A n \in log \cup UNION {out[q] : q \in Markers} :
             n.id = m.id /\ n.offset = m.offset => n = m
    BY DEF SettledInv
  <2>2. ASSUME NEW r \in rs, r.id = m.id PROVE m \in r.marks
    <3>1. m.id.day = d /\ d \notin contended
      BY <1>5, <2>2 DEF Exempt
    <3>2. CASE r \in dayFile[d].rows
      BY <2>1, <2>2, <3>1, <3>2
    <3>3. CASE r \in mine
      <4>1. PICK e \in dayFile[d].rows : e.id = r.id /\ r = MarkedRow(e, order[p])
        BY <1>2, <3>1, <3>3 DEF HeldInv
      <4>2. m \in e.marks
        BY <2>1, <2>2, <3>1, <4>1
      <4>3. e \in Rows /\ order[p] \in Orders
        BY <1>1 DEF TrackTypeOK
      <4>. QED BY <4>1, <4>2, <4>3, MarkedRowFacts
    <3>. QED BY <1>3, <3>2, <3>3
  <2>. QED BY <1>8, <2>1, <2>2
<1>. QED BY <1>7, <1>10, <1>11, <1>12, <1>13, <1>14

\* One that does not parse was written by another program since the run read it.
LEMMA PassOverDayKeepsInv ==
  ASSUME TrackInv, NEW p \in Markers, NEW d \in Days, NEW mine,
         place[p] = "patching", mine = OfDay(held[p], d), mine # {},
         dayFile[d].form # "whole",
         held' = [held EXCEPT ![p] = @ \ mine],
         UNCHANGED <<today, dayFile, log, place, copy, order, toRead, out, recordings,
                     markings, known, reset, contended, tornDays, cut>>
  PROVE  TrackInv'
<1>. USE DEF TrackInv
<1>1. /\ p \in TrackPrograms /\ mine \subseteq held[p]
      /\ \A g \in held[p] : g.id.day = d <=> g \in mine
      /\ dayFile[d].rows = {}
  BY DEF RowsInv, TrackPrograms, OfDay
<1>2. /\ held'[p] = held[p] \ mine
      /\ \A q \in Markers : held'[q] \subseteq held[q]
      /\ \A q \in Markers : q # p => held'[q] = held[q]
  BY DEF TrackTypeOK
<1>3. d \in contended
  <2>1. PICK g \in mine : TRUE
    OBVIOUS
  <2>2. d \notin contended => \E r \in dayFile[d].rows : r.id = g.id
    BY <1>1, <2>1 DEF HeldInv
  <2>. QED BY <1>1, <2>2
<1>4. TrackTypeOK'
  BY <1>2 DEF TrackTypeOK
<1>5. Made' = Made
  BY DEF Made
<1>6. RowsInv'
  <2>1. \A q \in Markers : Sound(held'[q], recordings, Made)
    BY <1>2, SoundParts DEF RowsInv
  <2>. QED BY <1>5, <2>1 DEF RowsInv
<1>7. PlaceInv'
  BY <1>2 DEF PlaceInv, RunFits
<1>8. CopyInv' /\ RecommendationsStay'
  BY DEF CopyInv, RecommendationsStay, BeingWritten
<1>9. HeldInv'
  BY <1>2 DEF HeldInv
<1>10. SettledInv'
  <2>. SUFFICES ASSUME NEW m \in Settled', ~Exempt(m.id)
       PROVE  m \in Settled
    BY DEF SettledInv, Exempt
  <2>1. CASE m \in log
    BY <2>1 DEF Settled
  <2>2. CASE m \notin log
    <3>1. PICK q \in Markers : m \in out[q] /\ \A h \in held'[q] : h.id # m.id
      BY <2>2 DEF Settled
    <3>2. \A h \in held[q] : h.id # m.id
      BY <1>1, <1>2, <1>3, <3>1 DEF Exempt
    <3>. QED BY <3>1, <3>2 DEF Settled
  <2>. QED BY <2>1, <2>2
<1>. QED BY <1>4, <1>6, <1>7, <1>8, <1>9, <1>10

LEMMA LoadDayKeepsInv ==
  ASSUME TrackInv, NEW p \in Markers, LoadDay(p) PROVE TrackInv'
<1>1. PICK h \in held[p] :
        LET d == h.id.day
            mine == OfDay(held[p], d)
        IN IF dayFile[d].form = "whole"
           THEN /\ copy' = [copy EXCEPT ![p] =
                              [day |-> d, rows |-> Patched(dayFile[d].rows, mine)]]
                /\ place' = [place EXCEPT ![p] = "holding"]
                /\ UNCHANGED held
           ELSE /\ held' = [held EXCEPT ![p] = @ \ mine]
                /\ UNCHANGED <<copy, place>>
  BY DEF LoadDay
<1>2. /\ place[p] = "patching"
      /\ UNCHANGED <<today, dayFile, log, order, toRead, out, recordings, markings,
                     known, reset, contended, tornDays, cut>>
  BY DEF LoadDay, trackHistory
<1>. DEFINE d == h.id.day
            mine == OfDay(held[p], d)
            rs == Patched(dayFile[d].rows, mine)
<1>3. d \in Days /\ mine # {}
  BY DEF TrackInv, TrackTypeOK, Rows, Ids, OfDay
<1>4. CASE dayFile[d].form = "whole"
  <2>1. /\ copy' = [copy EXCEPT ![p] = [day |-> d, rows |-> rs]]
        /\ place' = [place EXCEPT ![p] = "holding"]
        /\ UNCHANGED held
    BY <1>1, <1>4
  <2>2. mine = OfDay(held[p], d) /\ rs = Patched(dayFile[d].rows, mine)
    OBVIOUS
  <2>. HIDE DEF d, mine, rs
  <2>. QED BY <1>2, <1>3, <2>1, <2>2, LoadWholeDayKeepsInv
<1>5. CASE dayFile[d].form # "whole"
  <2>1. /\ held' = [held EXCEPT ![p] = @ \ mine]
        /\ UNCHANGED <<copy, place>>
    BY <1>1, <1>5
  <2>2. mine = OfDay(held[p], d)
    OBVIOUS
  <2>. HIDE DEF d, mine
  <2>. QED BY <1>2, <1>3, <1>5, <2>1, <2>2, PassOverDayKeepsInv
<1>. QED BY <1>4, <1>5

LEMMA TrackNextKeepsInv == ASSUME TrackInv, [TrackNext]_trackVars PROVE TrackInv'
<1>1. CASE UNCHANGED trackVars
  BY <1>1, StutterKeepsTrackInv
<1>2. CASE Midnight
  BY <1>2, MidnightKeepsInv
<1>3. ASSUME NEW p \in TrackPrograms, OpenDay(p) \/ WriteDay(p) PROVE TrackInv'
  BY <1>3, OpenDayKeepsInv, WriteDayKeepsInv
<1>4. ASSUME NEW p \in Recorders, Record(p) \/ StopRecorder(p) PROVE TrackInv'
  BY <1>4, RecordKeepsInv, StopRecorderKeepsInv
<1>5. ASSUME NEW p \in Markers,
             \/ BeginMarking(p) \/ ReadDay(p) \/ Replay(p)
             \/ LoadDay(p) \/ AppendMarks(p) \/ StopMarker(p)
      PROVE  TrackInv'
  BY <1>5, BeginMarkingKeepsInv, ReadDayKeepsInv, ReplayKeepsInv, LoadDayKeepsInv,
     AppendMarksKeepsInv, StopMarkerKeepsInv
<1>. QED BY <1>1, <1>2, <1>3, <1>4, <1>5 DEF TrackNext

\* Any number of programs record and mark as TrackInv says.
THEOREM TrackInvariance == TrackSpec => []TrackInv
<1>1. TrackInit => TrackInv
  BY TrackInitInv
<1>2. TrackInv /\ [TrackNext]_trackVars => TrackInv'
  BY TrackNextKeepsInv
<1>. QED BY <1>1, <1>2, PTL DEF TrackSpec

\* The state of the tracker has its type in every behaviour.
THEOREM TrackTypeCorrect == TrackSpec => []TrackTypeOK
<1>1. TrackInv => TrackTypeOK
  BY DEF TrackInv
<1>. QED BY <1>1, TrackInvariance, PTL

\* The files of the days and the log of marks agree, whatever programs record
\* and mark at the same time and wherever they stop.
THEOREM FilesAndLogAgree == TrackSpec => []TrackerAgrees
<1>1. ASSUME TrackInv PROVE TrackerAgrees
  <2>. USE <1>1 DEF TrackInv
  <2>1. MarksAreLogged
    <3>. SUFFICES ASSUME NEW d \in Days, NEW r \in dayFile[d].rows, NEW m \in r.marks
         PROVE  m \in Made
      BY DEF MarksAreLogged, Made
    <3>. QED BY DEF RowsInv, Sound
  <2>2. LogIsOfRows
    <3>1. \A m \in log : m \in Settled
      BY DEF Settled
    <3>. QED BY <3>1 DEF LogIsOfRows, SettledInv, Exempt
  <2>. QED BY <2>1, <2>2 DEF TrackerAgrees
<1>2. TrackInv => TrackerAgrees
  BY <1>1
<1>. QED BY <1>2, TrackInvariance, PTL

------------------------------------------------------------------------------
(***************************************************************************)
(* All tools.                                                               *)
(***************************************************************************)
\* A step of the desk is a step of each tool, or leaves its variables alone.
LEMMA DeskStepIsOfTools ==
  ASSUME [Next]_vars
  PROVE  /\ [ZoneNext]_zoneVars /\ [DuneNext]_duneVars /\ [ScanNext]_scanVars
         /\ [JournalNext]_journalVars /\ [TrackNext]_trackVars
<1>1. CASE ZoneNext /\ UNCHANGED <<part, duneVars, scanVars, journalVars, trackVars>>
  BY <1>1
<1>2. CASE DuneNext /\ UNCHANGED <<part, zoneVars, scanVars, journalVars, trackVars>>
  BY <1>2
<1>3. CASE ScanNext /\ UNCHANGED <<part, zoneVars, duneVars, journalVars, trackVars>>
  BY <1>3
<1>4. CASE JournalNext /\ UNCHANGED <<part, zoneVars, duneVars, scanVars, trackVars>>
  BY <1>4
<1>5. CASE TrackNext /\ UNCHANGED <<part, zoneVars, duneVars, scanVars, journalVars>>
  BY <1>5
<1>6. CASE UNCHANGED vars
  BY <1>6 DEF vars
<1>. QED BY <1>1, <1>2, <1>3, <1>4, <1>5, <1>6 DEF Next

\* What is proved of a tool by itself holds of it beside the others: a
\* behaviour of the desk is one of each tool.
THEOREM DeskIsOfTools ==
  Spec => ZoneSpec /\ DuneSpec /\ ScanSpec /\ JournalSpec /\ TrackSpec
<1>1. Init => ZoneInit /\ DuneInit /\ ScanInit /\ JournalInit /\ TrackInit
  BY DEF Init
<1>. QED
  BY <1>1, DeskStepIsOfTools, PTL
     DEF Spec, ZoneSpec, DuneSpec, ScanSpec, JournalSpec, TrackSpec

\* The types of the variables of all tools hold in every behaviour.
THEOREM DeskTypeCorrect == Spec => []TypeOK
BY DeskIsOfTools, TypeCorrect, DuneTypeCorrect, ScanTypeCorrect,
   JournalTypeCorrect, TrackTypeCorrect, PTL DEF TypeOK
==============================================================================
