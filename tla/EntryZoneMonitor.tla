--------------------------- MODULE EntryZoneMonitor ---------------------------
(***************************************************************************)
(* One run of the entry-zone monitor, as scripts/monitor_entry_zones.py and *)
(* the Hermes tool make it: a scan reconciles the theses and saves them,    *)
(* the watches are loaded, evaluated against the current prices and saved,  *)
(* and then the alerts are sent.  Both files are read as a whole, changed   *)
(* in memory and written in place; a run may fail or be killed at any step, *)
(* and nothing keeps two runs apart.                                        *)
(*                                                                          *)
(* A file that is missing, empty or cut short loads as one that holds       *)
(* nothing, and that is how it is represented.                              *)
(***************************************************************************)
EXTENDS ZoneWatches, FiniteSets

CONSTANTS
  Programs, \* the programs that run the monitor
  Senders,  \* those that send their alerts themselves; the others return them
  Prices,   \* the prices of a scan and of a lookup
  MaxRuns,  \* bound: the runs of a behaviour
  MaxOverlapping \* bound: the runs up to this one may begin while another is
            \* at its files

ASSUME SendersAssumption == Senders \subseteq Programs
ASSUME PricesAssumption == Prices \subseteq Int
ASSUME MaxRunsAssumption == MaxRuns \in Nat /\ MaxOverlapping \in Nat

VARIABLES
  thesisFile, \* momentum_theses.json
  watchFile,  \* entry_zone_watch.json
  stage,      \* where each program's run stands
  now,        \* the number of each program's run, its time
  theses,     \* the payload of its MomentumThesisStore
  candidates, \* what build_zone_watch_candidates made of its scan
  watches,    \* the payload of its ZoneWatchStateStore
  outbox,     \* its alerts that are not sent yet
  sighted,    \* its keys whose price was in the zone, not beyond the invalidation
  runs,       \* the runs begun
  issued,     \* history: the alerts whose watches were saved
  delivered,  \* history: the alerts that reached a reader
  touches,    \* history: the sightings that were saved
  ended,      \* history: the watches saved as invalidated or expired
  clean       \* no run began while another was at its files, and none was
              \* killed inside a write

files == <<thesisFile, watchFile>>
history == <<issued, delivered, touches, ended>>
zoneVars == <<files, stage, now, theses, candidates, watches, outbox, sighted,
              runs, history, clean>>

Stages == {"idle", "scanning", "savingTheses", "reconciled", "evaluating",
           "savingWatches", "sending"}

\* What is known of each key.
Theses == [Keys -> Thesis \cup {NoThesis}]
Watches == [Keys -> Watch \cup {NoWatch}]
Candidates == [Keys -> Candidate \cup {NoCandidate}]
NoTheses == [k \in Keys |-> NoThesis]
NoWatches == [k \in Keys |-> NoWatch]
NoCandidates == [k \in Keys |-> NoCandidate]

\* An alert, or a sighting, of a watch armed at `seen`, by a run.
Notes == [key : Keys, seen : Nat, run : Nat]

ZoneInit ==
  /\ thesisFile = NoTheses
  /\ watchFile = NoWatches
  /\ stage = [p \in Programs |-> "idle"]
  /\ now = [p \in Programs |-> 0]
  /\ theses = [p \in Programs |-> NoTheses]
  /\ candidates = [p \in Programs |-> NoCandidates]
  /\ watches = [p \in Programs |-> NoWatches]
  /\ outbox = [p \in Programs |-> {}]
  /\ sighted = [p \in Programs |-> {}]
  /\ runs = 0
  /\ issued = {}
  /\ delivered = {}
  /\ touches = {}
  /\ ended = {}
  /\ clean = TRUE

\* A run that may still write one of the files.
AtFiles(p) == stage[p] \notin {"idle", "sending"}

\* The service is made, which loads the theses.
BeginRun(p) ==
  /\ stage[p] = "idle"
  /\ runs < MaxRuns
  /\ (\E q \in Programs : AtFiles(q)) => runs < MaxOverlapping
  /\ runs' = runs + 1
  /\ stage' = [stage EXCEPT ![p] = "scanning"]
  /\ now' = [now EXCEPT ![p] = runs + 1]
  /\ theses' = [theses EXCEPT ![p] = thesisFile]
  /\ clean' = (clean /\ \A q \in Programs : ~AtFiles(q))
  /\ UNCHANGED <<files, candidates, watches, outbox, sighted, history>>

\* scan_live: every symbol is evaluated, the theses are reconciled, and save()
\* opens the file, which empties it.
Scan(p) ==
  /\ stage[p] = "scanning"
  /\ \E scan \in Scans : \E price \in [DOMAIN scan -> Prices] :
       /\ theses' = [theses EXCEPT ![p] =
            [k \in Keys |->
               IF k \in DOMAIN scan
                 THEN Reconciled(k, theses[p][k], scan[k], price[k], now[p])
                 ELSE Missing(theses[p][k])]]
       /\ LET shown(k) == Shown(k, theses[p][k], scan[k], price[k], now[p])
          IN candidates' = [candidates EXCEPT ![p] =
               [k \in Keys |->
                  IF k \in DOMAIN scan /\ shown(k).plan.use \in {"trade", "breakdown"}
                    THEN shown(k) ELSE NoCandidate]]
  /\ thesisFile' = NoTheses
  /\ stage' = [stage EXCEPT ![p] = "savingTheses"]
  /\ UNCHANGED <<watchFile, now, watches, outbox, sighted, runs, history, clean>>

\* A write that another program's write ran into leaves one text over the
\* other: the shorter one in front of the rest of the longer, which is no JSON.
Written(before, content, empty) == IF before = empty THEN {content} ELSE {content, empty}

SaveTheses(p) ==
  /\ stage[p] = "savingTheses"
  /\ thesisFile' \in Written(thesisFile, theses[p], NoTheses)
  /\ stage' = [stage EXCEPT ![p] = "reconciled"]
  /\ theses' = [theses EXCEPT ![p] = NoTheses]
  /\ UNCHANGED <<watchFile, now, candidates, watches, outbox, sighted, runs,
                 history, clean>>

\* ZoneWatchStateStore is made, which loads the watches.
LoadWatches(p) ==
  /\ stage[p] = "reconciled"
  /\ watches' = [watches EXCEPT ![p] = watchFile]
  /\ stage' = [stage EXCEPT ![p] = "evaluating"]
  /\ UNCHANGED <<files, now, theses, candidates, outbox, sighted, runs, history, clean>>

\* The keys of the candidates.
Watched(p) == {k \in Keys : candidates[p][k] # NoCandidate}

\* The watches evaluate() leaves, for the prices it looked up.
EvaluatedWatches(p, price) ==
  [k \in Keys |->
     IF k \in Watched(p)
       THEN Evaluated(k, watches[p][k], candidates[p][k], price[k], now[p])
       ELSE Expired(watches[p][k])]

\* evaluate(): a price for every candidate, the events, and the file opened.
Evaluate(p) ==
  /\ stage[p] = "evaluating"
  /\ \E price \in [Watched(p) -> Prices] :
       LET after == EvaluatedWatches(p, price)
           note(k) == [key |-> k, seen |-> after[k].seen, run |-> now[p]]
           zone(k) == ActivePlan(watches[p][k], candidates[p][k])
       IN /\ watches' = [watches EXCEPT ![p] = after]
          /\ outbox' = [outbox EXCEPT ![p] =
               {note(k) : k \in {x \in Watched(p) :
                  Alerts(x, watches[p][x], candidates[p][x], price[x])}}]
          /\ sighted' = [sighted EXCEPT ![p] =
               {note(k) : k \in {x \in Watched(p) :
                  Inside(zone(x), price[x]) /\ ~Beyond(x, zone(x), price[x])}}]
  /\ watchFile' = NoWatches
  /\ stage' = [stage EXCEPT ![p] = "savingWatches"]
  /\ candidates' = [candidates EXCEPT ![p] = NoCandidates]
  /\ UNCHANGED <<thesisFile, now, theses, runs, history, clean>>

\* The run goes on with the alerts that are left, or ends when there are none.
Proceed(p, left) ==
  /\ stage' = [stage EXCEPT ![p] = IF left = {} THEN "idle" ELSE "sending"]
  /\ now' = [now EXCEPT ![p] = IF left = {} THEN 0 ELSE @]
  /\ outbox' = [outbox EXCEPT ![p] = left]
  /\ watches' = [watches EXCEPT ![p] = NoWatches]
  /\ sighted' = [sighted EXCEPT ![p] = {}]
  /\ UNCHANGED <<theses, candidates>>

\* The rest of save(), and the return of evaluate().
SaveWatches(p) ==
  /\ stage[p] = "savingWatches"
  /\ watchFile' \in Written(watchFile, watches[p], NoWatches)
  /\ issued' = issued \cup outbox[p]
  /\ touches' = touches \cup sighted[p]
  /\ ended' = ended \cup
       {[key |-> k, seen |-> watches[p][k].seen] :
          k \in {x \in Keys : watches[p][x].seen # 0 /\ ~Held(watches[p][x])}}
  /\ Proceed(p, outbox[p])
  /\ UNCHANGED <<thesisFile, runs, delivered, clean>>

\* send_markdown_v2_messages: the next message is accepted.
Send(p) ==
  /\ stage[p] = "sending"
  /\ p \in Senders
  /\ \E m \in outbox[p] :
       /\ delivered' = delivered \cup {m}
       /\ Proceed(p, outbox[p] \ {m})
  /\ UNCHANGED <<files, runs, issued, touches, ended, clean>>

\* The run is over, and what it held in memory with it.
Forget(p) ==
  /\ stage' = [stage EXCEPT ![p] = "idle"]
  /\ now' = [now EXCEPT ![p] = 0]
  /\ theses' = [theses EXCEPT ![p] = NoTheses]
  /\ candidates' = [candidates EXCEPT ![p] = NoCandidates]
  /\ watches' = [watches EXCEPT ![p] = NoWatches]
  /\ outbox' = [outbox EXCEPT ![p] = {}]
  /\ sighted' = [sighted EXCEPT ![p] = {}]

\* A message is refused, or its answer lost: the rest of them is not sent.
SendFails(p) ==
  /\ stage[p] = "sending"
  /\ p \in Senders
  /\ \E m \in outbox[p] : delivered' \in {delivered, delivered \cup {m}}
  /\ Forget(p)
  /\ UNCHANGED <<files, runs, issued, touches, ended, clean>>

\* The result is returned with its alerts.
ReturnAlerts(p) ==
  /\ stage[p] = "sending"
  /\ p \notin Senders
  /\ delivered' = delivered \cup outbox[p]
  /\ Forget(p)
  /\ UNCHANGED <<files, runs, issued, touches, ended, clean>>

\* A frame or a price cannot be fetched, or the process is killed.
DieInRun(p) ==
  /\ stage[p] # "idle"
  /\ Forget(p)
  /\ clean' = (clean /\ stage[p] \notin {"savingTheses", "savingWatches"})
  /\ UNCHANGED <<files, runs, history>>

ZoneNext ==
  \E p \in Programs :
    \/ BeginRun(p)
    \/ Scan(p)
    \/ SaveTheses(p)
    \/ LoadWatches(p)
    \/ Evaluate(p)
    \/ SaveWatches(p)
    \/ Send(p)
    \/ SendFails(p)
    \/ ReturnAlerts(p)
    \/ DieInRun(p)

ZoneSpec == ZoneInit /\ [][ZoneNext]_zoneVars

------------------------------------------------------------------------------
(***************************************************************************)
(* Properties.                                                              *)
(***************************************************************************)
\* The types of the variables.
ZoneTypeOK ==
  /\ thesisFile \in Theses
  /\ watchFile \in Watches
  /\ stage \in [Programs -> Stages]
  /\ now \in [Programs -> Nat]
  /\ theses \in [Programs -> Theses]
  /\ candidates \in [Programs -> Candidates]
  /\ watches \in [Programs -> Watches]
  /\ outbox \in [Programs -> SUBSET Notes]
  /\ sighted \in [Programs -> SUBSET Notes]
  /\ runs \in Nat
  /\ issued \subseteq Notes
  /\ delivered \subseteq Notes
  /\ touches \subseteq Notes
  /\ ended \subseteq [key : Keys, seen : Nat]
  /\ clean \in BOOLEAN

\* The alerts are de-duplicated: as long as no two runs overlapped at the files
\* and none was killed inside a write, two alerts of one key that reached a
\* reader are about two armings, and the earlier one was invalidated or had
\* expired.  Failures of the dispatch and deaths elsewhere repeat nothing.
Deduplicated ==
  clean =>
    \A m, n \in delivered :
      m.key = n.key /\ m.run < n.run =>
        /\ m.seen # n.seen
        /\ [key |-> m.key, seen |-> m.seen] \in ended

\* No touch goes unanswered: when a saved run saw the price in the zone of a
\* watch, not beyond its invalidation, an alert was issued for that arming; only
\* the run that rearmed a watch may have held it back, for an alert of the
\* watch before.
TouchIsAnswered ==
  \A t \in touches :
    \E m \in issued :
      /\ m.key = t.key
      /\ m.seen = t.seen \/ t.run = t.seen

\* Scans do not drift the geometry: as long as the thesis a watch was armed
\* from is the one on file, thesis and watch have the same plan, whatever was
\* scanned since.
GeometryIsHeld ==
  \A k \in Keys :
    watchFile[k].thesis # 0 /\ watchFile[k].thesis = thesisFile[k].created =>
      watchFile[k].plan = thesisFile[k].plan
==============================================================================
