------------------------ MODULE EntryZoneMonitor_proofs ------------------------
(***************************************************************************)
(* What the monitor's alerts and zones are worth, for any number of keys,   *)
(* programs, runs, plans and prices, and any interleaving of the runs.      *)
(***************************************************************************)
EXTENDS EntryZoneMonitor, TLAPS

\* Each run has a number of its own, no run has a number it has not begun with,
\* and nothing is stamped with a number that was not given out.
RunInv ==
  /\ \A p \in Programs : stage[p] = "idle" <=> now[p] = 0
  /\ \A p \in Programs : now[p] <= runs
  /\ \A p, q \in Programs : now[p] = now[q] /\ now[p] # 0 => p = q
  /\ \A m \in issued : m.run <= runs /\ m.seen <= runs
  /\ \A e \in ended : e.seen <= runs
  /\ \A k \in Keys : /\ thesisFile[k].created <= runs
                     /\ watchFile[k].thesis <= runs /\ watchFile[k].seen <= runs
  /\ \A p \in Programs, k \in Keys :
       /\ theses[p][k].created <= runs
       /\ watches[p][k].thesis <= runs /\ watches[p][k].seen <= runs
       /\ candidates[p][k].thesis <= runs

\* The alerts of a run are in its outbox from their evaluation on, and issued
\* once it dispatches; those that were delivered were issued.
OutboxInv ==
  /\ \A p \in Programs :
       stage[p] \notin {"savingWatches", "sending"} => outbox[p] = {}
  /\ \A p \in Programs : \A m \in outbox[p] : m.run <= runs /\ m.seen <= runs
  /\ \A p \in Programs : stage[p] = "sending" => outbox[p] \subseteq issued
  /\ delivered \subseteq issued

\* A watch that says it was alerted was: there is the alert of that arming.
AnsweredInv ==
  /\ \A k \in Keys : watchFile[k].alerted =>
       \E m \in issued : m.key = k /\ m.seen = watchFile[k].seen
  /\ \A p \in Programs, k \in Keys : watches[p][k].alerted =>
       \E m \in issued \cup outbox[p] : m.key = k /\ m.seen = watches[p][k].seen
  /\ \A p \in Programs : \A t \in sighted[p] :
       \E m \in issued \cup outbox[p] :
         m.key = t.key /\ (m.seen = t.seen \/ t.run = t.seen)
  /\ TouchIsAnswered

\* A thesis, a candidate or a watch of the key holds the plan under the time n
\* of the thesis it is of.
Stamped(k, n, plan) ==
  \/ thesisFile[k].created = n /\ thesisFile[k].plan = plan
  \/ watchFile[k].thesis = n /\ watchFile[k].plan = plan
  \/ \E p \in Programs :
       \/ theses[p][k].created = n /\ theses[p][k].plan = plan
       \/ watches[p][k].thesis = n /\ watches[p][k].plan = plan
       \/ candidates[p][k].thesis = n /\ candidates[p][k].plan = plan

\* The time of a thesis decides its plan, wherever it is written; a run that
\* has not scanned has stamped nothing.
StampInv ==
  \A k \in Keys :
    /\ \A n \in 1 .. runs : \A a, b \in Plans :
         Stamped(k, n, a) /\ Stamped(k, n, b) => a = b
    /\ \A p \in Programs : \A a \in Plans :
         stage[p] = "scanning" => ~Stamped(k, now[p], a)

\* Watches that are saved as over.
Over(ws) == {[key |-> k, seen |-> ws[k].seen] :
               k \in {x \in Keys : ws[x].seen # 0 /\ ~Held(ws[x])}}

\* Of two alerts of a key the earlier one is about another arming, now over.
NoRepeats(notes, over) ==
  \A m, n \in notes :
    m.key = n.key /\ m.run < n.run =>
      m.seen # n.seen /\ [key |-> m.key, seen |-> m.seen] \in over

\* And the watches remember: the arming of an alert is over or is the one the
\* watch still holds, as alerted.
Remembered(notes, over, ws) ==
  /\ \A m \in notes :
       \/ [key |-> m.key, seen |-> m.seen] \in over
       \/ Held(ws[m.key]) /\ ws[m.key].alerted /\ ws[m.key].seen = m.seen
  /\ \A k \in Keys : Held(ws[k]) => [key |-> k, seen |-> ws[k].seen] \notin over

\* As long as no two runs overlapped at the files and none was cut inside a
\* write, what the run at the files knows is all there is to know.
CleanInv ==
  clean =>
    /\ \A p, q \in Programs : AtFiles(p) /\ AtFiles(q) => p = q
    /\ \A p \in Programs : AtFiles(p) =>
         /\ \A m \in issued : m.run < now[p] /\ m.seen < now[p]
         /\ \A e \in ended : e.seen < now[p]
    /\ \A p \in Programs : stage[p] = "evaluating" => watches[p] = watchFile
    /\ \A p \in Programs : stage[p] = "savingWatches" =>
         /\ watchFile = NoWatches
         /\ NoRepeats(issued \cup outbox[p], ended \cup Over(watches[p]))
         /\ Remembered(issued \cup outbox[p], ended \cup Over(watches[p]), watches[p])
    /\ (\A p \in Programs : stage[p] # "savingWatches") =>
         Remembered(issued, ended, watchFile)
    /\ NoRepeats(issued, ended)

ZoneInv == ZoneTypeOK /\ RunInv /\ OutboxInv /\ AnsweredInv /\ StampInv /\ CleanInv
-----------------------------------------------------------------------------
(* What the operators on theses and watches return.                         *)

\* A thesis keeps its time and its plan, or is a new one of this run.
LEMMA ReconciledThesis ==
  ASSUME NEW k \in Keys, NEW thesis \in Thesis \cup {NoThesis}, NEW plan \in Plans,
         NEW price \in Prices, NEW n \in Nat
  PROVE  LET r == Reconciled(k, thesis, plan, price, n)
         IN /\ r \in Thesis \cup {NoThesis}
            /\ \/ r.created = thesis.created /\ r.plan = thesis.plan
               \/ /\ r.created = n /\ r.plan = plan
                  /\ ~Holds(k, thesis, price, n) /\ Tradeable(plan)
<1>1. CASE Holds(k, thesis, price, n)
  BY <1>1 DEF Reconciled
<1>2. CASE ~Holds(k, thesis, price, n) /\ Tradeable(plan)
  BY <1>2 DEF Reconciled, Thesis, ThesisStates
<1>3. CASE ~Holds(k, thesis, price, n) /\ ~Tradeable(plan)
  <2>1. Reconciled(k, thesis, plan, price, n) = Closed(k, thesis, price, n)
    BY <1>3 DEF Reconciled
  <2>2. CASE thesis.state # "active" \/ n - thesis.created > MaxAge
    BY <2>1, <2>2 DEF Closed
  <2>3. CASE ~(thesis.state # "active" \/ n - thesis.created > MaxAge)
    <3>1. thesis \in Thesis
      BY <2>3 DEF NoThesis
    <3>. QED BY <2>1, <2>3, <3>1 DEF Closed, Thesis, ThesisStates
  <2>. QED BY <2>2, <2>3
<1>. QED BY <1>1, <1>2, <1>3

LEMMA MissingThesis ==
  ASSUME NEW thesis \in Thesis \cup {NoThesis}
  PROVE  /\ Missing(thesis) \in Thesis \cup {NoThesis}
         /\ Missing(thesis).created = thesis.created
         /\ Missing(thesis).plan = thesis.plan
BY DEF Missing, Thesis, NoThesis, ThesisStates

\* A candidate shows the thesis that holds, a new one of this run, or none.
LEMMA ShownCandidate ==
  ASSUME NEW k \in Keys, NEW thesis \in Thesis \cup {NoThesis}, NEW plan \in Plans,
         NEW price \in Prices, NEW n \in Nat
  PROVE  LET c == Shown(k, thesis, plan, price, n)
         IN /\ c \in Candidate
            /\ \/ c.thesis = thesis.created /\ c.plan = thesis.plan
               \/ c.thesis = 0
               \/ /\ c.thesis = n /\ c.plan = plan
                  /\ ~Holds(k, thesis, price, n) /\ Tradeable(plan)
<1>1. CASE Holds(k, thesis, price, n)
  <2>1. thesis \in Thesis
    BY <1>1 DEF Holds, NoThesis
  <2>. QED BY <1>1, <2>1 DEF Shown, Thesis, Candidate
<1>2. CASE ~Holds(k, thesis, price, n)
  BY <1>2 DEF Shown, Candidate
<1>. QED BY <1>1, <1>2

\* A watch keeps its zone, its arming and its alert as long as it is held, and
\* takes those of the candidate when it is armed.
LEMMA EvaluatedWatch ==
  ASSUME NEW k \in Keys, NEW w \in Watch \cup {NoWatch}, NEW c \in Candidate,
         NEW price \in Prices, NEW n \in Nat \ {0}
  PROVE  LET e == Evaluated(k, w, c, price, n)
         IN /\ e \in Watch
            /\ Held(w) => /\ e.thesis = w.thesis /\ e.plan = w.plan
                          /\ e.seen = w.seen
            /\ ~Held(w) => /\ e.thesis = c.thesis /\ e.plan = c.plan
                           /\ e.seen = n
            /\ e.alerted <=> Alerts(k, w, c, price) \/ (Held(w) /\ w.alerted)
            /\ Alerts(k, w, c, price) => Held(e) /\ ~w.alerted
<1>. DEFINE e == Evaluated(k, w, c, price, n)
            zone == ActivePlan(w, c)
<1>1. Held(w) => w \in Watch
  BY DEF Held, NoWatch
<1>2. zone \in Plans
  BY <1>1 DEF ActivePlan, Watch, Candidate
<1>3. /\ e.plan = zone /\ e.thesis = (IF Held(w) THEN w.thesis ELSE c.thesis)
      /\ e.seen = (IF Held(w) THEN w.seen ELSE n)
      /\ e.invalidated = (~w.invalidated /\ Beyond(k, zone, price))
      /\ e.expired = FALSE
      /\ e.alerted = (Alerts(k, w, c, price) \/ (Held(w) /\ w.alerted))
  BY Zenon DEF Evaluated
<1>4. e \in Watch
  <2>1. (IF Held(w) THEN w.thesis ELSE c.thesis) \in Nat
        /\ (IF Held(w) THEN w.seen ELSE n) \in Nat
    BY <1>1 DEF Watch, Candidate
  <2>. QED BY <1>2, <2>1 DEF Evaluated, Watch
<1>5. Alerts(k, w, c, price) => Held(e) /\ ~w.alerted
  <2>1. e.seen # 0
    BY <1>3 DEF Held
  <2>. QED BY <1>3, <2>1 DEF Alerts, Held
<1>. QED BY <1>3, <1>4, <1>5 DEF ActivePlan

LEMMA ExpiredWatch ==
  ASSUME NEW w \in Watch \cup {NoWatch}
  PROVE  /\ Expired(w) \in Watch \cup {NoWatch}
         /\ Expired(w).thesis = w.thesis /\ Expired(w).plan = w.plan
         /\ Expired(w).seen = w.seen /\ Expired(w).alerted = w.alerted
         /\ ~Held(Expired(w))
<1>1. CASE w.seen = 0
  BY <1>1 DEF Expired, Held
<1>2. CASE w.seen # 0
  <2>1. w \in Watch
    BY <1>2 DEF NoWatch
  <2>2. Expired(w) = [w EXCEPT !.expired = TRUE]
    BY <1>2 DEF Expired
  <2>. QED BY <2>1, <2>2 DEF Watch, Held
<1>. QED BY <1>1, <1>2
-----------------------------------------------------------------------------
LEMMA Empty ==
  /\ NoTheses \in Theses /\ NoWatches \in Watches
  /\ NoCandidates \in Candidates
  /\ \A k \in Keys : /\ NoTheses[k] = NoThesis /\ NoThesis.created = 0
                     /\ NoWatches[k] = NoWatch /\ NoWatch.seen = 0
                     /\ NoWatch.thesis = 0 /\ ~NoWatch.alerted /\ ~Held(NoWatch)
                     /\ NoCandidates[k] = NoCandidate /\ NoCandidate.thesis = 0
BY DEF NoTheses, Theses, NoWatches, Watches, NoThesis, NoWatch, Held,
       NoCandidates, Candidates, NoCandidate

\* The times in theses and watches are numbers.
LEMMA Stamps ==
  ASSUME ZoneTypeOK
  PROVE  /\ runs \in Nat
         /\ \A k \in Keys : /\ thesisFile[k].created \in Nat
                            /\ watchFile[k].thesis \in Nat
                            /\ watchFile[k].seen \in Nat
         /\ \A p \in Programs, k \in Keys : /\ theses[p][k].created \in Nat
                                          /\ watches[p][k].thesis \in Nat
                                          /\ watches[p][k].seen \in Nat
                                          /\ candidates[p][k].thesis \in Nat
<1>1. \A t \in Thesis \cup {NoThesis} : t.created \in Nat
  BY DEF Thesis, NoThesis
<1>2. \A w \in Watch \cup {NoWatch} : w.thesis \in Nat /\ w.seen \in Nat
  BY DEF Watch, NoWatch
<1>3. \A c \in Candidate \cup {NoCandidate} : c.thesis \in Nat
  BY DEF Candidate, NoCandidate
<1>. QED BY <1>1, <1>2, <1>3 DEF ZoneTypeOK, Theses, Watches, Candidates

\* A step that stamps nothing new keeps the stamps in agreement.
LEMMA StampsKept ==
  ASSUME ZoneTypeOK, RunInv, StampInv, runs' = runs,
         \A k \in Keys : \A n \in 1 .. runs : \A a \in Plans :
           Stamped(k, n, a)' => Stamped(k, n, a),
         \A p \in Programs :
           stage'[p] = "scanning" => stage[p] = "scanning" /\ now'[p] = now[p]
  PROVE  StampInv'
<1>1. ASSUME NEW k \in Keys, NEW n \in 1 .. runs', NEW a \in Plans, NEW b \in Plans,
             Stamped(k, n, a)', Stamped(k, n, b)'
      PROVE  a = b
  BY <1>1 DEF StampInv
<1>2. ASSUME NEW k \in Keys, NEW p \in Programs, NEW a \in Plans,
             stage'[p] = "scanning", Stamped(k, now[p], a)'
      PROVE  FALSE
  <2>1. stage[p] = "scanning" /\ now'[p] = now[p] /\ now[p] \in 1 .. runs
    BY <1>2 DEF ZoneTypeOK, RunInv
  <2>2. Stamped(k, now[p], a)
    BY <1>2, <2>1
  <2>. QED BY <2>1, <2>2 DEF StampInv
<1>. QED BY <1>1, <1>2 DEF StampInv

\* A step that begins no run keeps the numbers of the runs apart.
LEMMA RunKept ==
  ASSUME ZoneTypeOK, RunInv, runs' = runs,
         \A p \in Programs :
           (stage'[p] = "idle" <=> now'[p] = 0) /\ now'[p] \in {0, now[p]},
         \A m \in issued' : m.run <= runs /\ m.seen <= runs,
         \A e \in ended' : e.seen <= runs,
         \A k \in Keys : /\ thesisFile'[k].created <= runs
                         /\ watchFile'[k].thesis <= runs /\ watchFile'[k].seen <= runs,
         \A p \in Programs, k \in Keys :
           /\ theses'[p][k].created <= runs
           /\ watches'[p][k].thesis <= runs /\ watches'[p][k].seen <= runs
           /\ candidates'[p][k].thesis <= runs
  PROVE  RunInv'
<1>1. \A p \in Programs : now'[p] <= runs
  BY DEF ZoneTypeOK, RunInv
<1>2. \A p, q \in Programs : now'[p] = now'[q] /\ now'[p] # 0 => p = q
  BY DEF RunInv
<1>. QED BY <1>1, <1>2 DEF RunInv

\* A step that leaves the watch file and the run at it alone.
LEMMA CleanKept ==
  ASSUME CleanInv, clean' => clean, UNCHANGED <<watchFile, issued, ended>>,
         \A q \in Programs :
           /\ AtFiles(q)' => AtFiles(q) /\ now'[q] = now[q]
           /\ stage'[q] = "evaluating" =>
                stage[q] = "evaluating" /\ watches'[q] = watches[q]
           /\ stage'[q] = "savingWatches" =>
                /\ stage[q] = "savingWatches"
                /\ watches'[q] = watches[q] /\ outbox'[q] = outbox[q]
           /\ clean' /\ stage[q] = "savingWatches" => stage'[q] = "savingWatches"
  PROVE  CleanInv'
<1>. SUFFICES ASSUME clean' PROVE CleanInv'
  BY DEF CleanInv
<1>1. NoRepeats(issued, ended)'
  BY DEF CleanInv
<1>2. (\A q \in Programs : stage'[q] # "savingWatches")
        => Remembered(issued, ended, watchFile)'
  BY DEF CleanInv
<1>3. \A q \in Programs : stage'[q] = "savingWatches" =>
       /\ watchFile' = NoWatches
       /\ NoRepeats(issued' \cup outbox'[q], ended' \cup Over(watches'[q]))
       /\ Remembered(issued' \cup outbox'[q], ended' \cup Over(watches'[q]), watches'[q])
  BY DEF CleanInv
<1>4. \A q \in Programs : stage'[q] = "evaluating" => watches'[q] = watchFile'
  BY DEF CleanInv
<1>5. /\ \A q, r \in Programs : AtFiles(q)' /\ AtFiles(r)' => q = r
      /\ \A q \in Programs : AtFiles(q)' =>
           /\ \A m \in issued' : m.run < now'[q] /\ m.seen < now'[q]
           /\ \A e \in ended' : e.seen < now'[q]
  BY DEF CleanInv
<1>. QED BY <1>1, <1>2, <1>3, <1>4, <1>5 DEF CleanInv

LEMMA InitInv == ASSUME ZoneInit PROVE ZoneInv
<1>1. ZoneTypeOK
  <2>. QED BY Empty DEF ZoneInit, ZoneTypeOK, Stages
<1>2. RunInv
  BY Empty DEF ZoneInit, RunInv
<1>3. OutboxInv
  BY DEF ZoneInit, OutboxInv
<1>4. AnsweredInv
  BY Empty DEF ZoneInit, AnsweredInv, TouchIsAnswered
<1>5. StampInv
  BY DEF ZoneInit, StampInv
<1>6. CleanInv
  BY Empty DEF ZoneInit, CleanInv, AtFiles, NoRepeats, Remembered
<1>. QED BY <1>1, <1>2, <1>3, <1>4, <1>5, <1>6 DEF ZoneInv

LEMMA BeginRunKeepsInv ==
  ASSUME ZoneInv, NEW p \in Programs, BeginRun(p) PROVE ZoneInv'
<1>. USE DEF files, history
<1>1. /\ stage[p] = "idle" /\ runs' = runs + 1 /\ runs \in Nat
      /\ stage' = [stage EXCEPT ![p] = "scanning"]
      /\ now' = [now EXCEPT ![p] = runs + 1]
      /\ theses' = [theses EXCEPT ![p] = thesisFile]
      /\ UNCHANGED <<files, candidates, watches, outbox, sighted, history>>
  BY DEF BeginRun, ZoneInv, ZoneTypeOK
<1>2. ZoneTypeOK'
  <2>1. stage' \in [Programs -> Stages]
    BY <1>1 DEF ZoneInv, ZoneTypeOK, Stages
  <2>2. now' \in [Programs -> Nat] /\ runs' \in Nat
    BY <1>1 DEF ZoneInv, ZoneTypeOK
  <2>3. theses' \in [Programs -> Theses]
    BY <1>1 DEF ZoneInv, ZoneTypeOK
  <2>4. clean' \in BOOLEAN
    BY DEF BeginRun, ZoneInv, ZoneTypeOK
  <2>. QED BY <1>1, <2>1, <2>2, <2>3, <2>4 DEF ZoneInv, ZoneTypeOK
<1>3. RunInv'
  <2>1. \A q \in Programs : /\ stage'[q] = "idle" <=> now'[q] = 0
                            /\ now'[q] <= runs'
    BY <1>1 DEF ZoneInv, ZoneTypeOK, RunInv
  <2>2. \A q, r \in Programs : now'[q] = now'[r] /\ now'[q] # 0 => q = r
    BY <1>1 DEF ZoneInv, ZoneTypeOK, RunInv
  <2>3. /\ \A m \in issued' : m.run <= runs' /\ m.seen <= runs'
        /\ \A e \in ended' : e.seen <= runs'
    BY <1>1 DEF ZoneInv, ZoneTypeOK, RunInv, Notes
  <2>4. \A k \in Keys : /\ thesisFile'[k].created <= runs'
                        /\ watchFile'[k].thesis <= runs' /\ watchFile'[k].seen <= runs'
    BY <1>1, Stamps DEF ZoneInv, RunInv
  <2>5. \A q \in Programs, k \in Keys :
          /\ theses'[q][k].created <= runs'
          /\ watches'[q][k].thesis <= runs' /\ watches'[q][k].seen <= runs'
          /\ candidates'[q][k].thesis <= runs'
    <3>. SUFFICES ASSUME NEW q \in Programs, NEW k \in Keys
                  PROVE  /\ theses'[q][k].created <= runs'
                         /\ watches'[q][k].thesis <= runs'
                         /\ watches'[q][k].seen <= runs'
                         /\ candidates'[q][k].thesis <= runs'
      OBVIOUS
    <3>1. theses'[q] = thesisFile \/ theses'[q] = theses[q]
      BY <1>1 DEF ZoneInv, ZoneTypeOK
    <3>. QED BY <1>1, <3>1, Stamps DEF ZoneInv, RunInv
  <2>. QED BY <2>1, <2>2, <2>3, <2>4, <2>5 DEF RunInv
<1>4. OutboxInv'
  <2>1. \A q \in Programs : \A m \in outbox'[q] : m.run <= runs' /\ m.seen <= runs'
    BY <1>1 DEF ZoneInv, ZoneTypeOK, OutboxInv, Notes
  <2>. QED BY <1>1, <2>1 DEF ZoneInv, ZoneTypeOK, OutboxInv
<1>5. AnsweredInv'
  BY <1>1 DEF ZoneInv, ZoneTypeOK, AnsweredInv, TouchIsAnswered
<1>6. StampInv'
  <2>1. ASSUME NEW k \in Keys, NEW n \in Nat, NEW a \in Plans, Stamped(k, n, a)'
        PROVE  Stamped(k, n, a) /\ n <= runs
    <3>1. Stamped(k, n, a)
      BY <1>1, <2>1 DEF ZoneInv, ZoneTypeOK, Stamped
    <3>. QED BY <3>1 DEF ZoneInv, RunInv, Stamped
  <2>2. \A k \in Keys : \A n \in 1 .. runs' : \A a, b \in Plans :
          Stamped(k, n, a)' /\ Stamped(k, n, b)' => a = b
    BY <1>1, <2>1 DEF ZoneInv, StampInv
  <2>3. ASSUME NEW k \in Keys, NEW q \in Programs, NEW a \in Plans,
               stage'[q] = "scanning", Stamped(k, now[q], a)'
        PROVE  FALSE
    <3>1. now'[q] \in Nat
      BY <1>2 DEF ZoneTypeOK
    <3>2. Stamped(k, now'[q], a) /\ now'[q] <= runs
      BY <2>1, <2>3, <3>1
    <3>3. q # p
      BY <1>1, <3>2 DEF ZoneInv, ZoneTypeOK
    <3>4. stage[q] = "scanning" /\ now'[q] = now[q]
      BY <1>1, <2>3, <3>3 DEF ZoneInv, ZoneTypeOK
    <3>. QED BY <3>2, <3>4 DEF ZoneInv, StampInv
  <2>. QED BY <2>2, <2>3 DEF StampInv
<1>7. CleanInv'
  <2>. SUFFICES ASSUME clean' PROVE CleanInv'
    BY DEF CleanInv
  <2>1. clean /\ \A q \in Programs : ~AtFiles(q)
    BY DEF BeginRun
  <2>2. \A q \in Programs : stage[q] # "savingWatches"
    BY <2>1 DEF AtFiles
  <2>3. \A q \in Programs : q # p => stage'[q] \in {"idle", "sending"}
    BY <1>1, <2>1 DEF AtFiles, ZoneInv, ZoneTypeOK
  <2>4. stage'[p] = "scanning" /\ now'[p] = runs + 1
    BY <1>1 DEF ZoneInv, ZoneTypeOK
  <2>5. /\ \A m \in issued' : m.run < now'[p] /\ m.seen < now'[p]
        /\ \A e \in ended' : e.seen < now'[p]
    BY <1>1, <2>4 DEF ZoneInv, ZoneTypeOK, RunInv, Notes
  <2>6. Remembered(issued, ended, watchFile)' /\ NoRepeats(issued, ended)'
    BY <1>1, <2>1, <2>2 DEF ZoneInv, CleanInv, Remembered, NoRepeats
  <2>. QED BY <2>3, <2>4, <2>5, <2>6 DEF CleanInv, AtFiles
<1>. QED BY <1>2, <1>3, <1>4, <1>5, <1>6, <1>7 DEF ZoneInv

\* The end of a run takes nothing with it that is not on file, unless it comes
\* inside a write.
LEMMA ForgetKeepsInv ==
  ASSUME ZoneInv, NEW p \in Programs, Forget(p),
         UNCHANGED <<files, runs, issued, touches, ended>>,
         delivered' \subseteq delivered \cup issued, clean' \in BOOLEAN,
         clean' => clean /\ stage[p] # "savingWatches"
  PROVE  ZoneInv'
<1>. USE DEF files
<1>1. /\ stage' = [stage EXCEPT ![p] = "idle"] /\ now' = [now EXCEPT ![p] = 0]
      /\ theses' = [theses EXCEPT ![p] = NoTheses]
      /\ candidates' = [candidates EXCEPT ![p] = NoCandidates]
      /\ watches' = [watches EXCEPT ![p] = NoWatches]
      /\ outbox' = [outbox EXCEPT ![p] = {}]
      /\ sighted' = [sighted EXCEPT ![p] = {}]
  BY DEF Forget
<1>2. ZoneTypeOK'
  <2>1. stage' \in [Programs -> Stages] /\ now' \in [Programs -> Nat]
    BY <1>1 DEF ZoneInv, ZoneTypeOK, Stages
  <2>2. theses' \in [Programs -> Theses] /\ watches' \in [Programs -> Watches]
    BY <1>1, Empty DEF ZoneInv, ZoneTypeOK
  <2>3. outbox' \in [Programs -> SUBSET Notes] /\ sighted' \in [Programs -> SUBSET Notes]
    BY <1>1 DEF ZoneInv, ZoneTypeOK
  <2>4. candidates' \in [Programs -> Candidates]
    BY <1>1, Empty DEF ZoneInv, ZoneTypeOK
  <2>5. delivered' \subseteq Notes
    BY DEF ZoneInv, ZoneTypeOK
  <2>. QED BY <2>1, <2>2, <2>3, <2>4, <2>5 DEF ZoneInv, ZoneTypeOK
<1>3. RunInv'
  <2>1. \A q \in Programs :
          (stage'[q] = "idle" <=> now'[q] = 0) /\ now'[q] \in {0, now[q]}
    BY <1>1 DEF ZoneInv, ZoneTypeOK, RunInv
  <2>2. \A q \in Programs, k \in Keys :
          /\ theses'[q][k].created <= runs
          /\ watches'[q][k].thesis <= runs /\ watches'[q][k].seen <= runs
          /\ candidates'[q][k].thesis <= runs
    <3>. TAKE q \in Programs, k \in Keys
    <3>1. CASE q = p
      BY <1>1, <3>1, Empty DEF ZoneInv, ZoneTypeOK
    <3>2. CASE q # p
      BY <1>1, <3>2 DEF ZoneInv, ZoneTypeOK, RunInv
    <3>. QED BY <3>1, <3>2
  <2>. QED BY <2>1, <2>2, RunKept DEF ZoneInv, RunInv
<1>4. OutboxInv'
  BY <1>1 DEF ZoneInv, ZoneTypeOK, OutboxInv
<1>5. AnsweredInv'
  <2>. \A k \in Keys : ~NoWatches[k].alerted
    BY Empty
  <2>. QED BY <1>1 DEF ZoneInv, ZoneTypeOK, AnsweredInv, TouchIsAnswered
<1>6. StampInv'
  <2>1. ASSUME NEW k \in Keys, NEW n \in 1 .. runs, NEW a \in Plans, Stamped(k, n, a)'
        PROVE  Stamped(k, n, a)
    BY <1>1, <2>1, Empty DEF ZoneInv, ZoneTypeOK, Stamped
  <2>. QED BY <1>1, <2>1, StampsKept DEF ZoneInv, ZoneTypeOK
<1>7. CleanInv'
  <2>1. \A q \in Programs :
          IF q = p THEN stage'[q] = "idle"
          ELSE /\ stage'[q] = stage[q] /\ now'[q] = now[q]
               /\ watches'[q] = watches[q] /\ outbox'[q] = outbox[q]
    BY <1>1 DEF ZoneInv, ZoneTypeOK
  <2>2. \A q \in Programs : AtFiles(q)' => AtFiles(q) /\ now'[q] = now[q]
    BY <2>1 DEF AtFiles
  <2>. QED BY <2>1, <2>2, CleanKept DEF ZoneInv
<1>. QED BY <1>2, <1>3, <1>4, <1>5, <1>6, <1>7 DEF ZoneInv

LEMMA ScanKeepsInv ==
  ASSUME ZoneInv, NEW p \in Programs, Scan(p) PROVE ZoneInv'
<1>. USE DEF history
<1>. DEFINE NewTheses(scan, price) ==
              [k \in Keys |->
                 IF k \in DOMAIN scan
                   THEN Reconciled(k, theses[p][k], scan[k], price[k], now[p])
                   ELSE Missing(theses[p][k])]
            NewCandidates(scan, price) ==
              [k \in Keys |->
                 IF k \in DOMAIN scan
                    /\ Shown(k, theses[p][k], scan[k], price[k], now[p]).plan.use
                         \in {"trade", "breakdown"}
                   THEN Shown(k, theses[p][k], scan[k], price[k], now[p])
                   ELSE NoCandidate]
<1>0. PICK scan \in Scans : \E price \in [DOMAIN scan -> Prices] :
        /\ theses' = [theses EXCEPT ![p] = NewTheses(scan, price)]
        /\ candidates' = [candidates EXCEPT ![p] = NewCandidates(scan, price)]
  BY DEF Scan
<1>1. PICK price \in [DOMAIN scan -> Prices] :
        /\ theses' = [theses EXCEPT ![p] = NewTheses(scan, price)]
        /\ candidates' = [candidates EXCEPT ![p] = NewCandidates(scan, price)]
  BY <1>0
<1>2. /\ stage[p] = "scanning" /\ stage' = [stage EXCEPT ![p] = "savingTheses"]
      /\ thesisFile' = NoTheses
      /\ UNCHANGED <<watchFile, now, watches, outbox, sighted, runs, history, clean>>
  BY DEF Scan
<1>3. now[p] \in Nat /\ now[p] # 0 /\ now[p] <= runs /\ runs \in Nat
  BY <1>2 DEF ZoneInv, ZoneTypeOK, RunInv
<1>4. \A k \in DOMAIN scan : k \in Keys /\ scan[k] \in Plans /\ price[k] \in Prices
  BY DEF Scans
<1>5. \A q \in Programs, k \in Keys : theses[q][k] \in Thesis \cup {NoThesis}
  BY DEF ZoneInv, ZoneTypeOK, Theses
<1>6. \A k \in Keys :
        /\ theses'[p][k] \in Thesis \cup {NoThesis}
        /\ \/ /\ theses'[p][k].created = theses[p][k].created
              /\ theses'[p][k].plan = theses[p][k].plan
           \/ /\ theses'[p][k].created = now[p]
              /\ k \in DOMAIN scan /\ theses'[p][k].plan = scan[k]
  <2>. TAKE k \in Keys
  <2>1. CASE k \in DOMAIN scan
    <3>1. theses'[p][k] = Reconciled(k, theses[p][k], scan[k], price[k], now[p])
      BY <1>1, <2>1 DEF ZoneInv, ZoneTypeOK
    <3>2. /\ theses[p][k] \in Thesis \cup {NoThesis} /\ scan[k] \in Plans
          /\ price[k] \in Prices /\ now[p] \in Nat
      BY <1>3, <1>4, <1>5, <2>1
    <3>. HIDE DEF NewTheses, NewCandidates
    <3>. QED BY <2>1, <3>1, <3>2, ReconciledThesis
  <2>2. CASE k \notin DOMAIN scan
    <3>1. theses'[p][k] = Missing(theses[p][k])
      BY <1>1, <2>2 DEF ZoneInv, ZoneTypeOK
    <3>. QED BY <1>5, <3>1, MissingThesis
  <2>. QED BY <2>1, <2>2
<1>7. \A k \in Keys :
        /\ candidates'[p][k] \in Candidate \cup {NoCandidate}
        /\ \/ /\ candidates'[p][k].thesis = theses[p][k].created
              /\ candidates'[p][k].plan = theses[p][k].plan
           \/ candidates'[p][k].thesis = 0
           \/ /\ candidates'[p][k].thesis = now[p]
              /\ k \in DOMAIN scan /\ candidates'[p][k].plan = scan[k]
  <2>. TAKE k \in Keys
  <2>1. CASE candidates'[p][k] = NoCandidate
    BY <2>1 DEF NoCandidate
  <2>2. CASE candidates'[p][k] # NoCandidate
    <3>1. /\ k \in DOMAIN scan
          /\ candidates'[p][k] = Shown(k, theses[p][k], scan[k], price[k], now[p])
      BY <1>1, <2>2 DEF ZoneInv, ZoneTypeOK
    <3>2. /\ theses[p][k] \in Thesis \cup {NoThesis} /\ scan[k] \in Plans
          /\ price[k] \in Prices /\ now[p] \in Nat
      BY <1>3, <1>4, <1>5, <3>1
    <3>. HIDE DEF NewTheses, NewCandidates
    <3>. QED BY <3>1, <3>2, ShownCandidate
  <2>. QED BY <2>1, <2>2
<1>8. ZoneTypeOK'
  <2>1. stage' \in [Programs -> Stages]
    BY <1>2 DEF ZoneInv, ZoneTypeOK, Stages
  <2>2. theses' \in [Programs -> Theses]
    <3>1. theses'[p] \in Theses
      BY <1>1, <1>6 DEF ZoneInv, ZoneTypeOK, Theses
    <3>. QED BY <1>1, <3>1 DEF ZoneInv, ZoneTypeOK
  <2>3. candidates' \in [Programs -> Candidates]
    <3>1. candidates'[p] \in Candidates
      BY <1>1, <1>7 DEF ZoneInv, ZoneTypeOK, Candidates
    <3>. QED BY <1>1, <3>1 DEF ZoneInv, ZoneTypeOK
  <2>. QED BY <1>2, <2>1, <2>2, <2>3, Empty DEF ZoneInv, ZoneTypeOK
<1>9. \A q \in Programs : q # p =>
        /\ theses'[q] = theses[q] /\ candidates'[q] = candidates[q]
        /\ stage'[q] = stage[q]
  BY <1>1, <1>2 DEF ZoneInv, ZoneTypeOK
<1>10. stage'[p] = "savingTheses"
  BY <1>2 DEF ZoneInv, ZoneTypeOK
<1>11. RunInv'
  <2>1. \A q \in Programs :
          (stage'[q] = "idle" <=> now'[q] = 0) /\ now'[q] \in {0, now[q]}
    BY <1>2, <1>3, <1>9, <1>10 DEF ZoneInv, RunInv
  <2>2. \A q \in Programs, k \in Keys :
          /\ theses'[q][k].created <= runs
          /\ watches'[q][k].thesis <= runs /\ watches'[q][k].seen <= runs
          /\ candidates'[q][k].thesis <= runs
    <3>. TAKE q \in Programs, k \in Keys
    <3>1. CASE q = p
      BY <1>2, <1>3, <1>6, <1>7, <3>1 DEF ZoneInv, RunInv
    <3>2. CASE q # p
      BY <1>2, <1>9, <3>2 DEF ZoneInv, RunInv
    <3>. QED BY <3>1, <3>2
  <2>3. \A k \in Keys : thesisFile'[k].created <= runs
    BY <1>2, <1>3, Empty
  <2>. QED BY <1>2, <2>1, <2>2, <2>3, RunKept DEF ZoneInv, RunInv
<1>12. OutboxInv'
  BY <1>2, <1>9, <1>10 DEF ZoneInv, OutboxInv
<1>13. AnsweredInv'
  BY <1>2 DEF ZoneInv, AnsweredInv, TouchIsAnswered
<1>14. StampInv'
  <2>1. ASSUME NEW k \in Keys, NEW n \in 1 .. runs, NEW a \in Plans, Stamped(k, n, a)'
        PROVE  Stamped(k, n, a) \/ (n = now[p] /\ a = scan[k])
    <3>1. ASSUME NEW q \in Programs,
                 \/ theses'[q][k].created = n /\ theses'[q][k].plan = a
                 \/ candidates'[q][k].thesis = n /\ candidates'[q][k].plan = a
          PROVE  Stamped(k, n, a) \/ (n = now[p] /\ a = scan[k])
      <4>1. CASE q = p
        BY <1>6, <1>7, <3>1, <4>1 DEF Stamped
      <4>2. CASE q # p
        BY <1>9, <3>1, <4>2 DEF Stamped
      <4>. QED BY <4>1, <4>2
    <3>2. thesisFile'[k].created # n
      BY <1>2, Empty
    <3>. QED BY <1>2, <2>1, <3>1, <3>2 DEF Stamped
  <2>2. \A k \in Keys : \A a \in Plans : ~Stamped(k, now[p], a)
    BY <1>2 DEF ZoneInv, StampInv
  <2>3. ASSUME NEW k \in Keys, NEW n \in 1 .. runs', NEW a \in Plans, NEW b \in Plans,
               Stamped(k, n, a)', Stamped(k, n, b)'
        PROVE  a = b
    BY <1>2, <2>1, <2>2, <2>3 DEF ZoneInv, StampInv
  <2>4. ASSUME NEW k \in Keys, NEW q \in Programs, NEW a \in Plans,
               stage'[q] = "scanning", Stamped(k, now[q], a)'
        PROVE  FALSE
    <3>1. q # p /\ stage[q] = "scanning" /\ now'[q] = now[q]
      BY <1>2, <1>9, <1>10, <2>4
    <3>2. now[q] \in 1 .. runs /\ now[q] # now[p]
      BY <1>3, <3>1 DEF ZoneInv, ZoneTypeOK, RunInv
    <3>. QED BY <2>1, <2>4, <3>1, <3>2 DEF ZoneInv, StampInv
  <2>. QED BY <2>3, <2>4 DEF StampInv
<1>15. CleanInv'
  <2>1. \A q \in Programs : /\ AtFiles(q)' => AtFiles(q)
                            /\ stage'[q] = "evaluating" => stage[q] = "evaluating"
                            /\ stage'[q] = "savingWatches" => stage[q] = "savingWatches"
                            /\ stage[q] = "savingWatches" => stage'[q] = "savingWatches"
    BY <1>2, <1>9, <1>10 DEF AtFiles
  <2>2. \A q \in Programs : now'[q] = now[q] /\ watches'[q] = watches[q]
                           /\ outbox'[q] = outbox[q]
    BY <1>2
  <2>3. clean' = clean /\ UNCHANGED <<watchFile, issued, ended>>
    BY <1>2
  <2>4. CleanInv
    BY DEF ZoneInv
  <2>. QED BY <2>1, <2>2, <2>3, <2>4, CleanKept
<1>. QED BY <1>8, <1>11, <1>12, <1>13, <1>14, <1>15 DEF ZoneInv

LEMMA SaveThesesKeepsInv ==
  ASSUME ZoneInv, NEW p \in Programs, SaveTheses(p) PROVE ZoneInv'
<1>. USE DEF history
<1>1. /\ stage[p] = "savingTheses" /\ stage' = [stage EXCEPT ![p] = "reconciled"]
      /\ theses' = [theses EXCEPT ![p] = NoTheses]
      /\ UNCHANGED <<watchFile, now, candidates, watches, outbox, sighted, runs,
                     history, clean>>
  BY DEF SaveTheses
<1>2. thesisFile' \in {theses[p], NoTheses}
  BY DEF SaveTheses, Written
<1>3. stage'[p] = "reconciled" /\ theses'[p] = NoTheses
      /\ \A q \in Programs : q # p => stage'[q] = stage[q] /\ theses'[q] = theses[q]
  BY <1>1 DEF ZoneInv, ZoneTypeOK
<1>4. ZoneTypeOK'
  <2>1. stage' \in [Programs -> Stages]
    BY <1>1 DEF ZoneInv, ZoneTypeOK, Stages
  <2>2. thesisFile' \in Theses /\ theses' \in [Programs -> Theses]
    BY <1>1, <1>2, Empty DEF ZoneInv, ZoneTypeOK
  <2>. QED BY <1>1, <2>1, <2>2 DEF ZoneInv, ZoneTypeOK
<1>5. RunInv'
  <2>1. \A q \in Programs :
          (stage'[q] = "idle" <=> now'[q] = 0) /\ now'[q] \in {0, now[q]}
    BY <1>1, <1>3 DEF ZoneInv, RunInv
  <2>2. runs \in Nat
    BY DEF ZoneInv, ZoneTypeOK
  <2>3. \A k \in Keys : thesisFile'[k].created <= runs
    BY <1>2, <2>2, Empty DEF ZoneInv, RunInv
  <2>4. \A q \in Programs, k \in Keys : theses'[q][k].created <= runs
    BY <1>3, <2>2, Empty DEF ZoneInv, RunInv
  <2>5. RunInv /\ ZoneTypeOK
    BY DEF ZoneInv
  <2>6. /\ UNCHANGED <<watchFile, candidates, watches, issued, ended, runs>>
    BY <1>1
  <2>. QED BY <2>1, <2>3, <2>4, <2>5, <2>6, RunKept DEF RunInv
<1>6. OutboxInv'
  BY <1>1, <1>3 DEF ZoneInv, OutboxInv
<1>7. AnsweredInv'
  BY <1>1 DEF ZoneInv, AnsweredInv, TouchIsAnswered
<1>8. StampInv'
  <2>1. ASSUME NEW k \in Keys, NEW n \in 1 .. runs, NEW a \in Plans, Stamped(k, n, a)'
        PROVE  Stamped(k, n, a)
    <3>1. NoTheses[k].created # n
      BY Empty
    <3>. QED BY <1>1, <1>2, <1>3, <2>1, <3>1 DEF Stamped
  <2>2. \A q \in Programs :
          stage'[q] = "scanning" => stage[q] = "scanning" /\ now'[q] = now[q]
    BY <1>1, <1>3
  <2>. QED BY <1>1, <2>1, <2>2, StampsKept DEF ZoneInv
<1>9. CleanInv'
  <2>1. \A q \in Programs : AtFiles(q)' => AtFiles(q) /\ now'[q] = now[q]
    BY <1>1, <1>3 DEF AtFiles
  <2>2. UNCHANGED <<watchFile, issued, ended, clean, watches, outbox>>
    BY <1>1
  <2>. QED BY <1>1, <1>3, <2>1, <2>2, CleanKept DEF ZoneInv
<1>. QED BY <1>4, <1>5, <1>6, <1>7, <1>8, <1>9 DEF ZoneInv

LEMMA LoadWatchesKeepsInv ==
  ASSUME ZoneInv, NEW p \in Programs, LoadWatches(p) PROVE ZoneInv'
<1>. USE DEF history
<1>1. /\ stage[p] = "reconciled" /\ stage' = [stage EXCEPT ![p] = "evaluating"]
      /\ watches' = [watches EXCEPT ![p] = watchFile]
      /\ UNCHANGED <<files, now, theses, candidates, outbox, sighted, runs, history,
                     clean>>
  BY DEF LoadWatches
<1>2. stage'[p] = "evaluating" /\ watches'[p] = watchFile
      /\ \A q \in Programs : q # p => stage'[q] = stage[q] /\ watches'[q] = watches[q]
  BY <1>1 DEF ZoneInv, ZoneTypeOK
<1>3. ZoneTypeOK'
  <2>1. stage' \in [Programs -> Stages]
    BY <1>1 DEF ZoneInv, ZoneTypeOK, Stages
  <2>2. watches' \in [Programs -> Watches]
    BY <1>1 DEF ZoneInv, ZoneTypeOK
  <2>. QED BY <1>1, <2>1, <2>2 DEF ZoneInv, ZoneTypeOK, files
<1>4. RunInv'
  <2>1. \A q \in Programs :
          (stage'[q] = "idle" <=> now'[q] = 0) /\ now'[q] \in {0, now[q]}
    BY <1>1, <1>2 DEF ZoneInv, RunInv
  <2>2. \A q \in Programs, k \in Keys :
          watches'[q][k].thesis <= runs /\ watches'[q][k].seen <= runs
    BY <1>2 DEF ZoneInv, RunInv
  <2>3. RunInv /\ ZoneTypeOK
    BY DEF ZoneInv
  <2>4. UNCHANGED <<thesisFile, watchFile, theses, candidates, issued, ended, runs>>
    BY <1>1 DEF files
  <2>. QED BY <2>1, <2>2, <2>3, <2>4, RunKept DEF RunInv
<1>5. OutboxInv'
  BY <1>1, <1>2 DEF ZoneInv, OutboxInv
<1>6. AnsweredInv'
  <2>1. UNCHANGED <<watchFile, issued, outbox, sighted, touches>>
    BY <1>1 DEF files
  <2>2. \A q \in Programs, k \in Keys : watches'[q][k].alerted =>
          \E m \in issued' \cup outbox'[q] : m.key = k /\ m.seen = watches'[q][k].seen
    <3>. SUFFICES ASSUME NEW q \in Programs, NEW k \in Keys, watches'[q][k].alerted
                  PROVE  \E m \in issued \cup outbox[q] :
                           m.key = k /\ m.seen = watches'[q][k].seen
      BY <2>1
    <3>. QED BY <1>2 DEF ZoneInv, AnsweredInv
  <2>. QED BY <2>1, <2>2 DEF ZoneInv, AnsweredInv, TouchIsAnswered
<1>7. StampInv'
  <2>1. ASSUME NEW k \in Keys, NEW n \in 1 .. runs, NEW a \in Plans, Stamped(k, n, a)'
        PROVE  Stamped(k, n, a)
    BY <1>1, <1>2, <2>1 DEF Stamped, files
  <2>2. \A q \in Programs :
          stage'[q] = "scanning" => stage[q] = "scanning" /\ now'[q] = now[q]
    BY <1>1, <1>2
  <2>. QED BY <1>1, <2>1, <2>2, StampsKept DEF ZoneInv
<1>8. CleanInv'
  <2>. SUFFICES ASSUME clean' PROVE CleanInv'
    BY DEF CleanInv
  <2>1. \A q \in Programs : AtFiles(q)' => AtFiles(q)
    BY <1>1, <1>2 DEF AtFiles
  <2>2. UNCHANGED <<watchFile, issued, ended, clean, outbox, now>>
    BY <1>1 DEF files
  <2>3. (\A q \in Programs : stage'[q] # "savingWatches")
          => Remembered(issued, ended, watchFile)'
    BY <1>1, <1>2, <2>2 DEF ZoneInv, CleanInv
  <2>4. \A q \in Programs : stage'[q] = "savingWatches" =>
         /\ watchFile' = NoWatches
         /\ NoRepeats(issued' \cup outbox'[q], ended' \cup Over(watches'[q]))
         /\ Remembered(issued' \cup outbox'[q], ended' \cup Over(watches'[q]), watches'[q])
    BY <1>2, <2>2 DEF ZoneInv, CleanInv
  <2>5. \A q \in Programs : stage'[q] = "evaluating" => watches'[q] = watchFile'
    BY <1>2, <2>2 DEF ZoneInv, CleanInv
  <2>6. NoRepeats(issued, ended)'
    BY <2>2 DEF ZoneInv, CleanInv
  <2>. QED BY <2>1, <2>2, <2>3, <2>4, <2>5, <2>6 DEF ZoneInv, CleanInv
<1>. QED BY <1>3, <1>4, <1>5, <1>6, <1>7, <1>8 DEF ZoneInv

\* What the evaluation makes of each watch, and of an alert and a sighting.
LEMMA EvaluatedKey ==
  ASSUME ZoneInv, NEW p \in Programs, stage[p] = "evaluating",
         NEW price \in [Watched(p) -> Prices], NEW k \in Keys
  PROVE  LET w == watches[p][k]
             e == EvaluatedWatches(p, price)[k]
             alert == k \in Watched(p) /\ Alerts(k, w, candidates[p][k], price[k])
         IN /\ e \in Watch \cup {NoWatch}
            /\ \/ e.thesis = w.thesis /\ e.plan = w.plan
               \/ e.thesis = candidates[p][k].thesis /\ e.plan = candidates[p][k].plan
            /\ \/ e.seen = w.seen /\ (Held(w) \/ ~Held(e))
               \/ k \in Watched(p) /\ ~Held(w) /\ e.seen = now[p]
            /\ k \in Watched(p) => e.seen = (IF Held(w) THEN w.seen ELSE now[p])
            /\ e.alerted => alert \/ (w.alerted /\ e.seen = w.seen)
            /\ Held(w) /\ w.alerted => e.alerted
            /\ alert => Held(e) /\ e.alerted /\ ~w.alerted
<1>1. now[p] \in Nat \ {0}
  BY DEF ZoneInv, ZoneTypeOK, RunInv
<1>2. watches[p][k] \in Watch \cup {NoWatch}
  BY DEF ZoneInv, ZoneTypeOK, Watches
<1>3. CASE k \in Watched(p)
  <2>1. candidates[p][k] \in Candidate
    BY <1>3 DEF Watched, ZoneInv, ZoneTypeOK, Candidates
  <2>2. price[k] \in Prices
    BY <1>3
  <2>3. EvaluatedWatches(p, price)[k]
          = Evaluated(k, watches[p][k], candidates[p][k], price[k], now[p])
    BY <1>3 DEF EvaluatedWatches
  <2>. QED BY <1>1, <1>2, <1>3, <2>1, <2>2, <2>3, EvaluatedWatch
<1>4. CASE k \notin Watched(p)
  <2>1. EvaluatedWatches(p, price)[k] = Expired(watches[p][k])
    BY <1>4 DEF EvaluatedWatches
  <2>. QED BY <1>2, <1>4, <2>1, ExpiredWatch
<1>. QED BY <1>3, <1>4

\* The step of evaluate() in terms of one key at a time.
LEMMA EvaluateStep ==
  ASSUME ZoneInv, NEW p \in Programs, Evaluate(p)
  PROVE  \E price \in [Watched(p) -> Prices] :
           LET after == EvaluatedWatches(p, price)
           IN /\ watches' = [watches EXCEPT ![p] = after]
              /\ outbox'[p] \subseteq Notes /\ sighted'[p] \subseteq Notes
              /\ \A m \in outbox'[p] :
                   /\ m.key \in Watched(p) /\ m.seen = after[m.key].seen
                   /\ m.run = now[p]
                   /\ Alerts(m.key, watches[p][m.key], candidates[p][m.key], price[m.key])
              /\ \A k \in Watched(p) :
                   Alerts(k, watches[p][k], candidates[p][k], price[k]) =>
                     [key |-> k, seen |-> after[k].seen, run |-> now[p]] \in outbox'[p]
              /\ \A t \in sighted'[p] :
                   LET zone == ActivePlan(watches[p][t.key], candidates[p][t.key])
                   IN /\ t.key \in Watched(p) /\ t.seen = after[t.key].seen
                      /\ t.run = now[p]
                      /\ Inside(zone, price[t.key]) /\ ~Beyond(t.key, zone, price[t.key])
<1>. DEFINE After(price) == EvaluatedWatches(p, price)
            Note(price, k) == [key |-> k, seen |-> After(price)[k].seen, run |-> now[p]]
            Zone(k) == ActivePlan(watches[p][k], candidates[p][k])
            Alerted(price) ==
              {x \in Watched(p) : Alerts(x, watches[p][x], candidates[p][x], price[x])}
            Sighted(price) ==
              {x \in Watched(p) : Inside(Zone(x), price[x]) /\ ~Beyond(x, Zone(x), price[x])}
<1>1. PICK price \in [Watched(p) -> Prices] :
        /\ watches' = [watches EXCEPT ![p] = After(price)]
        /\ outbox' = [outbox EXCEPT ![p] = {Note(price, k) : k \in Alerted(price)}]
        /\ sighted' = [sighted EXCEPT ![p] = {Note(price, k) : k \in Sighted(price)}]
  BY DEF Evaluate
<1>2. /\ outbox'[p] = {Note(price, k) : k \in Alerted(price)}
      /\ sighted'[p] = {Note(price, k) : k \in Sighted(price)}
  BY <1>1 DEF ZoneInv, ZoneTypeOK
<1>3. stage[p] = "evaluating" /\ now[p] \in Nat
  BY DEF Evaluate, ZoneInv, ZoneTypeOK
<1>4. \A k \in Watched(p) : Note(price, k) \in Notes
  <2>. TAKE k \in Watched(p)
  <2>1. k \in Keys
    BY DEF Watched
  <2>2. After(price)[k] \in Watch \cup {NoWatch}
    BY <1>3, <2>1, EvaluatedKey
  <2>. HIDE DEF After
  <2>3. After(price)[k].seen \in Nat
    BY <2>2 DEF Watch, NoWatch
  <2>. QED BY <1>3, <2>1, <2>3 DEF Notes
<1>. HIDE DEF After
<1>5. outbox'[p] \subseteq Notes /\ sighted'[p] \subseteq Notes
  BY <1>2, <1>4
<1>6. \A m \in outbox'[p] :
        /\ m.key \in Watched(p) /\ m.seen = After(price)[m.key].seen /\ m.run = now[p]
        /\ Alerts(m.key, watches[p][m.key], candidates[p][m.key], price[m.key])
  BY <1>2
<1>7. \A k \in Watched(p) :
        Alerts(k, watches[p][k], candidates[p][k], price[k]) => Note(price, k) \in outbox'[p]
  BY <1>2
<1>8. \A t \in sighted'[p] :
        /\ t.key \in Watched(p) /\ t.seen = After(price)[t.key].seen /\ t.run = now[p]
        /\ Inside(Zone(t.key), price[t.key]) /\ ~Beyond(t.key, Zone(t.key), price[t.key])
  BY <1>2
<1>. QED BY <1>1, <1>5, <1>6, <1>7, <1>8 DEF After

\* The run at the files goes on to know all there is to know.
LEMMA EvaluateKeepsClean ==
  ASSUME ZoneInv, NEW p \in Programs, Evaluate(p) PROVE CleanInv'
<1>. USE DEF history
<1>1. PICK price \in [Watched(p) -> Prices] :
        /\ watches' = [watches EXCEPT ![p] = EvaluatedWatches(p, price)]
        /\ outbox'[p] \subseteq Notes
        /\ \A m \in outbox'[p] :
             /\ m.key \in Watched(p) /\ m.seen = EvaluatedWatches(p, price)[m.key].seen
             /\ m.run = now[p]
             /\ Alerts(m.key, watches[p][m.key], candidates[p][m.key], price[m.key])
  BY EvaluateStep
<1>2. /\ stage[p] = "evaluating" /\ stage' = [stage EXCEPT ![p] = "savingWatches"]
      /\ watchFile' = NoWatches
      /\ UNCHANGED <<now, issued, ended, clean>>
  BY DEF Evaluate
<1>. SUFFICES ASSUME clean PROVE CleanInv'
  BY <1>2 DEF CleanInv
<1>. DEFINE after == EvaluatedWatches(p, price)
<1>3. stage'[p] = "savingWatches" /\ watches'[p] = after
      /\ \A q \in Programs : q # p => stage'[q] = stage[q] /\ watches'[q] = watches[q]
  BY <1>1, <1>2 DEF ZoneInv, ZoneTypeOK
<1>4. AtFiles(p)
  BY <1>2 DEF AtFiles
<1>5. \A q \in Programs : q # p => ~AtFiles(q)
  BY <1>4 DEF ZoneInv, CleanInv
<1>6. \A q \in Programs : stage[q] # "savingWatches"
  BY <1>2, <1>5 DEF AtFiles
<1>7. Remembered(issued, ended, watches[p]) /\ NoRepeats(issued, ended)
  BY <1>2, <1>6 DEF ZoneInv, CleanInv
<1>8. /\ now[p] \in Nat
      /\ \A m \in issued : m.run < now[p] /\ m.seen < now[p]
      /\ \A e \in ended : e.seen < now[p]
      /\ issued \subseteq Notes /\ ended \subseteq [key : Keys, seen : Nat]
  BY <1>4 DEF ZoneInv, ZoneTypeOK, CleanInv
<1>9. ASSUME NEW k \in Keys
      PROVE  /\ \/ after[k].seen = watches[p][k].seen /\ (Held(watches[p][k]) \/ ~Held(after[k]))
                \/ ~Held(watches[p][k]) /\ after[k].seen = now[p]
             /\ k \in Watched(p) => after[k].seen = (IF Held(watches[p][k])
                                                      THEN watches[p][k].seen ELSE now[p])
             /\ Held(watches[p][k]) /\ watches[p][k].alerted => after[k].alerted
             /\ k \in Watched(p) /\ Alerts(k, watches[p][k], candidates[p][k], price[k]) =>
                  Held(after[k]) /\ after[k].alerted /\ ~watches[p][k].alerted
  BY <1>2, EvaluatedKey
<1>. HIDE DEF after
<1>10. \A m \in outbox'[p] :
         /\ m.key \in Keys /\ m.run = now[p] /\ m.key \in Watched(p)
         /\ Held(after[m.key]) /\ after[m.key].alerted /\ m.seen = after[m.key].seen
         /\ ~watches[p][m.key].alerted
  <2>. TAKE m \in outbox'[p]
  <2>1. m.key \in Keys
    BY <1>1 DEF Watched
  <2>. QED BY <1>1, <1>9, <2>1 DEF after
<1>11. ASSUME NEW m \in issued
       PROVE  \/ [key |-> m.key, seen |-> m.seen] \in ended
              \/ /\ Held(watches[p][m.key]) /\ watches[p][m.key].alerted
                 /\ watches[p][m.key].seen = m.seen
  BY <1>7 DEF Remembered
<1>12. \A k \in Keys : after[k].seen # 0 /\ ~Held(after[k])
                        => [key |-> k, seen |-> after[k].seen] \in Over(after)
  BY DEF Over
<1>13. Remembered(issued \cup outbox'[p], ended \cup Over(after), after)
  <2>1. ASSUME NEW m \in issued
        PROVE  \/ [key |-> m.key, seen |-> m.seen] \in ended \cup Over(after)
               \/ Held(after[m.key]) /\ after[m.key].alerted /\ after[m.key].seen = m.seen
    <3>1. m.key \in Keys
      BY <1>8 DEF Notes
    <3>2. CASE [key |-> m.key, seen |-> m.seen] \in ended
      BY <3>2
    <3>3. CASE /\ Held(watches[p][m.key]) /\ watches[p][m.key].alerted
               /\ watches[p][m.key].seen = m.seen
      <4>1. after[m.key].seen = m.seen /\ after[m.key].alerted /\ m.seen # 0
        BY <1>9, <3>1, <3>3 DEF Held
      <4>. QED BY <1>12, <3>1, <4>1
    <3>. QED BY <1>11, <3>2, <3>3
  <2>2. ASSUME NEW k \in Keys, Held(after[k])
        PROVE  [key |-> k, seen |-> after[k].seen] \notin ended \cup Over(after)
    <3>1. [key |-> k, seen |-> after[k].seen] \notin Over(after)
      BY <2>2 DEF Over
    <3>2. CASE Held(watches[p][k]) /\ after[k].seen = watches[p][k].seen
      BY <1>7, <3>1, <3>2 DEF Remembered
    <3>3. CASE after[k].seen = now[p]
      <4>1. \A e \in ended : e.seen # now[p]
        BY <1>8
      <4>. QED BY <3>1, <3>3, <4>1
    <3>. QED BY <1>9, <2>2, <3>2, <3>3
  <2>. QED BY <1>10, <2>1, <2>2 DEF Remembered
<1>14. NoRepeats(issued \cup outbox'[p], ended \cup Over(after))
  <2>. SUFFICES ASSUME NEW m \in issued \cup outbox'[p], NEW n \in issued \cup outbox'[p],
                       m.key = n.key, m.run < n.run
                PROVE  m.seen # n.seen /\ [key |-> m.key, seen |-> m.seen] \in ended
    BY DEF NoRepeats
  <2>1. CASE m \in issued /\ n \in issued
    BY <1>7, <2>1 DEF NoRepeats
  <2>2. CASE m \in outbox'[p]
    <3>1. m.run = now[p] /\ (n.run < now[p] \/ n.run = now[p])
      BY <1>8, <1>10, <2>2
    <3>. QED BY <1>8, <1>10, <3>1 DEF Notes
  <2>3. CASE m \in issued /\ n \in outbox'[p]
    <3>1. /\ n.key \in Keys /\ n.key \in Watched(p) /\ n.seen = after[n.key].seen
          /\ ~watches[p][n.key].alerted
      BY <1>10, <2>3
    <3>2. [key |-> m.key, seen |-> m.seen] \in ended
      BY <1>11, <2>3, <3>1
    <3>3. CASE Held(watches[p][n.key])
      <4>1. [key |-> n.key, seen |-> watches[p][n.key].seen] \notin ended
        BY <1>7, <3>1, <3>3 DEF Remembered
      <4>2. n.seen = watches[p][n.key].seen
        BY <1>9, <3>1, <3>3
      <4>. QED BY <3>2, <4>1, <4>2
    <3>4. CASE ~Held(watches[p][n.key])
      <4>1. n.seen = now[p] /\ m.seen < now[p] /\ m.seen \in Nat
        BY <1>8, <1>9, <2>3, <3>1, <3>4 DEF Notes
      <4>. QED BY <1>8, <3>2, <4>1
    <3>. QED BY <3>3, <3>4
  <2>. QED BY <2>1, <2>2, <2>3
<1>15. \A q \in Programs : (AtFiles(q)' => q = p)
                         /\ (stage'[q] = "savingWatches" => q = p)
                         /\ stage'[q] # "evaluating"
  BY <1>3, <1>5 DEF AtFiles
<1>16. NoRepeats(issued, ended)'
  BY <1>2, <1>7
<1>. QED BY <1>2, <1>3, <1>8, <1>13, <1>14, <1>15, <1>16 DEF CleanInv

LEMMA EvaluateKeepsInv ==
  ASSUME ZoneInv, NEW p \in Programs, Evaluate(p) PROVE ZoneInv'
<1>. USE DEF history
<1>1. PICK price \in [Watched(p) -> Prices] :
        LET after == EvaluatedWatches(p, price)
        IN /\ watches' = [watches EXCEPT ![p] = after]
           /\ outbox'[p] \subseteq Notes /\ sighted'[p] \subseteq Notes
           /\ \A m \in outbox'[p] :
                m.key \in Watched(p) /\ m.seen = after[m.key].seen /\ m.run = now[p]
           /\ \A k \in Watched(p) :
                Alerts(k, watches[p][k], candidates[p][k], price[k]) =>
                  [key |-> k, seen |-> after[k].seen, run |-> now[p]] \in outbox'[p]
           /\ \A t \in sighted'[p] :
                LET zone == ActivePlan(watches[p][t.key], candidates[p][t.key])
                IN /\ t.key \in Watched(p) /\ t.seen = after[t.key].seen
                   /\ t.run = now[p]
                   /\ Inside(zone, price[t.key]) /\ ~Beyond(t.key, zone, price[t.key])
  BY EvaluateStep
<1>. DEFINE after == EvaluatedWatches(p, price)
<1>2. /\ stage[p] = "evaluating" /\ stage' = [stage EXCEPT ![p] = "savingWatches"]
      /\ watchFile' = NoWatches /\ candidates' = [candidates EXCEPT ![p] = NoCandidates]
      /\ UNCHANGED <<thesisFile, now, theses, runs, issued, delivered, touches, ended, clean>>
  BY DEF Evaluate
<1>3. /\ outbox' = [outbox EXCEPT ![p] = outbox'[p]]
      /\ sighted' = [sighted EXCEPT ![p] = sighted'[p]]
  BY DEF Evaluate, ZoneInv, ZoneTypeOK
<1>4. /\ stage'[p] = "savingWatches" /\ watches'[p] = after
      /\ candidates'[p] = NoCandidates
      /\ \A q \in Programs : q # p =>
           /\ stage'[q] = stage[q] /\ watches'[q] = watches[q]
           /\ candidates'[q] = candidates[q]
           /\ outbox'[q] = outbox[q] /\ sighted'[q] = sighted[q]
  BY <1>1, <1>2, <1>3 DEF ZoneInv, ZoneTypeOK
<1>5. now[p] \in Nat /\ now[p] # 0 /\ now[p] <= runs /\ runs \in Nat
  BY <1>2 DEF ZoneInv, ZoneTypeOK, RunInv
<1>6. ASSUME NEW k \in Keys
      PROVE  /\ after[k] \in Watch \cup {NoWatch}
             /\ \/ after[k].thesis = watches[p][k].thesis /\ after[k].plan = watches[p][k].plan
                \/ /\ after[k].thesis = candidates[p][k].thesis
                   /\ after[k].plan = candidates[p][k].plan
             /\ after[k].seen = watches[p][k].seen \/ after[k].seen = now[p]
             /\ k \in Watched(p) => after[k].seen = (IF Held(watches[p][k])
                                                      THEN watches[p][k].seen ELSE now[p])
             /\ after[k].alerted =>
                  \/ k \in Watched(p) /\ Alerts(k, watches[p][k], candidates[p][k], price[k])
                  \/ watches[p][k].alerted /\ after[k].seen = watches[p][k].seen
  BY <1>2, EvaluatedKey
<1>7. \A k \in Watched(p) : k \in Keys
  BY DEF Watched
<1>8. after = [k \in Keys |-> after[k]]
  BY DEF EvaluatedWatches
<1>. HIDE DEF after
<1>9. ZoneTypeOK'
  <2>1. stage' \in [Programs -> Stages]
    BY <1>2 DEF ZoneInv, ZoneTypeOK, Stages
  <2>2. watches' \in [Programs -> Watches]
    <3>1. after \in Watches
      BY <1>6, <1>8 DEF Watches
    <3>. QED BY <1>1, <3>1 DEF ZoneInv, ZoneTypeOK, after
  <2>3. candidates' \in [Programs -> Candidates]
    BY <1>2, Empty DEF ZoneInv, ZoneTypeOK
  <2>4. outbox' \in [Programs -> SUBSET Notes] /\ sighted' \in [Programs -> SUBSET Notes]
    BY <1>1, <1>3 DEF ZoneInv, ZoneTypeOK
  <2>. QED BY <1>2, <2>1, <2>2, <2>3, <2>4, Empty DEF ZoneInv, ZoneTypeOK
<1>10. RunInv'
  <2>1. \A q \in Programs :
          (stage'[q] = "idle" <=> now'[q] = 0) /\ now'[q] \in {0, now[q]}
    BY <1>2, <1>4, <1>5 DEF ZoneInv, RunInv
  <2>2. \A q \in Programs, k \in Keys :
          /\ watches'[q][k].thesis <= runs /\ watches'[q][k].seen <= runs
          /\ candidates'[q][k].thesis <= runs
    <3>. TAKE q \in Programs, k \in Keys
    <3>1. CASE q = p
      BY <1>4, <1>5, <1>6, <3>1, Empty DEF ZoneInv, RunInv
    <3>2. CASE q # p
      BY <1>4, <3>2 DEF ZoneInv, RunInv
    <3>. QED BY <3>1, <3>2
  <2>3. \A k \in Keys : watchFile'[k].thesis <= runs /\ watchFile'[k].seen <= runs
    BY <1>2, <1>5, Empty
  <2>4. RunInv /\ ZoneTypeOK
    BY DEF ZoneInv
  <2>. QED BY <1>2, <2>1, <2>2, <2>3, <2>4, RunKept DEF RunInv
<1>11. \A m \in outbox'[p] : m.run = now[p] /\ m.key \in Keys /\ m.seen = after[m.key].seen
  BY <1>1, <1>7 DEF after
<1>12. OutboxInv'
  <2>1. \A m \in outbox'[p] : m.run <= runs' /\ m.seen <= runs'
    <3>. TAKE m \in outbox'[p]
    <3>1. m.seen = watches[p][m.key].seen \/ m.seen = now[p]
      BY <1>6, <1>11
    <3>. QED BY <1>2, <1>5, <1>11, <3>1 DEF ZoneInv, RunInv
  <2>. QED BY <1>2, <1>4, <2>1 DEF ZoneInv, OutboxInv
<1>13. AnsweredInv'
  <2>1. outbox[p] = {}
    BY <1>2 DEF ZoneInv, OutboxInv
  <2>2. \A k \in Keys : watches[p][k].alerted =>
          \E m \in issued : m.key = k /\ m.seen = watches[p][k].seen
    BY <2>1 DEF ZoneInv, AnsweredInv
  <2>3. ASSUME NEW k \in Watched(p), Alerts(k, watches[p][k], candidates[p][k], price[k])
        PROVE  \E m \in outbox'[p] : m.key = k /\ m.seen = after[k].seen
    <3>1. [key |-> k, seen |-> after[k].seen, run |-> now[p]] \in outbox'[p]
      BY <1>1, <2>3 DEF after
    <3>. QED BY <3>1
  <2>4. \A k \in Keys : after[k].alerted =>
          \E m \in issued \cup outbox'[p] : m.key = k /\ m.seen = after[k].seen
    <3>. TAKE k \in Keys
    <3>. SUFFICES ASSUME after[k].alerted
                  PROVE  \E m \in issued \cup outbox'[p] : m.key = k /\ m.seen = after[k].seen
      OBVIOUS
    <3>. QED BY <1>6, <2>2, <2>3
  <2>5. \A t \in sighted'[p] :
          \E m \in issued \cup outbox'[p] :
            m.key = t.key /\ (m.seen = t.seen \/ t.run = t.seen)
    <3>. TAKE t \in sighted'[p]
    <3>. DEFINE k == t.key
    <3>1. /\ k \in Watched(p) /\ k \in Keys /\ t.seen = after[k].seen /\ t.run = now[p]
          /\ Inside(ActivePlan(watches[p][k], candidates[p][k]), price[k])
          /\ ~Beyond(k, ActivePlan(watches[p][k], candidates[p][k]), price[k])
      BY <1>1, <1>7 DEF after
    <3>. HIDE DEF k
    <3>2. CASE watches[p][k].alerted
      <4>1. PICK m \in issued : m.key = k /\ m.seen = watches[p][k].seen
        BY <2>2, <3>1, <3>2
      <4>2. m.seen = t.seen \/ t.run = t.seen
        BY <1>6, <3>1, <4>1
      <4>. QED BY <4>1, <4>2 DEF k
    <3>3. CASE ~watches[p][k].alerted
      <4>1. Alerts(k, watches[p][k], candidates[p][k], price[k])
        BY <3>1, <3>3 DEF Alerts
      <4>. QED BY <2>3, <3>1, <4>1 DEF k
    <3>. QED BY <3>2, <3>3
  <2>6. \A q \in Programs, k \in Keys : watches'[q][k].alerted =>
          \E m \in issued' \cup outbox'[q] : m.key = k /\ m.seen = watches'[q][k].seen
    <3>. SUFFICES ASSUME NEW q \in Programs, NEW k \in Keys, watches'[q][k].alerted
                  PROVE  \E m \in issued \cup outbox'[q] :
                           m.key = k /\ m.seen = watches'[q][k].seen
      BY <1>2
    <3>1. CASE q = p
      BY <1>4, <2>4, <3>1
    <3>2. CASE q # p
      BY <1>4, <3>2 DEF ZoneInv, AnsweredInv
    <3>. QED BY <3>1, <3>2
  <2>7. \A q \in Programs : \A t \in sighted'[q] :
          \E m \in issued' \cup outbox'[q] :
            m.key = t.key /\ (m.seen = t.seen \/ t.run = t.seen)
    <3>. SUFFICES ASSUME NEW q \in Programs, NEW t \in sighted'[q]
                  PROVE  \E m \in issued \cup outbox'[q] :
                           m.key = t.key /\ (m.seen = t.seen \/ t.run = t.seen)
      BY <1>2
    <3>1. CASE q = p
      BY <2>5, <3>1
    <3>2. CASE q # p
      BY <1>4, <3>2 DEF ZoneInv, AnsweredInv
    <3>. QED BY <3>1, <3>2
  <2>8. \A k \in Keys : ~watchFile'[k].alerted
    BY <1>2, Empty
  <2>9. TouchIsAnswered'
    BY <1>2 DEF ZoneInv, AnsweredInv, TouchIsAnswered
  <2>. QED BY <2>6, <2>7, <2>8, <2>9 DEF AnsweredInv
<1>14. StampInv'
  <2>1. ASSUME NEW k \in Keys, NEW n \in 1 .. runs, NEW a \in Plans, Stamped(k, n, a)'
        PROVE  Stamped(k, n, a)
    <3>1. watchFile'[k].thesis # n /\ candidates'[p][k].thesis # n
      BY <1>2, <1>4, Empty
    <3>2. watches'[p][k].thesis = n /\ watches'[p][k].plan = a => Stamped(k, n, a)
      BY <1>4, <1>6 DEF Stamped
    <3>. QED BY <1>2, <1>4, <2>1, <3>1, <3>2 DEF Stamped
  <2>2. \A q \in Programs :
          stage'[q] = "scanning" => stage[q] = "scanning" /\ now'[q] = now[q]
    BY <1>2, <1>4
  <2>. QED BY <1>2, <2>1, <2>2, StampsKept DEF ZoneInv
<1>. QED BY <1>9, <1>10, <1>12, <1>13, <1>14, EvaluateKeepsClean DEF ZoneInv

LEMMA SaveWatchesKeepsInv ==
  ASSUME ZoneInv, NEW p \in Programs, SaveWatches(p) PROVE ZoneInv'
<1>1. /\ stage[p] = "savingWatches"
      /\ issued' = issued \cup outbox[p] /\ touches' = touches \cup sighted[p]
      /\ ended' = ended \cup Over(watches[p])
      /\ stage' = [stage EXCEPT ![p] = IF outbox[p] = {} THEN "idle" ELSE "sending"]
      /\ now' = [now EXCEPT ![p] = IF outbox[p] = {} THEN 0 ELSE @]
      /\ outbox' = [outbox EXCEPT ![p] = outbox[p]]
      /\ watches' = [watches EXCEPT ![p] = NoWatches]
      /\ sighted' = [sighted EXCEPT ![p] = {}]
      /\ UNCHANGED <<thesisFile, theses, candidates, runs, delivered, clean>>
  BY DEF SaveWatches, Proceed, Over
<1>2. watchFile' \in {watches[p], NoWatches} /\ (watchFile = NoWatches => watchFile' = watches[p])
  BY DEF SaveWatches, Written
<1>3. /\ stage'[p] = (IF outbox[p] = {} THEN "idle" ELSE "sending")
      /\ now'[p] = (IF outbox[p] = {} THEN 0 ELSE now[p])
      /\ watches'[p] = NoWatches /\ sighted'[p] = {} /\ outbox' = outbox
      /\ \A q \in Programs : q # p =>
           /\ stage'[q] = stage[q] /\ now'[q] = now[q]
           /\ watches'[q] = watches[q] /\ sighted'[q] = sighted[q]
  BY <1>1 DEF ZoneInv, ZoneTypeOK
<1>4. ZoneTypeOK'
  <2>1. stage' \in [Programs -> Stages] /\ now' \in [Programs -> Nat]
    BY <1>1 DEF ZoneInv, ZoneTypeOK, Stages
  <2>2. watchFile' \in Watches /\ watches' \in [Programs -> Watches]
    BY <1>1, <1>2, Empty DEF ZoneInv, ZoneTypeOK
  <2>3. sighted' \in [Programs -> SUBSET Notes]
    BY <1>1 DEF ZoneInv, ZoneTypeOK
  <2>4. issued' \subseteq Notes /\ touches' \subseteq Notes
    BY <1>1 DEF ZoneInv, ZoneTypeOK
  <2>5. Over(watches[p]) \subseteq [key : Keys, seen : Nat]
    BY Stamps DEF Over, ZoneInv
  <2>. QED BY <1>1, <1>3, <2>1, <2>2, <2>3, <2>4, <2>5 DEF ZoneInv, ZoneTypeOK
<1>5. RunInv'
  <2>1. \A q \in Programs :
          (stage'[q] = "idle" <=> now'[q] = 0) /\ now'[q] \in {0, now[q]}
    BY <1>1, <1>3 DEF ZoneInv, RunInv
  <2>2. runs \in Nat
    BY DEF ZoneInv, ZoneTypeOK
  <2>3. \A q \in Programs, k \in Keys :
          watches'[q][k].thesis <= runs /\ watches'[q][k].seen <= runs
    BY <1>3, <2>2, Empty DEF ZoneInv, RunInv
  <2>4. \A k \in Keys : watchFile'[k].thesis <= runs /\ watchFile'[k].seen <= runs
    BY <1>2, <2>2, Empty DEF ZoneInv, RunInv
  <2>5. \A m \in issued' : m.run <= runs /\ m.seen <= runs
    BY <1>1 DEF ZoneInv, RunInv, OutboxInv
  <2>6. \A e \in ended' : e.seen <= runs
    BY <1>1 DEF ZoneInv, RunInv, Over
  <2>7. RunInv /\ ZoneTypeOK
    BY DEF ZoneInv
  <2>. QED BY <1>1, <2>1, <2>3, <2>4, <2>5, <2>6, <2>7, RunKept DEF RunInv
<1>6. OutboxInv'
  BY <1>1, <1>3 DEF ZoneInv, OutboxInv
<1>7. AnsweredInv'
  <2>1. \A k \in Keys : watchFile'[k].alerted =>
          \E m \in issued' : m.key = k /\ m.seen = watchFile'[k].seen
    BY <1>1, <1>2, Empty DEF ZoneInv, AnsweredInv
  <2>2. \A q \in Programs, k \in Keys : watches'[q][k].alerted =>
          \E m \in issued' \cup outbox'[q] : m.key = k /\ m.seen = watches'[q][k].seen
    <3>. SUFFICES ASSUME NEW q \in Programs, NEW k \in Keys, watches'[q][k].alerted
                  PROVE  \E m \in issued' \cup outbox[q] :
                           m.key = k /\ m.seen = watches'[q][k].seen
      BY <1>3
    <3>1. q # p
      BY <1>3, Empty
    <3>. QED BY <1>1, <1>3, <3>1 DEF ZoneInv, AnsweredInv
  <2>3. \A q \in Programs : \A t \in sighted'[q] :
          \E m \in issued' \cup outbox'[q] :
            m.key = t.key /\ (m.seen = t.seen \/ t.run = t.seen)
    BY <1>1, <1>3 DEF ZoneInv, AnsweredInv
  <2>4. TouchIsAnswered'
    BY <1>1 DEF ZoneInv, AnsweredInv, TouchIsAnswered
  <2>. QED BY <2>1, <2>2, <2>3, <2>4 DEF AnsweredInv
<1>8. StampInv'
  <2>1. ASSUME NEW k \in Keys, NEW n \in 1 .. runs, NEW a \in Plans, Stamped(k, n, a)'
        PROVE  Stamped(k, n, a)
    <3>1. NoWatches[k].thesis # n
      BY Empty
    <3>. QED BY <1>1, <1>2, <1>3, <2>1, <3>1 DEF Stamped
  <2>2. \A q \in Programs :
          stage'[q] = "scanning" => stage[q] = "scanning" /\ now'[q] = now[q]
    BY <1>1, <1>3
  <2>. QED BY <1>1, <2>1, <2>2, StampsKept DEF ZoneInv
<1>9. CleanInv'
  <2>. SUFFICES ASSUME clean PROVE CleanInv'
    BY <1>1 DEF CleanInv
  <2>1. \A q \in Programs : q # p => ~AtFiles(q)
    BY <1>1 DEF ZoneInv, CleanInv, AtFiles
  <2>2. \A q \in Programs : ~AtFiles(q)'
    BY <1>3, <2>1 DEF AtFiles
  <2>3. watchFile' = watches[p]
    BY <1>1, <1>2 DEF ZoneInv, CleanInv
  <2>4. Remembered(issued, ended, watchFile)' /\ NoRepeats(issued, ended)'
    BY <1>1, <2>3 DEF ZoneInv, CleanInv
  <2>. QED BY <2>2, <2>4 DEF CleanInv, AtFiles
<1>. QED BY <1>4, <1>5, <1>6, <1>7, <1>8, <1>9 DEF ZoneInv

LEMMA SendKeepsInv ==
  ASSUME ZoneInv, NEW p \in Programs, Send(p) PROVE ZoneInv'
<1>. USE DEF files
<1>1. PICK m \in outbox[p] :
        /\ delivered' = delivered \cup {m}
        /\ Proceed(p, outbox[p] \ {m})
  BY DEF Send
<1>. DEFINE left == outbox[p] \ {m}
<1>2. /\ stage[p] = "sending"
      /\ stage' = [stage EXCEPT ![p] = IF left = {} THEN "idle" ELSE "sending"]
      /\ now' = [now EXCEPT ![p] = IF left = {} THEN 0 ELSE @]
      /\ outbox' = [outbox EXCEPT ![p] = left]
      /\ watches' = [watches EXCEPT ![p] = NoWatches]
      /\ sighted' = [sighted EXCEPT ![p] = {}]
      /\ UNCHANGED <<files, theses, candidates, runs, issued, touches, ended, clean>>
  BY <1>1 DEF Send, Proceed
<1>. HIDE DEF left
<1>3. /\ stage'[p] \in {"idle", "sending"} /\ (stage'[p] = "idle" <=> left = {})
      /\ now'[p] = (IF left = {} THEN 0 ELSE now[p])
      /\ watches'[p] = NoWatches /\ sighted'[p] = {} /\ outbox'[p] = left
      /\ \A q \in Programs : q # p =>
           /\ stage'[q] = stage[q] /\ now'[q] = now[q] /\ outbox'[q] = outbox[q]
           /\ watches'[q] = watches[q] /\ sighted'[q] = sighted[q]
  BY <1>2 DEF ZoneInv, ZoneTypeOK
<1>4. left \subseteq outbox[p] /\ outbox[p] \subseteq issued /\ m \in issued
  BY <1>2 DEF left, ZoneInv, OutboxInv
<1>5. ZoneTypeOK'
  <2>1. stage' \in [Programs -> Stages] /\ now' \in [Programs -> Nat]
    BY <1>2 DEF ZoneInv, ZoneTypeOK, Stages
  <2>2. watches' \in [Programs -> Watches]
    BY <1>2, Empty DEF ZoneInv, ZoneTypeOK
  <2>3. outbox' \in [Programs -> SUBSET Notes] /\ sighted' \in [Programs -> SUBSET Notes]
    BY <1>2, <1>4 DEF ZoneInv, ZoneTypeOK
  <2>4. delivered' \subseteq Notes
    BY <1>1, <1>4 DEF ZoneInv, ZoneTypeOK
  <2>. QED BY <1>2, <2>1, <2>2, <2>3, <2>4 DEF ZoneInv, ZoneTypeOK
<1>6. RunInv'
  <2>1. \A q \in Programs :
          (stage'[q] = "idle" <=> now'[q] = 0) /\ now'[q] \in {0, now[q]}
    BY <1>2, <1>3 DEF ZoneInv, RunInv
  <2>2. runs \in Nat
    BY DEF ZoneInv, ZoneTypeOK
  <2>3. \A q \in Programs, k \in Keys :
          watches'[q][k].thesis <= runs /\ watches'[q][k].seen <= runs
    BY <1>3, <2>2, Empty DEF ZoneInv, RunInv
  <2>4. RunInv /\ ZoneTypeOK
    BY DEF ZoneInv
  <2>. QED BY <1>2, <2>1, <2>3, <2>4, RunKept DEF RunInv
<1>7. OutboxInv'
  BY <1>1, <1>2, <1>3, <1>4 DEF ZoneInv, OutboxInv
<1>8. AnsweredInv'
  <2>1. \A q \in Programs, k \in Keys : watches'[q][k].alerted =>
          q # p /\ watches'[q][k] = watches[q][k] /\ outbox'[q] = outbox[q]
    BY <1>3, Empty
  <2>. QED BY <1>2, <1>3, <2>1 DEF ZoneInv, AnsweredInv, TouchIsAnswered
<1>9. StampInv'
  <2>1. ASSUME NEW k \in Keys, NEW n \in 1 .. runs, NEW a \in Plans, Stamped(k, n, a)'
        PROVE  Stamped(k, n, a)
    <3>1. NoWatches[k].thesis # n
      BY Empty
    <3>. QED BY <1>2, <1>3, <2>1, <3>1 DEF Stamped
  <2>2. \A q \in Programs :
          stage'[q] = "scanning" => stage[q] = "scanning" /\ now'[q] = now[q]
    BY <1>2, <1>3
  <2>. QED BY <1>2, <2>1, <2>2, StampsKept DEF ZoneInv
<1>10. CleanInv'
  <2>1. \A q \in Programs : AtFiles(q)' => AtFiles(q) /\ now'[q] = now[q]
    BY <1>2, <1>3 DEF AtFiles
  <2>. QED BY <1>2, <1>3, <2>1, CleanKept DEF ZoneInv
<1>. QED BY <1>5, <1>6, <1>7, <1>8, <1>9, <1>10 DEF ZoneInv

\* The other ends of a run.
LEMMA EndKeepsInv ==
  ASSUME ZoneInv, NEW p \in Programs, SendFails(p) \/ ReturnAlerts(p) \/ DieInRun(p)
  PROVE  ZoneInv'
<1>1. Forget(p) /\ UNCHANGED <<files, runs, issued, touches, ended>>
  BY DEF SendFails, ReturnAlerts, DieInRun, history
<1>2. delivered' \subseteq delivered \cup issued
  BY DEF SendFails, ReturnAlerts, DieInRun, history, ZoneInv, OutboxInv
<1>3. clean' \in BOOLEAN /\ (clean' => clean /\ stage[p] # "savingWatches")
  <2>1. CASE SendFails(p) \/ ReturnAlerts(p)
    BY <2>1 DEF SendFails, ReturnAlerts, ZoneInv, ZoneTypeOK
  <2>2. CASE DieInRun(p)
    BY <2>2 DEF DieInRun
  <2>. QED BY <2>1, <2>2
<1>. QED BY <1>1, <1>2, <1>3, ForgetKeepsInv

LEMMA StutterKeepsInv == ASSUME ZoneInv, UNCHANGED zoneVars PROVE ZoneInv'
<1>. USE DEF zoneVars, files, history
<1>1. ZoneTypeOK'
  BY DEF ZoneInv, ZoneTypeOK
<1>2. RunInv'
  BY DEF ZoneInv, RunInv
<1>3. OutboxInv'
  BY DEF ZoneInv, OutboxInv
<1>4. AnsweredInv'
  BY DEF ZoneInv, AnsweredInv, TouchIsAnswered
<1>5. StampInv'
  <2>1. ASSUME NEW k \in Keys, NEW n \in 1 .. runs, NEW a \in Plans, Stamped(k, n, a)'
        PROVE  Stamped(k, n, a)
    BY <2>1 DEF Stamped
  <2>. QED BY <2>1, StampsKept DEF ZoneInv
<1>6. CleanInv'
  <2>1. \A q \in Programs : AtFiles(q)' => AtFiles(q)
    BY DEF AtFiles
  <2>. QED BY <2>1, CleanKept DEF ZoneInv
<1>. QED BY <1>1, <1>2, <1>3, <1>4, <1>5, <1>6 DEF ZoneInv

LEMMA NextKeepsInv == ASSUME ZoneInv, [ZoneNext]_zoneVars PROVE ZoneInv'
<1>1. ASSUME NEW p \in Programs,
             \/ BeginRun(p) \/ Scan(p) \/ SaveTheses(p) \/ LoadWatches(p)
             \/ Evaluate(p) \/ SaveWatches(p) \/ Send(p)
             \/ SendFails(p) \/ ReturnAlerts(p) \/ DieInRun(p)
      PROVE  ZoneInv'
  <2>1. CASE BeginRun(p)
    BY <2>1, BeginRunKeepsInv
  <2>2. CASE Scan(p)
    BY <2>2, ScanKeepsInv
  <2>3. CASE SaveTheses(p)
    BY <2>3, SaveThesesKeepsInv
  <2>4. CASE LoadWatches(p)
    BY <2>4, LoadWatchesKeepsInv
  <2>5. CASE Evaluate(p)
    BY <2>5, EvaluateKeepsInv
  <2>6. CASE SaveWatches(p)
    BY <2>6, SaveWatchesKeepsInv
  <2>7. CASE Send(p)
    BY <2>7, SendKeepsInv
  <2>8. CASE SendFails(p) \/ ReturnAlerts(p) \/ DieInRun(p)
    BY <2>8, EndKeepsInv
  <2>. QED BY <1>1, <2>1, <2>2, <2>3, <2>4, <2>5, <2>6, <2>7, <2>8
<1>2. CASE UNCHANGED zoneVars
  BY <1>2, StutterKeepsInv
<1>. QED BY <1>1, <1>2 DEF ZoneNext

-----------------------------------------------------------------------------
\* The invariant of the runs, their files and their alerts holds in every
\* reachable state.
THEOREM Invariance == ZoneSpec => []ZoneInv
<1>1. ZoneInit => ZoneInv
  BY InitInv
<1>2. ZoneInv /\ [ZoneNext]_zoneVars => ZoneInv'
  BY NextKeepsInv
<1>. QED BY <1>1, <1>2, PTL DEF ZoneSpec

\* The variables keep their types.
THEOREM TypeCorrect == ZoneSpec => []ZoneTypeOK
<1>1. ZoneInv => ZoneTypeOK
  BY DEF ZoneInv
<1>. QED BY <1>1, Invariance, PTL

\* Every touch that a run saved has its alert, for all plans and prices and
\* however the runs overlap, fail or die.
THEOREM TouchesAreAnswered == ZoneSpec => []TouchIsAnswered
<1>1. ZoneInv => TouchIsAnswered
  BY DEF ZoneInv, AnsweredInv
<1>. QED BY <1>1, Invariance, PTL

\* As long as no two runs overlapped at the files and none was cut inside a
\* write, no arming is alerted twice, for any number of runs and keys.
THEOREM AlertsAreDeduplicated == ZoneSpec => []Deduplicated
<1>1. ZoneInv => Deduplicated
  BY DEF ZoneInv, OutboxInv, CleanInv, NoRepeats, Deduplicated
<1>. QED BY <1>1, Invariance, PTL

\* Theses and watches that go back to the same thesis have the same plan,
\* however the runs overlap, fail or die.
THEOREM GeometryHolds == ZoneSpec => []GeometryIsHeld
<1>1. ASSUME ZoneInv, NEW k \in Keys,
             watchFile[k].thesis # 0, watchFile[k].thesis = thesisFile[k].created
      PROVE  watchFile[k].plan = thesisFile[k].plan
  <2>. DEFINE n == watchFile[k].thesis
  <2>1. watchFile[k] \in Watch /\ thesisFile[k] \in Thesis
    BY <1>1 DEF ZoneInv, ZoneTypeOK, Watches, Theses, NoWatch, NoThesis
  <2>2. n \in 1 .. runs /\ watchFile[k].plan \in Plans /\ thesisFile[k].plan \in Plans
    BY <1>1, <2>1 DEF ZoneInv, ZoneTypeOK, RunInv, Watch, Thesis
  <2>3. Stamped(k, n, watchFile[k].plan) /\ Stamped(k, n, thesisFile[k].plan)
    BY <1>1 DEF Stamped
  <2>. QED BY <1>1, <2>2, <2>3 DEF ZoneInv, StampInv
<1>2. ZoneInv => GeometryIsHeld
  BY <1>1 DEF GeometryIsHeld
<1>. QED BY <1>2, Invariance, PTL
==============================================================================
