--------------------------- MODULE GapLedger_proofs ---------------------------
(***************************************************************************)
(* What the gap records are worth, for every window, every number of       *)
(* starts and any order of crashes, stops, reconnections and midnights.    *)
(***************************************************************************)
EXTENDS GapLedger, TLAPS

\* Types, and what holds in every state of each kind of process.
Shape ==
  /\ TypeOK
  /\ \A d \in lost : d <= today
  /\ pc # "running" => link # "up"
  /\ pc \in {"down", "constructed", "announced"} => heard = 0
  /\ opened \/ pc # "down" => manifest > 0
  /\ opened /\ pc = "constructed" => previous > 0

\* The worker knows of a loss, or will when it has applied its gap records.
Noted(d) == days[d].failed \/ \E gap \in faults : d \in DaysOf(gap)

\* The next start will record a gap that covers the day.
Covered(d, marks) ==
  days[d].failed \/ \E since \in marks : 0 < since /\ since <= d

\* What a startup that was cut short has forgotten is of warmup days.
LossInv ==
  /\ pc \in {"announced", "running"} =>
       \A d \in lost : ~cutShort \/ d >= FirstFrozen => Noted(d)
  /\ pc = "finished" /\ ~cutShort => \A d \in lost : Covered(d, {manifest})
  /\ pc = "down" /\ ~cutShort =>
       \A d \in lost : Covered(d, {marker, session, manifest})
  /\ pc = "constructed" =>
       \A d \in lost : ~cutShort \/ d >= FirstFrozen =>
         Covered(d, {marker, session, previous})

\* Gap records of a running process begin in its own session.
SessionInv ==
  /\ pc \in {"announced", "running", "finished"} =>
       session > 0 /\ (heard > 0 => session <= heard)
  /\ pc = "running" => \A gap \in faults : session <= gap.since

\* Days are sealed as collected after the window, when nothing starts.
SealInv ==
  \A d \in Window : Collected(d) =>
    /\ today = Days + 1 /\ pc \in {"finished", "down"}
    /\ d \in lost => cutShort /\ d < FirstFrozen

GapInv == Shape /\ LossInv /\ SessionInv /\ SealInv

Status == {"OPEN", "NOT_STARTED", "INCOMPLETE",
           "COLLECTED_PENDING_RECONCILIATION"}

-----------------------------------------------------------------------------
LEMMA InitShape == ASSUME Init PROVE GapInv
<1>1. TypeOK
  <2>1. days \in [Window -> [rows : BOOLEAN, failed : BOOLEAN,
                            status : Status]]
    BY DEF Init, Status
  <2>2. /\ today \in 1..(Days + 1) /\ starts \in 0..MaxStarts
        /\ lost \subseteq Window
    BY GapAssumption DEF Init
  <2>3. inBatch \in BOOLEAN /\ opened \in BOOLEAN /\ cutShort \in BOOLEAN
    BY DEF Init
  <2>. QED BY <2>1, <2>2, <2>3 DEF Init, TypeOK, Status
<1>2. \A d \in Window : ~Collected(d)
  BY DEF Init, Collected
<1>. QED BY <1>1, <1>2, GapAssumption
       DEF Init, GapInv, Shape, LossInv, SessionInv, SealInv

\* Losses stay in the window and in the past when the next day is lost.
LEMMA OneDayMore ==
  ASSUME NEW n \in Nat, NEW last \in Nat, NEW old, NEW new,
         old \subseteq 1..last, \A d \in old : d <= n,
         \A d \in new : d \in old \/ (d = n + 1 /\ d \in 1..last)
  PROVE  new \subseteq 1..last /\ \A d \in new : d <= n + 1
<1>. SUFFICES ASSUME NEW d \in new PROVE d \in 1..last /\ d <= n + 1
  OBVIOUS
<1>1. CASE d \in old
  <2>1. d \in Nat /\ d <= n
    BY <1>1
  <2>. QED BY <1>1, <2>1
<1>2. CASE d = n + 1 /\ d \in 1..last
  BY <1>2
<1>. QED BY <1>1, <1>2

\* Every step keeps the types.
LEMMA TypeStep == ASSUME TypeOK, [Next]_vars PROVE TypeOK'
<1>. USE GapAssumption DEF Record, Window, InWindow
<1>1. CASE NextDay
  <2>1. /\ today' = today + 1 /\ today <= Days
        /\ UNCHANGED <<manifest, session, marker, days, pc, link, heard,
                       previous, faults, inBatch, opened, cutShort, starts>>
    BY <1>1 DEF NextDay, files, process
  <2>2. lost' \subseteq Window /\ missed' \subseteq Window
    BY <1>1 DEF NextDay, Unattended, TypeOK
  <2>. QED BY <2>1, <2>2 DEF TypeOK
<1>2. CASE Construct
  <2>1. days' \in [Window -> [rows : BOOLEAN, failed : BOOLEAN,
                             status : Status]]
    <3>1. days \in [Window -> [rows : BOOLEAN, failed : BOOLEAN,
                              status : Status]]
      BY DEF TypeOK, Status
    <3>2. ASSUME NEW d \in Window
          PROVE  Reset(d) \in [rows : BOOLEAN, failed : BOOLEAN,
                               status : Status]
      BY <3>1, <3>2 DEF Reset, Status
    <3>. QED BY <1>2, <3>2 DEF Construct
  <2>2. starts' \in 0..MaxStarts
    BY <1>2 DEF Construct, TypeOK
  <2>. QED BY <1>2, <2>1, <2>2 DEF Construct, TypeOK, Status
<1>3. CASE Announce
  BY <1>3 DEF Announce, StartGaps, Gap, TypeOK
<1>4. CASE ApplyFaults
  BY <1>4 DEF ApplyFaults, Flagged, TypeOK
<1>5. CASE Finish
  BY <1>5 DEF Finish, Unattended, FinishedStatus, TypeOK
<1>6. CASE StopSession
  <2>1. /\ manifest' \in 0..today' /\ session' \in 0..today'
        /\ marker' \in 0..today' /\ heard' \in 0..today'
        /\ previous' \in 0..today' /\ today' \in 1..(Days + 1)
    BY <1>6 DEF StopSession, NoProcess, TypeOK
  <2>2. /\ faults' = {} /\ pc' = "down" /\ link' = "none"
        /\ UNCHANGED <<days, lost, missed, starts, opened, cutShort>>
    BY <1>6 DEF StopSession, NoProcess
  <2>3. inBatch' \in BOOLEAN
    BY <1>6 DEF StopSession, NoProcess
  <2>. QED BY <2>1, <2>2, <2>3 DEF TypeOK
<1>7. CASE Crash
  <2>1. lost' \subseteq Window
    BY <1>7 DEF Crash, Unattended, TypeOK
  <2>2. cutShort' \in BOOLEAN /\ inBatch' \in BOOLEAN
    BY <1>7 DEF Crash, NoProcess
  <2>3. /\ heard' = 0 /\ previous' = 0 /\ pc' = "down" /\ link' = "none"
        /\ faults' = {}
        /\ UNCHANGED <<manifest, session, marker, days, missed, today, starts, opened>>
    BY <1>7 DEF Crash, NoProcess, files
  <2>. QED BY <2>1, <2>2, <2>3 DEF TypeOK
<1>8. CASE Connect
  BY <1>8 DEF Connect, files, TypeOK
<1>9. CASE Receive
  BY <1>9 DEF Receive, files, TypeOK
<1>10. CASE ConnectionFails
  BY <1>10 DEF ConnectionFails, files, Unattended, LastHeard, Gap, TypeOK
<1>11. CASE FirstConnectFails
  BY <1>11 DEF FirstConnectFails, files, LastHeard, Gap, TypeOK
<1>12. CASE BeginBatch
  BY <1>12 DEF BeginBatch, TypeOK
<1>13. CASE EndBatch
  <2>1. days' \in [Window -> [rows : BOOLEAN, failed : BOOLEAN,
                             status : Status]]
    <3>1. CASE days' = days
      BY <3>1 DEF TypeOK, Status
    <3>2. ASSUME NEW d \in Window, days' = [days EXCEPT ![d].rows = TRUE]
          PROVE  days' \in [Window -> [rows : BOOLEAN, failed : BOOLEAN,
                                      status : Status]]
      <4>1. days \in [Window -> [rows : BOOLEAN, failed : BOOLEAN,
                                status : Status]]
        BY DEF TypeOK, Status
      <4>. QED BY <3>2, <4>1
    <3>. QED BY <1>13, <3>1, <3>2 DEF EndBatch
  <2>2. /\ manifest' \in 0..today /\ marker' = 0 /\ inBatch' = FALSE
        /\ UNCHANGED <<session, pc, link, heard, previous, faults, today,
                       opened, lost, missed, cutShort, starts>>
    BY <1>13 DEF EndBatch, TypeOK
  <2>3. inBatch' \in BOOLEAN
    BY <2>2
  <2>. QED BY <2>1, <2>2, <2>3 DEF TypeOK, Status
<1>14. CASE UNCHANGED vars
  BY <1>14 DEF vars, files, process, TypeOK
<1>. QED BY <1>1, <1>2, <1>3, <1>4, <1>5, <1>6, <1>7, <1>8, <1>9, <1>10,
            <1>11, <1>12, <1>13, <1>14 DEF Next

\* Every step keeps the shape.
LEMMA ShapeStep ==
  ASSUME Shape, [Next]_vars
  PROVE  Shape'
<1>. USE GapAssumption DEF Shape, Window, InWindow
<1>0. TypeOK /\ TypeOK'
  BY TypeStep
<1>1. CASE NextDay
  <2>1. /\ today' = today + 1 /\ today <= Days
        /\ UNCHANGED <<manifest, session, marker, days, pc, link, heard,
                       previous, faults, inBatch, opened, cutShort, starts>>
    BY <1>1 DEF NextDay, files, process
  <2>2. \A d \in lost' : d <= today'
    <3>1. \A d \in lost' : d \in lost \/ (d = today + 1 /\ d \in 1..Days)
      BY <1>1 DEF NextDay, Unattended
    <3>2. today \in Nat /\ Days \in Nat /\ lost \subseteq 1..Days
      BY <1>0 DEF TypeOK
    <3>. QED BY <2>1, <3>1, <3>2, OneDayMore
  <2>. QED BY <1>0, <2>1, <2>2
<1>2. CASE Construct
  BY <1>0, <1>2 DEF Construct, TypeOK
<1>3. CASE Announce
  BY <1>0, <1>3 DEF Announce
<1>4. CASE ApplyFaults
  BY <1>0, <1>4 DEF ApplyFaults
<1>5. CASE Finish
  BY <1>0, <1>5 DEF Finish, Unattended, TypeOK
<1>6. CASE StopSession
  BY <1>0, <1>6 DEF StopSession, NoProcess
<1>7. CASE Crash
  <2>1. \A d \in lost' : d <= today'
    BY <1>0, <1>7 DEF Crash, Unattended, TypeOK
  <2>. QED BY <1>0, <1>7, <2>1 DEF Crash, NoProcess, files
<1>8. CASE Connect
  BY <1>0, <1>8 DEF Connect, files
<1>9. CASE Receive
  BY <1>0, <1>9 DEF Receive, files
<1>10. CASE ConnectionFails
  BY <1>0, <1>10 DEF ConnectionFails, files, Unattended, LastHeard, TypeOK
<1>11. CASE FirstConnectFails
  BY <1>0, <1>11 DEF FirstConnectFails, files
<1>12. CASE BeginBatch
  BY <1>0, <1>12 DEF BeginBatch
<1>13. CASE EndBatch
  <2>1. manifest > 0 => manifest' > 0
    BY <1>0, <1>13 DEF EndBatch, TypeOK
  <2>. QED BY <1>0, <1>13, <2>1 DEF EndBatch
<1>14. CASE UNCHANGED vars
  BY <1>0, <1>14 DEF vars, files, process
<1>. QED BY <1>1, <1>2, <1>3, <1>4, <1>5, <1>6, <1>7, <1>8, <1>9, <1>10,
            <1>11, <1>12, <1>13, <1>14 DEF Next

\* Every step keeps track of every loss.
LEMMA LossStep ==
  ASSUME GapInv, [Next]_vars
  PROVE  LossInv'
<1>. USE GapAssumption DEF GapInv
<1>1. CASE NextDay
  <2>1. /\ today \in Nat /\ today' = today + 1
        /\ UNCHANGED <<manifest, session, marker, days, pc, link, heard,
                       previous, faults, opened, cutShort>>
    BY <1>1 DEF NextDay, files, process, Shape, TypeOK
  <2>2. pc \in {"announced", "running"} => lost' = lost
    BY <1>1 DEF NextDay, Shape, TypeOK
  <2>3. \A d \in lost' : d \in lost \/ (opened /\ d = today + 1)
    BY <1>1 DEF NextDay, Unattended, InWindow
  <2>4. CASE pc \in {"announced", "running"}
    BY <2>1, <2>2, <2>4 DEF LossInv, Noted
  <2>5. ASSUME NEW marks, NEW since \in marks, opened => since > 0,
               since \in 0..today, NEW d \in lost', d \notin lost
        PROVE  Covered(d, marks)
    <3>1. opened /\ d = today + 1
      BY <2>3, <2>5
    <3>2. 0 < since /\ since <= d
      BY <2>1, <2>5, <3>1
    <3>. QED BY <2>5, <3>2 DEF Covered
  <2>6. /\ manifest \in 0..today /\ previous \in 0..today
        /\ opened => manifest > 0
        /\ opened /\ pc = "constructed" => previous > 0
    BY DEF Shape, TypeOK
  <2>7. CASE pc \in {"down", "finished"}
    <3>1. \A d \in lost' : d \in lost \/ Covered(d, {manifest})
      BY <2>5, <2>6
    <3>2. \A d \in lost' : d \in lost \/ Covered(d, {marker, session, manifest})
      BY <3>1 DEF Covered
    <3>3. pc = "finished" /\ ~cutShort => \A d \in lost' : Covered(d, {manifest})
      BY <3>1 DEF LossInv
    <3>4. pc = "down" /\ ~cutShort =>
            \A d \in lost' : Covered(d, {marker, session, manifest})
      BY <3>2 DEF LossInv
    <3>. QED BY <2>1, <2>7, <3>3, <3>4 DEF LossInv, Covered
  <2>8. CASE pc = "constructed"
    <3>1. \A d \in lost' : d \in lost \/ Covered(d, {marker, session, previous})
      BY <2>5, <2>6, <2>8
    <3>2. \A d \in lost' : ~cutShort \/ d >= FirstFrozen =>
            Covered(d, {marker, session, previous})
      BY <2>8, <3>1 DEF LossInv
    <3>. QED BY <2>1, <2>8, <3>2 DEF LossInv, Covered
  <2>. QED BY <2>4, <2>7, <2>8 DEF Shape, TypeOK
<1>2. CASE Construct
  <2>1. /\ pc = "down" /\ pc' = "constructed" /\ previous' = manifest
        /\ UNCHANGED <<session, marker, lost, cutShort>>
    BY <1>2 DEF Construct
  <2>2. \A d \in lost : d \in Window /\ d < FirstFrozen /\ ~(d >= FirstFrozen)
    BY <1>2 DEF Construct, Shape, TypeOK, Window
  <2>3. \A d \in lost : days'[d] = days[d]
    BY <1>2, <2>2 DEF Construct, Reset
  <2>. QED BY <2>1, <2>2, <2>3 DEF LossInv, Covered
<1>3. CASE Announce
  <2>1. /\ pc = "constructed" /\ pc' = "announced" /\ faults' = StartGaps
        /\ UNCHANGED <<days, lost, cutShort, today>>
    BY <1>3 DEF Announce
  <2>. SUFFICES ASSUME NEW d \in lost, ~cutShort \/ d >= FirstFrozen
                PROVE  Noted(d)'
    BY <2>1 DEF LossInv
  <2>2. Covered(d, {marker, session, previous})
    BY <2>1 DEF LossInv
  <2>3. CASE days[d].failed
    BY <2>1, <2>3 DEF Noted
  <2>4. ASSUME NEW since \in {marker, session, previous},
               0 < since, since <= d
        PROVE  Noted(d)'
    <3>1. Gap(since) \in StartGaps
      <4>1. since # 0
        BY <2>4
      <4>. QED BY <2>4, <4>1 DEF StartGaps
    <3>2. d \in Nat /\ d <= today /\ since \in Nat /\ today \in Nat
      BY DEF Shape, TypeOK, Window
    <3>3. d \in DaysOf(Gap(since))
      BY <2>4, <3>2 DEF DaysOf, Gap
    <3>4. DaysOf(Gap(since))' = DaysOf(Gap(since))
      BY <2>1 DEF DaysOf, Gap
    <3>. QED BY <2>1, <3>1, <3>3 DEF Noted, DaysOf
  <2>. QED BY <2>2, <2>3, <2>4 DEF Covered
<1>4. CASE ApplyFaults
  <2>1. /\ pc \in {"announced", "running"} /\ pc' = "running"
        /\ UNCHANGED <<lost, cutShort, today>>
        /\ \A d \in Window : Noted(d) => days'[d].failed
    <3>1. days' = [d \in Window |->
                    IF \E gap \in faults : d \in DaysOf(gap)
                    THEN Flagged(days[d]) ELSE days[d]]
      BY <1>4 DEF ApplyFaults
    <3>2. \A d \in Window : Flagged(days[d]).failed
      BY DEF Flagged, Shape, TypeOK
    <3>. QED BY <1>4, <3>1, <3>2 DEF ApplyFaults, Noted
  <2>2. lost \subseteq Window /\ \A d \in lost : d <= today
    BY DEF Shape, TypeOK
  <2>3. \A d \in lost : ~cutShort \/ d >= FirstFrozen => Noted(d)
    BY <2>1 DEF LossInv
  <2>. QED BY <2>1, <2>2, <2>3 DEF LossInv, Noted
<1>5. CASE Finish
  <2>1. /\ pc = "running" /\ faults = {} /\ pc' = "finished"
        /\ manifest' = today /\ cutShort' = cutShort
        /\ \A d \in Window : days'[d].failed = days[d].failed
    BY <1>5 DEF Finish, Shape, TypeOK
  <2>2. \A d \in lost' : d \in Window /\ (d \in lost \/ d = today)
    BY <1>5 DEF Finish, Unattended, InWindow, Shape, TypeOK
  <2>3. today \in Nat /\ today > 0
    BY DEF Shape, TypeOK
  <2>. SUFFICES ASSUME ~cutShort, NEW d \in lost'
                PROVE  days'[d].failed \/ (0 < manifest' /\ manifest' <= d)
    BY <2>1 DEF LossInv, Covered
  <2>4. CASE d \in lost
    BY <2>1, <2>2, <2>4 DEF LossInv, Noted
  <2>5. CASE d = today
    BY <2>1, <2>3, <2>5
  <2>. QED BY <2>2, <2>4, <2>5
<1>6. CASE StopSession
  <2>1. /\ pc = "finished" /\ pc' = "down"
        /\ UNCHANGED <<manifest, marker, days, lost, cutShort>>
    BY <1>6 DEF StopSession, NoProcess
  <2>. QED BY <2>1 DEF LossInv, Covered
<1>7. CASE Crash
  <2>1. /\ pc' = "down" /\ UNCHANGED <<manifest, session, marker, days>>
        /\ pc # "down"
        /\ ~cutShort' => ~cutShort /\ pc \notin {"constructed", "announced"}
    BY <1>7 DEF Crash, NoProcess, files
  <2>2. \A d \in lost' : d \in Window /\
          (d \in lost \/ d = today \/ (pc = "running" /\ d = heard))
    BY <1>7 DEF Crash, Unattended, InWindow, Shape, TypeOK
  <2>. SUFFICES ASSUME ~cutShort', NEW d \in lost'
                PROVE  Covered(d, {marker, session, manifest})
    BY <2>1 DEF LossInv, Covered
  <2>3. pc \in {"running", "finished"}
    BY <2>1 DEF Shape, TypeOK
  <2>4. session \in Nat /\ 0 < session /\ session <= today /\ d \in Nat
        /\ 0 < d /\ heard \in Nat /\ (heard > 0 => session <= heard)
    BY <2>2, <2>3 DEF Shape, TypeOK, SessionInv, Window
  <2>5. CASE d = today \/ d = heard
    BY <2>4, <2>5 DEF Covered
  <2>6. CASE d \in lost /\ pc = "finished"
    BY <2>1, <2>6 DEF LossInv, Covered
  <2>7. CASE d \in lost /\ pc = "running"
    <3>1. Noted(d)
      BY <2>1, <2>7 DEF LossInv
    <3>2. ASSUME NEW gap \in faults, d \in DaysOf(gap)
          PROVE  session <= d
      <4>1. gap.since \in Nat /\ gap.at \in Nat /\ session <= gap.since
        BY <2>7 DEF SessionInv, Shape, TypeOK, Record
      <4>2. gap.since <= d
        BY <3>2, <4>1 DEF DaysOf
      <4>. QED BY <2>4, <4>1, <4>2
    <3>. QED BY <2>4, <3>1, <3>2 DEF Noted, Covered
  <2>. QED BY <2>2, <2>3, <2>5, <2>6, <2>7
<1>8. CASE Connect
  BY <1>8 DEF Connect, files, LossInv, Noted
<1>9. CASE Receive
  BY <1>9 DEF Receive, files, LossInv, Noted
<1>10. CASE ConnectionFails
  <2>1. /\ pc = "running" /\ pc' = "running" /\ UNCHANGED <<days, cutShort>>
        /\ faults' = faults \cup {Gap(LastHeard)}
    BY <1>10 DEF ConnectionFails, files
  <2>2. \A d \in lost' : d \in lost \/ d \in LastHeard..today
    BY <1>10 DEF ConnectionFails, Unattended, InWindow
  <2>3. DaysOf(Gap(LastHeard)) = LastHeard..today
    BY DEF DaysOf, Gap
  <2>4. \A d \in lost' : d \in lost \/ Noted(d)'
    BY <2>1, <2>2, <2>3 DEF Noted, DaysOf
  <2>. QED BY <2>1, <2>4 DEF LossInv, Noted
<1>11. CASE FirstConnectFails
  BY <1>11 DEF FirstConnectFails, files, LossInv, Noted
<1>12. CASE BeginBatch
  BY <1>12 DEF BeginBatch, LossInv, Noted
<1>13. CASE EndBatch
  <2>1. /\ pc = "running" /\ pc' = "running"
        /\ UNCHANGED <<faults, lost, cutShort>>
    BY <1>13 DEF EndBatch
  <2>2. \A d \in Window : days'[d].failed = days[d].failed
    BY <1>13 DEF EndBatch, Shape, TypeOK
  <2>3. lost \subseteq Window
    BY DEF Shape, TypeOK
  <2>. QED BY <2>1, <2>2, <2>3 DEF LossInv, Noted
<1>14. CASE UNCHANGED vars
  BY <1>14 DEF vars, files, process, LossInv, Noted, Covered
<1>. QED BY <1>1, <1>2, <1>3, <1>4, <1>5, <1>6, <1>7, <1>8, <1>9, <1>10,
            <1>11, <1>12, <1>13, <1>14 DEF Next

\* A running process keeps its session, and its gap records begin in it.
LEMMA SessionStep ==
  ASSUME GapInv, [Next]_vars
  PROVE  SessionInv'
<1>. USE GapAssumption DEF GapInv, Shape, TypeOK, Record, SessionInv
<1>1. CASE NextDay
  BY <1>1 DEF NextDay, files, process
<1>2. CASE Construct
  BY <1>2 DEF Construct
<1>3. CASE Announce
  BY <1>3 DEF Announce
<1>4. CASE ApplyFaults
  BY <1>4 DEF ApplyFaults
<1>5. CASE Finish
  BY <1>5 DEF Finish
<1>6. CASE StopSession
  BY <1>6 DEF StopSession, NoProcess
<1>7. CASE Crash
  BY <1>7 DEF Crash, NoProcess, files
<1>8. CASE Connect
  BY <1>8 DEF Connect, files
<1>9. CASE Receive
  BY <1>9 DEF Receive, files
<1>10. CASE ConnectionFails
  BY <1>10 DEF ConnectionFails, files, LastHeard, Gap
<1>11. CASE FirstConnectFails
  BY <1>11 DEF FirstConnectFails, files, LastHeard, Gap
<1>12. CASE BeginBatch
  BY <1>12 DEF BeginBatch
<1>13. CASE EndBatch
  BY <1>13 DEF EndBatch
<1>14. CASE UNCHANGED vars
  BY <1>14 DEF vars, files, process
<1>. QED BY <1>1, <1>2, <1>3, <1>4, <1>5, <1>6, <1>7, <1>8, <1>9, <1>10,
            <1>11, <1>12, <1>13, <1>14 DEF Next

\* A day is sealed by Finish alone, and later losses are outside the window.
LEMMA SealStep ==
  ASSUME GapInv, [Next]_vars
  PROVE  SealInv'
<1>. USE GapAssumption DEF GapInv, Shape, TypeOK, Window, InWindow, SealInv,
         Collected
<1>1. CASE NextDay
  BY <1>1 DEF NextDay, files, process, Unattended
<1>2. CASE Construct
  <2>1. /\ UNCHANGED <<today, lost, cutShort>> /\ pc = "down"
        /\ days' = [d \in Window |-> Reset(d)]
        /\ today < FirstFrozen /\ FirstFrozen \in 1..Days
    BY <1>2 DEF Construct
  <2>2. \A d \in Window : ~Collected(d)
    BY <2>1
  <2>3. ASSUME NEW d \in Window PROVE ~Collected(d)'
    <3>1. Reset(d).status # "COLLECTED_PENDING_RECONCILIATION"
      BY <2>2, <2>3 DEF Reset
    <3>. QED BY <2>1, <3>1
  <2>. QED BY <2>3
<1>3. CASE Announce
  BY <1>3 DEF Announce
<1>4. CASE ApplyFaults
  BY <1>4 DEF ApplyFaults, Flagged
<1>5. CASE Finish
  <2>. SUFFICES ASSUME NEW d \in Window, Collected(d)'
                PROVE  /\ today' = Days + 1 /\ pc' \in {"finished", "down"}
                       /\ d \in lost' => cutShort' /\ d < FirstFrozen
    BY DEF SealInv, Window
  <2>1. ~days[d].failed /\ today > Days
    BY <1>5 DEF Finish, FinishedStatus
  <2>2. today = Days + 1 /\ d # today /\ d \in Nat
    BY <2>1
  <2>3. d \in lost' => d \in lost
    BY <1>5, <2>2 DEF Finish, Unattended
  <2>4. d \in lost /\ (~cutShort \/ d >= FirstFrozen) => days[d].failed
    BY <1>5 DEF Finish, LossInv, Noted
  <2>. QED BY <1>5, <2>1, <2>2, <2>3, <2>4 DEF Finish
<1>6. CASE StopSession
  BY <1>6 DEF StopSession, NoProcess
<1>7. CASE Crash
  BY <1>7 DEF Crash, NoProcess, files, Unattended
<1>8. CASE Connect
  BY <1>8 DEF Connect, files
<1>9. CASE Receive
  BY <1>9 DEF Receive, files
<1>10. CASE ConnectionFails
  BY <1>10 DEF ConnectionFails, files
<1>11. CASE FirstConnectFails
  BY <1>11 DEF FirstConnectFails, files
<1>12. CASE BeginBatch
  BY <1>12 DEF BeginBatch
<1>13. CASE EndBatch
  <2>1. /\ pc = "running" /\ pc' = "running"
    BY <1>13 DEF EndBatch
  <2>2. \A d \in Window : days'[d].status = days[d].status
    <3>1. CASE days' = days
      BY <3>1
    <3>2. ASSUME NEW e \in Window, days' = [days EXCEPT ![e].rows = TRUE]
          PROVE  \A d \in Window : days'[d].status = days[d].status
      BY <3>2
    <3>. QED BY <1>13, <3>1, <3>2 DEF EndBatch
  <2>. QED BY <2>1, <2>2 DEF Collected
<1>14. CASE UNCHANGED vars
  BY <1>14 DEF vars, files, process
<1>. QED BY <1>1, <1>2, <1>3, <1>4, <1>5, <1>6, <1>7, <1>8, <1>9, <1>10,
            <1>11, <1>12, <1>13, <1>14 DEF Next

\* Files and process keep their types, and no file speaks of a later day than
\* today.
THEOREM TypeCorrect == Spec => []TypeOK
<1>1. Init => TypeOK
  BY InitShape DEF GapInv, Shape
<1>2. TypeOK /\ [Next]_vars => TypeOK'
  BY TypeStep
<1>. QED BY <1>1, <1>2, PTL DEF Spec

-----------------------------------------------------------------------------
\* The gap accounting is right in every state the collector can reach, wherever
\* midnights fall.
THEOREM Accounting == Spec => []GapInv
<1>1. Init => GapInv
  BY InitShape
<1>2. GapInv /\ [Next]_vars => GapInv'
  BY ShapeStep, LossStep, SessionStep, SealStep DEF GapInv
<1>. QED BY <1>1, <1>2, PTL DEF Spec

\* A worker with no gap record left has marked every day that was lost but for
\* midnights between two connections, unless an earlier startup was cut short.
THEOREM LossesAreNoted == Spec => []LossIsNoted
<1>1. GapInv => LossIsNoted
  BY DEF GapInv, LossInv, LossIsNoted, Noted
<1>. QED BY <1>1, Accounting, PTL

\* A day sealed as collected was attended from its first connection on; on a
\* frozen day no crash of a startup can change that.
THEOREM CollectedIsAttended == Spec => []CollectedDayHasNoLoss
<1>1. GapInv => CollectedDayHasNoLoss
  BY DEF GapInv, SealInv, CollectedDayHasNoLoss
<1>. QED BY <1>1, Accounting, PTL
=============================================================================
