---------------------------- MODULE OptionsTracker ----------------------------
(***************************************************************************)
(* The forward tracker of option recommendations                            *)
(* (options/forward_tracker.py).  `options daily` and `track` record the    *)
(* picks of today in the file of the day; `track --mark` replays the open   *)
(* recommendations of all files at days after their entry, writes the marks *)
(* into the files and appends them to a log.                                *)
(*                                                                          *)
(* Every file is read, changed in memory and written in place, and nothing  *)
(* keeps the programs apart.  A recommendation is its id and its marks: what *)
(* a pick says, and what a replay finds, is abstracted.  A line of the log   *)
(* that a death cuts or that two programs mix counts as written: nothing     *)
(* reads the log.                                                           *)
(***************************************************************************)
EXTENDS Integers

CONSTANTS
  Tickers,
  Reports,       \* the sets of tickers a report may pick
  Recorders,     \* the programs that record
  Markers,       \* the programs that mark
  Offsets,       \* the days after the entry a mark may be asked for
  OffsetLists,   \* the lists of them a run may be given
  Exits,         \* the days --as-of may name
  MarkAge,       \* max_age_days
  LastDay,       \* bound: the days
  MaxRecordings, \* bound: the recordings of a behaviour
  MaxMarkings    \* bound: the marking runs of a behaviour

Days == 0..LastDay
TrackPrograms == Recorders \cup Markers

\* What _new_id makes unique: a recording, a ticker and a day.
Ids == [day : Days, ticker : Tickers, number : Nat]
Marks == [id : Ids, offset : Offsets, run : Nat]
Rows == [id : Ids, open : BOOLEAN, marks : SUBSET Marks]

DayFiles == [form : {"absent", "torn", "whole"}, rows : SUBSET Rows]
AbsentFile == [form |-> "absent", rows |-> {}]
TornFile == [form |-> "torn", rows |-> {}]
WholeFile(rs) == [form |-> "whole", rows |-> rs]

Copies == [day : Days, rows : SUBSET Rows]
NoDayCopy == [day |-> 0, rows |-> {}]

Orders == [run : Nat, exit : Exits, offsets : OffsetLists]

ASSUME ReportsAssumption == Reports \subseteq SUBSET Tickers
ASSUME ProgramsAssumption == Recorders \cap Markers = {}
ASSUME OffsetsAssumption ==
  /\ Offsets \subseteq Int
  /\ OffsetLists \subseteq (SUBSET Offsets) \ {{}} /\ OffsetLists # {}
ASSUME ExitsAssumption == Exits \subseteq Int /\ Exits # {}
ASSUME TrackBoundsAssumption ==
  {MarkAge, LastDay, MaxRecordings, MaxMarkings} \subseteq Nat

VARIABLES
  today,
  dayFile,    \* recommendations_<day>.json
  log,        \* marks.jsonl
  place,      \* where each program stands
  copy,       \* the file each program is about to write
  order,      \* what each marking run was asked for
  toRead,     \* the files it has still to read
  held,       \* its rows that are not in the files yet
  out,        \* its marks_out
  recordings, \* the recordings begun
  markings,   \* the marking runs begun
  known,      \* history: the recommendations that were recorded
  reset,      \* history: those recorded again while open, after a mark
  contended,  \* history: days whose file was written while another program
              \* held a copy of it
  tornDays,   \* history: days in whose file a program died
  cut         \* history: the marks of runs that ended before the log

trackHistory == <<known, reset, contended, tornDays, cut>>
trackVars == <<today, dayFile, log, place, copy, order, toRead, held, out,
               recordings, markings, trackHistory>>

TrackPlaces == {"idle", "reading", "patching", "holding", "writing"}

NoOrder == [run |-> 0, exit |-> CHOOSE e \in Exits : TRUE,
            offsets |-> CHOOSE o \in OffsetLists : TRUE]

TrackInit ==
  /\ today = 0
  /\ dayFile = [d \in Days |-> AbsentFile]
  /\ log = {}
  /\ place = [p \in TrackPrograms |-> "idle"]
  /\ copy = [p \in TrackPrograms |-> NoDayCopy]
  /\ order = [p \in Markers |-> NoOrder]
  /\ toRead = [p \in Markers |-> {}]
  /\ held = [p \in Markers |-> {}]
  /\ out = [p \in Markers |-> {}]
  /\ recordings = 0
  /\ markings = 0
  /\ known = {}
  /\ reset = {}
  /\ contended = {}
  /\ tornDays = {}
  /\ cut = {}

Midnight ==
  /\ today < LastDay
  /\ today' = today + 1
  /\ UNCHANGED <<dayFile, log, place, copy, order, toRead, held, out, recordings,
                 markings, trackHistory>>

------------------------------------------------------------------------------
(***************************************************************************)
(* Writing a file: path.write_text empties it and fills it.                 *)
(***************************************************************************)
HasCopyOf(p, d) ==
  \/ place[p] \in {"holding", "writing"} /\ copy[p].day = d
  \/ p \in Markers /\ \E r \in held[p] : r.id.day = d

\* The file of p's copy changes.
Touch(p, file) ==
  LET d == copy[p].day IN
  /\ dayFile' = [dayFile EXCEPT ![d] = file]
  /\ contended' = contended \cup
       {e \in {d} : \E q \in TrackPrograms \ {p} : HasCopyOf(q, e)}

OpenDay(p) ==
  /\ place[p] = "holding"
  /\ Touch(p, TornFile)
  /\ place' = [place EXCEPT ![p] = "writing"]
  /\ UNCHANGED <<today, log, copy, order, toRead, held, out, recordings, markings,
                 known, reset, tornDays, cut>>

\* What another program wrote meanwhile may be left behind it.
Filled(p) ==
  {WholeFile(copy[p].rows)}
    \cup IF dayFile[copy[p].day] = TornFile THEN {} ELSE {TornFile}

\* The rows of a day, and of all other days.
OfDay(rs, d) == {r \in rs : r.id.day = d}

WriteDay(p) ==
  /\ place[p] = "writing"
  /\ \E file \in Filled(p) : Touch(p, file)
  /\ known' = known \cup {r.id : r \in copy[p].rows}
  /\ place' = [place EXCEPT ![p] = IF p \in Markers THEN "patching" ELSE "idle"]
  /\ held' = [q \in Markers |->
                IF q = p THEN held[q] \ OfDay(held[q], copy[p].day) ELSE held[q]]
  /\ copy' = [copy EXCEPT ![p] = NoDayCopy]
  /\ UNCHANGED <<today, log, order, toRead, out, recordings, markings, reset,
                 tornDays, cut>>

------------------------------------------------------------------------------
(***************************************************************************)
(* record_daily_recommendations                                             *)
(***************************************************************************)
\* A pick of a ticker that is in the file takes over its id and, if it is
\* marked, its status and marks; an open one starts without marks.
Merged(existing, picks, n) ==
  {r \in existing : r.id.ticker \notin picks \/ ~r.open}
    \cup {[r EXCEPT !.marks = {}] : r \in {e \in existing : e.id.ticker \in picks /\ e.open}}
    \cup {[id |-> [day |-> today, ticker |-> t, number |-> n],
           open |-> TRUE, marks |-> {}] : t \in picks \ {r.id.ticker : r \in existing}}

\* A file that does not parse has no rows.
Record(p) ==
  /\ place[p] = "idle"
  /\ recordings < MaxRecordings
  /\ recordings' = recordings + 1
  /\ \E picks \in Reports :
       /\ copy' = [copy EXCEPT ![p] =
                     [day |-> today,
                      rows |-> Merged(dayFile[today].rows, picks, recordings')]]
       /\ reset' = reset \cup
            {r.id : r \in {e \in dayFile[today].rows :
                             e.id.ticker \in picks /\ e.open /\ e.marks # {}}}
  /\ place' = [place EXCEPT ![p] = "holding"]
  /\ UNCHANGED <<today, dayFile, log, order, toRead, held, out, markings, known,
                 contended, tornDays, cut>>

------------------------------------------------------------------------------
(***************************************************************************)
(* mark_open_recommendations                                                *)
(***************************************************************************)
\* load_open_recommendations lists the files that are young enough.
BeginMarking(p) ==
  /\ place[p] = "idle"
  /\ markings < MaxMarkings
  /\ markings' = markings + 1
  /\ \E exit \in Exits, offsets \in OffsetLists :
       order' = [order EXCEPT ![p] =
                   [run |-> markings', exit |-> exit, offsets |-> offsets]]
  /\ toRead' = [toRead EXCEPT ![p] =
                  {d \in Days : dayFile[d].form # "absent" /\ d + MarkAge >= today}]
  /\ place' = [place EXCEPT ![p] = "reading"]
  /\ UNCHANGED <<today, dayFile, log, copy, held, out, recordings, trackHistory>>

\* It reads them one after the other, and passes over one that does not parse.
ReadDay(p) ==
  /\ place[p] = "reading"
  /\ \E d \in toRead[p] :
       /\ \A e \in toRead[p] : d <= e
       /\ toRead' = [toRead EXCEPT ![p] = @ \ {d}]
       /\ held' = [held EXCEPT ![p] = @ \cup {r \in dayFile[d].rows : r.open}]
  /\ UNCHANGED <<today, dayFile, log, place, copy, order, out, recordings, markings,
                 trackHistory>>

\* Faulty variant: marks the row has are made again.
NewMarksAgain(r, o) ==
  {[id |-> r.id, offset |-> k, run |-> o.run] :
     k \in {k \in o.offsets : r.id.day + k <= o.exit}}

\* The marks that are due and that the row does not have.
NewMarks(r, o) ==
  {[id |-> r.id, offset |-> k, run |-> o.run] :
     k \in {k \in o.offsets : /\ r.id.day + k <= o.exit
                              /\ \A m \in r.marks : m.offset # k}}

\* The row is done when the last of the offsets is due and it has a mark.
MarkedRow(r, o) ==
  LET marks == r.marks \cup NewMarks(r, o) IN
  [r EXCEPT !.marks = marks,
            !.open = marks = {} \/ \E k \in o.offsets : r.id.day + k > o.exit]

\* The prices are fetched and every open row is replayed.
Replay(p) ==
  /\ place[p] = "reading"
  /\ toRead[p] = {}
  /\ held' = [held EXCEPT ![p] = {MarkedRow(r, order[p]) : r \in @}]
  /\ out' = [out EXCEPT ![p] = UNION {NewMarks(r, order[p]) : r \in held[p]}]
  /\ place' = [place EXCEPT ![p] = IF held[p] = {} THEN "idle" ELSE "patching"]
  /\ UNCHANGED <<today, dayFile, log, copy, order, toRead, recordings, markings,
                 trackHistory>>

\* The rows of a file, with those of the run in the place of the same ids.
Patched(rs, mine) ==
  {r \in rs : \A h \in mine : h.id # r.id}
    \cup {h \in mine : \E r \in rs : r.id = h.id}

\* The next file is read again; one that does not parse is passed over.
LoadDay(p) ==
  /\ place[p] = "patching"
  /\ \E h \in held[p] :
       LET d == h.id.day
           mine == OfDay(held[p], d)
       IN /\ \A g \in held[p] : d <= g.id.day
          /\ IF dayFile[d].form = "whole"
             THEN /\ copy' = [copy EXCEPT ![p] =
                                [day |-> d, rows |-> Patched(dayFile[d].rows, mine)]]
                  /\ place' = [place EXCEPT ![p] = "holding"]
                  /\ UNCHANGED held
             ELSE /\ held' = [held EXCEPT ![p] = @ \ mine]
                  /\ UNCHANGED <<copy, place>>
  /\ UNCHANGED <<today, dayFile, log, order, toRead, out, recordings, markings,
                 trackHistory>>

AtLog(p) == p \in Markers /\ place[p] = "patching" /\ held[p] = {}

AppendMarks(p) ==
  /\ AtLog(p)
  /\ log' = log \cup out[p]
  /\ out' = [out EXCEPT ![p] = {}]
  /\ place' = [place EXCEPT ![p] = "idle"]
  /\ UNCHANGED <<today, dayFile, copy, order, toRead, held, recordings, markings,
                 trackHistory>>

------------------------------------------------------------------------------
\* The prices cannot be fetched, a file cannot be written, or the program is
\* killed, perhaps when a part of its marks is in the log.
StopRecorder(p) ==
  /\ place[p] # "idle"
  /\ tornDays' = tornDays \cup {d \in {copy[p].day} : place[p] = "writing"}
  /\ place' = [place EXCEPT ![p] = "idle"]
  /\ copy' = [copy EXCEPT ![p] = NoDayCopy]
  /\ UNCHANGED <<today, dayFile, log, order, toRead, held, out, recordings, markings,
                 known, reset, contended, cut>>

StopMarker(p) ==
  /\ place[p] # "idle"
  /\ tornDays' = tornDays \cup {d \in {copy[p].day} : place[p] = "writing"}
  /\ \E some \in SUBSET out[p] :
       /\ some = {} \/ AtLog(p)
       /\ log' = log \cup some
       /\ cut' = cut \cup (out[p] \ some)
  /\ place' = [place EXCEPT ![p] = "idle"]
  /\ copy' = [copy EXCEPT ![p] = NoDayCopy]
  /\ toRead' = [toRead EXCEPT ![p] = {}]
  /\ held' = [held EXCEPT ![p] = {}]
  /\ out' = [out EXCEPT ![p] = {}]
  /\ UNCHANGED <<today, dayFile, order, recordings, markings, known, reset, contended>>

TrackNext ==
  \/ Midnight
  \/ \E p \in TrackPrograms : OpenDay(p) \/ WriteDay(p)
  \/ \E p \in Recorders : Record(p) \/ StopRecorder(p)
  \/ \E p \in Markers :
       \/ BeginMarking(p)
       \/ ReadDay(p)
       \/ Replay(p)
       \/ LoadDay(p)
       \/ AppendMarks(p)
       \/ StopMarker(p)

TrackSpec == TrackInit /\ [][TrackNext]_trackVars

------------------------------------------------------------------------------
(***************************************************************************)
(* Properties.                                                              *)
(***************************************************************************)
\* The types of the variables.
TrackTypeOK ==
  /\ today \in Days
  /\ dayFile \in [Days -> DayFiles]
  /\ log \subseteq Marks
  /\ place \in [TrackPrograms -> TrackPlaces]
  /\ copy \in [TrackPrograms -> Copies]
  /\ order \in [Markers -> Orders]
  /\ toRead \in [Markers -> SUBSET Days]
  /\ held \in [Markers -> SUBSET Rows]
  /\ out \in [Markers -> SUBSET Marks]
  /\ recordings \in Nat /\ markings \in Nat
  /\ known \subseteq Ids /\ reset \subseteq Ids
  /\ contended \subseteq Days /\ tornDays \subseteq Days
  /\ cut \subseteq Marks

BeingWritten(d) == \E p \in TrackPrograms : place[p] = "writing" /\ copy[p].day = d

\* A recommendation that was recorded stays in the file of its day under the id
\* it got, however often that day is recorded and marked, unless two programs
\* met at the file or one died inside a write.
RecommendationsStay ==
  \A id \in known :
    \/ id.day \in contended \cup tornDays
    \/ BeingWritten(id.day)
    \/ \E r \in dayFile[id.day].rows : r.id = id

\* A mark in a file is in the log, or of a run that has still to append it or
\* ended before.
MarksAreLogged ==
  \A d \in Days : \A r \in dayFile[d].rows : \A m \in r.marks :
    m \in log \cup cut \/ \E p \in Markers : m \in out[p]

\* A mark in the log is in the file, and no offset of a recommendation is
\* marked twice, unless two programs met at the file or the recommendation was
\* recorded again while it was open.
LogIsOfRows ==
  \A m \in log :
    \/ m.id.day \in contended \/ m.id \in reset
    \/ /\ \A r \in dayFile[m.id.day].rows : r.id = m.id => m \in r.marks
       /\ \A n \in log : n.id = m.id /\ n.offset = m.offset => n = m

\* Files and log agree on what was recommended and how it came out.
TrackerAgrees == RecommendationsStay /\ MarksAreLogged /\ LogIsOfRows
==============================================================================
