---------------------------- MODULE DisclosureScan ----------------------------
(***************************************************************************)
(* The daily scan of congressional disclosures                              *)
(* (trading/stocks/politicians/scanner.py) with its two files: the set of   *)
(* filings it has seen (politicians/store.py) and the event journal that    *)
(* keeps a disclosure after it stops being new                              *)
(* (trading/stocks/event_journal.py), in which a reviewer marks events.     *)
(*                                                                          *)
(* The seen set is read when a scan begins and written in place after the   *)
(* provider has answered; a file that does not parse loads as empty, and    *)
(* stands as empty.  The journal is read and replaced as a whole for every  *)
(* single row.  Scans run from the scheduler and from the assistant, and    *)
(* nothing keeps them apart, nor the reviewer from them.                    *)
(***************************************************************************)
EXTENDS Naturals

CONSTANTS
  Disclosures, \* the disclosed trades, each the identity _event_id makes of it
  Filings,     \* the links of filings
  FilingOf,    \* unique_id: a filing may disclose several trades
  Scanners,    \* the programs that scan
  Reviewer,    \* the command that marks an event
  Verdicts,    \* the statuses a reviewer gives
  NoDraft,     \* what a program that is writing no row holds
  MaxScans,    \* bound: the scans of a behaviour
  MaxMarks     \* bound: the marks of a behaviour

Statuses == {"new", "watching", "reviewed", "closed"}

\* A journal gives the status of every event, or "absent".  A row with an id of
\* the older form is the event whose identity its fields agree with.
Journals == [Disclosures -> Statuses \cup {"absent"}]
NoEvents == [d \in Disclosures |-> "absent"]

\* The rewrite of one row in a journal read before.
Drafts == [base : Journals, event : Disclosures, status : Statuses]

ASSUME FilingAssumption == FilingOf \in [Disclosures -> Filings]
ASSUME ReviewerAssumption == Reviewer \notin Scanners
ASSUME VerdictsAssumption == Verdicts \subseteq Statuses
ASSUME NoDraftAssumption == NoDraft \notin Drafts
ASSUME ScanBoundsAssumption == MaxScans \in Nat /\ MaxMarks \in Nat

VARIABLES
  seenFile,    \* seen.json
  journal,     \* event_journal.json
  step,        \* where each scan stands
  seen,        \* its SeenStore
  todo,        \* its new trades that are not in the journal yet
  draft,       \* the row each program is about to write
  scans,       \* the scans begun
  marks,       \* the marks begun
  found,       \* history: trades of filings that were not in a scan's SeenStore
  cutShort,    \* history: those a scan still had to record when it ended
  overwritten, \* history: events a program replaced without having read them
  verdict      \* history: the status a reviewer last saved of each event

scanHistory == <<found, cutShort, overwritten, verdict>>
scanVars == <<seenFile, journal, step, seen, todo, draft, scans, marks, scanHistory>>

Steps == {"idle", "fetching", "savingSeen", "recording"}

ScanInit ==
  /\ seenFile = {}
  /\ journal = NoEvents
  /\ step = [p \in Scanners |-> "idle"]
  /\ seen = [p \in Scanners |-> {}]
  /\ todo = [p \in Scanners |-> {}]
  /\ draft = [p \in Scanners \cup {Reviewer} |-> NoDraft]
  /\ scans = 0
  /\ marks = 0
  /\ found = {}
  /\ cutShort = {}
  /\ overwritten = {}
  /\ verdict = NoEvents

------------------------------------------------------------------------------
(***************************************************************************)
(* A scan.                                                                  *)
(***************************************************************************)
\* run_daily_scan asks for last_scan_at, which loads the store.
BeginScan(p) ==
  /\ step[p] = "idle"
  /\ scans < MaxScans
  /\ scans' = scans + 1
  /\ step' = [step EXCEPT ![p] = "fetching"]
  /\ seen' = [seen EXCEPT ![p] = seenFile]
  /\ UNCHANGED <<seenFile, journal, todo, draft, marks, scanHistory>>

\* Faulty variant: the trades are added to the store before they are compared.
NewAfterAdding(known, trades) ==
  {d \in trades : FilingOf[d] \notin known \cup {FilingOf[t] : t \in trades}}

\* new_trades
NewTrades(known, trades) == {d \in trades : FilingOf[d] \notin known}

\* Both chambers answer, the trades are compared and added, and save() opens
\* the file, which empties it.  A scan that does not persist ends here.
Fetch(p) ==
  /\ step[p] = "fetching"
  /\ \E trades \in SUBSET Disclosures :
       /\ todo' = [todo EXCEPT ![p] = NewTrades(seen[p], trades)]
       /\ seen' = [seen EXCEPT ![p] = @ \cup {FilingOf[d] : d \in trades}]
       /\ found' = found \cup {d \in trades : FilingOf[d] \notin seen[p]}
  /\ seenFile' = {}
  /\ step' = [step EXCEPT ![p] = "savingSeen"]
  /\ UNCHANGED <<journal, draft, scans, marks, cutShort, overwritten, verdict>>

\* The scan has recorded what it had to, and returns.
Continue(p, left) ==
  /\ todo' = [todo EXCEPT ![p] = left]
  /\ step' = [step EXCEPT ![p] = IF left = {} THEN "idle" ELSE "recording"]

\* The rest of save(); what another scan wrote meanwhile may be left behind it.
SaveSeen(p) ==
  /\ step[p] = "savingSeen"
  /\ seenFile' \in IF seenFile = {} THEN {seen[p]} ELSE {seen[p], {}}
  /\ seen' = [seen EXCEPT ![p] = {}]
  /\ Continue(p, todo[p])
  /\ UNCHANGED <<journal, draft, scans, marks, scanHistory>>

\* upsert_event: an event that is in the journal keeps its status.
UpsertedStatus(rows, d) == IF rows[d] = "absent" THEN "new" ELSE rows[d]

\* upsert_event loads the journal for the next of the new trades.
LoadForUpsert(p) ==
  /\ step[p] = "recording"
  /\ draft[p] = NoDraft
  /\ \E d \in todo[p] :
       draft' = [draft EXCEPT ![p] =
                   [base |-> journal, event |-> d, status |-> UpsertedStatus(journal, d)]]
  /\ UNCHANGED <<seenFile, journal, step, seen, todo, scans, marks, scanHistory>>

\* _save replaces the journal by the copy read before, with one row changed.
ReplaceJournal(row) ==
  /\ journal' = [row.base EXCEPT ![row.event] = row.status]
  /\ overwritten' = overwritten \cup {d \in Disclosures : row.base[d] # journal[d]}

SaveUpsert(p) ==
  /\ draft[p] # NoDraft
  /\ ReplaceJournal(draft[p])
  /\ Continue(p, todo[p] \ {draft[p].event})
  /\ draft' = [draft EXCEPT ![p] = NoDraft]
  /\ UNCHANGED <<seenFile, seen, scans, marks, found, cutShort, verdict>>

\* The provider fails, a file cannot be read or written, the journal is corrupt,
\* or the process is killed.
EndScan(p) ==
  /\ step[p] # "idle"
  /\ step' = [step EXCEPT ![p] = "idle"]
  /\ seen' = [seen EXCEPT ![p] = {}]
  /\ todo' = [todo EXCEPT ![p] = {}]
  /\ draft' = [draft EXCEPT ![p] = NoDraft]
  /\ cutShort' = cutShort \cup todo[p]
  /\ UNCHANGED <<seenFile, journal, scans, marks, found, overwritten, verdict>>

------------------------------------------------------------------------------
(***************************************************************************)
(* A review.                                                                *)
(***************************************************************************)
\* mark_event finds the event.
LoadForMark ==
  /\ draft[Reviewer] = NoDraft
  /\ marks < MaxMarks
  /\ marks' = marks + 1
  /\ \E d \in Disclosures, s \in Verdicts :
       /\ journal[d] # "absent"
       /\ draft' = [draft EXCEPT ![Reviewer] =
                      [base |-> journal, event |-> d, status |-> s]]
  /\ UNCHANGED <<seenFile, journal, step, seen, todo, scans, scanHistory>>

SaveMark ==
  /\ draft[Reviewer] # NoDraft
  /\ ReplaceJournal(draft[Reviewer])
  /\ verdict' = [verdict EXCEPT ![draft[Reviewer].event] = draft[Reviewer].status]
  /\ draft' = [draft EXCEPT ![Reviewer] = NoDraft]
  /\ UNCHANGED <<seenFile, step, seen, todo, scans, marks, found, cutShort>>

\* The command is killed.
EndMark ==
  /\ draft[Reviewer] # NoDraft
  /\ draft' = [draft EXCEPT ![Reviewer] = NoDraft]
  /\ UNCHANGED <<seenFile, journal, step, seen, todo, scans, marks, scanHistory>>

ScanNext ==
  \/ LoadForMark
  \/ SaveMark
  \/ EndMark
  \/ \E p \in Scanners :
       \/ BeginScan(p)
       \/ Fetch(p)
       \/ SaveSeen(p)
       \/ LoadForUpsert(p)
       \/ SaveUpsert(p)
       \/ EndScan(p)

ScanSpec == ScanInit /\ [][ScanNext]_scanVars

------------------------------------------------------------------------------
(***************************************************************************)
(* Properties.                                                              *)
(***************************************************************************)
\* The types of the variables.
ScanTypeOK ==
  /\ seenFile \subseteq Filings
  /\ journal \in Journals
  /\ step \in [Scanners -> Steps]
  /\ seen \in [Scanners -> SUBSET Filings]
  /\ todo \in [Scanners -> SUBSET Disclosures]
  /\ draft \in [Scanners \cup {Reviewer} -> Drafts \cup {NoDraft}]
  /\ scans \in Nat /\ marks \in Nat
  /\ found \subseteq Disclosures
  /\ cutShort \subseteq Disclosures
  /\ overwritten \subseteq Disclosures
  /\ verdict \in Journals

\* Disclosures do not disappear: a filing that later scans pass over was new to
\* a scan, and every trade that was new to a scan is in the journal or about to
\* be, unless that scan ended before it had recorded the trade, or a program put
\* back a journal it had read before the trade was recorded.
SeenIsJournaled ==
  /\ \A f \in seenFile : \E d \in found : FilingOf[d] = f
  /\ \A d \in found :
       \/ journal[d] # "absent"
       \/ \E p \in Scanners : d \in todo[p]
       \/ d \in cutShort \cup overwritten

\* A review stands: whatever is scanned later, and with whatever seen set, an
\* event has the status its reviewer gave it last, unless a program put back a
\* journal it had read before the review.
ReviewsStand ==
  \A d \in Disclosures :
    verdict[d] # "absent" => journal[d] = verdict[d] \/ d \in overwritten

\* The journal keeps what was put into it: the disclosures that scans found, and
\* the statuses that reviewers gave.
JournalKeeps == SeenIsJournaled /\ ReviewsStand
==============================================================================
