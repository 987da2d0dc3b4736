------------------------------ MODULE WikiJournal ------------------------------
(***************************************************************************)
(* The manual trade journal: one JSON file per trade                        *)
(* (trading/journal/manual_trade.py), and `journal sync-wiki`, which adds   *)
(* the trades that are not marked as synced to pages of a Git wiki and      *)
(* marks them then (trading/journal/manual_wiki_sync.py, the command in     *)
(* cli/commands/core.py).                                                   *)
(*                                                                          *)
(* A sync lists, clones, pushes and marks, and may fail or be killed        *)
(* anywhere; the answer to a push may be lost.  A file is read, changed and *)
(* replaced, and nothing keeps an update from coming between.               *)
(***************************************************************************)
EXTENDS Naturals

CONSTANTS
  Trades,
  Editor,     \* the command that updates a trade
  Syncers,    \* the commands that sync
  NoEdit,     \* what a program that is writing no file holds
  MaxUpdates, \* bound: the updates of a behaviour
  MaxSyncs    \* bound: the syncs of a behaviour

ASSUME EditorAssumption == Editor \notin Syncers
ASSUME UpdateBoundsAssumption == MaxUpdates \in Nat /\ MaxSyncs \in Nat

\* A file that does not exist has the status "none".
TradeFile == [status : {"none", "open", "closed"}, synced : BOOLEAN]
NoTrade == [status |-> "none", synced |-> FALSE]

\* The branch of the wiki: how many commits it has, and how many entries of
\* each trade are on its pages.  One with no commits is a new repository.
Branches == [commits : Nat, entries : [Trades -> Nat]]
NoBranch == [commits |-> 0, entries |-> [t \in Trades |-> 0]]

\* A file read before, with what will be written over it.
FileEdits == [trade : Trades, content : TradeFile]
ASSUME NoEditAssumption == NoEdit \notin FileEdits

VARIABLES
  tradeFile, \* the file of each trade
  wiki,      \* the remote branch
  phase,     \* where each sync stands
  rows,      \* the trades it listed, and has not marked yet
  clone,     \* its working copy
  fileEdit,  \* the file each program is about to replace
  updates,   \* the updates begun
  syncs      \* the syncs begun

journalVars == <<tradeFile, wiki, phase, rows, clone, fileEdit, updates, syncs>>

Phases == {"idle", "listed", "committed", "marking"}

JournalInit ==
  /\ tradeFile = [t \in Trades |-> NoTrade]
  /\ wiki = NoBranch
  /\ phase = [p \in Syncers |-> "idle"]
  /\ rows = [p \in Syncers |-> {}]
  /\ clone = [p \in Syncers |-> NoBranch]
  /\ fileEdit = [p \in Syncers \cup {Editor} |-> NoEdit]
  /\ updates = 0
  /\ syncs = 0

------------------------------------------------------------------------------
\* create_trade
CreateTrade(t) ==
  /\ tradeFile[t] = NoTrade
  /\ tradeFile' = [tradeFile EXCEPT ![t].status = "open"]
  /\ UNCHANGED <<wiki, phase, rows, clone, fileEdit, updates, syncs>>

\* apply_update reads the trade and changes it; a final take-profit closes it.
LoadForUpdate(t) ==
  /\ fileEdit[Editor] = NoEdit
  /\ tradeFile[t] # NoTrade
  /\ updates < MaxUpdates
  /\ updates' = updates + 1
  /\ \E status \in {tradeFile[t].status, "closed"} :
       fileEdit' = [fileEdit EXCEPT ![Editor] =
         [trade |-> t, content |-> [tradeFile[t] EXCEPT !.status = status]]]
  /\ UNCHANGED <<tradeFile, wiki, phase, rows, clone, syncs>>

\* _write_trade: the whole file is replaced.
ReplaceFile(p) ==
  /\ fileEdit[p] # NoEdit
  /\ tradeFile' = [tradeFile EXCEPT ![fileEdit[p].trade] = fileEdit[p].content]
  /\ fileEdit' = [fileEdit EXCEPT ![p] = NoEdit]

SaveUpdate ==
  /\ ReplaceFile(Editor)
  /\ UNCHANGED <<wiki, phase, rows, clone, updates, syncs>>

EndUpdate ==
  /\ fileEdit[Editor] # NoEdit
  /\ fileEdit' = [fileEdit EXCEPT ![Editor] = NoEdit]
  /\ UNCHANGED <<tradeFile, wiki, phase, rows, clone, updates, syncs>>

\* unsynced_trades; a sync without any stops here, and so does a dry run.
ListUnsynced(p) ==
  /\ phase[p] = "idle"
  /\ syncs < MaxSyncs
  /\ LET unsynced == {t \in Trades : tradeFile[t] # NoTrade /\ ~tradeFile[t].synced}
     IN  unsynced # {} /\ rows' = [rows EXCEPT ![p] = unsynced]
  /\ syncs' = syncs + 1
  /\ phase' = [phase EXCEPT ![p] = "listed"]
  /\ UNCHANGED <<tradeFile, wiki, clone, fileEdit, updates>>

\* The trades whose marker is not on the pages of the working copy.
Unmarked(branch, trades) == {t \in trades : branch.entries[t] = 0}

\* The clone succeeds, or a new repository stands in for it; the entries are
\* appended and committed.
CloneAndCommit(p) ==
  /\ phase[p] = "listed"
  /\ \E branch \in {wiki, NoBranch} :
       /\ Unmarked(branch, rows[p]) # {}
       /\ clone' = [clone EXCEPT ![p] =
            [branch EXCEPT !.entries = [t \in Trades |->
               IF t \in Unmarked(branch, rows[p]) THEN @[t] + 1 ELSE @[t]]]]
  /\ phase' = [phase EXCEPT ![p] = "committed"]
  /\ UNCHANGED <<tradeFile, wiki, rows, fileEdit, updates, syncs>>

\* Faulty variant: git push --force.
AcceptsForced(branch) == TRUE

\* The remote takes a push only on top of the commit the clone is of.
Accepts(branch) == branch.commits = wiki.commits

\* git push origin master
Push(p) ==
  /\ phase[p] = "committed"
  /\ Accepts(clone[p])
  /\ wiki' = [clone[p] EXCEPT !.commits = @ + 1]
  /\ clone' = [clone EXCEPT ![p] = NoBranch]
  /\ phase' = [phase EXCEPT ![p] = "marking"]
  /\ UNCHANGED <<tradeFile, rows, fileEdit, updates, syncs>>

\* The sync is over: all is marked, or there was nothing to add, in which case
\* nothing is marked; or a command failed, or the process was killed.
Leave(p) ==
  /\ phase' = [phase EXCEPT ![p] = "idle"]
  /\ rows' = [rows EXCEPT ![p] = {}]
  /\ clone' = [clone EXCEPT ![p] = NoBranch]
  /\ fileEdit' = [fileEdit EXCEPT ![p] = NoEdit]
  /\ UNCHANGED <<updates, syncs>>

EndSync(p) ==
  /\ phase[p] # "idle"
  /\ Leave(p)
  /\ UNCHANGED <<tradeFile, wiki>>

\* The push is accepted, but the command does not learn of it.
LosePush(p) ==
  /\ phase[p] = "committed"
  /\ Accepts(clone[p])
  /\ wiki' = [clone[p] EXCEPT !.commits = @ + 1]
  /\ Leave(p)
  /\ UNCHANGED tradeFile

\* mark_synced, for every trade that was listed, page by page.
LoadForSyncMark(p) ==
  /\ phase[p] = "marking"
  /\ fileEdit[p] = NoEdit
  /\ \E t \in rows[p] :
       fileEdit' = [fileEdit EXCEPT ![p] =
         [trade |-> t, content |-> [tradeFile[t] EXCEPT !.synced = TRUE]]]
  /\ UNCHANGED <<tradeFile, wiki, phase, rows, clone, updates, syncs>>

SaveSyncMark(p) ==
  /\ phase[p] = "marking"
  /\ ReplaceFile(p)
  /\ rows' = [rows EXCEPT ![p] = @ \ {fileEdit[p].trade}]
  /\ phase' = [phase EXCEPT ![p] = IF rows'[p] = {} THEN "idle" ELSE "marking"]
  /\ UNCHANGED <<wiki, clone, updates, syncs>>

JournalNext ==
  \/ SaveUpdate
  \/ EndUpdate
  \/ \E t \in Trades : CreateTrade(t) \/ LoadForUpdate(t)
  \/ \E p \in Syncers :
       \/ ListUnsynced(p)
       \/ CloneAndCommit(p)
       \/ Push(p)
       \/ LosePush(p)
       \/ LoadForSyncMark(p)
       \/ SaveSyncMark(p)
       \/ EndSync(p)

JournalSpec == JournalInit /\ [][JournalNext]_journalVars

------------------------------------------------------------------------------
(***************************************************************************)
(* Properties.                                                              *)
(***************************************************************************)
\* The types of the variables.
JournalTypeOK ==
  /\ tradeFile \in [Trades -> TradeFile]
  /\ wiki \in Branches
  /\ phase \in [Syncers -> Phases]
  /\ rows \in [Syncers -> SUBSET Trades]
  /\ clone \in [Syncers -> Branches]
  /\ fileEdit \in [Syncers \cup {Editor} -> FileEdits \cup {NoEdit}]
  /\ updates \in Nat /\ syncs \in Nat

\* Syncs are idempotent: however they fail, are repeated, lose the answer to a
\* push or run at the same time, no trade has two entries in the wiki, and one
\* whose file says it is synced, which no later sync looks at, has one.
SyncedOnce ==
  \A t \in Trades :
    /\ wiki.entries[t] <= 1
    /\ tradeFile[t].synced => wiki.entries[t] = 1
==============================================================================
