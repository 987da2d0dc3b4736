------------------------------- MODULE DeskTools -------------------------------
(***************************************************************************)
(* The tools of the desk beside each other: EntryZoneMonitor,                *)
(* DuneMaterializer, DisclosureScan, WikiJournal and OptionsTracker.  They   *)
(* share no state, so a behaviour exercises one of them: `part` says which.  *)
(***************************************************************************)
EXTENDS EntryZoneMonitor, DuneMaterializer, DisclosureScan, WikiJournal,
        OptionsTracker

VARIABLE part

vars == <<part, zoneVars, duneVars, scanVars, journalVars, trackVars>>

Init ==
  /\ part \in {"zones", "dune", "disclosures", "trades", "options"}
  /\ ZoneInit
  /\ DuneInit
  /\ ScanInit
  /\ JournalInit
  /\ TrackInit

Next ==
  \/ /\ part = "zones" /\ ZoneNext
     /\ UNCHANGED <<part, duneVars, scanVars, journalVars, trackVars>>
  \/ /\ part = "dune" /\ DuneNext
     /\ UNCHANGED <<part, zoneVars, scanVars, journalVars, trackVars>>
  \/ /\ part = "disclosures" /\ ScanNext
     /\ UNCHANGED <<part, zoneVars, duneVars, journalVars, trackVars>>
  \/ /\ part = "trades" /\ JournalNext
     /\ UNCHANGED <<part, zoneVars, duneVars, scanVars, trackVars>>
  \/ /\ part = "options" /\ TrackNext
     /\ UNCHANGED <<part, zoneVars, duneVars, scanVars, journalVars>>

Spec == Init /\ [][Next]_vars

\* The types of the variables of all tools.
TypeOK == ZoneTypeOK /\ DuneTypeOK /\ ScanTypeOK /\ JournalTypeOK /\ TrackTypeOK
================================================================================
