------------------------------ MODULE DayArchive ------------------------------
(***************************************************************************)
(* What the collector keeps of one day, without batches, tapes, handles or  *)
(* processes.  An event reaches the tape before the events table and leaves *)
(* neither; the checkpoint reports at most the events of the table, though  *)
(* it may report fewer than before; and a day that is reported as collected *)
(* has the same events in both, all of them counted, and gets no more of    *)
(* them while it is.  A crash is no step of its own: it leaves events that  *)
(* are only on the tape, or an older report.  CollectorBatch implements     *)
(* this specification.                                                      *)
(***************************************************************************)
EXTENDS Integers, FiniteSets

VARIABLES
  taped,    \* events on the part of a tape that no crash takes away
  stored,   \* events of the events table
  rows,     \* events that the checkpoint reports
  collected \* the checkpoint says that the day was collected

vars == <<taped, stored, rows, collected>>

Init ==
  /\ taped = {} /\ stored = {}
  /\ rows = 0 /\ collected = FALSE

Tape ==
  /\ ~collected
  /\ taped \subseteq taped'
  /\ UNCHANGED <<stored, rows, collected>>

Store ==
  /\ ~collected
  /\ stored \subseteq stored' /\ stored' \subseteq taped
  /\ UNCHANGED <<taped, rows, collected>>

Report ==
  /\ rows' \in 0..Cardinality(stored)
  /\ collected' = FALSE
  /\ UNCHANGED <<taped, stored>>

Collect ==
  /\ stored = taped
  /\ rows' = Cardinality(stored)
  /\ collected' = TRUE
  /\ UNCHANGED <<taped, stored>>

Next == Tape \/ Store \/ Report \/ Collect

Spec == Init /\ [][Next]_vars
================================================================================
