---------------------------- MODULE MCMemecoinData ----------------------------
(***************************************************************************)
(* The data the memecoin research rests on, for model checking: the outcome  *)
(* snapshots taken live (OutcomeCapture) and the archived day               *)
(* (DayAcquisition).  They share no state, so a behaviour exercises one of   *)
(* them: `part` says which.                                                 *)
(***************************************************************************)
EXTENDS OutcomeCapture, DayAcquisition

VARIABLE part

dataVars == <<part, vars, dayVars>>

DataInit ==
  /\ part \in {"outcomes", "days"}
  /\ Init
  /\ DayInit

DataNext ==
  \/ part = "outcomes" /\ Next /\ UNCHANGED <<part, dayVars>>
  \/ part = "days" /\ DayNext /\ UNCHANGED <<part, vars>>

DataSpec == DataInit /\ [][DataNext]_dataVars

\* The types of the variables of both.
DataTypeOK == TypeOK /\ DayTypeOK
==============================================================================
