------------------------------- MODULE FrameLog -------------------------------
(***************************************************************************)
(* What the raw capture spool promises to the program that receives the     *)
(* frames, without files, buffers or restarts: frames are numbered as they  *)
(* are received, become durable in that order or not at all, stay durable,  *)
(* and a batch is acknowledged as a whole once all of it is durable.  A     *)
(* failure or a crash is no step of its own: it leaves frames that are      *)
(* never acknowledged, and durable only up to some place in their batch.    *)
(* RawCaptureSpool implements this specification.                           *)
(***************************************************************************)
EXTENDS Integers

VARIABLES
  received,  \* number of the last frame received
  durable,   \* frames that every later replay finds
  acked      \* frames whose receipts were returned

vars == <<received, durable, acked>>

Init ==
  /\ received = 0
  /\ durable = {}
  /\ acked = {}

Receive ==
  /\ received' \in Nat /\ received < received'
  /\ UNCHANGED <<durable, acked>>

\* Frames become durable behind those that are.
Joins(frames) ==
  /\ frames \subseteq 1..received
  /\ \A f \in frames \ durable : \A g \in durable : g < f
  /\ durable' = durable \cup frames

Store ==
  /\ \E frames \in SUBSET (1..received) : Joins(frames)
  /\ UNCHANGED <<received, acked>>

\* The latest batch is acknowledged: all frames from its first one on.
Acknowledge ==
  \E first \in 1..received :
    /\ \E frames \in SUBSET (1..received) :
         first..received \subseteq frames /\ Joins(frames)
    /\ acked' = acked \cup (first..received)
    /\ UNCHANGED received

Next == Receive \/ Store \/ Acknowledge

Spec == Init /\ [][Next]_vars
================================================================================
