---------------------------- MODULE BoundedIngest ----------------------------
(***************************************************************************)
(* What the collector's receive/persist pipeline promises to its operator, *)
(* without processes, pipes or heartbeats: frames are accepted while fewer *)
(* than Capacity of them are not yet durable, they become durable in the   *)
(* order in which they were accepted, and a session that is closed cleanly *)
(* has made every accepted frame durable and accepts nothing afterwards.   *)
(* CollectorPipeline implements this specification.                        *)
(***************************************************************************)
EXTENDS Integers

CONSTANT Capacity    \* frames accepted and not yet durable, at most

VARIABLES
  accepted,   \* number of frames accepted so far
  persisted,  \* number of frames made durable: the first `persisted` accepted
  status      \* "open", "closed" (cleanly) or "failed"

vars == <<accepted, persisted, status>>

Init ==
  /\ accepted = 0
  /\ persisted = 0
  /\ status = "open"

\* A failed writer may not be noticed at once, so frames can still be
\* accepted after the failure; they can no longer be made durable.
Accept ==
  /\ status # "closed"
  /\ accepted - persisted < Capacity
  /\ accepted' = accepted + 1
  /\ UNCHANGED <<persisted, status>>

Persist ==
  /\ status = "open"
  /\ persisted' \in (persisted + 1)..accepted
  /\ UNCHANGED <<accepted, status>>

Close ==
  /\ status = "open"
  /\ persisted = accepted
  /\ status' = "closed"
  /\ UNCHANGED <<accepted, persisted>>

Fail ==
  /\ status = "open"
  /\ status' = "failed"
  /\ UNCHANGED <<accepted, persisted>>

Next == Accept \/ Persist \/ Close \/ Fail

Spec == Init /\ [][Next]_vars
=============================================================================
