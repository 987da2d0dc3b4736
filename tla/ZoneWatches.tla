----------------------------- MODULE ZoneWatches -----------------------------
(***************************************************************************)
(* What the monitor keeps of a (symbol, side) pair, a key: the thesis of    *)
(* trading/crypto/momentum/thesis.py, which freezes a tradeable plan until  *)
(* it resolves, and the watch of trading/alerts/entry_zone_monitor.py,      *)
(* which keeps the zone it was armed with until it is invalidated or        *)
(* expires.  A time is the number of the run that took it; an absent time   *)
(* is 0.                                                                    *)
(*                                                                          *)
(* A plan is for one of four uses: "trade" (tradeable, with a score the     *)
(* monitor accepts), "weak" (tradeable, with a lower one), "breakdown" (not *)
(* tradeable, a short break worth a watch) and "none".                      *)
(***************************************************************************)
EXTENDS Integers

CONSTANTS
  Keys,    \* the (symbol, side) pairs
  Shorts,  \* the keys whose side is "short"
  Plans,   \* the plans a scan may find for a key
  NoPlan,  \* the plan of a thesis or of a watch that does not exist
  MaxAge   \* max_age_hours, in runs

Uses == {"trade", "weak", "breakdown", "none"}

ASSUME KeysAssumption == Shorts \subseteq Keys
ASSUME PlansAssumption ==
  Plans \subseteq [low : Int, high : Int, invalidation : Int, target : Int,
                   use : Uses]
ASSUME NoPlanAssumption == NoPlan \notin Plans
ASSUME MaxAgeAssumption == MaxAge \in Nat

\* What one scan finds: a plan for every side of the symbols it was asked for,
\* and for the monitor's part no breakdown of a long.
Scans ==
  {s \in UNION {[ks -> Plans] : ks \in SUBSET Keys} :
     \A k \in DOMAIN s : s[k].use = "breakdown" => k \in Shorts}

Tradeable(plan) == plan.use \in {"trade", "weak"}

\* _is_invalidated_level
Beyond(k, plan, price) ==
  IF k \in Shorts THEN price >= plan.invalidation ELSE price <= plan.invalidation

AtTarget(k, plan, price) ==
  IF k \in Shorts THEN price <= plan.target ELSE price >= plan.target

Inside(plan, price) == plan.low <= price /\ price <= plan.high

------------------------------------------------------------------------------
(***************************************************************************)
(* Theses.                                                                  *)
(***************************************************************************)
ThesisStates == {"active", "invalidated", "target_hit", "expired_missing_from_scan"}

Thesis == [state : ThesisStates, plan : Plans, created : Nat]
NoThesis == [state |-> "none", plan |-> NoPlan, created |-> 0]

\* is_active, and _resolution_status finds nothing.
Holds(k, thesis, price, now) ==
  /\ thesis.state = "active"
  /\ now - thesis.created <= MaxAge
  /\ ~Beyond(k, thesis.plan, price)
  /\ ~AtTarget(k, thesis.plan, price)

\* The state a thesis that does not hold is left in, when no plan replaces it.
Closed(k, thesis, price, now) ==
  IF thesis.state # "active" \/ now - thesis.created > MaxAge THEN thesis
  ELSE [thesis EXCEPT
          !.state = IF Beyond(k, thesis.plan, price) THEN "invalidated"
                                                     ELSE "target_hit"]

\* Faulty variant: the plan of the latest scan replaces the frozen one.
ReconciledLatest(k, thesis, plan, price, now) ==
  IF Holds(k, thesis, price, now)
    THEN IF Tradeable(plan) THEN [thesis EXCEPT !.plan = plan] ELSE thesis
  ELSE IF Tradeable(plan)
    THEN [state |-> "active", plan |-> plan, created |-> now]
    ELSE Closed(k, thesis, price, now)

\* reconcile_momentum_theses, for a key in the scan.
Reconciled(k, thesis, plan, price, now) ==
  IF Holds(k, thesis, price, now) THEN thesis
  ELSE IF Tradeable(plan)
    THEN [state |-> "active", plan |-> plan, created |-> now]
    ELSE Closed(k, thesis, price, now)

\* Faulty variant: a state that no reader of the file knows.
MissingUnnamed(thesis) ==
  IF thesis.state = "active" THEN [thesis EXCEPT !.state = "missing"] ELSE thesis

\* _expire_missing_theses
Missing(thesis) ==
  IF thesis.state = "active"
    THEN [thesis EXCEPT !.state = "expired_missing_from_scan"] ELSE thesis

\* A candidate: a plan and thesis_created_at, which tells the thesis it is of.
Candidate == [plan : Plans, thesis : Nat]
NoCandidate == [plan |-> NoPlan, thesis |-> 0]

\* The reconciled plan of a key in the scan.
Shown(k, thesis, plan, price, now) ==
  IF Holds(k, thesis, price, now)
    THEN [plan |-> thesis.plan, thesis |-> thesis.created]
    ELSE [plan |-> plan, thesis |-> IF Tradeable(plan) THEN now ELSE 0]

------------------------------------------------------------------------------
(***************************************************************************)
(* Watches.                                                                 *)
(***************************************************************************)
\* first_seen_at, invalidated_at, expired_at and alert_sent_at decide; `thesis`
\* only records which thesis the candidate that armed the watch was of.
Watch == [plan : Plans, thesis : Nat, seen : Nat,
          invalidated : BOOLEAN, expired : BOOLEAN, alerted : BOOLEAN]
NoWatch == [plan |-> NoPlan, thesis |-> 0, seen |-> 0,
            invalidated |-> FALSE, expired |-> FALSE, alerted |-> FALSE]

\* current_active
Held(w) == w.seen # 0 /\ ~w.invalidated /\ ~w.expired

\* _resolve_watch: the zone and the invalidation that count.
ActivePlan(w, c) == IF Held(w) THEN w.plan ELSE c.plan

\* Faulty variant: a breakdown watch waits for the zone, a touch for nothing.
AlertsOnBreakdownOnly(k, w, c, price) ==
  /\ ~w.alerted
  /\ ~Beyond(k, ActivePlan(w, c), price)
  /\ c.plan.use = "breakdown"

\* should_alert.  A rearmed watch still answers to the alert of the one before.
Alerts(k, w, c, price) ==
  /\ ~w.alerted
  /\ ~Beyond(k, ActivePlan(w, c), price)
  /\ Inside(ActivePlan(w, c), price) \/ c.plan.use = "breakdown"

\* Faulty variant: upsert does not carry alert_sent_at over.
EvaluatedAnew(k, w, c, price, now) ==
  [plan |-> ActivePlan(w, c),
   thesis |-> IF Held(w) THEN w.thesis ELSE c.thesis,
   seen |-> IF Held(w) THEN w.seen ELSE now,
   invalidated |-> ~w.invalidated /\ Beyond(k, ActivePlan(w, c), price),
   expired |-> FALSE,
   alerted |-> Alerts(k, w, c, price)]

\* next_state, for a candidate.  A watch that is rearmed forgets the one before,
\* but whether it is invalidated at once is noted only if that one was not.
Evaluated(k, w, c, price, now) ==
  [plan |-> ActivePlan(w, c),
   thesis |-> IF Held(w) THEN w.thesis ELSE c.thesis,
   seen |-> IF Held(w) THEN w.seen ELSE now,
   invalidated |-> ~w.invalidated /\ Beyond(k, ActivePlan(w, c), price),
   expired |-> FALSE,
   alerted |-> Alerts(k, w, c, price) \/ (Held(w) /\ w.alerted)]

\* mark_missing_as_expired
Expired(w) == IF w.seen = 0 THEN w ELSE [w EXCEPT !.expired = TRUE]
==============================================================================
