--------------------------- MODULE DuneMaterializer ---------------------------
(***************************************************************************)
(* The bounded Dune query (research/dune/materializer.py) and its preflight *)
(* (research/nave/resource_guard.py).  A caller names an output file and a  *)
(* query, takes the lock of the output, and under it answers from the file, *)
(* refuses, or pays for one execution and replaces the file.  A caller may  *)
(* fail or be killed at any step; the system frees its lock then, and a     *)
(* `dune` command it has started may outlive it.                            *)
(*                                                                          *)
(* Credits are counted from the last checkpoint.  An operator reads the     *)
(* account from time to time and leaves the reading, with an estimate and   *)
(* the query it is approved for, in the budget file.  The provider charges  *)
(* an execution when it accepts it, at most its estimate.                   *)
(***************************************************************************)
EXTENDS Integers

CONSTANTS
  Callers,
  Outputs,       \* the cache files, each with its lock file
  Queries,       \* query identities: id, digest of the text and row limit
  NoQuery,       \* what a budget that is not approved is approved for
  Nobody,        \* the owner of a free lock
  Estimates,     \* the estimates an operator writes
  HardStop,      \* HARD_STOP
  CheckpointCap, \* CHECKPOINT_CAP
  Included,      \* the credits of the plan that are left at the checkpoint
  CacheAge,      \* max_age_seconds
  BudgetAge,     \* the 300 seconds a reading may be old
  MaxTime,       \* bound: the clock
  MaxExecutions  \* bound: the executions of a behaviour

ASSUME NoQueryAssumption == NoQuery \notin Queries
ASSUME NobodyAssumption == Nobody \notin Callers
ASSUME CreditsAssumption ==
  /\ Estimates \subseteq Nat
  /\ HardStop \in Nat /\ CheckpointCap \in Nat /\ Included \in Nat
ASSUME TimesAssumption ==
  CacheAge \in Nat /\ BudgetAge \in Nat /\ MaxTime \in Nat /\ MaxExecutions \in Nat

VARIABLES
  clock,
  budget,     \* the budget file
  cache,      \* the file of each output
  lock,       \* the caller that holds the lock of each output
  at,         \* where each caller stands
  request,    \* what it asks for, and its copy of the budget file
  used,       \* the credits used since the checkpoint
  executions, \* how many executions were charged
  orphans,    \* the budget that cleared the `dune` command of a killed caller which
              \* lives on and has not reached the provider yet, or NoBudget
  outdated    \* history: the executions charged on a reading older than
              \* another charge

duneVars == <<clock, budget, cache, lock, at, request, used, executions, orphans,
              outdated>>

NoFile == [query |-> NoQuery, fetched |-> 0]
Cached == [query : Queries \cup {NoQuery}, fetched : Nat]
Budget == [query : Queries \cup {NoQuery}, observed : Nat, used : Nat, estimate : Nat]
NoBudget == [query |-> NoQuery, observed |-> 0, used |-> 0, estimate |-> 0]
Request == [output : Outputs, query : Queries, force : BOOLEAN, budget : Budget]
NoRequest == [output |-> Nobody, query |-> NoQuery, force |-> FALSE, budget |-> NoBudget]
Places == {"idle", "waiting", "locked", "cleared", "paid"}

\* The holder of a lock is between flock and the end of the with statement.
Holding == {"locked", "cleared", "paid"}

DuneInit ==
  /\ clock = 0
  /\ budget = NoBudget
  /\ cache = [o \in Outputs |-> NoFile]
  /\ lock = [o \in Outputs |-> Nobody]
  /\ at = [c \in Callers |-> "idle"]
  /\ request = [c \in Callers |-> NoRequest]
  /\ used = 0
  /\ executions = 0
  /\ orphans = [c \in Callers |-> NoBudget]
  /\ outdated = 0

Tick ==
  /\ clock < MaxTime
  /\ clock' = clock + 1
  /\ UNCHANGED <<budget, cache, lock, at, request, used, executions, orphans, outdated>>

\* The operator writes a budget file.  One that is missing, not approved,
\* incomplete or short of disk space clears nothing: it stands as NoBudget.
ReadAccount ==
  /\ \E q \in Queries, e \in Estimates :
       budget' = [query |-> q, observed |-> clock, used |-> used, estimate |-> e]
  /\ UNCHANGED <<clock, cache, lock, at, request, used, executions, orphans, outdated>>

\* The command reads the budget file and calls materialize.
Call(c) ==
  /\ at[c] = "idle" /\ orphans[c] = NoBudget
  /\ at' = [at EXCEPT ![c] = "waiting"]
  /\ \E o \in Outputs, q \in Queries, force \in BOOLEAN :
       request' = [request EXCEPT ![c] =
                     [output |-> o, query |-> q, force |-> force, budget |-> budget]]
  /\ UNCHANGED <<clock, budget, cache, lock, used, executions, orphans, outdated>>

\* Faulty variant: the lock is advisory to the point of being ignored.
LockShared(c) ==
  /\ at[c] = "waiting"
  /\ at' = [at EXCEPT ![c] = "locked"]
  /\ lock' = [lock EXCEPT ![request[c].output] = c]
  /\ UNCHANGED <<clock, budget, cache, request, used, executions, orphans, outdated>>

\* fcntl.flock(lock, LOCK_EX)
Lock(c) ==
  /\ at[c] = "waiting"
  /\ lock[request[c].output] = Nobody
  /\ at' = [at EXCEPT ![c] = "locked"]
  /\ lock' = [lock EXCEPT ![request[c].output] = c]
  /\ UNCHANGED <<clock, budget, cache, request, used, executions, orphans, outdated>>

\* The with statement ends, or the process does.
Release(c) ==
  /\ at' = [at EXCEPT ![c] = "idle"]
  /\ lock' = [o \in Outputs |-> IF lock[o] = c THEN Nobody ELSE lock[o]]
  /\ request' = [request EXCEPT ![c] = NoRequest]

Exists(c) == cache[request[c].output] # NoFile

\* output.exists() and not force: the file decides, for good or ill.
FromCache(c) == Exists(c) /\ ~request[c].force

Fresh(c) ==
  /\ cache[request[c].output].query = request[c].query
  /\ clock - cache[request[c].output].fetched <= CacheAge

\* Faulty variant: each operation is held against the caps alone.
AllowedAlone(b) ==
  /\ b.estimate <= HardStop
  /\ b.estimate <= CheckpointCap
  /\ b.estimate <= Included

\* resource_guard.check: no reason to stop.
Allowed(b) ==
  /\ b.estimate <= HardStop
  /\ b.used + b.estimate <= CheckpointCap
  /\ b.estimate <= Included - b.used

\* The budget clears this query now.
Cleared(c) ==
  /\ request[c].budget.query = request[c].query
  /\ clock - request[c].budget.observed <= BudgetAge
  /\ Allowed(request[c].budget)

\* The cached envelope is returned.
AnswerFromCache(c) ==
  /\ at[c] = "locked"
  /\ FromCache(c) /\ Fresh(c)
  /\ Release(c)
  /\ UNCHANGED <<clock, budget, cache, used, executions, orphans, outdated>>

\* ValueError: a file that does not fit the request, or no budget.
Refuse(c) ==
  /\ at[c] = "locked"
  /\ IF FromCache(c) THEN ~Fresh(c) ELSE ~Cleared(c)
  /\ Release(c)
  /\ UNCHANGED <<clock, budget, cache, used, executions, orphans, outdated>>

\* The preflight passes.
Clear(c) ==
  /\ at[c] = "locked"
  /\ ~FromCache(c) /\ Cleared(c)
  /\ at' = [at EXCEPT ![c] = "cleared"]
  /\ UNCHANGED <<clock, budget, cache, lock, request, used, executions, orphans, outdated>>

\* The provider accepts a query and charges it.
Charge(b) ==
  /\ executions < MaxExecutions
  /\ \E cost \in 0 .. b.estimate : used' = used + cost
  /\ executions' = executions + 1
  /\ outdated' = IF b.used = used THEN outdated ELSE outdated + 1

\* subprocess.run
Execute(c) ==
  /\ at[c] = "cleared"
  /\ Charge(request[c].budget)
  /\ at' = [at EXCEPT ![c] = "paid"]
  /\ UNCHANGED <<clock, budget, cache, lock, request, orphans>>

\* The rows arrive, and _atomic_write replaces the file.
Write(c) ==
  /\ at[c] = "paid"
  /\ cache' = [cache EXCEPT ![request[c].output] =
                 [query |-> request[c].query, fetched |-> clock]]
  /\ Release(c)
  /\ UNCHANGED <<clock, budget, used, executions, orphans, outdated>>

\* An exit code, a timeout or an answer that is no table, before or after the
\* provider accepted the query; or the caller is killed.
Fail(c) ==
  /\ at[c] # "idle"
  /\ Release(c)
  /\ UNCHANGED <<clock, budget, cache, used, executions, orphans, outdated>>

\* The caller is killed between the start of the command and its arrival at the
\* provider, and the command is not.  Nobody is left to write its rows.  (A caller
\* is one process: while its command lives it does not call again.)
KillBeforeCharge(c) ==
  /\ at[c] = "cleared"
  /\ executions < MaxExecutions
  /\ Release(c)
  /\ orphans' = [orphans EXCEPT ![c] = request[c].budget]
  /\ UNCHANGED <<clock, budget, cache, used, executions, outdated>>

ExecuteOrphan(c) ==
  /\ orphans[c] # NoBudget
  /\ Charge(orphans[c])
  /\ orphans' = [orphans EXCEPT ![c] = NoBudget]
  /\ UNCHANGED <<clock, budget, cache, lock, at, request>>

DuneNext ==
  \/ Tick
  \/ ReadAccount
  \/ \E c \in Callers :
       \/ Call(c)
       \/ Lock(c)
       \/ AnswerFromCache(c)
       \/ Refuse(c)
       \/ Clear(c)
       \/ Execute(c)
       \/ Write(c)
       \/ Fail(c)
       \/ KillBeforeCharge(c)
       \/ ExecuteOrphan(c)

DuneSpec == DuneInit /\ [][DuneNext]_duneVars

------------------------------------------------------------------------------
(***************************************************************************)
(* Properties.                                                              *)
(***************************************************************************)
\* The types of the variables.
DuneTypeOK ==
  /\ clock \in Nat
  /\ budget \in Budget
  /\ cache \in [Outputs -> Cached]
  /\ lock \in [Outputs -> Callers \cup {Nobody}]
  /\ at \in [Callers -> Places]
  /\ request \in [Callers -> Request \cup {NoRequest}]
  /\ used \in Nat
  /\ executions \in Nat
  /\ orphans \in [Callers -> Budget]
  /\ outdated \in Nat

\* Concurrent callers cannot double-spend: no execution is paid for while the
\* rows of an earlier one are on file in its output, unless it is forced; the
\* look at the file and the charge are two steps, and other callers may take
\* theirs, fail or be killed between them.  (Rows that were lost between the
\* charge and the write are paid again, and a command that outlives its caller
\* no longer has the lock: it may be charged beside the next one.)
NoDoubleSpend ==
  [][\A c \in Callers :
       at[c] = "cleared" /\ at'[c] = "paid" /\ Exists(c) => request[c].force]_duneVars

\* The preflight bounds the account although it reserves nothing: what is used
\* since the checkpoint exceeds the cap and the included credits by at most one
\* hard stop for every execution that was cleared on a reading taken before
\* another one was charged.
SpendIsBounded ==
  /\ used <= CheckpointCap + outdated * HardStop
  /\ used <= Included + outdated * HardStop
==============================================================================
