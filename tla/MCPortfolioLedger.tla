-------------------------- MODULE MCPortfolioLedger --------------------------
(***************************************************************************)
(* PortfolioLedger for TLC: a purchase, a transfer by somebody else and a   *)
(* failed transaction of every mint, and a swap between two of them.  The   *)
(* code tells no two mints apart.                                           *)
(***************************************************************************)
EXTENDS PortfolioLedger, TLC

Kind(moved, paid, signed, failed) ==
  [moved |-> moved, paid |-> paid, signed |-> signed, failed |-> failed]

MCTransactions ==
  UNION {{Kind({m}, TRUE, TRUE, FALSE), Kind({m}, FALSE, FALSE, FALSE),
          Kind({m}, FALSE, TRUE, TRUE)} : m \in Mints}
    \cup {Kind({m, n}, TRUE, TRUE, FALSE) : m, n \in Mints}

Symmetry == Permutations(Mints)
==============================================================================
