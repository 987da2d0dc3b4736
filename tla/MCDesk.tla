-------------------------------- MODULE MCDesk --------------------------------
(***************************************************************************)
(* Plans, filings and reports to check the tools of the desk with.           *)
(***************************************************************************)
EXTENDS DeskTools

CONSTANTS d1, d2, d3, f1, f2, a, b \* model values: disclosures, filings, tickers

Plan(low, high, invalidation, target, use) ==
  [low |-> low, high |-> high, invalidation |-> invalidation, target |-> target,
   use |-> use]

\* Plans of a short: a zone below its invalidation, a lower zone that a fall of
\* the price leads to, and a break of that zone.
MCPlans == {Plan(1, 1, 2, 0, "trade"), Plan(0, 0, 1, -1, "trade"),
            Plan(0, 0, 2, -1, "breakdown")}

\* Two trades of one filing and one of another.
MCFilingOf == [d \in Disclosures |-> IF d = d3 THEN f2 ELSE f1]

MCReports == {{a}, {b}}
MCOffsetLists == {{1}, {1, 2}}
===============================================================================
