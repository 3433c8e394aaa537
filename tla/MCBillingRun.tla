------------------------------- MODULE MCBillingRun -------------------------------
(***************************************************************************)
(* Small billing runs for TLC.                                             *)
(***************************************************************************)
EXTENDS BillingRun, TLC

Contract(months, anchorDay, first, last) ==
  [months |-> months, exempt |-> FALSE, anchorDay |-> anchorDay, first |-> first, last |-> last]

\* A monthly contract that starts late and waits for its own day, one with a
\* two-month cycle that ends inside a period, and one that pays nothing.
MixedTerms == <<Contract(1, 2, 2, 4), Contract(2, 0, 1, 3),
                [Contract(1, 0, 1, 4) EXCEPT !.exempt = TRUE]>>
=============================================================================
