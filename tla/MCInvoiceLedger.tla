----------------------------- MODULE MCInvoiceLedger -----------------------------
(* Instances of InvoiceLedger for TLC. *)
EXTENDS InvoiceLedger, TLC

\* One stage three weeks late in the real schedule; here one day late, fee 1.
OneStage == <<1>>
OneFee == <<1>>
\* A reminder one day late and a stage with a fee two days late.
TwoStages == <<1, 2>>
TwoFees == <<1, 1>>

\* Staff members, and callers of runDunning, only differ by name.
Interchangeable == Permutations(Office) \cup Permutations(Dunners)
==================================================================================
