----------------------------- MODULE MCPaymentIntake -----------------------------
(***************************************************************************)
(* Small statements for TLC.                                               *)
(***************************************************************************)
EXTENDS PaymentIntake, TLC

CONSTANTS i1, i2

\* A name that two customers share, a reference with more money than the
\* invoice takes, and a second row of the same customer and amount.
Mixed == <<[ref |-> NoInvoice, amount |-> 2, names |-> {i1, i2}],
           [ref |-> i1, amount |-> 3, names |-> {i1}],
           [ref |-> NoInvoice, amount |-> 2, names |-> {i2}]>>
=============================================================================
