------------------------------- MODULE GaplessSeries -------------------------------
(***************************************************************************)
(* What the legal document series promise (invoices, credit notes): every  *)
(* document has one number for ever, the numbers of a series in use are    *)
(* always 1..n, and a batch of documents takes the numbers right after the *)
(* last one of its series, all at once.                                    *)
(***************************************************************************)
EXTENDS Naturals, FiniteSets

CONSTANT Kinds   \* the series
VARIABLE issued  \* documents of each series: sets of records [doc, number]

NumbersOf(batch) == {r.number : r \in batch}
DocsOf(batch) == {r.doc : r \in batch}
Last(k) == Cardinality(issued[k])

Init == issued = [k \in Kinds |-> {}]

\* What series k gains in a step is a batch that follows everything it had.
Issue(k) ==
  LET batch == issued'[k] \ issued[k]
  IN /\ batch # {}
     /\ issued' = [issued EXCEPT ![k] = @ \cup batch]
     /\ DocsOf(batch) \cap DocsOf(issued[k]) = {}
     /\ Cardinality(DocsOf(batch)) = Cardinality(batch)
     /\ Cardinality(NumbersOf(batch)) = Cardinality(batch)
     /\ NumbersOf(batch) = (Last(k) + 1)..(Last(k) + Cardinality(batch))

Spec == Init /\ [][\E k \in Kinds : Issue(k)]_issued
=====================================================================================
