--------------------------- MODULE MCRepairJobs ---------------------------
(* Instances of RepairJobs for TLC: one office user who takes the job from  *)
(* the draft to the invoice, a colleague and a technician who interfere.    *)
EXTENDS RepairJobs

CONSTANTS clerk, colleague, technician

MCOps == [q \in {clerk, colleague, technician} |-> IF q = clerk THEN 6 ELSE 1]
=============================================================================
