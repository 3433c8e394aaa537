--------------------------- MODULE MCLiftRecords ---------------------------
(* Instances of LiftRecords for TLC: a technician and an office user.       *)
EXTENDS LiftRecords

CONSTANTS clerk, technician

\* Stopping and resolving, the history of visits, and the dates.
MCMixes == {{"record", "resolve", "touch", "status"},
            {"visit", "amend"},
            {"visit", "edit", "reschedule", "settings"}}
MCOps == [m \in MCMixes |-> [p \in People |-> IF p = technician /\ "record" \in m THEN 3 ELSE 2]]
=============================================================================
