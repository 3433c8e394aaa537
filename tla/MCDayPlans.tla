---------------------------- MODULE MCDayPlans ----------------------------
(* Instances of DayPlans for TLC: two pairs, one technician, work that is   *)
(* assigned to a pair and work that is not.                                 *)
EXTENDS DayPlans

CONSTANTS check, callback, planner, phone, worker, none

MCPairs == {1, 2}
MCTeams == {{1, 2}, {2}}
MCOwner == [r \in {check, callback} |-> IF r = callback THEN 2 ELSE none]
MCPhones == [q \in {phone} |-> 1]
MCOps == [q \in {planner, phone} |-> IF q = planner THEN 3 ELSE 1]
=============================================================================
