---------------------------- MODULE MCCallbacks ----------------------------
(* Instances of Callbacks for TLC: an office user with one request, a       *)
(* technician with three, and two runs of the watch.                        *)
EXTENDS Callbacks

CONSTANTS clerk, technician

MCOps == [q \in {clerk, technician} |-> IF q = clerk THEN 1 ELSE 3]
=============================================================================
