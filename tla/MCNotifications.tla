--------------------------- MODULE MCNotifications ---------------------------
(* Instances of Notifications for TLC: one event, an in-app rule for the     *)
(* office and an e-mail rule for the contact of the building.                *)
EXTENDS Notifications

CONSTANTS clerk, staffNote

MCChannel == [r \in StaffRules |-> "in_app"]
MCStaff == [r \in StaffRules |-> {clerk}]
=============================================================================
