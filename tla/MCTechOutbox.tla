------------------------------ MODULE MCTechOutbox ------------------------------
(* Instances of TechOutbox for TLC. *)
EXTENDS TechOutbox, TLC

\* Everything that can go wrong between the phone and the server.
AnyFault == {"timeout", "offline", "close", "body", "session", "invalid", "error", "expiry", "restart"}
=================================================================================
