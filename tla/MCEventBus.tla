-------------------------------- MODULE MCEventBus --------------------------------
(***************************************************************************)
(* A small event bus for TLC: an event that is published, one that the     *)
(* demo loader seeds, a handler and two workers.                           *)
(***************************************************************************)
EXTENDS EventBus

CONSTANTS e1, s1, h1, w1, w2
=============================================================================
