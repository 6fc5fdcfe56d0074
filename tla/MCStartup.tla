----------------------------- MODULE MCStartup ------------------------------
(* Two of the four pads, one button that is a key and a trigger, and one   *)
(* on the rear panel.                                                      *)
EXTENDS Startup

MCMapped == {"L1"}
MCTriggers == {"L1", "R2"}
MCRear == {"R2"}
=============================================================================
