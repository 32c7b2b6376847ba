----------------------------- MODULE MCGearServer -----------------------------
(* GearServer for TLC. *)
EXTENDS GearServer, TLC

CONSTANTS w1, w2, c1, c2, c3
==============================================================================
