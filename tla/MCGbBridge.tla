----------------------------- MODULE MCGbBridge -----------------------------
(* Instances of module GbBridge for TLC. *)
EXTENDS GbBridge
=============================================================================
