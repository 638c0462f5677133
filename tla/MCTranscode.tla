---------------------------- MODULE MCTranscode ----------------------------
(* Instances of module Transcode for TLC. *)
EXTENDS Transcode
=============================================================================
