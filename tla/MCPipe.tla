------------------------------- MODULE MCPipe -------------------------------
(* Instances of module Pipe for TLC. *)
EXTENDS Pipe

Out(av, dest) == [av |-> av, dest |-> dest]

\* zlm_outputs(media, include_audio = true), after a network push that starts
\* the reader before the others have subscribed
NetVideoAudio ==
  <<Out("video", "Network"), Out("video", "Demuxed"), Out("audio", "Demuxed")>>
=============================================================================
