------------------------------- MODULE MCBus -------------------------------
(* Instances of module Bus for TLC. *)
EXTENDS Bus

V(c) == [av |-> "video", codec |-> c]
A(c) == [av |-> "audio", codec |-> c]

\* A camera with sound, a file with two sound tracks, and a screen.
SomeContainers == {<<A("aac"), V("hevc")>>, <<A("aac"), A("opus")>>, <<V("raw")>>}

To(c, r) == [codec |-> c, resized |-> r]
Config(id, dest, av, format, enc, audio, audioEnc) ==
  [id |-> id, dest |-> dest, av |-> av, format |-> format, enc |-> enc,
   audio |-> audio, audioEnc |-> audioEnc]

\* What the application asks for: a Net and a Demuxed output ...
Net1    == Config(1, "Net", "video", "other", To("hevc", FALSE), TRUE, To("opus", FALSE))
Demux   == Config(3, "Demuxed", "audio", "other", Unset, FALSE, Unset)
\* ... and what the bus offers besides.
MuxH264 == Config(5, "Mux", "video", "h264", To("h264", TRUE), FALSE, Unset)
RawOut  == Config(6, "Raw", "video", "other", Unset, FALSE, Unset)
Enc     == Config(7, "Encoded", "audio", "other", Unset, FALSE, Unset)

AllConfigs == {Net1, Demux, MuxH264, RawOut, Enc}
=============================================================================
