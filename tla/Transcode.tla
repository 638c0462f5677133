----------------------------- MODULE Transcode -----------------------------
(***************************************************************************)
(* One transcoded stream of a File/Net output of the ffmpeg bus, from the  *)
(* reader's broadcast to the muxer:                                        *)
(*                                                                         *)
(*   reader => decoder relay -> decoder loop => encoder relay              *)
(*          -> encoder loop => muxer            (=> broadcast, -> queue)   *)
(*                                                                         *)
(* decoder.rs, encoder.rs: each task is an async relay, which moves items  *)
(* from a broadcast into a bounded queue, and a thread that works off the  *)
(* queue.  A broadcast never blocks its sender: a receiver that falls more *)
(* than the capacity behind loses the oldest items and is told so (Lagged).*)
(*                                                                         *)
(* The bus has one decoder and one encoder task per stream and shares them *)
(* among its outputs: the encoder task, and the muxer looked at here, may  *)
(* come long after the decoder task, which an output of the other mode or  *)
(* a tap on the frames started.                                            *)
(*                                                                         *)
(* Codecs are taken to turn one packet into one frame and one frame into   *)
(* one packet at once, or to refuse it; item k is what became of the k-th  *)
(* packet since the decoder task subscribed.                               *)
(***************************************************************************)
EXTENDS Naturals, Sequences

CONSTANTS
  MaxPackets,   \* bound: packets of the stream the input yields
  SrcCap,       \* AvInputTask::PACKET_CHAN_CAP
  PacketQueue,  \* PACKET_QUEUE_BOUND
  FrameCap,     \* FRAME_CHAN_CAP
  FrameQueue,   \* FRAME_QUEUE_BOUND
  OutCap        \* EncoderTask's PACKET_CHAN_CAP

ASSUME CapsAssumption ==
  /\ MaxPackets \in Nat
  /\ \A c \in {SrcCap, PacketQueue, FrameCap, FrameQueue, OutCap} : c \in Nat \ {0}

EOF == 0        \* RawPacketCmd::EOF / RawFrameCmd::EOF; packets are numbered from 1

VARIABLES
  lossless, \* how each of the two tasks was started: start_mux_transcoders
            \* passes true, live outputs and taps false; the first one decides
  reader,   \* "reading", "stopping" (token fired in a read), "eof" (it sent EOF),
            \* "stopped" (left without an EOF)
  src,      \* all the reader broadcast
  dpos,     \* how much of src the decoder relay has taken
  drelay,   \* "running", "stuck" (its select! waits for the token only), "ended"
  pktq,     \* the decode queue
  decoder,  \* decoder_loop: "running" or "ended"
  frames,   \* all the decoder broadcast
  undecoded,\* packets that became no frame (history)
  fbase,    \* how much of frames the encoder relay came too late for
  fpos,     \* how much of frames it has taken, those included
  frmq,     \* the encoder queue
  encoder,  \* encoder_loop: "none", "running" or "ended"
  outp,     \* all the encoder broadcast
  unencoded,\* frames that became no packet (history)
  since,    \* how much of src the muxer came too late for
  ipos,     \* the muxer's position in src ...
  epos,     \* ... and in outp
  eofs,     \* EOF signals the muxer has counted
  muxer,    \* "none", "running" or "finished" (trailer written)
  written   \* packets written to the container

srcVars == <<lossless, reader, src>>
decVars == <<dpos, drelay, pktq, decoder, frames, undecoded>>
encVars == <<fbase, fpos, frmq, encoder, outp, unencoded>>
muxVars == <<since, ipos, epos, eofs, muxer, written>>
vars == <<srcVars, decVars, encVars, muxVars>>

\* The decoder task has subscribed.
Init ==
  /\ lossless \in [dec : BOOLEAN, enc : BOOLEAN]
  /\ reader = "reading" /\ src = <<>>
  /\ dpos = 0 /\ drelay = "running" /\ pktq = <<>> /\ decoder = "running"
  /\ frames = <<>> /\ undecoded = {}
  /\ fbase = 0 /\ fpos = 0 /\ frmq = <<>> /\ encoder = "none" /\ outp = <<>> /\ unencoded = {}
  /\ since = 0 /\ ipos = 0 /\ epos = 0 /\ eofs = 0 /\ muxer = "none" /\ written = <<>>

\* What a receiver at position p finds on the broadcast s of capacity cap.
Lags(s, p, cap)  == Len(s) - p > cap
Ready(s, p, cap) == Len(s) - p \in 1..cap

-----------------------------------------------------------------------------
(* The reader *)

Read ==
  /\ reader \in {"reading", "stopping"}
  /\ Len(src) < MaxPackets
  /\ src' = Append(src, Len(src) + 1)
  /\ reader' = IF reader = "stopping" THEN "stopped" ELSE reader
  /\ UNCHANGED <<lossless, decVars, encVars, muxVars>>

ReadEof ==
  /\ reader \in {"reading", "stopping"}
  /\ src' = Append(src, EOF)
  /\ reader' = "eof"
  /\ UNCHANGED <<lossless, decVars, encVars, muxVars>>

\* remove_input fires the reader's token and drops the bus's sender; the reader
\* leaves its loop at once, or after the read it is in.  No EOF follows.
RemoveInput ==
  /\ reader = "reading"
  /\ reader' \in {"stopping", "stopped"}
  /\ UNCHANGED <<lossless, src, decVars, encVars, muxVars>>

-----------------------------------------------------------------------------
(* DecoderTask *)

\* The relay moves a packet into the queue, waiting for room.
DecoderRelay ==
  /\ drelay = "running"
  /\ Ready(src, dpos, SrcCap)
  /\ Len(pktq) < PacketQueue
  /\ pktq' = Append(pktq, src[dpos + 1])
  /\ dpos' = dpos + 1
  /\ drelay' = IF src[dpos + 1] = EOF THEN "ended" ELSE drelay
  /\ UNCHANGED <<srcVars, decoder, frames, undecoded, encVars, muxVars>>

(***************************************************************************)
(* The branch Ok(packet) = decoder_receiver.recv() of the select! does not *)
(* match an error, Lagged or Closed: the select! is left with the token,   *)
(* and nothing in the bus fires a decoder's token.                         *)
(***************************************************************************)
DecoderRelayError ==
  /\ drelay = "running"
  /\ \/ Lags(src, dpos, SrcCap)
     \/ reader = "stopped" /\ dpos = Len(src)
  /\ drelay' = "stuck"
  /\ UNCHANGED <<srcVars, dpos, pktq, decoder, frames, undecoded, encVars, muxVars>>

\* Fault: send_frame_backpressure never waits.
FrameRoomAlways == TRUE

\* send_frame_backpressure: in lossless mode wait for room in the broadcast,
\* while somebody listens to it.
FrameRoom == lossless.dec /\ encoder # "none" => Len(frames) - fpos < FrameCap

(***************************************************************************)
(* decoder_loop: one packet decoded and its frame broadcast.  A packet the *)
(* codec refuses is passed over (a hardware decoder is replaced by one in  *)
(* software then); EOF ends the loop, refused or not.                      *)
(***************************************************************************)
Decode ==
  /\ decoder = "running"
  /\ pktq # <<>>
  /\ LET p == Head(pktq) IN
       /\ \/ FrameRoom /\ frames' = Append(frames, p) /\ UNCHANGED undecoded
          \/ p # EOF /\ undecoded' = undecoded \cup {p} /\ UNCHANGED frames
       /\ decoder' = IF p = EOF THEN "ended" ELSE decoder
  /\ pktq' = Tail(pktq)
  /\ UNCHANGED <<srcVars, dpos, drelay, encVars, muxVars>>

-----------------------------------------------------------------------------
(* EncoderTask *)

\* start_encoder_task: the relay subscribes to the frames from now on.
StartEncoder ==
  /\ encoder = "none"
  /\ encoder' = "running" /\ fbase' = Len(frames) /\ fpos' = Len(frames)
  /\ UNCHANGED <<srcVars, decVars, frmq, outp, unencoded, muxVars>>

\* RecvError::Lagged: continue at the oldest frame left.
EncoderRelayLags ==
  /\ encoder = "running"
  /\ Lags(frames, fpos, FrameCap)
  /\ fpos' = Len(frames) - FrameCap
  /\ UNCHANGED <<srcVars, decVars, fbase, frmq, encoder, outp, unencoded, muxVars>>

\* Fault: a frame is dropped when the queue is full, whatever the mode; EOF too.
DropsAny(f) == TRUE

\* A full queue drops a frame of a live output; never EOF.
DropsWhenFull(f) == ~lossless.enc /\ f # EOF

\* Fault: the retry loop goes round once more after the queue took the frame.
OfferedTwice(q, f) == q \o <<f, f>>

\* try_send with room.
Offered(q, f) == Append(q, f)

EncoderRelay ==
  /\ encoder = "running"
  /\ Ready(frames, fpos, FrameCap)
  /\ LET f == frames[fpos + 1] IN
       \/ Len(frmq) < FrameQueue /\ frmq' = Offered(frmq, f)
       \/ Len(frmq) = FrameQueue /\ DropsWhenFull(f) /\ UNCHANGED frmq
  /\ fpos' = fpos + 1
  /\ UNCHANGED <<srcVars, decVars, fbase, encoder, outp, unencoded, muxVars>>

\* encoder_loop: one frame encoded and its packet broadcast, with no regard to
\* the muxer's position. A frame the codec refuses is passed over.
Encode ==
  /\ encoder = "running"
  /\ frmq # <<>>
  /\ LET f == Head(frmq) IN
       /\ \/ outp' = Append(outp, f) /\ UNCHANGED unencoded
          \/ f # EOF /\ unencoded' = unencoded \cup {f} /\ UNCHANGED outp
       /\ encoder' = IF f = EOF THEN "ended" ELSE encoder
  /\ frmq' = Tail(frmq)
  /\ UNCHANGED <<srcVars, decVars, fbase, fpos, muxVars>>

-----------------------------------------------------------------------------
(* The muxing task of spawn_multi_stream_mux: two sources, the input (whose *)
(* packets of a transcoded stream it skips) and the encoder.                *)

\* spawn_multi_stream_mux subscribes to both from now on: before the reader runs
\* for the first File/Net output, at any later time for another.
Attach ==
  /\ muxer = "none" /\ encoder # "none"
  /\ muxer' = "running" /\ since' = Len(src) /\ ipos' = Len(src) /\ epos' = Len(outp)
  /\ UNCHANGED <<srcVars, decVars, encVars, eofs, written>>

\* An EOF signal: the task ends when each of its sources has sent one.
CountEof ==
  /\ eofs' = eofs + 1
  /\ muxer' = IF eofs + 1 >= 2 THEN "finished" ELSE muxer

MuxInput ==
  /\ muxer = "running"
  /\ Ready(src, ipos, SrcCap)
  /\ ipos' = ipos + 1
  /\ IF src[ipos + 1] = EOF THEN CountEof ELSE UNCHANGED <<eofs, muxer>>
  /\ UNCHANGED <<srcVars, decVars, encVars, since, epos, written>>

MuxPacket ==
  /\ muxer = "running"
  /\ Ready(outp, epos, OutCap)
  /\ epos' = epos + 1
  /\ IF outp[epos + 1] = EOF
     THEN CountEof /\ UNCHANGED written
     ELSE written' = Append(written, outp[epos + 1]) /\ UNCHANGED <<eofs, muxer>>
  /\ UNCHANGED <<srcVars, decVars, encVars, since, ipos>>

\* BroadcastStream yields Err(Lagged), which the filter drops.
MuxLags ==
  /\ muxer = "running"
  /\ \/ /\ Lags(src, ipos, SrcCap)
        /\ ipos' = Len(src) - SrcCap /\ UNCHANGED epos
     \/ /\ Lags(outp, epos, OutCap)
        /\ epos' = Len(outp) - OutCap /\ UNCHANGED ipos
  /\ UNCHANGED <<srcVars, decVars, encVars, since, eofs, muxer, written>>

-----------------------------------------------------------------------------
Next ==
  \/ Read \/ ReadEof \/ RemoveInput
  \/ DecoderRelay \/ DecoderRelayError \/ Decode
  \/ StartEncoder \/ EncoderRelayLags \/ EncoderRelay \/ Encode
  \/ Attach \/ MuxInput \/ MuxPacket \/ MuxLags

Spec == Init /\ [][Next]_vars

(***************************************************************************)
(* Every task and thread is scheduled again.  The reader is not made to    *)
(* read: an input may fall silent.                                         *)
(***************************************************************************)
Fairness ==
  /\ WF_vars(DecoderRelay \/ DecoderRelayError)
  /\ WF_vars(Decode)
  /\ WF_vars(EncoderRelayLags \/ EncoderRelay)
  /\ WF_vars(Encode)
  /\ WF_vars(MuxInput \/ MuxPacket \/ MuxLags)

FairSpec == Spec /\ Fairness

-----------------------------------------------------------------------------
(* Properties *)

Item == 0..MaxPackets

TypeOK ==
  /\ lossless \in [dec : BOOLEAN, enc : BOOLEAN]
  /\ reader \in {"reading", "stopping", "eof", "stopped"}
  /\ src \in Seq(Item)
  /\ dpos \in 0..Len(src)
  /\ drelay \in {"running", "stuck", "ended"}
  /\ pktq \in Seq(Item) /\ Len(pktq) <= PacketQueue
  /\ decoder \in {"running", "ended"}
  /\ frames \in Seq(Item)
  /\ undecoded \subseteq Item \ {EOF}
  /\ fpos \in 0..Len(frames) /\ fbase \in 0..fpos
  /\ frmq \in Seq(Item) /\ Len(frmq) <= FrameQueue
  /\ encoder \in {"none", "running", "ended"}
  /\ outp \in Seq(Item)
  /\ unencoded \subseteq Item \ {EOF}
  /\ since \in 0..Len(src)
  /\ ipos \in 0..Len(src)
  /\ epos \in 0..Len(outp)
  /\ eofs \in 0..2
  /\ muxer \in {"none", "running", "finished"}
  /\ written \in Seq(Item)

Items(s, from, to) == {s[k] : k \in from..to}

Elems(s) == Items(s, 1, Len(s))

(***************************************************************************)
(* The lossless mode (bus.rs:457-459), as far as the two tasks carry it:   *)
(* when both were started in it, nothing but what a codec refused is lost  *)
(* between the reader's broadcast and the encoder's, from the first frame  *)
(* the encoder task was there for, for any speed of any stage, and what is *)
(* under way is all there.  The decoder's half holds in either mode.       *)
(***************************************************************************)
LosslessTasks ==
  /\ Elems(frames) \cup Elems(pktq) \cup undecoded = Items(src, 1, dpos)
  /\ lossless.dec /\ lossless.enc =>
       Elems(outp) \cup Elems(frmq) \cup unencoded = Items(frames, fbase + 1, fpos)

(***************************************************************************)
(* The live mode may drop frames; no mode may reorder or repeat them, and  *)
(* EOF is the last thing each stage sends.                                 *)
(***************************************************************************)
Increasing(s) ==
  \A j, k \in DOMAIN s : j < k => s[j] # EOF /\ (s[j] < s[k] \/ s[k] = EOF)

OrderKept == Increasing(frames) /\ Increasing(outp) /\ Increasing(written)

(***************************************************************************)
(* Every stage hands on what it got, in order: all of it between lossless  *)
(* tasks, a subsequence of it otherwise.                                   *)
(***************************************************************************)
FlowKept == LosslessTasks /\ OrderKept

\* The muxer subscribed before the input's EOF.
HearsEof == muxer # "none" /\ reader = "eof" /\ since < Len(src)

(***************************************************************************)
(* EOF must always land (encoder.rs:715): after the input's EOF the        *)
(* container is finished, although every stage after the relay may drop    *)
(* frames, if the muxer was there in time and unless the decoder relay had *)
(* stopped listening.                                                      *)
(***************************************************************************)
EofPasses == HearsEof ~> (muxer = "finished" \/ drelay = "stuck")

=============================================================================
