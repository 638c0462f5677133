-------------------------------- MODULE Pipe --------------------------------
(***************************************************************************)
(* One run of Pipe::start (crates/media-pipe-core/src/pipe.rs): open an    *)
(* input, attach the outputs one after another, wait, unwind.  With it, the*)
(* tasks it sets going: the reader thread (ffmpeg-bus/src/input.rs), one   *)
(* relay per output on the reader's broadcast (bus.rs), and, behind each   *)
(* Demuxed output, the ZLMediaKit forwarder with the barrier that video and*)
(* audio share (crates/media-pipe-zlm/src/lib.rs).                         *)
(*                                                                         *)
(* A packet is its position in the order of reading; what it carries is    *)
(* the stream it belongs to.                                               *)
(***************************************************************************)
EXTENDS Naturals, Sequences, FiniteSets

CONSTANTS
  Outputs,       \* config.outputs: a sequence of [av, dest]
  MaxPackets,    \* bound: packets the input yields before it ends
  BroadcastCap,  \* AvInputTask::PACKET_CHAN_CAP
  QueueCap       \* capacity of a demuxed output's mpsc channel

Outs    == DOMAIN Outputs
AvTypes == {"video", "audio"}
Demuxed == {i \in Outs : Outputs[i].dest = "Demuxed"}

ASSUME OutputsAssumption ==
  Outputs \in Seq([av : AvTypes, dest : {"Demuxed", "Network"}])
ASSUME BoundsAssumption ==
  MaxPackets \in Nat /\ BroadcastCap \in Nat \ {0} /\ QueueCap \in Nat \ {0}

EOF == "EOF"   \* RawPacketCmd::EOF on the broadcast
End == 0       \* the None a demuxed relay sends at EOF

VARIABLES
  phase,       \* of start(): "new", "adding", "waiting", "draining", "returned"
  cancelled,   \* the pipe's CancellationToken
  next,        \* index of the output to attach next
  out,         \* per output: "none", "accepted" or "rejected"
  input,       \* "none", "pending" (opened), "top" and "read" of the read loop, "ended"
  avail,       \* the streams the opened input has
  removed,     \* remove_input has run: token fired, the bus's own sender dropped
  sent,        \* everything the reader has broadcast
  relay,       \* per output: "none", "running", "ended"
  since,       \* length of sent when the relay subscribed
  pos,         \* how much of sent the relay has received
  lagged,      \* observation: the relay has lost packets
  chan,        \* per output: the mpsc channel, a packet in the sender's hand included
  fwd,         \* per output: "none", "reading", "barrier", "ended"
  hand,        \* the frame a forwarder holds at the barrier (End: none)
  expected, registered, completed,   \* CoordState
  tracks,      \* outputs whose track was given to media.init_track
  inits,       \* calls of media.init_complete
  delivered    \* per output: packets given to media.input_frame

startVars == <<phase, cancelled, next, out>>
inputVars == <<input, avail, removed, sent>>
relayVars == <<relay, since, pos, lagged>>
coordVars == <<expected, registered, completed, tracks, inits>>
fwdVars   == <<fwd, hand, delivered>>
vars == <<startVars, inputVars, relayVars, chan, coordVars, fwdVars>>

Init ==
  /\ phase = "new"
  /\ cancelled = FALSE
  /\ next = 1
  /\ out = [i \in Outs |-> "none"]
  /\ input = "none"
  /\ avail = {}
  /\ removed = FALSE
  /\ sent = <<>>
  /\ relay = [i \in Outs |-> "none"]
  /\ since = [i \in Outs |-> 0]
  /\ pos = [i \in Outs |-> 0]
  /\ lagged = [i \in Outs |-> FALSE]
  /\ chan = [i \in Outs |-> <<>>]
  /\ fwd = [i \in Outs |-> "none"]
  /\ hand = [i \in Outs |-> End]
  /\ expected = Cardinality(Demuxed)
  /\ registered = 0
  /\ completed = FALSE
  /\ tracks = {}
  /\ inits = 0
  /\ delivered = [i \in Outs |-> <<>>]

-----------------------------------------------------------------------------
(* ZlmTrackCoordinator *)

\* Fault: one registered track is enough.
FinalizeFirst(reg, exp) == ~completed /\ reg > 0

\* try_finalize's test.
Finalizes(reg, exp) == ~completed /\ reg > 0 /\ reg >= exp

\* try_finalize: call init_complete and release the barrier, once.
TryFinalize(reg, exp) ==
  /\ completed' = (completed \/ Finalizes(reg, exp))
  /\ inits' = IF Finalizes(reg, exp) THEN inits + 1 ELSE inits

\* media.init_track for output i, and count it.
RegisterTrack(i) ==
  /\ tracks' = tracks \cup {i}
  /\ registered' = registered + 1
  /\ TryFinalize(registered + 1, expected)
  /\ UNCHANGED expected

\* Fault: a rejected sibling stays in the expected set.
ExpectSame == UNCHANGED coordVars

\* expect_one_less, with its saturating subtraction.
ExpectOneLess ==
  LET exp == IF expected = 0 THEN 0 ELSE expected - 1 IN
    /\ expected' = exp
    /\ TryFinalize(registered, exp)
    /\ UNCHANGED <<registered, tracks>>

-----------------------------------------------------------------------------
(* Pipe::start *)

\* Publish the bus and add the input.  A fresh bus has no input and no output
\* yet, so add_input only records the configuration.
Start ==
  /\ phase = "new"
  /\ phase' = "adding"
  /\ UNCHANGED <<cancelled, next, out, inputVars, relayVars, chan, coordVars, fwdVars>>

\* Pipe::cancel.
Cancel ==
  /\ phase # "returned" /\ ~cancelled
  /\ cancelled' = TRUE
  /\ UNCHANGED <<phase, next, out, inputVars, relayVars, chan, coordVars, fwdVars>>

\* The output being attached in the loop over config.outputs.
Attaching(i) == phase = "adding" /\ i = next /\ i \in Outs

\* add_output failed: a Demuxed sink drops out of the barrier (on_rejected).
Reject(i) ==
  /\ out' = [out EXCEPT ![i] = "rejected"]
  /\ next' = next + 1
  /\ IF i \in Demuxed THEN ExpectOneLess ELSE UNCHANGED coordVars
  /\ UNCHANGED <<phase, cancelled, removed, sent, relayVars, chan, fwdVars>>

\* The input cannot be opened; the next output will try again.
OpenFails(i) ==
  /\ Attaching(i)
  /\ input = "none"
  /\ Reject(i)
  /\ UNCHANGED <<input, avail>>

\* The streams of the input: the ones found on opening it, at the first output.
Opened(streams) == IF input = "none" THEN streams # {} ELSE streams = avail

\* The input has no stream of this type, or the URL of a Network output cannot
\* be opened for writing.  The input stays opened, but is not set going.
OutputFails(i, streams) ==
  /\ Attaching(i)
  /\ Opened(streams)
  /\ Outputs[i].av \notin streams \/ Outputs[i].dest = "Network"
  /\ avail' = streams
  /\ input' = IF input = "none" THEN "pending" ELSE input
  /\ Reject(i)

\* The output subscribes to the reader; then the reader starts, if it has not.
Accept(i, streams) ==
  /\ Attaching(i)
  /\ Opened(streams)
  /\ Outputs[i].av \in streams
  /\ avail' = streams
  /\ input' = IF input \in {"none", "pending"} THEN "top" ELSE input
  /\ out' = [out EXCEPT ![i] = "accepted"]
  /\ next' = next + 1
  /\ relay' = [relay EXCEPT ![i] = "running"]
  /\ since' = [since EXCEPT ![i] = Len(sent)]
  /\ pos' = [pos EXCEPT ![i] = Len(sent)]
  /\ UNCHANGED <<phase, cancelled, removed, sent, lagged, chan, coordVars, fwdVars>>

\* Second pass: one forwarder per accepted Demuxed output.
SpawnForwarders ==
  /\ phase = "adding"
  /\ next \notin Outs
  /\ phase' = "waiting"
  /\ fwd' = [i \in Outs |-> IF i \in Demuxed /\ out[i] = "accepted" THEN "reading" ELSE "none"]
  /\ UNCHANGED <<cancelled, next, out, inputVars, relayVars, chan, coordVars, hand, delivered>>

Forwarders == {i \in Outs : fwd[i] # "none"}

\* Fault: only a cancellation ends the wait.
WaitForCancel == cancelled

\* The select: cancelled, or the first forwarder has ended.
WaitOver == cancelled \/ \E i \in Forwarders : fwd[i] = "ended"

\* Fault: the reader is not told to stop.
KeepInput == UNCHANGED <<input, removed>>

\* Bus RemoveInput: fire the reader's token, drop the bus's sender, and an
\* input that was opened but never started.
RemoveInput ==
  /\ removed' = TRUE
  /\ input' = IF input = "pending" THEN "ended" ELSE input

Unwind ==
  /\ phase = "waiting"
  /\ WaitOver
  /\ RemoveInput
  /\ phase' = "draining"
  /\ UNCHANGED <<cancelled, next, out, avail, sent, relayVars, chan, coordVars, fwdVars>>

\* Fault: the remaining forwarders are not waited for.
DrainNothing == TRUE

\* while outputs.join_next().await.is_some() {}
Drained == \A i \in Forwarders : fwd[i] = "ended"

Return ==
  /\ phase = "draining"
  /\ Drained
  /\ phase' = "returned"
  /\ UNCHANGED <<cancelled, next, out, inputVars, relayVars, chan, coordVars, fwdVars>>

-----------------------------------------------------------------------------
(* The reader thread: AvInputTask::start *)

\* Top of the loop: leave, without an EOF, if the token has fired.
ReaderLoop ==
  /\ input = "top"
  /\ input' = IF removed THEN "ended" ELSE "read"
  /\ UNCHANGED <<startVars, avail, removed, sent, relayVars, chan, coordVars, fwdVars>>

\* read_packet returns a packet, however long ago the token fired.
ReadPacket(av) ==
  /\ input = "read"
  /\ Len(sent) < MaxPackets
  /\ sent' = Append(sent, av)
  /\ input' = "top"
  /\ UNCHANGED <<startVars, avail, removed, relayVars, chan, coordVars, fwdVars>>

ReadEof ==
  /\ input = "read"
  /\ sent' = Append(sent, EOF)
  /\ input' = "ended"
  /\ UNCHANGED <<startVars, avail, removed, relayVars, chan, coordVars, fwdVars>>

-----------------------------------------------------------------------------
(* The relay of an output: create_demuxed_output_stream, and for Network    *)
(* the muxing task of spawn_multi_stream_mux, which has no channel.         *)

Behind(i) == Len(sent) - pos[i]

\* Sender side of the mpsc channel: parked once it holds a packet too many.
HasRoom(i) == i \in Demuxed => Len(chan[i]) <= QueueCap

\* RecvError::Lagged: resume at the oldest packet the broadcast still has.
RelayLags(i) ==
  /\ relay[i] = "running" /\ HasRoom(i)
  /\ Behind(i) > BroadcastCap
  /\ pos' = [pos EXCEPT ![i] = Len(sent) - BroadcastCap]
  /\ lagged' = [lagged EXCEPT ![i] = TRUE]
  /\ UNCHANGED <<startVars, inputVars, relay, since, chan, coordVars, fwdVars>>

\* Fault: packets of every stream are passed on.
WantsAll(i, p) == TRUE

\* Only packets of the output's own stream go on.
Wants(i, p) == sent[p] = Outputs[i].av

RelayPacket(i) ==
  /\ relay[i] = "running" /\ HasRoom(i)
  /\ Behind(i) \in 1..BroadcastCap
  /\ LET p == pos[i] + 1 IN
       /\ sent[p] # EOF
       /\ chan' = IF i \in Demuxed /\ Wants(i, p)
                  THEN [chan EXCEPT ![i] = Append(@, p)] ELSE chan
       /\ pos' = [pos EXCEPT ![i] = p]
  /\ UNCHANGED <<startVars, inputVars, relay, since, lagged, coordVars, fwdVars>>

RelayEof(i) ==
  /\ relay[i] = "running"
  /\ i \in Demuxed => Len(chan[i]) < QueueCap
  /\ Behind(i) \in 1..BroadcastCap
  /\ sent[pos[i] + 1] = EOF
  /\ pos' = [pos EXCEPT ![i] = @ + 1]
  /\ chan' = IF i \in Demuxed THEN [chan EXCEPT ![i] = Append(@, End)] ELSE chan
  /\ relay' = [relay EXCEPT ![i] = "ended"]
  /\ UNCHANGED <<startVars, inputVars, since, lagged, coordVars, fwdVars>>

\* RecvError::Closed: everything received and no sender is left.
RelayClosed(i) ==
  /\ relay[i] = "running" /\ HasRoom(i)
  /\ Behind(i) = 0
  /\ removed /\ input = "ended"
  /\ relay' = [relay EXCEPT ![i] = "ended"]
  /\ UNCHANGED <<startVars, inputVars, since, pos, lagged, chan, coordVars, fwdVars>>

-----------------------------------------------------------------------------
(* forward_raw_packet_stream_to_zlm *)

\* The stream's None at EOF is skipped.
FwdSkip(i) ==
  /\ fwd[i] = "reading" /\ chan[i] # <<>> /\ Head(chan[i]) = End
  /\ chan' = [chan EXCEPT ![i] = Tail(@)]
  /\ UNCHANGED <<startVars, inputVars, relayVars, coordVars, fwdVars>>

TrackInitialized(i) == i \in tracks

\* The first frame: register the track, then wait for init_complete.
FwdRegister(i) ==
  /\ fwd[i] = "reading" /\ chan[i] # <<>> /\ Head(chan[i]) # End
  /\ ~TrackInitialized(i)
  /\ hand' = [hand EXCEPT ![i] = Head(chan[i])]
  /\ chan' = [chan EXCEPT ![i] = Tail(@)]
  /\ fwd' = [fwd EXCEPT ![i] = "barrier"]
  /\ RegisterTrack(i)
  /\ UNCHANGED <<startVars, inputVars, relayVars, delivered>>

\* Fault: the frame that set the track up is not pushed.
PushNothing(i, p) == UNCHANGED delivered

\* media.input_frame.
Push(i, p) == delivered' = [delivered EXCEPT ![i] = Append(@, p)]

\* wait_complete returns, and the first frame is pushed.
FwdPastBarrier(i) ==
  /\ fwd[i] = "barrier"
  /\ completed
  /\ Push(i, hand[i])
  /\ hand' = [hand EXCEPT ![i] = End]
  /\ fwd' = [fwd EXCEPT ![i] = "reading"]
  /\ UNCHANGED <<startVars, inputVars, relayVars, chan, coordVars>>

FwdPush(i) ==
  /\ fwd[i] = "reading" /\ chan[i] # <<>> /\ Head(chan[i]) # End
  /\ TrackInitialized(i)
  /\ Push(i, Head(chan[i]))
  /\ chan' = [chan EXCEPT ![i] = Tail(@)]
  /\ UNCHANGED <<startVars, inputVars, relayVars, coordVars, fwd, hand>>

\* stream.next() is None: the relay has dropped its end of an empty channel.
FwdEnd(i) ==
  /\ fwd[i] = "reading" /\ chan[i] = <<>>
  /\ relay[i] = "ended"
  /\ fwd' = [fwd EXCEPT ![i] = "ended"]
  /\ UNCHANGED <<startVars, inputVars, relayVars, chan, coordVars, hand, delivered>>

-----------------------------------------------------------------------------
StartStep ==
  \/ Start
  \/ \E i \in Outs : OpenFails(i)
  \/ \E i \in Outs, streams \in SUBSET AvTypes : OutputFails(i, streams) \/ Accept(i, streams)
  \/ SpawnForwarders
  \/ Unwind
  \/ Return

ReaderStep == ReaderLoop \/ ReadEof \/ \E av \in avail : ReadPacket(av)

RelayStep(i) == RelayLags(i) \/ RelayPacket(i) \/ RelayEof(i) \/ RelayClosed(i)

FwdStep(i) ==
  FwdSkip(i) \/ FwdRegister(i) \/ FwdPastBarrier(i) \/ FwdPush(i) \/ FwdEnd(i)

Next ==
  \/ StartStep
  \/ Cancel
  \/ ReaderStep
  \/ \E i \in Outs : RelayStep(i) \/ FwdStep(i)

Spec == Init /\ [][Next]_vars

\* start() has the input or the URL of a Network output opened just now.
Opening ==
  phase = "adding" /\ next \in Outs /\ (input = "none" \/ Outputs[next].dest = "Network")

(***************************************************************************)
(* Tokio polls woken tasks.  Nothing is assumed of what ffmpeg does with   *)
(* the network: opening an input or a push and reading a packet may take   *)
(* for ever (only an rtsp:// input is given a socket timeout).             *)
(***************************************************************************)
Fairness ==
  /\ WF_vars(~Opening /\ StartStep)
  /\ WF_vars(ReaderLoop)
  /\ \A i \in Outs : WF_vars(RelayStep(i)) /\ WF_vars(FwdStep(i))

FairSpec == Spec /\ Fairness

-----------------------------------------------------------------------------
(* Properties *)

TypeOK ==
  /\ phase \in {"new", "adding", "waiting", "draining", "returned"}
  /\ cancelled \in BOOLEAN
  /\ next \in 1..Len(Outputs) + 1
  /\ out \in [Outs -> {"none", "accepted", "rejected"}]
  /\ input \in {"none", "pending", "top", "read", "ended"}
  /\ avail \in SUBSET AvTypes
  /\ removed \in BOOLEAN
  /\ sent \in Seq(AvTypes \cup {EOF})
  /\ relay \in [Outs -> {"none", "running", "ended"}]
  /\ since \in [Outs -> Nat]
  /\ pos \in [Outs -> Nat]
  /\ lagged \in [Outs -> BOOLEAN]
  /\ chan \in [Outs -> Seq(Nat)]
  /\ fwd \in [Outs -> {"none", "reading", "barrier", "ended"}]
  /\ hand \in [Outs -> Nat]
  /\ expected \in Nat
  /\ registered \in 0..Cardinality(Demuxed)
  /\ completed \in BOOLEAN
  /\ tracks \in SUBSET Outs
  /\ inits \in Nat
  /\ delivered \in [Outs -> Seq(Nat)]

(***************************************************************************)
(* ZlmTrackCoordinator's promise: no frame reaches the Media before        *)
(* init_complete, and init_complete, called at most once, comes when every *)
(* output the pipe kept has registered its track.                          *)
(***************************************************************************)
BarrierHolds ==
  /\ inits = IF completed THEN 1 ELSE 0
  /\ completed => \A i \in Demuxed : out[i] = "accepted" => i \in tracks
  /\ \A i \in Outs : delivered[i] # <<>> => completed

(***************************************************************************)
(* The barrier opens as soon as it may: once the outputs are settled and   *)
(* every kept one has registered, init_complete has been called.  An audio *)
(* output the input has no stream for (on_rejected) must not hold it shut. *)
(***************************************************************************)
BarrierOpens ==
  /\ phase \notin {"new", "adding"} /\ tracks # {}
  /\ \A i \in Demuxed : out[i] = "accepted" => i \in tracks
  => completed

(***************************************************************************)
(* The track barrier neither opens early nor stays shut, in whatever order *)
(* tracks register, are rejected and deliver.                              *)
(***************************************************************************)
BarrierSound == BarrierHolds /\ BarrierOpens

(***************************************************************************)
(* What a forwarder gives to the Media: each packet at most once, in the   *)
(* order read, and only of its own stream.                                 *)
(***************************************************************************)
InOrder ==
  \A i \in Outs : \A m \in DOMAIN delivered[i] :
    /\ delivered[i][m] \in 1..Len(sent) /\ sent[delivered[i][m]] = Outputs[i].av
    /\ m > 1 => delivered[i][m - 1] < delivered[i][m]

\* The packets of its stream that output i has received since it subscribed.
Due(i) == {p \in since[i] + 1..pos[i] : sent[p] = Outputs[i].av}

Elems(s) == {s[k] : k \in DOMAIN s}

\* Those at the barrier and in the channel.
InFlight(i) == ({hand[i]} \cup Elems(chan[i])) \ {End}

(***************************************************************************)
(* A packet is lost only where the code says so, in a broadcast lag: until *)
(* a relay lags, what it received is delivered, at the barrier or queued,  *)
(* the frame that triggered the track's registration included.             *)
(***************************************************************************)
LostOnlyByLag ==
  \A i \in Demuxed : out[i] = "accepted" /\ ~lagged[i] =>
    Elems(delivered[i]) \cup InFlight(i) = Due(i)

(***************************************************************************)
(* What Entry::join relies on (manager.rs:41-42): when start() has         *)
(* returned, the input is closed and no task still feeds the Media, given  *)
(* that a forwarder ran.                                                   *)
(***************************************************************************)
ReleasedIfForwarded ==
  phase = "returned" /\ Forwarders # {} =>
    /\ input \in {"none", "ended"}
    /\ \A i \in Forwarders : relay[i] = "ended" /\ chan[i] = <<>> /\ hand[i] = End

(***************************************************************************)
(* The Media gets the packets of each stream in order and loses none but   *)
(* to a broadcast lag, and gets nothing more once start() has returned.    *)
(***************************************************************************)
FramesIntact == InOrder /\ LostOnlyByLag /\ ReleasedIfForwarded

\* A forwarder waits for a sibling that has not registered.
BarrierHeld == ~completed /\ \E i \in Outs : fwd[i] = "barrier"

\* The reader sits in a read.
InRead == input = "read"

(***************************************************************************)
(* A cancelled pipe unwinds: start() returns, unless opening or reading    *)
(* never returns or a forwarder stands at the barrier for ever.            *)
(***************************************************************************)
CancelUnwinds ==
  cancelled ~> (phase = "returned" \/ []BarrierHeld \/ []Opening \/ []InRead)

\* Output i subscribed before the reader announced the end.
HearsEnd(i) == since[i] < Len(sent)

(***************************************************************************)
(* The end of the input is observed (pipe.rs:174-179): start() unwinds     *)
(* without being cancelled, again unless the barrier holds.  One forwarder *)
(* whose output subscribed in time is enough, and it frees the others.  A  *)
(* Network output listed first sets the reader going at once; when the     *)
(* input is over before the first Demuxed output subscribes, nobody hears  *)
(* of it and the pipe waits to be cancelled.                               *)
(***************************************************************************)
InputEndUnwinds ==
  (input = "ended" /\ \E i \in Forwarders : HearsEnd(i))
    ~> (phase = "returned" \/ []BarrierHeld)

\* A pipe unwinds when it is cancelled or one of its forwarders is told of the
\* end of the input, unless the barrier holds a forwarder for ever or ffmpeg
\* never returns.
Unwinds == CancelUnwinds /\ InputEndUnwinds

=============================================================================
