--------------------------------- MODULE Bus ---------------------------------
(***************************************************************************)
(* The command actor of crates/ffmpeg-bus (bus.rs): one input, decoder and *)
(* encoder tasks keyed by stream index and shared by every output that     *)
(* needs them, and the outputs.  Commands come through one channel and are *)
(* handled one at a time, so a command is one action; what each of its     *)
(* fallible steps leaves behind is what the model is about.                *)
(*                                                                         *)
(* A codec name is a codec; "other" is an encoder FFmpeg has and           *)
(* codec_id_from_name does not know.  "raw" and "wrapped" are the RAWVIDEO *)
(* and WRAPPED_AVFRAME codecs of capture devices.                          *)
(***************************************************************************)
EXTENDS Naturals, Sequences, FiniteSets

CONSTANTS
  Containers,   \* what an input may turn out to hold: sequences of [av, codec]
  Configs,      \* the outputs clients ask for:
                \* [id, dest, av, format, enc, audio, audioEnc]
  MaxOpens,     \* bound: inputs opened
  Unset

Codecs  == {"h264", "hevc", "aac", "opus", "raw", "wrapped", "other"}
Stream  == [av : {"video", "audio"}, codec : Codecs]
Encode  == [codec : Codecs, resized : BOOLEAN]   \* resized: asks for another size or rate
Index   == UNION {DOMAIN c : c \in Containers}
OutputIds     == {o.id : o \in Configs}

ASSUME ContainersAssumption == Containers \subseteq Seq(Stream) /\ MaxOpens \in Nat
ASSUME ConfigsAssumption ==
  \A o \in Configs :
    /\ o.dest \in {"Raw", "File", "Net", "Mux", "Encoded", "Demuxed"}
    /\ o.av \in {"video", "audio"} /\ o.audio \in BOOLEAN
    /\ {o.enc, o.audioEnc} \subseteq Encode \cup {Unset}

VARIABLES
  config,    \* input_config is set
  task,      \* the input task: the number of its opening, or 0
  pending,   \* pending_input: opened and not yet read
  streams,   \* input_streams: a sequence of [index, av, codec]
  decoders,  \* decoder_tasks: per index Unset or [epoch, lossless]
  encoders,  \* encoder_tasks: per index Unset or [epoch, codec, lossless]
  outputs,   \* output_config: per id Unset or [config, tracks, clash]: what was
             \* asked for, what it carries, and an observation (Clash)
  asked,     \* observation: the tasks commands have had started, as they asked
  layouts,   \* observation: what each opened input holds
  reading,   \* observation: readers started and not told to stop
  removed,   \* observation: remove_input has been called
  lastSub    \* observation: the decoder the latest subscription is on, or Unset

tasks == <<decoders, encoders>>
busvars == <<config, task, pending, streams, tasks, outputs, asked, layouts, reading, removed, lastSub>>

BusInit ==
  /\ config = FALSE /\ task = 0 /\ pending = FALSE
  /\ streams = <<>>
  /\ decoders = [i \in Index |-> Unset]
  /\ encoders = [i \in Index |-> Unset]
  /\ outputs = [id \in OutputIds |-> Unset]
  /\ asked = {} /\ layouts = <<>> /\ reading = {} /\ removed = FALSE /\ lastSub = Unset

-----------------------------------------------------------------------------
(* What an output needs *)

\* iter().find over input_streams: by kind, and by index.
Has(ss, av)     == \E k \in DOMAIN ss : ss[k].av = av
FirstOf(ss, av) ==
  ss[CHOOSE k \in DOMAIN ss : ss[k].av = av /\ \A j \in 1..k - 1 : ss[j].av # av]
At(ss, i) ==
  ss[CHOOSE k \in DOMAIN ss : ss[k].index = i /\ \A j \in 1..k - 1 : ss[j].index # i]

\* encode_needed: another (or unknown) codec, or another size, rate or channels.
EncodeNeeded(s, e) == e.codec # s.codec \/ e.codec = "other" \/ e.resized

\* The codec a Mux format stands for; "other" formats take what comes.
TryEncoder(s, o) ==
  /\ o.dest \notin {"Raw", "Demuxed"}
  /\ \/ s.av = "video" /\ s.codec \in {"raw", "wrapped"}
     \/ o.dest = "Encoded"
     \/ o.dest = "Mux" /\ o.format \notin {s.codec, "other"}
     \/ o.enc # Unset /\ EncodeNeeded(s, o.enc)

\* Fault: a Mux output decodes only what comes wrapped.
TryDecoderWrapped(s, o) ==
  /\ s.codec # "raw"
  /\ o.dest \in {"Raw", "Encoded"} \/ (o.dest = "Mux" /\ s.codec = "wrapped")

TryDecoder(s, o) ==
  /\ s.codec # "raw"
  /\ \/ o.dest \in {"Raw", "Encoded"}
     \/ s.av = "video" /\ (o.dest = "Net" \/ (o.dest = "Mux" /\ s.codec = "wrapped"))
     \/ o.dest \in {"Mux", "Net"} /\ TryEncoder(s, o)

\* plan_entry.
Entry(s, e) == [index |-> s.index, enc |-> e, transcode |-> e # Unset /\ EncodeNeeded(s, e)]

\* Fault: the audio that goes with a video is encoded with the video's settings.
PlanOneEncode(ss, o) ==
  LET primary == At(ss, FirstOf(ss, o.av).index) IN
    <<Entry(primary, o.enc)>> \o
    (IF o.audio /\ primary.av = "video" /\ Has(ss, "audio")
     THEN <<Entry(FirstOf(ss, "audio"), o.enc)>> ELSE <<>>)

\* build_mux_plan: the output's own stream, and the audio that goes with it.
Plan(ss, o) ==
  LET primary == At(ss, FirstOf(ss, o.av).index) IN
    <<Entry(primary, o.enc)>> \o
    (IF o.audio /\ primary.av = "video" /\ Has(ss, "audio")
     THEN <<Entry(FirstOf(ss, "audio"), o.audioEnc)>> ELSE <<>>)

IsFileNet(o) == o.dest \in {"File", "Net"}

Step(kind, i, e, lossless) == [kind |-> kind, index |-> i, enc |-> e, lossless |-> lossless]

\* Fault: the encoder of a File or Net output may drop frames.
LossyTranscoders(t) ==
  IF t.transcode
  THEN <<Step("decoder", t.index, Unset, TRUE), Step("encoder", t.index, t.enc, FALSE)>> ELSE <<>>

\* start_mux_transcoders for one entry.
Transcoders(t) ==
  IF t.transcode
  THEN <<Step("decoder", t.index, Unset, TRUE), Step("encoder", t.index, t.enc, TRUE)>> ELSE <<>>

\* The tasks an output has started, in order: per track, lossless, for File and
\* Net; for its one stream, lossy, for the others.
Steps(ss, o) ==
  LET s == FirstOf(ss, o.av)
      plan == Plan(ss, o)
  IN IF IsFileNet(o)
     THEN Transcoders(plan[1]) \o (IF Len(plan) = 2 THEN Transcoders(plan[2]) ELSE <<>>)
     ELSE (IF TryDecoder(s, o) THEN <<Step("decoder", s.index, Unset, FALSE)>> ELSE <<>>) \o
          (IF TryEncoder(s, o) THEN <<Step("encoder", s.index, o.enc, FALSE)>> ELSE <<>>)

-----------------------------------------------------------------------------
(* Input: prepare_input_task and start_input_task *)

\* The order of AvInput::streams, a HashMap, is arbitrary.
Orders(c) ==
  {[k \in DOMAIN c |-> [index |-> p[k], av |-> c[p[k]].av, codec |-> c[p[k]].codec]] :
     p \in {f \in [DOMAIN c -> DOMAIN c] : \A a, b \in DOMAIN c : f[a] = f[b] => a = b}}

\* The state a command works on: with the input opened first, if one is
\* configured and none is open.
Opened ==
  UNION {{[ss |-> streams \o order, task |-> Len(layouts) + 1, pending |-> TRUE,
           layouts |-> Append(layouts, c)] : order \in Orders(c)} :
             c \in {c \in Containers : Len(layouts) < MaxOpens}}

Views ==
  IF config /\ task = 0 THEN Opened
  ELSE {[ss |-> streams, task |-> task, pending |-> pending, layouts |-> layouts]}

\* The input stays as v has it; nothing is started.
Prepared(v) ==
  /\ streams' = v.ss /\ task' = v.task /\ pending' = v.pending /\ layouts' = v.layouts
  /\ UNCHANGED reading

\* Fault: only the command that opened the input starts it.
StartIfOpened(v) ==
  /\ streams' = v.ss /\ task' = v.task /\ layouts' = v.layouts
  /\ pending' = (v.pending /\ v.task = task)
  /\ reading' = IF v.pending /\ v.task # task THEN reading \cup {v.task} ELSE reading

\* start_input_task: whatever is pending is started.
StartInput(v) ==
  /\ streams' = v.ss /\ task' = v.task /\ layouts' = v.layouts
  /\ pending' = FALSE
  /\ reading' = IF v.pending THEN reading \cup {v.task} ELSE reading

-----------------------------------------------------------------------------
(* Tasks: start_decoder_task and start_encoder_task *)

Elems(steps) == {steps[k] : k \in DOMAIN steps}

\* Note what was started, until the input is removed.
Asked(steps) == asked' = IF removed THEN {} ELSE asked \cup Elems(steps)

Wanted(steps, kind, i) == {st \in Elems(steps) : st.kind = kind /\ st.index = i}

\* A task that exists for the index is taken as it is.
DecodersAfter(v, steps) ==
  [i \in Index |->
    IF decoders[i] # Unset \/ Wanted(steps, "decoder", i) = {} \/ v.task = 0 THEN decoders[i]
    ELSE IF At(v.ss, i).codec = "raw" THEN Unset
    ELSE [epoch |-> v.task,
          lossless |-> (CHOOSE st \in Wanted(steps, "decoder", i) : TRUE).lossless]]

EncoderCodec(s, e) ==
  IF e # Unset THEN e.codec ELSE IF s.av = "video" THEN "h264" ELSE "aac"

\* Raw video is encoded from the packets; everything else from a decoder.
EncodersAfter(v, steps, dec) ==
  [i \in Index |->
    LET wanted == Wanted(steps, "encoder", i)
        raw    == At(v.ss, i).codec = "raw"
    IN IF \/ encoders[i] # Unset \/ wanted = {}
          \/ (raw /\ v.task = 0) \/ (~raw /\ dec[i] = Unset)
       THEN encoders[i]
       ELSE LET st == CHOOSE st \in wanted : TRUE IN
              [epoch |-> IF raw THEN v.task ELSE dec[i].epoch,
               codec |-> EncoderCodec(At(v.ss, i), st.enc),
               lossless |-> st.lossless /\ ~raw]]

-----------------------------------------------------------------------------
(* Outputs *)

\* A track carried by an output: what its description says, what its packets
\* are, where they come from.
Track(i, header, packets, epoch, lossless) ==
  [index |-> i, header |-> header, packets |-> packets, epoch |-> epoch, lossless |-> lossless]

\* Packets straight from the reader.
Copied(v, i) ==
  Track(i, At(v.ss, i).codec,
        IF i \in DOMAIN v.layouts[v.task] THEN v.layouts[v.task][i].codec ELSE "other",
        v.task, TRUE)

\* One track of spawn_multi_stream_mux; the description of a transcoded one is
\* the encoder's own (encoder_output_streams).
Muxed(v, t, dec, enc) ==
  LET e == enc[t.index] IN
    IF ~t.transcode THEN Copied(v, t.index)
    ELSE Track(t.index, e.codec, e.codec, e.epoch,
               e.lossless /\ dec[t.index] # Unset /\ dec[t.index].lossless)

\* Whether the output can be attached once its tasks are there.
Attachable(v, o, dec, enc) ==
  LET s == FirstOf(v.ss, o.av)
      i == s.index
      plan == Plan(v.ss, o)
  IN CASE IsFileNet(o)        -> v.task # 0 /\ \A k \in DOMAIN plan :
                                   plan[k].transcode => enc[plan[k].index] # Unset
       [] o.dest = "Raw"      -> dec[i] # Unset
       [] o.dest = "Encoded"  -> enc[i] # Unset
       [] o.dest = "Demuxed"  -> v.task # 0
       [] o.dest = "Mux" /\ TryEncoder(s, o)  -> enc[i] # Unset /\ o.format # "other"
       [] o.dest = "Mux" /\ ~TryEncoder(s, o) -> v.task # 0

Tracks(v, o, dec, enc) ==
  LET s == FirstOf(v.ss, o.av)
      i == s.index
      plan == Plan(v.ss, o)
  IN CASE IsFileNet(o)       -> [k \in DOMAIN plan |-> Muxed(v, plan[k], dec, enc)]
       [] o.dest = "Raw"     -> <<Track(i, s.codec, s.codec, dec[i].epoch, FALSE)>>
       [] o.dest = "Encoded" -> <<Track(i, s.codec, enc[i].codec, enc[i].epoch, FALSE)>>
       [] o.dest = "Mux" /\ TryEncoder(s, o) ->
            <<Track(i, o.format, enc[i].codec, enc[i].epoch, FALSE)>>
       [] OTHER -> <<Copied(v, i)>>

\* The settings an output has for a stream.
Settings(o, s) == IF s.av = o.av THEN o.enc ELSE o.audioEnc

\* Observation: of the streams that tracks are made of, those for which somebody
\* has asked for an encoder of another codec than o would, or for a task that drops.
Clash(ss, o, tracks) ==
  LET own == {At(ss, t.index) : t \in Elems(tracks)} IN
    [codec |-> {s.index : s \in {s \in own : \E st \in asked :
                  /\ st.kind = "encoder" /\ st.index = s.index
                  /\ EncoderCodec(s, st.enc) # EncoderCodec(s, Settings(o, s))}},
     lossy |-> {s.index : s \in {s \in own : \E st \in asked :
                  st.index = s.index /\ ~st.lossless}}]

AddOutput(o) ==
  /\ outputs[o.id] = Unset
  /\ \E v \in Views :
       /\ Has(v.ss, o.av)
       /\ decoders' = DecodersAfter(v, Steps(v.ss, o))
       /\ encoders' = EncodersAfter(v, Steps(v.ss, o), decoders')
       /\ Attachable(v, o, decoders', encoders')
       /\ LET tracks == Tracks(v, o, decoders', encoders') IN
            outputs' = [outputs EXCEPT ![o.id] =
                          [config |-> o, tracks |-> tracks, clash |-> Clash(v.ss, o, tracks)]]
       /\ Asked(Steps(v.ss, o))
       /\ StartInput(v)
  /\ UNCHANGED <<config, removed, lastSub>>

\* After its first k steps an output can fail: in the next one, if that has a task
\* to start, or in opening the container.
FailsAfter(v, o, k, dec, enc) ==
  LET steps == Steps(v.ss, o) IN
    IF k < Len(steps)
    THEN (IF steps[k + 1].kind = "decoder" THEN dec ELSE enc)[steps[k + 1].index] = Unset
    ELSE IsFileNet(o) \/ o.dest = "Mux" \/ ~Attachable(v, o, dec, enc)

\* What was started stays, and the input is not read.
AddOutputFails(o) ==
  /\ outputs[o.id] = Unset
  /\ \E v \in Views :
       /\ Prepared(v)
       /\ IF ~Has(v.ss, o.av) THEN UNCHANGED <<tasks, asked>>
          ELSE \E k \in 0..Len(Steps(v.ss, o)) :
                 LET done == SubSeq(Steps(v.ss, o), 1, k) IN
                   /\ decoders' = DecodersAfter(v, done)
                   /\ encoders' = EncodersAfter(v, done, decoders')
                   /\ FailsAfter(v, o, k, decoders', encoders')
                   /\ Asked(done)
  /\ UNCHANGED <<config, outputs, removed, lastSub>>

-----------------------------------------------------------------------------
(* Input and subscription commands *)

\* With outputs present the input is opened and read at once.  A failure to open
\* leaves the configuration set.
AddInput ==
  /\ ~config
  /\ config' = TRUE
  /\ IF task = 0 /\ \E id \in OutputIds : outputs[id] # Unset
     THEN (\E v \in Opened : StartInput(v)) \/ UNCHANGED <<task, pending, streams, layouts, reading>>
     ELSE UNCHANGED <<task, pending, streams, layouts, reading>>
  /\ UNCHANGED <<tasks, outputs, asked, removed, lastSub>>

\* state.pending_input = Unset
DropPending == pending' = FALSE

\* Fault: the task is forgotten, its token not fired.
ForgetReader == UNCHANGED reading

\* input.stop()
StopReader == reading' = reading \ {task}

\* Streams, tasks and outputs stay in the maps.
RemoveInput ==
  /\ StopReader
  /\ task' = 0
  /\ DropPending
  /\ config' = FALSE
  /\ removed' = TRUE
  /\ asked' = {}
  /\ UNCHANGED <<streams, tasks, outputs, layouts, lastSub>>

\* subscribe_audio_internal and subscribe_video_internal.
Subscribe(av) ==
  \E v \in Views :
    /\ Has(v.ss, av)
    /\ LET i == FirstOf(v.ss, av).index
           steps == <<Step("decoder", i, Unset, FALSE)>>
       IN
         /\ decoders' = DecodersAfter(v, steps)
         /\ Asked(steps)
         /\ decoders'[i] # Unset
         /\ lastSub' = [index |-> i, epoch |-> decoders'[i].epoch]
    /\ StartInput(v)
    /\ UNCHANGED <<config, encoders, outputs, removed>>

\* No such stream, or it cannot be decoded: the input stays opened.
SubscribeFails(av) ==
  /\ \E v \in Views :
       /\ Has(v.ss, av) => decoders[FirstOf(v.ss, av).index] = Unset
       /\ Prepared(v)
  /\ UNCHANGED <<config, tasks, outputs, asked, removed, lastSub>>

BusNext ==
  \/ AddInput \/ RemoveInput
  \/ \E o \in Configs : AddOutput(o) \/ AddOutputFails(o)
  \/ \E av \in {"video", "audio"} : Subscribe(av) \/ SubscribeFails(av)

BusSpec == BusInit /\ [][BusNext]_busvars

-----------------------------------------------------------------------------
(* Properties *)

BusTypeOK ==
  /\ {config, pending, removed} \subseteq BOOLEAN
  /\ task \in 0..Len(layouts) /\ (pending => task # 0 /\ task \notin reading)
  /\ \A k \in DOMAIN streams : streams[k].index \in Index /\ streams[k].codec \in Codecs
  /\ \A i \in Index :
       /\ decoders[i] # Unset => decoders[i].epoch \in DOMAIN layouts
       /\ encoders[i] # Unset => encoders[i].epoch \in DOMAIN layouts /\ encoders[i].codec \in Codecs
  /\ Len(layouts) <= MaxOpens /\ reading \subseteq DOMAIN layouts

AcceptedTracks == UNION {{outputs[id].tracks[k] : k \in DOMAIN outputs[id].tracks} :
                           id \in {id \in OutputIds : outputs[id] # Unset}}

(***************************************************************************)
(* Until the input is removed, whatever the bus has said yes to is fed:    *)
(* every track of an accepted output and the latest subscription come from *)
(* a reader that was started, however many commands failed before.         *)
(***************************************************************************)
AcceptedIsFed ==
  ~removed =>
    /\ \A t \in AcceptedTracks : t.epoch \in reading
    /\ lastSub # Unset => lastSub.epoch \in reading

\* The bus never leaves two readers going.
OneReader == \A a, b \in reading : a = b

\* What an output wants of a stream: to have it transcoded, or as it is.
Transcoded(o, s) ==
  IF IsFileNet(o) THEN Settings(o, s) # Unset /\ EncodeNeeded(s, Settings(o, s))
  ELSE TryEncoder(s, o)

\* A track t of output o on stream s: copied as it is, or of the codec asked for
\* and, in a File or Net container, with no frame dropped.
TrackAsAsked(o, clash, t, s) ==
  /\ ~Transcoded(o, s) => t.packets = s.codec /\ t.header = s.codec
  /\ Transcoded(o, s) =>
       t.packets = EncoderCodec(s, Settings(o, s)) \/ s.index \in clash.codec
  /\ Transcoded(o, s) /\ IsFileNet(o) /\ s.codec # "raw" =>
       t.lossless \/ s.index \in clash.lossy

(***************************************************************************)
(* Tasks are shared by stream and keep the settings of whoever came first, *)
(* and that is the only way an accepted output gets anything but what it   *)
(* asked for: its tracks are copied or transcoded as its own settings say, *)
(* a File or Net transcode with no frame dropped (bus.rs:457-459), unless  *)
(* an EARLIER command, even one that failed after it had the task started, *)
(* had asked for another codec or a task that drops.  Later commands and   *)
(* failures change nothing.  Raw video is encoded from the packets, which  *)
(* are dropped in any case.                                                *)
(***************************************************************************)
AsAsked ==
  ~removed => \A id \in OutputIds : outputs[id] # Unset =>
    \A k \in DOMAIN outputs[id].tracks :
      LET t == outputs[id].tracks[k] IN
        TrackAsAsked(outputs[id].config, outputs[id].clash, t, At(streams, t.index))

(***************************************************************************)
(* No output is refused for want of a task that the bus forgot to start: an*)
(* encoder step is always preceded by the decoder it reads from, raw video *)
(* excepted (try_decoder and try_encoder are separate tables).  After a    *)
(* removal the streams of the old input stay in front of the new ones.     *)
(***************************************************************************)
EncodersHaveDecoders ==
  ~removed => \A o \in Configs : Has(streams, o.av) =>
    LET steps == Steps(streams, o) IN
      \A k \in DOMAIN steps : steps[k].kind = "encoder" /\ At(streams, steps[k].index).codec # "raw" =>
        \E j \in 1..k - 1 : steps[j].kind = "decoder" /\ steps[j].index = steps[k].index

(***************************************************************************)
(* The bus serves what it accepted: every accepted track is fed, by the one*)
(* reader there is, and no task an output needs was forgotten, whatever    *)
(* commands failed before.                                                 *)
(***************************************************************************)
OutputsServed == AcceptedIsFed /\ OneReader /\ EncodersHaveDecoders

=============================================================================
