------------------------------ MODULE Switcher ------------------------------
(* A director program (nvr/src/program, crates/nvr-switcher): every source is *)
(* decoded all the time and offers its frames to one bounded channel; the     *)
(* program loop encodes those of the active source; a switch changes the      *)
(* active source and asks for a keyframe, in two steps without a common lock. *)
EXTENDS Integers, Sequences, SequencesExt

CONSTANTS Inputs,     \* the program's sources, in order
          FramesHeld, \* frames the channel holds (2 s of them in the code)
          SwitchCalls \* requests that switch the program

ASSUME SwitcherAssumption == Inputs # <<>> /\ FramesHeld \in Nat \ {0}

VARIABLES
    prog,       \* the program: "off", "none", "checked", "started", "listed", "gone"
    live,       \* the sources that still deliver
    frameq,     \* tagged frames waiting for the loop
    active,     \* the selected source
    idr,        \* force_idr
    loop,       \* the program loop: where it is and the frame it holds
    sw,         \* the switches in progress: where each call is
    air,        \* source of the last frame encoded
    raced,      \* the loop was past its test while the active source changed
    bare        \* a source went on air without a keyframe, and not by a race

swvars == <<prog, live, frameq, active, idr, loop, sw, air, raced, bare>>

Ids == Range(Inputs)

Opening  == [at |-> "open", src |-> "none"]
Idle     == [at |-> "recv", src |-> "none"]
NoSwitch == [at |-> "none", to |-> "none"]

\* A switch has set the active source and not the flag yet.
HalfDone == \E c \in SwitchCalls : sw[c].at = "flag"

NobodySwitches == \A c \in SwitchCalls : sw[c] = NoSwitch

SwInit(on) ==
    /\ prog = IF on THEN "none" ELSE "off"
    /\ live = {} /\ frameq = <<>> /\ active = "none" /\ idr = FALSE
    /\ loop = [at |-> "ended", src |-> "none"] /\ sw = [c \in SwitchCalls |-> NoSwitch]
    /\ air = "none" /\ raced = FALSE /\ bare = FALSE

\* create, up to its test of the map.
CreateCheck ==
    /\ prog = "none" /\ prog' = "checked"
    /\ UNCHANGED <<live, frameq, active, idr, loop, sw, air, raced, bare>>

\* Switcher::start: every source is opened, or the call fails and drops those
\* that were; the first is active and the first frame is to be a keyframe.
Start ==
    /\ prog = "checked"
    /\ \/ /\ prog' = "started" /\ live' = Ids /\ frameq' = <<>>
          /\ active' = Inputs[1] /\ idr' = TRUE /\ loop' = Opening
          /\ air' = "none" /\ raced' = FALSE
       \/ prog' = "none" /\ UNCHANGED <<live, frameq, active, idr, loop, air, raced>>
    /\ UNCHANGED <<sw, bare>>

Insert ==
    /\ prog = "started" /\ prog' = "listed"
    /\ UNCHANGED <<live, frameq, active, idr, loop, sw, air, raced, bare>>

\* remove and shutdown drop the entry. A switch that holds it keeps it alive.
RemoveProgram ==
    /\ prog = "listed" /\ prog' = "gone"
    /\ UNCHANGED <<live, frameq, active, idr, loop, sw, air, raced, bare>>

\* The last holder is gone: the sources stop, and their senders with them.
DropSources ==
    /\ prog = "gone" /\ NobodySwitches /\ live # {} /\ live' = {}
    /\ UNCHANGED <<prog, frameq, active, idr, loop, sw, air, raced, bare>>

\* Source::start's task: a frame is offered, and dropped if the loop is behind.
Offer(s) ==
    /\ s \in live /\ Len(frameq) < FramesHeld /\ frameq' = Append(frameq, s)
    /\ UNCHANGED <<prog, live, active, idr, loop, sw, air, raced, bare>>

\* End of stream of one source: it stays selectable and delivers nothing.
SourceEnds(s) ==
    /\ s \in live /\ live' = live \ {s}
    /\ UNCHANGED <<prog, frameq, active, idr, loop, sw, air, raced, bare>>

\* ProgramSink::new: the encoder and the muxer are opened, or the loop ends at
\* once.
OpenSink ==
    /\ loop.at = "open" /\ loop' \in {Idle, [at |-> "ended", src |-> "none"]}
    /\ UNCHANGED <<prog, live, frameq, active, idr, sw, air, raced, bare>>

\* Mutant: the flag is taken for every frame, before the source is looked at.
M_Test ==
    /\ loop.at = "recv" /\ frameq # <<>> /\ frameq' = Tail(frameq)
    /\ loop' = IF Head(frameq) = active THEN [at |-> "swap", src |-> Head(frameq)] ELSE Idle
    /\ idr' = (IF Head(frameq) = active THEN idr ELSE FALSE)
    /\ UNCHANGED <<prog, live, active, sw, air, raced, bare>>

\* run_program: a frame of a source that is not active is passed over.
Test ==
    /\ loop.at = "recv" /\ frameq # <<>> /\ frameq' = Tail(frameq)
    /\ loop' = IF Head(frameq) = active THEN [at |-> "swap", src |-> Head(frameq)] ELSE Idle
    /\ UNCHANGED <<prog, live, active, idr, sw, air, raced, bare>>

\* The frame is scaled, the flag taken and the frame encoded and muxed.
EncodeFrame ==
    /\ loop.at = "swap" /\ loop' = Idle /\ idr' = FALSE
    /\ air' = loop.src
    /\ bare' = (bare \/ (loop.src # air /\ ~idr /\ ~raced /\ ~HalfDone))
    /\ raced' = (raced /\ ~(loop.src # air /\ loop.src = active /\ ~HalfDone))
    /\ UNCHANGED <<prog, live, frameq, active, sw>>

\* The encoder or the muxer fails: the loop ends while the program stays listed.
EncodeError ==
    /\ loop.at = "swap" /\ loop' = [at |-> "ended", src |-> "none"]
    /\ UNCHANGED <<prog, live, frameq, active, idr, sw, air, raced, bare>>

\* Mutant: the switcher keeps a sender of its own.
M_LoopFinishes ==
    /\ loop.at = "recv" /\ frameq = <<>> /\ live = {} /\ prog = "off"
    /\ loop' = [at |-> "ended", src |-> "none"]
    /\ UNCHANGED <<prog, live, frameq, active, idr, sw, air, raced, bare>>

\* Every sender is gone: the loop is left.
LoopFinishes ==
    /\ loop.at = "recv" /\ frameq = <<>> /\ live = {}
    /\ loop' = [at |-> "flush", src |-> "none"]
    /\ UNCHANGED <<prog, live, frameq, active, idr, sw, air, raced, bare>>

\* finish: what the encoder still holds is written.
Flushed ==
    /\ loop.at = "flush" /\ loop' = [at |-> "ended", src |-> "none"]
    /\ UNCHANGED <<prog, live, frameq, active, idr, sw, air, raced, bare>>

\* switch, the lookup: an unknown program or source is refused. Two requests
\* may be under way.
SwitchBegin(c, s) ==
    /\ prog = "listed" /\ sw[c] = NoSwitch
    /\ sw' = [sw EXCEPT ![c] = [at |-> "active", to |-> s]]
    /\ UNCHANGED <<prog, live, frameq, active, idr, loop, air, raced, bare>>

\* switch, under the lock of active: the loop may be past its test.
SwitchActive(c) ==
    /\ sw[c].at = "active" /\ active' = sw[c].to /\ sw' = [sw EXCEPT ![c].at = "flag"]
    /\ raced' = (raced \/ loop.at = "swap")
    /\ UNCHANGED <<prog, live, frameq, idr, loop, air, bare>>

\* switch, the flag: a frame of the new source that was tested or encoded
\* between the two steps went without it.
SwitchFlag(c) ==
    /\ sw[c].at = "flag" /\ idr' = TRUE /\ sw' = [sw EXCEPT ![c] = NoSwitch]
    /\ UNCHANGED <<prog, live, frameq, active, loop, air, raced, bare>>

\* What the loop does by itself; opening the output and writing to it have no
\* time limit.
ProgramStep == Test \/ LoopFinishes

SinkStep == OpenSink \/ EncodeFrame \/ EncodeError \/ Flushed

SwNext ==
    \/ CreateCheck \/ Start \/ Insert \/ RemoveProgram \/ ProgramStep \/ SinkStep \/ DropSources
    \/ \E c \in SwitchCalls : SwitchActive(c) \/ SwitchFlag(c) \/ \E s \in Ids : SwitchBegin(c, s)
    \/ \E s \in Ids : Offer(s) \/ SourceEnds(s)

(***************************************************************************)
(* Properties.                                                             *)
(***************************************************************************)

\* A source that goes on air begins with a keyframe, so that a player sees the
\* switch at once, unless the loop was between its test of the source and the
\* keyframe flag while a switch changed the two.
OnAirKeyed == ~bare

\* The loop opens its output or writes to it.
Writing == loop.at \in {"open", "swap", "flush"}

\* A removed program stops publishing: once its last holder is gone the loop
\* drains the channel and ends, unless its output takes no data for ever.
RemovedEnds == (prog = "gone" /\ NobodySwitches) ~> (loop.at = "ended" \/ []Writing)

=============================================================================
