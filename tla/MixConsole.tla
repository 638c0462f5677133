----------------------------- MODULE MixConsole -----------------------------
(***************************************************************************)
(* What the audio mixing console promises, without threads, queues or      *)
(* knobs shared between them: what each bus mixes, and how that may        *)
(* change.  One operation changes one input, or takes one source off some  *)
(* buses; a bus starts with nothing muted; nothing else ever changes what  *)
(* is heard, in particular no input comes back or loses its mute by        *)
(* itself.  Mixer.tla implements it (crates/nvr-audio-mixer/src/lib.rs).   *)
(***************************************************************************)
CONSTANTS BusIds, Srcs, Volumes, None

VARIABLE desk   \* bus -> None, or source -> None or its settings on the bus

Setting == [volume : Volumes, muted : BOOLEAN]
Fresh   == [volume : Volumes, muted : {FALSE}]

Init == desk = [b \in BusIds |-> None]

\* An operation changes one bus, or one input of a bus.
OnlyBus(b) == \A c \in BusIds \ {b} : desk'[c] = desk[c]
OnlyInput(b, s) == /\ OnlyBus(b) /\ desk[b] # None /\ desk'[b] # None
                   /\ \A t \in Srcs \ {s} : desk'[b][t] = desk[b][t]

\* create_bus, which replaces a bus of the same id.
Open(b) ==
  /\ OnlyBus(b) /\ desk'[b] # None
  /\ \A s \in Srcs : desk'[b][s] \in Fresh \cup {None}

Close(b) == OnlyBus(b) /\ desk'[b] = None

\* bus_add_input: also over an input that is there.
Put(b, s) == OnlyInput(b, s) /\ desk'[b][s] \in Fresh

\* bus_remove_input, remove_source, and the end of a source's stream.
Take(B, s) ==
  desk' = [b \in BusIds |-> IF b \in B THEN [desk[b] EXCEPT ![s] = None] ELSE desk[b]]

\* bus_set_volume and bus_set_muted turn one knob.
Turn(b, s) ==
  /\ OnlyInput(b, s) /\ desk[b][s] # None /\ desk'[b][s] \in Setting
  /\ \/ desk'[b][s].volume = desk[b][s].volume
     \/ desk'[b][s].muted = desk[b][s].muted

Next ==
  \/ \E b \in BusIds : Open(b) \/ Close(b) \/ \E s \in Srcs : Put(b, s) \/ Turn(b, s)
  \/ \E B \in SUBSET {b \in BusIds : desk[b] # None}, s \in Srcs : Take(B, s)

Spec == Init /\ [][Next]_desk
=============================================================================
