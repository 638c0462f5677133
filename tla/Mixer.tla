------------------------------- MODULE Mixer -------------------------------
(***************************************************************************)
(* The audio mixing console: nvr/src/audiomixer/mod.rs over                *)
(* crates/nvr-audio-mixer and DynamicMixerTask of crates/ffmpeg-bus.       *)
(*                                                                         *)
(* A pool of decoded sources feeds buses.  A bus has knobs (the controls   *)
(* the API turns) and a mixing thread that has inputs of its own; the two  *)
(* meet in a queue of commands.  Every change ends with persist_all, which *)
(* writes all buses to one row; at start restore_all creates them again,   *)
(* beside the API.  Sound is data: an input is heard or not, with the      *)
(* settings of the knob that the thread reads.                             *)
(***************************************************************************)
EXTENDS Naturals, Sequences, FiniteSets

CONSTANTS
  BusIds, Srcs, Volumes,
  Calls,       \* bound: API calls, each used once
  Late,        \* the ones that come when restore_all is through
  Boot,        \* the task that runs restore_all
  Halt,        \* main's teardown, which runs shutdown
  None,
  Requests,    \* what the calls may ask: [op, bus, inputs, muted]
  Starts,      \* how the model may begin: the row, and the calls to be made,
               \* Halt included
  MaxFaults    \* bound: things that go wrong: a stream that faults, a source that
               \* cannot be opened, an encoder that cannot be made, a save that fails

Procs   == Calls \cup {Boot, Halt}
Input   == [src : Srcs, volume : Volumes]
Setting == [volume : Volumes, muted : BOOLEAN]
Row     == [BusIds -> [Srcs -> Setting \cup {None}] \cup {None}]

ASSUME MixerAssumption ==
  /\ Boot \notin Calls /\ Halt \notin Calls \cup {Boot}
  /\ None \notin Setting \cup Procs \cup [Srcs -> Setting \cup {None}]
  /\ None \notin [buses : SUBSET BusIds, srcs : SUBSET Srcs]
  /\ IsFiniteSet(Srcs)
  /\ Requests \subseteq [op : {"create", "remove", "add", "take", "volume", "mute"},
                         bus : BusIds, inputs : Seq(Input), muted : BOOLEAN]
  /\ \A r \in Requests : r.op \in {"add", "take", "volume", "mute"} => Len(r.inputs) = 1
  /\ Late \subseteq Calls
  /\ Starts \subseteq [row : Row, calls : SUBSET (Calls \cup {Halt})]
  /\ MaxFaults \in Nat

VARIABLES
  source,   \* AudioSource objects: [dev, st]
  pool,     \* AudioMixer::sources: device -> source, 0 without one
  loop,     \* DynamicMixerTask objects and their threads
  buses,    \* AudioMixer::buses: id -> loop, 0 without one
  row,      \* the KV row
  call,     \* [pc, job, at, src, loop, snap, mutes] of every call
  saved,    \* buses restore_all has still to create
  faults,   \* things that have gone wrong
  (* Observation only. *)
  touched,  \* an API call has begun
  clean     \* no two of calls, restore_all and shutdown have overlapped, no save
            \* failed, and restore_all has not given up

vars == <<source, pool, loop, buses, row, call, saved, faults, touched, clean>>

Source == [dev : Srcs, st : {"run", "ended", "stopped"}]

\* A receiver: the source it is subscribed to, and whether that was still running.
Receiver == [src : Nat, early : BOOLEAN]
Loop == [knobs : Seq(Setting),                      \* the Arcs of all inputs so far
         controls : [Srcs -> Nat],                  \* the API's: 0 or a knob
         queue : Seq([src : Srcs, knob : Nat, rx : Receiver]),   \* knob 0: Remove
         active : [Srcs -> [knob : Nat, rx : Receiver]],         \* the thread's
         st : {"run", "stopped", "leaked"}]

NoRow   == [b \in BusIds |-> None]
NoRx    == [src |-> 0, early |-> FALSE]
Silent  == [knob |-> 0, rx |-> NoRx]
Idle(at) == [pc |-> at, job |-> None, at |-> 1, src |-> 0, loop |-> 0,
             snap |-> NoRow, mutes |-> {}]

At(p, pc) == call[p].pc = pc
Busy(p)   == call[p].pc \notin {"idle", "next", "done"}
Job(p)    == call[p].job
Cur(p)    == Job(p).inputs[call[p].at]       \* the input a call is at

\* What goes wrong is counted.
Fault(ok) == faults' = (IF ok THEN faults ELSE faults + 1) /\ faults' <= MaxFaults

Go(p, pc) == call' = [call EXCEPT ![p].pc = pc] /\ UNCHANGED clean

\* Mutant: a restored bus does not get its mutes back.
M_AfterSave(p) == Idle(IF p = Boot THEN "next" ELSE "done")

\* restore_all goes on to mute what was muted, one call after the other.
AfterSave(p) ==
  IF p # Boot THEN Idle("done")
  ELSE IF call[p].mutes = {} THEN Idle("next")
  ELSE LET s == CHOOSE x \in call[p].mutes : TRUE
       IN [Idle("mute") EXCEPT !.job = [Job(p) EXCEPT !.op = "mute", !.muted = TRUE,
                                          !.inputs = <<[src |-> s, volume |-> 0]>>],
                               !.mutes = call[p].mutes \ {s}]

\* An error: the call is answered with it; restore_all tries to create the bus
\* again until its budget is used up, and does not mind an input it cannot mute.
Fail(p) ==
  \/ p # Boot /\ call' = [call EXCEPT ![p] = Idle("done")] /\ UNCHANGED clean
  \/ /\ p = Boot /\ Job(p).op = "mute" /\ UNCHANGED clean
     /\ call' = [call EXCEPT ![p] = AfterSave(p)]
  \/ /\ p = Boot /\ Job(p).op = "create" /\ UNCHANGED clean
     /\ call' = [call EXCEPT ![p] =
                   [Idle("ensure") EXCEPT !.job = Job(p), !.mutes = call[p].mutes]]
  \/ /\ p = Boot /\ Job(p).op = "create" /\ clean' = FALSE
     /\ call' = [call EXCEPT ![p] = Idle("next")]

Init ==
  /\ source = <<>> /\ pool = [s \in Srcs |-> 0]
  /\ loop = <<>> /\ buses = [b \in BusIds |-> 0]
  /\ \E s \in Starts :
       /\ row = s.row
       /\ call = [p \in Procs |-> Idle(IF p = Boot THEN "next"
                                       ELSE IF p \in s.calls THEN "idle"
                                       ELSE "done")]
  /\ saved = row /\ faults = 0 /\ touched = FALSE /\ clean = TRUE

-----------------------------------------------------------------------------
(* How calls begin.  create_bus and add_input first ensure their sources.   *)

First == [create |-> "ensure", add |-> "ensure", remove |-> "remove", take |-> "take",
          volume |-> "volume", mute |-> "mute"]

Alone(p) == \A q \in Procs \ {p} : ~Busy(q)

Begin(c, r) ==
  /\ At(c, "idle") /\ call[Halt].job = None
  /\ c \in Late => saved = NoRow /\ ~Busy(Boot)
  /\ call' = [call EXCEPT ![c].pc = First[r.op], ![c].job = r]
  /\ touched' = TRUE /\ clean' = (clean /\ Alone(c))
  /\ UNCHANGED <<source, pool, loop, buses, row, saved, faults>>

\* A persisted bus as the inputs create_bus is called with, in any order: they
\* were the values of a map.
IsInputs(is, bus) ==
  /\ {i.src : i \in {is[k] : k \in DOMAIN is}} = {s \in Srcs : bus[s] # None}
  /\ Len(is) = Cardinality({s \in Srcs : bus[s] # None})
  /\ \A k \in DOMAIN is : is[k].volume = bus[is[k].src].volume

RestoreNext(b) ==
  /\ At(Boot, "next") /\ saved[b] # None
  /\ saved' = [saved EXCEPT ![b] = None]
  /\ \E is \in UNION {[1..n -> Input] : n \in 0..Cardinality(Srcs)} :
       /\ IsInputs(is, saved[b])
       /\ call' = [call EXCEPT ![Boot].pc = "ensure",
                     ![Boot].job = [op |-> "create", bus |-> b, inputs |-> is, muted |-> FALSE],
                     ![Boot].mutes = {s \in Srcs : saved[b][s] # None /\ saved[b][s].muted}]
  /\ clean' = (clean /\ Alone(Boot))
  /\ UNCHANGED <<source, pool, loop, buses, row, faults, touched>>

-----------------------------------------------------------------------------
(* AudioMixer::ensure_source: look under the lock, open without it, and     *)
(* insert if there is still none; what is not inserted is dropped.          *)

AfterEnsure(p) ==
  IF call[p].at < Len(Job(p).inputs) THEN [call[p] EXCEPT !.pc = "ensure", !.at = @ + 1, !.src = 0]
  ELSE [call[p] EXCEPT !.pc = IF Job(p).op = "create" THEN "start" ELSE "add", !.src = 0]

EnsureLook(p) ==
  /\ At(p, "ensure")
  /\ \/ /\ Job(p).inputs = <<>> /\ Fail(p)
     \/ /\ Job(p).inputs # <<>> /\ UNCHANGED clean
        /\ call' = [call EXCEPT ![p] = IF pool[Cur(p).src] # 0 THEN AfterEnsure(p)
                                       ELSE [@ EXCEPT !.pc = "open"]]
  /\ UNCHANGED <<source, pool, loop, buses, row, saved, faults, touched>>

EnsureOpen(p, ok) ==
  /\ At(p, "open") /\ Fault(ok)
  /\ \/ ~ok /\ Fail(p) /\ UNCHANGED source
     \/ /\ ok /\ UNCHANGED clean
        /\ source' = Append(source, [dev |-> Cur(p).src, st |-> "run"])
        /\ call' = [call EXCEPT ![p].pc = "insert", ![p].src = Len(source) + 1]
  /\ UNCHANGED <<pool, loop, buses, row, saved, touched>>

\* Mutant: insert instead of or_insert, and the old Arc forgotten.
M_EnsureReplaces(p) ==
  /\ At(p, "insert")
  /\ pool' = [pool EXCEPT ![Cur(p).src] = call[p].src]
  /\ call' = [call EXCEPT ![p] = AfterEnsure(p)]
  /\ UNCHANGED <<source, loop, buses, row, saved, faults, touched, clean>>

EnsureInsert(p) ==
  LET s == Cur(p).src  mine == call[p].src IN
  /\ At(p, "insert")
  /\ pool' = IF pool[s] = 0 THEN [pool EXCEPT ![s] = mine] ELSE pool
  /\ source' = IF pool[s] = 0 THEN source ELSE [source EXCEPT ![mine].st = "stopped"]
  /\ call' = [call EXCEPT ![p] = AfterEnsure(p)]
  /\ UNCHANGED <<loop, buses, row, saved, faults, touched, clean>>

\* The stream of a source ends: EOF to all who are subscribed.  The source stays
\* in the pool.
SourceEnds(k) ==
  /\ source[k].st = "run" /\ Fault(FALSE)
  /\ source' = [source EXCEPT ![k].st = "ended"]
  /\ UNCHANGED <<pool, loop, buses, row, call, saved, touched, clean>>

-----------------------------------------------------------------------------
(* The knobs of a bus.  Each of these runs under the lock of `buses`.       *)

Subscribe(s) == [src |-> pool[s], early |-> source[pool[s]].st = "run"]

\* Mutant: an input that is there keeps its knob, and the thread gets a new one.
M_Plug(l, s, volume) ==
  LET k == Len(l.knobs) + 1 IN
  [l EXCEPT !.knobs = Append(@, [volume |-> volume, muted |-> FALSE]),
            !.controls = [@ EXCEPT ![s] = IF @ = 0 THEN k ELSE @],
            !.queue = Append(@, [src |-> s, knob |-> k, rx |-> Subscribe(s)])]

\* DynamicMixerTask::add_input: new Arcs for the API and the thread.
Plug(l, s, volume) ==
  LET k == Len(l.knobs) + 1 IN
  [l EXCEPT !.knobs = Append(@, [volume |-> volume, muted |-> FALSE]),
            !.controls = [@ EXCEPT ![s] = k],
            !.queue = Append(@, [src |-> s, knob |-> k, rx |-> Subscribe(s)])]

Unplug(l, s) ==
  IF l.controls[s] = 0 THEN l
  ELSE [l EXCEPT !.controls = [@ EXCEPT ![s] = 0],
                 !.queue = Append(@, [src |-> s, knob |-> 0, rx |-> NoRx])]

NewLoop == [knobs |-> <<>>, controls |-> [s \in Srcs |-> 0], queue |-> <<>>,
            active |-> [s \in Srcs |-> Silent], st |-> "run"]

\* MixBus::start, after the template was found: the mixing thread runs before the
\* encoder is made, and nobody cancels it if that fails.
StartBus(p, ok) ==
  /\ At(p, "start") /\ Fault(ok)
  /\ IF pool[Job(p).inputs[1].src] = 0 THEN ok /\ Fail(p) /\ UNCHANGED loop
     ELSE \/ /\ ok /\ loop' = Append(loop, NewLoop) /\ UNCHANGED clean
             /\ call' = [call EXCEPT ![p].pc = "fill", ![p].loop = Len(loop) + 1]
          \/ /\ ~ok /\ loop' = Append(loop, [NewLoop EXCEPT !.st = "leaked"])
             /\ Fail(p)
  /\ UNCHANGED <<source, pool, buses, row, saved, touched>>

\* The inputs whose sources are in the pool, all under its lock.
Filled(l, is) ==
  LET f[n \in 0..Len(is)] ==
        IF n = 0 THEN l
        ELSE IF pool[is[n].src] = 0 THEN f[n - 1]
        ELSE Plug(f[n - 1], is[n].src, is[n].volume)
  IN f[Len(is)]

FillBus(p) ==
  /\ At(p, "fill")
  /\ loop' = [loop EXCEPT ![call[p].loop] = Filled(@, Job(p).inputs)]
  /\ Go(p, "list")
  /\ UNCHANGED <<source, pool, buses, row, saved, faults, touched>>

\* Drop for MixBus cancels the thread.
Stop(k) == IF k = 0 THEN loop ELSE [loop EXCEPT ![k] = [NewLoop EXCEPT !.st = "stopped"]]

ListBus(p) ==
  /\ At(p, "list")
  /\ buses' = [buses EXCEPT ![Job(p).bus] = call[p].loop]
  /\ loop' = Stop(buses[Job(p).bus])
  /\ call' = [call EXCEPT ![p].pc = "persist", ![p].loop = 0]
  /\ UNCHANGED <<source, pool, row, saved, faults, touched, clean>>

RemoveBus(p) ==
  LET k == buses[Job(p).bus] IN
  /\ At(p, "remove")
  /\ \/ k = 0 /\ Fail(p) /\ UNCHANGED <<buses, loop>>
     \/ /\ k # 0 /\ Go(p, "persist")
        /\ buses' = [buses EXCEPT ![Job(p).bus] = 0] /\ loop' = Stop(k)
  /\ UNCHANGED <<source, pool, row, saved, faults, touched>>

AddInput(p) ==
  LET k == buses[Job(p).bus]  i == Job(p).inputs[1] IN
  /\ At(p, "add")
  /\ \/ (k = 0 \/ pool[i.src] = 0) /\ Fail(p) /\ UNCHANGED loop
     \/ /\ k # 0 /\ pool[i.src] # 0 /\ Go(p, "persist")
        /\ loop' = [loop EXCEPT ![k] = Plug(@, i.src, i.volume)]
  /\ UNCHANGED <<source, pool, buses, row, saved, faults, touched>>

\* The bus a call is about and the source it names.
MyBus(p) == loop[buses[Job(p).bus]]
MySrc(p) == Job(p).inputs[1].src

\* bus_remove_input, bus_set_volume and bus_set_muted need the bus and the input.
OnInput(p, pc, changed) ==
  LET k == buses[Job(p).bus]
      ok == k # 0 /\ loop[k].controls[MySrc(p)] # 0
  IN /\ At(p, pc)
     /\ \/ ~ok /\ Fail(p) /\ UNCHANGED loop
        \/ ok /\ Go(p, "persist") /\ loop' = [loop EXCEPT ![k] = changed]
     /\ UNCHANGED <<source, pool, buses, row, saved, faults, touched>>

RemoveInput(p) == OnInput(p, "take", Unplug(MyBus(p), MySrc(p)))
SetVolume(p) ==
  OnInput(p, "volume",
          [MyBus(p) EXCEPT !.knobs[MyBus(p).controls[MySrc(p)]].volume = Job(p).inputs[1].volume])
\* Mutant: a muted input loses its volume.
M_SetMuted(p) ==
  OnInput(p, "mute", [MyBus(p) EXCEPT !.knobs[MyBus(p).controls[MySrc(p)]] =
                                       [volume |-> 0, muted |-> Job(p).muted]])

SetMuted(p) ==
  OnInput(p, "mute", [MyBus(p) EXCEPT !.knobs[MyBus(p).controls[MySrc(p)]].muted = Job(p).muted])

-----------------------------------------------------------------------------
(* persist_all, and what restore_all does after it                          *)

Settings(l) == [s \in Srcs |-> IF l.controls[s] = 0 THEN None ELSE l.knobs[l.controls[s]]]

Snapshot(p) ==
  /\ At(p, "persist")
  /\ call' = [call EXCEPT ![p].pc = "save", ![p].snap =
       [b \in BusIds |-> IF buses[b] = 0 THEN None ELSE Settings(loop[buses[b]])]]
  /\ UNCHANGED <<source, pool, loop, buses, row, saved, faults, touched, clean>>

\* set_json; a failure is only logged, and the client may be gone by now.
Save(p, ok) ==
  /\ At(p, "save") /\ Fault(ok)
  /\ row' = IF ok THEN call[p].snap ELSE row
  /\ call' = [call EXCEPT ![p] = AfterSave(p)]
  /\ clean' = (clean /\ ok)
  /\ UNCHANGED <<source, pool, loop, buses, saved, touched>>

-----------------------------------------------------------------------------
(* shutdown: what the snapshot had, buses first, then sources; it persists  *)
(* nothing.                                                                 *)

HaltBegin ==
  /\ At(Halt, "idle")
  /\ call' = [call EXCEPT ![Halt] = [Idle("halt") EXCEPT !.job =
       [buses |-> {b \in BusIds : buses[b] # 0}, srcs |-> {s \in Srcs : pool[s] # 0}]]]
  /\ clean' = (clean /\ Alone(Halt) /\ saved = NoRow)
  /\ UNCHANGED <<source, pool, loop, buses, row, saved, faults, touched>>

HaltBus(b) ==
  /\ At(Halt, "halt") /\ b \in Job(Halt).buses
  /\ buses' = [buses EXCEPT ![b] = 0] /\ loop' = Stop(buses[b])
  /\ call' = [call EXCEPT ![Halt].job.buses = @ \ {b}]
  /\ UNCHANGED <<source, pool, row, saved, faults, touched, clean>>

\* remove_source: out of the pool, then off every bus.
HaltSource(s) ==
  /\ At(Halt, "halt") /\ Job(Halt).buses = {} /\ s \in Job(Halt).srcs
  /\ pool' = [pool EXCEPT ![s] = 0]
  /\ source' = IF pool[s] = 0 THEN source ELSE [source EXCEPT ![pool[s]].st = "stopped"]
  /\ call' = [call EXCEPT ![Halt].pc = "detach", ![Halt].job.srcs = @ \ {s}, ![Halt].snap = s]
  /\ UNCHANGED <<loop, buses, row, saved, faults, touched, clean>>

HaltDetach ==
  /\ At(Halt, "detach")
  /\ loop' = [k \in DOMAIN loop |-> IF \E b \in BusIds : buses[b] = k
                                    THEN Unplug(loop[k], call[Halt].snap) ELSE loop[k]]
  /\ call' = [call EXCEPT ![Halt].pc = "halt", ![Halt].snap = NoRow]
  /\ UNCHANGED <<source, pool, buses, row, saved, faults, touched, clean>>

HaltEnd ==
  /\ At(Halt, "halt") /\ Job(Halt).buses = {} /\ Job(Halt).srcs = {}
  /\ call' = [call EXCEPT ![Halt].pc = "done"]
  /\ UNCHANGED <<source, pool, loop, buses, row, saved, faults, touched, clean>>

-----------------------------------------------------------------------------
(* What the thread of a loop mixes once it has applied what is queued.      *)
Pending(l, s) == {i \in DOMAIN l.queue : l.queue[i].src = s}
Latest(S) == CHOOSE i \in S : \A j \in S : j <= i
Applied(l, s) == IF Pending(l, s) = {} THEN l.active[s]
                 ELSE LET c == l.queue[Latest(Pending(l, s))]
                      IN [knob |-> c.knob, rx |-> c.rx]

(* mix_loop: apply the commands, or notice that an input has ended.         *)
MixApply(k) ==
  /\ loop[k].st # "stopped" /\ loop[k].queue # <<>>
  /\ loop' = [loop EXCEPT ![k].queue = <<>>,
                          ![k].active = [s \in Srcs |-> Applied(loop[k], s)]]
  /\ UNCHANGED <<source, pool, buses, row, call, saved, faults, touched, clean>>

\* EOF reaches those who were subscribed; a dropped source closes its channel.
Dead(rx) == \/ source[rx.src].st = "ended" /\ rx.early
            \/ source[rx.src].st = "stopped"

MixDead(k, s) ==
  /\ loop[k].st # "stopped" /\ loop[k].queue = <<>>
  /\ loop[k].active[s].knob # 0 /\ Dead(loop[k].active[s].rx)
  /\ loop' = [loop EXCEPT ![k].active[s] = Silent]
  /\ UNCHANGED <<source, pool, buses, row, call, saved, faults, touched, clean>>

-----------------------------------------------------------------------------
Step(p) ==
  \/ EnsureLook(p) \/ (\E ok \in BOOLEAN : EnsureOpen(p, ok)) \/ EnsureInsert(p)
  \/ (\E ok \in BOOLEAN : StartBus(p, ok)) \/ FillBus(p) \/ ListBus(p) \/ RemoveBus(p)
  \/ AddInput(p) \/ RemoveInput(p) \/ SetVolume(p) \/ SetMuted(p)
  \/ Snapshot(p) \/ (\E ok \in BOOLEAN : Save(p, ok))

Next ==
  \/ \E p \in Calls \cup {Boot} : Step(p)
  \/ \E c \in Calls, r \in Requests : Begin(c, r)
  \/ \E b \in BusIds : RestoreNext(b) \/ HaltBus(b)
  \/ HaltBegin \/ HaltDetach \/ HaltEnd \/ \E s \in Srcs : HaltSource(s)
  \/ \E k \in DOMAIN source : SourceEnds(k)
  \/ \E k \in DOMAIN loop : MixApply(k) \/ \E s \in Srcs : MixDead(k, s)

Spec == Init /\ [][Next]_vars

-----------------------------------------------------------------------------
KnobOf(l, s) == Applied(l, s).knob

Heard == [b \in BusIds |->
            IF buses[b] = 0 THEN None
            ELSE LET l == loop[buses[b]]
                 IN [s \in Srcs |-> IF KnobOf(l, s) = 0 THEN None ELSE l.knobs[KnobOf(l, s)]]]

Console == INSTANCE MixConsole WITH desk <- Heard

(***************************************************************************)
(* The console is implemented: what the mixing threads hear, once they     *)
(* have caught up with their queues, changes only as MixConsole allows,    *)
(* one operation at a time, however calls, restore_all, shutdown and the   *)
(* ends of streams interleave.                                             *)
(***************************************************************************)
ConsoleImplemented == Console!Spec

(***************************************************************************)
(* The knob works: for every input the API lists, the thread reads the     *)
(* very knob the API turns once its queue is applied, unless it has seen   *)
(* the source of that input end; and it mixes nothing the API does not     *)
(* list.                                                                   *)
(***************************************************************************)
KnobWorks ==
  \A b \in BusIds : buses[b] # 0 =>
    LET l == loop[buses[b]] IN
    \A s \in Srcs : /\ KnobOf(l, s) \in {l.controls[s], 0}
                    /\ (KnobOf(l, s) = 0 /\ l.controls[s] # 0) =>
                         \E k \in DOMAIN source : source[k].dev = s /\ source[k].st # "run"

(***************************************************************************)
(* Nothing runs unowned: a source that reads is in the pool or with the    *)
(* call that opened it, at most one per device is in the pool, and a       *)
(* mixing thread belongs to a listed bus or to the call that creates it,   *)
(* whatever fails or overlaps, unless its encoder could not be made.       *)
(***************************************************************************)
NothingUnowned ==
  /\ \A k \in DOMAIN source : source[k].st = "run" =>
       pool[source[k].dev] = k \/ \E p \in Procs : call[p].src = k
  /\ \A k \in DOMAIN loop : loop[k].st = "run" =>
       (\E b \in BusIds : buses[b] = k) \/ \E p \in Procs : call[p].loop = k

(***************************************************************************)
(* Saved as it is: when nothing is going on, nothing overlapped and        *)
(* nothing failed, the row is what the buses are, mutes included; and      *)
(* restoring, which saves several times on its way, ends with the row it   *)
(* began with if no API call came in.                                      *)
(***************************************************************************)
SavedAsIs ==
  (clean /\ saved = NoRow /\ (\A p \in Procs : ~Busy(p))) =>
    /\ call[Halt].job = None =>
         row = [b \in BusIds |-> IF buses[b] = 0 THEN None ELSE Settings(loop[buses[b]])]
    /\ ~touched => \E s \in Starts : row = s.row
=============================================================================
