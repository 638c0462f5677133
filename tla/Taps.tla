-------------------------------- MODULE Taps --------------------------------
(* The taps on a pipe: speech recognition and object detection (nvr/src/asr,  *)
(* nvr/src/detect). A hub has a registry of running taps and models it loads  *)
(* once; start looks, subscribes, loads and registers with awaits in between, *)
(* and stop cancels whatever is registered. One pipe, and one of the hubs.    *)
(* Inference and what it finds are data.                                      *)
EXTENDS Naturals, FiniteSets

CONSTANTS
    TapCalls,     \* bound: start requests, each made once; a tap is named by its request
    MaxPipes      \* bound: how often a pipe is started under the id

ASSUME TapsAssumption == "none" \notin TapCalls /\ MaxPipes \in Nat

VARIABLES
    hub,        \* "asr", "detect", or another puller is looked at
    pipe,       \* the pipe in the manager's map, 0 without one
    pipes,      \* pipes started so far
    running,    \* the registry: the tap whose token it holds, or "none"
    models,     \* loaded, and the request that holds the lock
    start,      \* a start request: where it stands and the pipe it subscribed to
    tap,        \* a tap: where it is, the pipe it listens to, its token
    latest      \* the tap that stored the latest result

tapvars == <<hub, pipe, pipes, running, models, start, tap, latest>>

NoTap == [st |-> "none", src |-> 0, cancelled |-> FALSE]

TapsInit(who) ==
    /\ hub = IF who \in {"asr", "detect"} THEN who ELSE "off"
    /\ pipe = 0 /\ pipes = 0 /\ running = "none" /\ latest = "none"
    /\ models = [loaded |-> FALSE, lock |-> "none"]
    /\ start = [c \in TapCalls |-> [pc |-> "idle", src |-> 0]]
    /\ tap = [c \in TapCalls |-> NoTap]

StartAt(c, pc) == hub # "off" /\ start[c].pc = pc
StartTo(c, pc) == start' = [start EXCEPT ![c].pc = pc]

\* start's first test; a registered tap answers "already running".
IsRunning(c) ==
    /\ StartAt(c, "idle") /\ StartTo(c, IF running = "none" THEN "pipe" ELSE "done")
    /\ UNCHANGED <<hub, pipe, pipes, running, models, tap, latest>>

\* get_pipe, then the subscription, which fails when the pipe is not started or
\* has no such stream.
GetPipe(c) ==
    /\ StartAt(c, "pipe")
    /\ \/ pipe = 0 /\ StartTo(c, "done")
       \/ pipe # 0 /\ start' = [start EXCEPT ![c] = [pc |-> "subscribe", src |-> pipe]]
    /\ UNCHANGED <<hub, pipe, pipes, running, models, tap, latest>>

Subscribe(c) ==
    /\ StartAt(c, "subscribe") /\ (StartTo(c, "models") \/ StartTo(c, "done"))
    /\ UNCHANGED <<hub, pipe, pipes, running, models, tap, latest>>

\* models() and detectors(): cached, or loaded with the lock held.
LockModels(c) ==
    /\ StartAt(c, "models") /\ models.lock = "none"
    /\ \/ models.loaded /\ StartTo(c, "register") /\ UNCHANGED models
       \/ ~models.loaded /\ StartTo(c, "load") /\ models' = [models EXCEPT !.lock = c]
    /\ UNCHANGED <<hub, pipe, pipes, running, tap, latest>>

LoadModels(c, ok) ==
    /\ StartAt(c, "load") /\ models' = [loaded |-> ok, lock |-> "none"]
    /\ StartTo(c, IF ok THEN "register" ELSE "done")
    /\ UNCHANGED <<hub, pipe, pipes, running, tap, latest>>

\* Mutant: the second look at the registry is left out.
M_TapRegister(c) ==
    /\ StartAt(c, "register") /\ running' = c
    /\ tap' = [tap EXCEPT ![c] = [st |-> "spawned", src |-> start[c].src, cancelled |-> FALSE]]
    /\ StartTo(c, "done") /\ UNCHANGED <<hub, pipe, pipes, models, latest>>

\* register and the spawn of the tap, with no await between; a detection may
\* have asked for models that do not exist.
TapRegister(c) ==
    /\ StartAt(c, "register") /\ StartTo(c, "done")
    /\ \/ /\ running = "none" /\ running' = c
          /\ tap' = [tap EXCEPT ![c] = [st |-> "spawned", src |-> start[c].src, cancelled |-> FALSE]]
       \/ (running # "none" \/ hub = "detect") /\ UNCHANGED <<running, tap>>
    /\ UNCHANGED <<hub, pipe, pipes, models, latest>>

\* The client goes away and the request is dropped at an await, with the lock
\* if it holds it. Loading the speech models is one blocking call.
DropStart(c) ==
    /\ \/ start[c].pc \in {"pipe", "subscribe", "models"}
       \/ start[c].pc = "load" /\ hub = "detect"
    /\ StartTo(c, "done")
    /\ models' = [models EXCEPT !.lock = IF @ = c THEN "none" ELSE @]
    /\ UNCHANGED <<hub, pipe, pipes, running, tap, latest>>

\* stop: unregister takes the entry and fires its token.
StopTap ==
    /\ running # "none" /\ running' = "none"
    /\ tap' = [tap EXCEPT ![running].cancelled = TRUE]
    /\ UNCHANGED <<hub, pipe, pipes, models, start, latest>>

TapTo(c, st) ==
    /\ tap' = [tap EXCEPT ![c].st = st]
    /\ UNCHANGED <<hub, pipe, pipes, running, models, start>>

\* The thread's runtime and the engine may fail for speech; the registry is
\* not told.
TapBegins(c) ==
    /\ tap[c].st = "spawned" /\ UNCHANGED latest
    /\ TapTo(c, "recv") \/ (hub = "asr" /\ TapTo(c, "ended"))

\* A frame: transcribed and sent out, or given to the models. One that is too
\* early, of the other kind, or cannot be converted changes nothing.
TapFrame(c) ==
    /\ tap[c].st = "recv" /\ TapTo(c, "work") /\ UNCHANGED latest

\* fanout is awaited without the token: a tap stopped meanwhile still stores.
TapStores(c) ==
    /\ tap[c].st = "work" /\ TapTo(c, "recv")
    /\ latest' = IF hub = "detect" THEN c ELSE latest

\* The token, or the end of the stream, which comes when the pipe is gone.
TapBreaks(c) ==
    /\ tap[c].st = "recv" /\ (tap[c].cancelled \/ tap[c].src # pipe)
    /\ TapTo(c, IF hub = "asr" THEN "flush" ELSE "ended") /\ UNCHANGED latest

\* Speech only: the trailing utterance is sent out.
TapFlushes(c) == tap[c].st = "flush" /\ TapTo(c, "ended") /\ UNCHANGED latest

\* The manager: a pipe ends or is removed, another one is started.
PipeGone ==
    /\ pipe # 0 /\ pipe' = 0
    /\ UNCHANGED <<hub, pipes, running, models, start, tap, latest>>

PipeAdded ==
    /\ hub # "off" /\ pipe = 0 /\ pipes < MaxPipes /\ pipe' = pipes + 1 /\ pipes' = pipes + 1
    /\ UNCHANGED <<hub, running, models, start, tap, latest>>

StartStep(c) ==
    \/ IsRunning(c) \/ GetPipe(c) \/ Subscribe(c) \/ LockModels(c)
    \/ (\E ok \in BOOLEAN : LoadModels(c, ok)) \/ TapRegister(c) \/ DropStart(c)

TapsNext ==
    \/ \E c \in TapCalls : StartStep(c) \/ TapBegins(c) \/ TapFrame(c) \/ TapStores(c)
                          \/ TapBreaks(c) \/ TapFlushes(c)
    \/ StopTap \/ PipeGone \/ PipeAdded

(***************************************************************************)
(* Properties.                                                             *)
(***************************************************************************)

\* Whoever starts, stops or gives up in whatever order, a tap that was not told
\* to stop is the one in the registry: no two work on the pipe for long, and
\* stop reaches the one that does. The models are loaded by one request, and
\* one that gives up leaves the lock free for the next (hub.rs, api.rs start).
TapsOwned ==
    /\ \A c \in TapCalls :
          tap[c].st \notin {"none", "ended"} /\ ~tap[c].cancelled => running = c
    /\ models.lock # "none" => ~models.loaded /\ start[models.lock].pc = "load"

=============================================================================
