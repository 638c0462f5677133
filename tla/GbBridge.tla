------------------------------ MODULE GbBridge ------------------------------
(***************************************************************************)
(* On-demand GB28181 pulls: nvr/src/gb/bridge.rs, the RtpServer worker of  *)
(* nvr/src/zlm/cmd.rs and the hooks that drive them.                       *)
(*                                                                         *)
(* ZLM asks for a stream (on_media_not_found) or reports that nobody       *)
(* watches it any more (on_media_no_reader).  Every hook, and every API    *)
(* call that removes a device, runs as a task of its own.  A pull opens an *)
(* RtpServer by way of the worker thread, invites the device, and is then  *)
(* entered in `active`.  The worker knows servers by stream id only, and   *)
(* closing one is a command without a reply, sent when a receiver handle   *)
(* is dropped.                                                             *)
(*                                                                         *)
(* A pull is named by the task that makes it: task t's handle, dialog and  *)
(* RtpServer are "t's".                                                    *)
(***************************************************************************)
EXTENDS Naturals, Sequences

CONSTANTS
  Streams,    \* ZLM stream ids (= nvr device ids)
  Tasks,      \* bound: hook and API tasks of a run, each used once
  Main,       \* the task that runs gb::shutdown
  None,
  QueueCap    \* capacity of the worker's command channel (1024)

ASSUME BridgeAssumption ==
  /\ Main \notin Tasks
  /\ None \notin Tasks \cup {Main} /\ None \notin {"udp", "tcp_active"}
  /\ QueueCap \in Nat \ {0}

VARIABLES
  streams,    \* StreamMap: stream -> transport, None without a mapping
  active,     \* GbBridge::active: stream -> pull
  servers,    \* the worker's table: stream -> the pull whose RtpServer it is
  queue,      \* the worker's command channel
  pc,         \* where each task stands
  on,         \* the stream a task is about
  transport,  \* the transport a pull has read from its mapping
  victim,     \* the ActiveSession a teardown has taken out of active
  dialog,     \* each pull's media dialog: "none", "up" (the device sends), "over",
              \* "stray" (answered, but no MediaSession was made of it),
              \* "failed" (its BYE failed: the device may go on sending)
  janitor,    \* dialogs handed to janitor_loop
  todo,       \* streams gb::shutdown has still to tear down
  (* Observation only: nothing below is read by an action's guard. *)
  contended,  \* streams on which two tasks were ever busy together
  lost,       \* streams a CloseRtp of which was refused by a full queue
  late        \* pulls that gb::shutdown could not see

zlmVars  == <<servers, queue>>
taskVars == <<pc, on, transport, victim>>
sipVars  == <<dialog, janitor>>
obsVars  == <<contended, lost, late>>
vars == <<streams, active, zlmVars, taskVars, sipVars, todo, obsVars>>

Procs == Tasks \cup {Main}
\* UDP and TCP-passive differ in nothing here: the device comes to the port.
Transports == {"udp", "tcp_active"}

Cmd(c, t) == [cmd |-> c, stream |-> on[t], pull |-> t]

\* A task is at work on its stream.
Busy(p) == pc[p] \notin {"idle", "done", "closing"}

\* A task on s starts: note that another one is at it.
NoteContention(p, s) ==
  contended' = IF \E q \in Procs \ {p} : Busy(q) /\ on[q] = s
               THEN contended \cup {s}
               ELSE contended

SipUp == pc[Main] # "done"

Init ==
  /\ streams \in [Streams -> {None, "udp"}]
  /\ active = [s \in Streams |-> None]
  /\ servers = [s \in Streams |-> None]
  /\ queue = <<>>
  /\ pc = [p \in Procs |-> "idle"]
  /\ on \in [Procs -> Streams]
  /\ transport = [t \in Tasks |-> None]
  /\ victim = [p \in Procs |-> None]
  /\ dialog = [t \in Tasks |-> "none"]
  /\ janitor = {} /\ todo = {}
  /\ contended = {} /\ lost = {} /\ late = {}

-----------------------------------------------------------------------------
(* Dropping things *)

\* Fault: a dropped handle tells nobody.
DropNoHandle(t) == UNCHANGED <<queue, lost>>

\* ZlmReceiverHandle::drop: try_send CloseRtp; a full queue loses it.
DropHandle(t) ==
  \/ Len(queue) < QueueCap /\ queue' = Append(queue, Cmd("close", t)) /\ UNCHANGED lost
  \/ Len(queue) >= QueueCap /\ lost' = lost \cup {on[t]} /\ UNCHANGED queue

\* Fault: a session is dropped like any other value.
DropNoSession(t) == UNCHANGED janitor

\* MediaSession::drop without stop()
DropSession(t) == janitor' = janitor \cup {t}

\* bye().await: sent once, whatever comes of it; a failure is logged or ignored.
SendBye(t) ==
  \E outcome \in {"over", "failed"} :
    dialog' = [dialog EXCEPT ![t] = IF @ = "up" THEN outcome ELSE @]

Janitor(t) ==
  /\ t \in janitor /\ SipUp
  /\ janitor' = janitor \ {t}
  /\ SendBye(t)
  /\ UNCHANGED <<streams, active, zlmVars, taskVars, todo, obsVars>>

-----------------------------------------------------------------------------
(* The mapping table *)

\* ensure_device_pipe; an existing mapping is overwritten, a pull left alone.
RegisterMapping(s) ==
  /\ streams' = [streams EXCEPT ![s] = "udp"]
  /\ UNCHANGED <<active, zlmVars, taskVars, sipVars, todo, obsVars>>

\* POST /gb/play
SetTransport(s, m) ==
  /\ streams[s] # None
  /\ streams' = [streams EXCEPT ![s] = m]
  /\ UNCHANGED <<active, zlmVars, taskVars, sipVars, todo, obsVars>>

-----------------------------------------------------------------------------
(* handle_media_not_found and start_pull *)

\* The hook spawns a task.  ZLM fires whenever a viewer asks for a stream that
\* has no media yet, again and again, and does not wait for the task.
MediaNotFound(t, s) ==
  /\ pc[t] = "idle"
  /\ pc' = [pc EXCEPT ![t] = "lookup"]
  /\ on' = [on EXCEPT ![t] = s]
  /\ NoteContention(t, s)
  /\ UNCHANGED <<streams, active, zlmVars, transport, victim, sipVars, todo, lost, late>>

LookupMapping(t) ==
  /\ pc[t] = "lookup"
  /\ transport' = [transport EXCEPT ![t] = streams[on[t]]]
  /\ pc' = [pc EXCEPT ![t] = IF streams[on[t]] = None THEN "done" ELSE "check"]
  /\ UNCHANGED <<streams, active, zlmVars, on, victim, sipVars, todo, obsVars>>

\* Fault: the pull is started whatever is in active.
NotPullingAlways(s) == TRUE

NotPulling(s) == active[s] = None

CheckActive(t) ==
  /\ pc[t] = "check"
  /\ pc' = [pc EXCEPT ![t] = IF NotPulling(on[t]) THEN "open" ELSE "done"]
  /\ UNCHANGED <<streams, active, zlmVars, on, transport, victim, sipVars, todo, obsVars>>

SendOpen(t) ==
  /\ pc[t] = "open"
  /\ Len(queue) < QueueCap
  /\ queue' = Append(queue, Cmd("open", t))
  /\ pc' = [pc EXCEPT ![t] = "opening"]
  /\ UNCHANGED <<streams, active, servers, on, transport, victim, sipVars, todo, obsVars>>

InviteOk(t) ==
  /\ pc[t] = "invite" /\ SipUp
  /\ dialog' = [dialog EXCEPT ![t] = "up"]
  /\ pc' = [pc EXCEPT ![t] = IF transport[t] = "tcp_active" THEN "connect" ELSE "insert"]
  /\ UNCHANGED <<streams, active, zlmVars, on, transport, victim, janitor, todo, obsVars>>

\* Device offline, INVITE rejected or unanswered; or answered with an SDP that
\* does not parse, which leaves a confirmed dialog without an owner.
InviteFails(t) ==
  /\ pc[t] = "invite"
  /\ DropHandle(t)
  /\ pc' = [pc EXCEPT ![t] = "done"]
  /\ \/ UNCHANGED dialog
     \/ SipUp /\ dialog' = [dialog EXCEPT ![t] = "stray"]
  /\ UNCHANGED <<streams, active, servers, on, transport, victim, janitor, todo, contended, late>>

SendConnect(t) ==
  /\ pc[t] = "connect"
  /\ Len(queue) < QueueCap
  /\ queue' = Append(queue, Cmd("connect", t))
  /\ pc' = [pc EXCEPT ![t] = "connecting"]
  /\ UNCHANGED <<streams, active, servers, on, transport, victim, sipVars, todo, obsVars>>

\* ZLM's connect callback reports success.
ConnectOk(t) ==
  /\ pc[t] = "calling"
  /\ pc' = [pc EXCEPT ![t] = "insert"]
  /\ UNCHANGED <<streams, active, zlmVars, on, transport, victim, sipVars, todo, obsVars>>

\* The pull gives up: session and handle drop.
Abort(t) ==
  /\ DropSession(t) /\ DropHandle(t)
  /\ pc' = [pc EXCEPT ![t] = "done"]
  /\ UNCHANGED <<streams, active, servers, on, transport, victim, dialog, todo, contended, late>>

\* The callback reports an error, or the worker found no server.
ConnectFails(t) == pc[t] \in {"calling", "refused"} /\ Abort(t)

\* Fault: the connect is awaited without a bound.
ConnectUnbounded == {}

\* The 5 s bound on connect covers the wait for the worker as well.
ConnectBounded == {"connect", "connecting", "calling", "refused"}

ConnectTimeout(t) == pc[t] \in ConnectBounded /\ Abort(t)

\* active.insert; the ActiveSession it replaces is dropped.
Insert(t) ==
  /\ pc[t] = "insert"
  /\ active' = [active EXCEPT ![on[t]] = t]
  /\ pc' = [pc EXCEPT ![t] = "done"]
  /\ IF active[on[t]] = None
     THEN UNCHANGED <<queue, janitor, lost>>
     ELSE DropSession(active[on[t]]) /\ DropHandle(active[on[t]])
  /\ late' = IF pc[Main] = "idle" THEN late ELSE late \cup {t}
  /\ UNCHANGED <<streams, servers, on, transport, victim, dialog, todo, contended>>

-----------------------------------------------------------------------------
(* Teardown *)

\* The hook fires for a source ZLM has, so an RtpServer is there.
MediaNoReader(t, s) ==
  /\ pc[t] = "idle"
  /\ servers[s] # None
  /\ pc' = [pc EXCEPT ![t] = "teardown"]
  /\ on' = [on EXCEPT ![t] = s]
  /\ NoteContention(t, s)
  /\ UNCHANGED <<streams, active, zlmVars, transport, victim, sipVars, todo, lost, late>>

UnregisterMapping(t, s) ==
  /\ pc[t] = "idle"
  /\ streams' = [streams EXCEPT ![s] = None]
  /\ pc' = [pc EXCEPT ![t] = "teardown"]
  /\ on' = [on EXCEPT ![t] = s]
  /\ NoteContention(t, s)
  /\ UNCHANGED <<active, zlmVars, transport, victim, sipVars, todo, lost, late>>

\* Where a teardown leaves its task: main goes on with the next stream.
Returned(p) == IF p = Main THEN "closing" ELSE "done"

TakeActive(p) ==
  /\ pc[p] = "teardown"
  /\ victim' = [victim EXCEPT ![p] = active[on[p]]]
  /\ active' = [active EXCEPT ![on[p]] = None]
  /\ pc' = [pc EXCEPT ![p] = IF active[on[p]] = None THEN Returned(p) ELSE "bye"]
  /\ UNCHANGED <<streams, zlmVars, on, transport, sipVars, todo, obsVars>>

\* session.stop().await, then the receiver drops.
Bye(p) ==
  /\ pc[p] = "bye"
  /\ SendBye(victim[p])
  /\ DropHandle(victim[p])
  /\ victim' = [victim EXCEPT ![p] = None]
  /\ pc' = [pc EXCEPT ![p] = Returned(p)]
  /\ UNCHANGED <<streams, active, servers, on, transport, janitor, todo, contended, late>>

\* The device hangs up; GbEvent::SessionClosed is logged and nothing else.
DeviceBye(t) ==
  /\ dialog[t] \in {"up", "stray", "failed"} /\ SipUp
  /\ dialog' = [dialog EXCEPT ![t] = "over"]
  /\ UNCHANGED <<streams, active, zlmVars, taskVars, janitor, todo, obsVars>>

-----------------------------------------------------------------------------
(* gb::shutdown *)

\* Fault: only the streams that have an RtpServer are listed.
ListedLive == {s \in Streams : streams[s] # None /\ servers[s] # None}

\* stream_status: the mappings at this moment.
Listed == {s \in Streams : streams[s] # None}

ShutdownStart ==
  /\ pc[Main] = "idle"
  /\ todo' = Listed
  /\ late' = late \cup {active[s] : s \in {s \in Streams : streams[s] = None /\ active[s] # None}}
  /\ pc' = [pc EXCEPT ![Main] = "closing"]
  /\ UNCHANGED <<streams, active, zlmVars, on, transport, victim, sipVars, contended, lost>>

ShutdownNext(s) ==
  /\ pc[Main] = "closing" /\ s \in todo
  /\ todo' = todo \ {s}
  /\ pc' = [pc EXCEPT ![Main] = "teardown"]
  /\ on' = [on EXCEPT ![Main] = s]
  /\ NoteContention(Main, s)
  /\ UNCHANGED <<streams, active, zlmVars, transport, victim, sipVars, lost, late>>

\* GbServer::shutdown fires the endpoint's cancel token.
ShutdownEnd ==
  /\ pc[Main] = "closing" /\ todo = {}
  /\ pc' = [pc EXCEPT ![Main] = "done"]
  /\ UNCHANGED <<streams, active, zlmVars, on, transport, victim, sipVars, todo, obsVars>>

-----------------------------------------------------------------------------
(* The worker thread *)

\* The new server replaces (and so drops) the one the stream had.
WorkerOpen(c) ==
  \/ /\ servers' = [servers EXCEPT ![c.stream] = c.pull]
     /\ pc' = [pc EXCEPT ![c.pull] = "invite"]
  \/ \* no port could be bound
     /\ UNCHANGED servers
     /\ pc' = [pc EXCEPT ![c.pull] = "done"]

\* The connect goes to whatever server the stream has; a pull that has timed out
\* does not hear the reply.
WorkerConnect(c) ==
  /\ UNCHANGED servers
  /\ pc' = IF pc[c.pull] = "connecting"
           THEN [pc EXCEPT ![c.pull] = IF servers[c.stream] = None THEN "refused" ELSE "calling"]
           ELSE pc

WorkerClose(c) ==
  /\ servers' = [servers EXCEPT ![c.stream] = None]
  /\ UNCHANGED pc

Worker ==
  /\ queue # <<>>
  /\ queue' = Tail(queue)
  /\ LET c == Head(queue) IN
       \/ c.cmd = "open" /\ WorkerOpen(c)
       \/ c.cmd = "connect" /\ WorkerConnect(c)
       \/ c.cmd = "close" /\ WorkerClose(c)
  /\ UNCHANGED <<streams, active, on, transport, victim, sipVars, todo, obsVars>>

-----------------------------------------------------------------------------
Pull(t) ==
  \/ LookupMapping(t) \/ CheckActive(t) \/ SendOpen(t)
  \/ InviteOk(t) \/ InviteFails(t)
  \/ SendConnect(t) \/ ConnectOk(t) \/ ConnectFails(t) \/ ConnectTimeout(t)
  \/ Insert(t)

Teardown(p) == TakeActive(p) \/ Bye(p)

Hook(t, s) == MediaNotFound(t, s) \/ MediaNoReader(t, s) \/ UnregisterMapping(t, s)

Next ==
  \/ \E t \in Tasks : Pull(t) \/ Janitor(t) \/ DeviceBye(t)
  \/ \E p \in Procs : Teardown(p)
  \/ \E t \in Tasks, s \in Streams : Hook(t, s)
  \/ \E s \in Streams : RegisterMapping(s) \/ ShutdownNext(s)
  \/ \E s \in Streams, m \in Transports : SetTransport(s, m)
  \/ ShutdownStart \/ ShutdownEnd
  \/ Worker

Spec == Init /\ [][Next]_vars

(***************************************************************************)
(* Tasks and the worker thread are scheduled again; a SIP transaction ends *)
(* (its timers see to it) and so does the 5 s timer.  ZLM's connect        *)
(* callback may never come.                                                *)
(***************************************************************************)
Advance(t) ==
  \/ LookupMapping(t) \/ CheckActive(t) \/ SendOpen(t)
  \/ InviteOk(t) \/ InviteFails(t)
  \/ SendConnect(t) \/ ConnectTimeout(t) \/ Insert(t)

Fairness ==
  /\ \A t \in Tasks : WF_vars(Advance(t))
  /\ \A p \in Procs : WF_vars(Teardown(p))
  /\ WF_vars(ShutdownEnd \/ \E s \in Streams : ShutdownNext(s))
  /\ WF_vars(Worker)

FairSpec == Spec /\ Fairness

-----------------------------------------------------------------------------
(* Properties *)

PcValues == {"idle", "lookup", "check", "open", "opening", "invite", "connect", "connecting",
             "calling", "refused", "insert", "teardown", "bye", "closing", "done"}

Commands == [cmd : {"open", "connect", "close"}, stream : Streams, pull : Tasks]

TypeOK ==
  /\ streams \in [Streams -> Transports \cup {None}]
  /\ active \in [Streams -> Tasks \cup {None}]
  /\ servers \in [Streams -> Tasks \cup {None}]
  /\ queue \in Seq(Commands) /\ Len(queue) <= QueueCap
  /\ pc \in [Procs -> PcValues]
  /\ on \in [Procs -> Streams]
  /\ transport \in [Tasks -> Transports \cup {None}]
  /\ victim \in [Procs -> Tasks \cup {None}]
  /\ \A p \in Procs : pc[p] = "bye" <=> victim[p] # None
  /\ dialog \in [Tasks -> {"none", "up", "over", "stray", "failed"}]
  /\ janitor \subseteq Tasks
  /\ todo \subseteq Streams
  /\ contended \subseteq Streams /\ lost \subseteq Streams /\ late \subseteq Tasks

\* The pull's receiver handle is alive: in start_pull, in active, in a teardown.
Holding == {"invite", "connect", "connecting", "calling", "refused", "insert"}
Held(t) == \/ pc[t] \in Holding
           \/ active[on[t]] = t
           \/ \E p \in Procs : victim[p] = t

CloseQueued(s) == \E k \in DOMAIN queue : queue[k].cmd = "close" /\ queue[k].stream = s

(***************************************************************************)
(* No RtpServer, with its port, is left behind: whatever hooks race, the   *)
(* server in the worker's table belongs to a pull whose handle is alive,   *)
(* or a CloseRtp for it is on its way (or was refused by a full queue).    *)
(***************************************************************************)
ServerOwned ==
  \A s \in Streams : servers[s] # None =>
    Held(servers[s]) \/ CloseQueued(s) \/ s \in lost

(***************************************************************************)
(* Every session is ended: as long as a pull's dialog is up, somebody is   *)
(* there who will send its one BYE (start_pull, active, a teardown, the    *)
(* janitor).  Nobody repeats a BYE that failed (server.rs:113-116, 656) and*)
(* an answer that does not parse never becomes a session (server.rs:328):  *)
(* those two kinds of dialog, "failed" and "stray", have no owner.         *)
(***************************************************************************)
DialogOwned ==
  \A t \in Tasks : dialog[t] = "up" => Held(t) \/ t \in janitor

(***************************************************************************)
(* Nothing of a pull is forgotten, whatever hooks, teardowns and timeouts  *)
(* race: its RtpServer is held or being closed, its session is held or     *)
(* gets its BYE.                                                           *)
(***************************************************************************)
PullsOwned == ServerOwned /\ DialogOwned

(***************************************************************************)
(* Idempotent for sequential re-fires (bridge.rs:110-111): while tasks on  *)
(* a stream do not overlap, the pull in active has its RtpServer, and no   *)
(* command on its way will take it.                                        *)
(***************************************************************************)
PullIntact ==
  \A s \in Streams : active[s] # None /\ s \notin contended \cup lost =>
    servers[s] = active[s] /\ ~CloseQueued(s)

(***************************************************************************)
(* gb::shutdown tears down every pull that was in active when it began     *)
(* and whose mapping it listed.                                            *)
(***************************************************************************)
ShutdownReleases ==
  pc[Main] = "done" => \A s \in Streams : active[s] # None => active[s] \in late

\* bridge.rs:163-165: a pull does not pin its task for ever.
TasksEnd == \A t \in Tasks : (pc[t] = "lookup") ~> (pc[t] = "done")

(***************************************************************************)
(* Every task ends, and when shutdown is through no pull it could list is  *)
(* left in active.                                                         *)
(***************************************************************************)
TeardownComplete == TasksEnd /\ []ShutdownReleases

=============================================================================
