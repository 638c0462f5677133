------------------------------ MODULE Manager ------------------------------
(***************************************************************************)
(* The source registry of the application: nvr/src/manager.rs.             *)
(*                                                                         *)
(* A global map holds one entry per device id.  An entry owns a background *)
(* source: an ffmpeg pipe, a native worker thread or a supervisor task.    *)
(* API tasks call add / update / remove concurrently; each call takes the  *)
(* map's lock only for the moment it reads or writes the map, and waits    *)
(* for the old source to unwind outside the lock.  A call is therefore     *)
(* several steps, and calls interleave between them.                       *)
(***************************************************************************)
EXTENDS Naturals

CONSTANTS
  Ids,        \* device ids, the keys of PIPE_MANAGER
  Callers,    \* concurrent API / start-up tasks
  Sources,    \* identities of the background sources that can be spawned
  None        \* "no source"

ASSUME NoneAssumption == None \notin Sources

VARIABLES
  registry,   \* PIPE_MANAGER: id -> registered source
  sid,        \* the id a source was built for
  kind,       \* which Entry variant it is
  state,      \* "unborn", "live" (its task or thread runs), "stuck" (it is
              \* over, but its task never ends) or "ended"
  cancelled,  \* its cancellation token has fired
  pc,         \* where each call stands
  cid,        \* the id each call is about
  ckind,      \* the Entry variant an upsert will build
  held,       \* the Entry a call owns, outside the registry
  shut,       \* manager::shutdown: "no", "joining", "done"
  drained,    \* entries shutdown took and has not joined yet
  (* Observation only: nothing below is read by an action's guard. *)
  contended,  \* ids on which two calls were ever in flight together
  abandoned,  \* ids for which a call was dropped half-way
  detached    \* workers given up on after the 3s join bound

srcVars  == <<sid, kind, state, cancelled>>
callVars == <<pc, cid, ckind, held>>
obsVars  == <<contended, abandoned, detached>>
vars == <<registry, srcVars, callVars, shut, drained, obsVars>>

Kinds == {"pipe", "worker", "task"}

Registered(s) == \E id \in Ids : registry[id] = s
Live(s)       == state[s] \in {"live", "stuck"}
Busy(c)       == pc[c] # "idle"

(***************************************************************************)
(* A call on id starts: note when another call on id, or a shutdown (which *)
(* concerns every id), is in flight.                                       *)
(***************************************************************************)
NoteContention(c, id) ==
  contended' = IF \/ shut # "no"
                  \/ \E d \in Callers \ {c} : Busy(d) /\ cid[d] = id
               THEN contended \cup {id}
               ELSE contended

\* Fault: the entry stays in the map while its source is being stopped.
TakeLeavesEntry(id) == UNCHANGED registry

\* pipes.remove(id), under the write lock.
Take(id) == registry' = [registry EXCEPT ![id] = None]

\* Fault: the token is never fired.
StopNothing(S) == UNCHANGED cancelled

\* Entry::stop for the entries in S: fire their tokens; nothing is awaited.
Stop(S) == cancelled' = [s \in Sources |-> cancelled[s] \/ s \in S]

\* Fault: the wait returns at once.
JoinableAtOnce(s) == TRUE

\* Fault: the join of a worker has no bound either.
JoinableWhenEnded(s) == state[s] = "ended"

(***************************************************************************)
(* Entry::join: the handle resolves when the source has ended.  The wait   *)
(* for a pipe or a task has no bound; a worker that has not ended after 3s *)
(* is detached and left to itself.                                         *)
(***************************************************************************)
Joinable(s) == state[s] = "ended" \/ kind[s] = "worker"

JoinOutcome(s) ==
  detached' = IF state[s] # "ended" /\ kind[s] = "worker"
              THEN detached \cup {s} ELSE detached

\* A call is over: its locals, the Entry it may still hold among them, are gone.
Return(c) ==
  /\ pc' = [pc EXCEPT ![c] = "idle"]
  /\ cid' = [cid EXCEPT ![c] = None]
  /\ ckind' = [ckind EXCEPT ![c] = None]
  /\ held' = [held EXCEPT ![c] = None]

Init ==
  /\ registry = [id \in Ids |-> None]
  /\ sid = [s \in Sources |-> None]
  /\ kind = [s \in Sources |-> None]
  /\ state = [s \in Sources |-> "unborn"]
  /\ cancelled = [s \in Sources |-> FALSE]
  /\ pc = [c \in Callers |-> "idle"]
  /\ cid = [c \in Callers |-> None]
  /\ ckind = [c \in Callers |-> None]
  /\ held = [c \in Callers |-> None]
  /\ shut = "no"
  /\ drained = {}
  /\ contended = {}
  /\ abandoned = {}
  /\ detached = {}

-----------------------------------------------------------------------------
(* upsert_entry *)

(***************************************************************************)
(* Phase 1: take the existing entry under the write lock, and old.stop().  *)
(* With update FALSE (add_pipe) an existing entry makes the call return    *)
(* "Pipe already exists" with nothing changed, so the step needs           *)
(* update \/ no entry.                                                     *)
(***************************************************************************)
UpsertTake(c, id, k, update) ==
  /\ shut # "done"
  /\ pc[c] = "idle"
  /\ update \/ registry[id] = None
  /\ LET old == registry[id] IN
       /\ Take(id)
       /\ Stop({old})
       /\ held' = [held EXCEPT ![c] = old]
       /\ pc' = [pc EXCEPT ![c] = IF old = None THEN "build" ELSE "joining"]
  /\ cid' = [cid EXCEPT ![c] = id]
  /\ ckind' = [ckind EXCEPT ![c] = k]
  /\ NoteContention(c, id)
  /\ UNCHANGED <<sid, kind, state, shut, drained, abandoned, detached>>

\* Phase 2 ends: the old source is joined (or detached).
UpsertJoined(c) ==
  /\ shut # "done"
  /\ pc[c] = "joining"
  /\ Joinable(held[c])
  /\ JoinOutcome(held[c])
  /\ held' = [held EXCEPT ![c] = None]
  /\ pc' = [pc EXCEPT ![c] = "build"]
  /\ UNCHANGED <<registry, srcVars, cid, ckind, shut, drained, contended, abandoned>>

\* Phase 3a: build() spawns the new source; the call then awaits the lock.
Build(c, s) ==
  /\ shut # "done"
  /\ pc[c] = "build"
  /\ state[s] = "unborn"
  /\ state' = [state EXCEPT ![s] = "live"]
  /\ sid' = [sid EXCEPT ![s] = cid[c]]
  /\ kind' = [kind EXCEPT ![s] = ckind[c]]
  /\ held' = [held EXCEPT ![c] = s]
  /\ pc' = [pc EXCEPT ![c] = "insert"]
  /\ UNCHANGED <<registry, cancelled, cid, ckind, shut, drained, obsVars>>

(***************************************************************************)
(* Phase 3b: insert under the write lock.  An entry that another call      *)
(* registered meanwhile is overwritten: dropping it cancels nothing, since *)
(* the running task keeps its own Arc<Pipe> (or token) and a dropped       *)
(* JoinHandle only detaches.                                               *)
(***************************************************************************)
Insert(c) ==
  /\ shut # "done"
  /\ pc[c] = "insert"
  /\ registry' = [registry EXCEPT ![cid[c]] = held[c]]
  /\ Return(c)
  /\ UNCHANGED <<srcVars, shut, drained, obsVars>>

-----------------------------------------------------------------------------
(* remove_pipe *)

\* Take the entry and stop it.  Without an entry the call changes nothing.
RemoveTake(c, id) ==
  /\ shut # "done"
  /\ pc[c] = "idle"
  /\ registry[id] # None
  /\ Take(id)
  /\ Stop({registry[id]})
  /\ held' = [held EXCEPT ![c] = registry[id]]
  /\ pc' = [pc EXCEPT ![c] = "removing"]
  /\ cid' = [cid EXCEPT ![c] = id]
  /\ NoteContention(c, id)
  /\ UNCHANGED <<sid, kind, state, ckind, shut, drained, abandoned, detached>>

RemoveJoined(c) ==
  /\ shut # "done"
  /\ pc[c] = "removing"
  /\ Joinable(held[c])
  /\ JoinOutcome(held[c])
  /\ Return(c)
  /\ UNCHANGED <<registry, srcVars, shut, drained, contended, abandoned>>

(***************************************************************************)
(* The HTTP server drops a handler's future when its client disconnects:   *)
(* the call vanishes at the await it is parked on (the join, or the lock   *)
(* of phase 3b), and the Entry it held is dropped without being stopped.   *)
(***************************************************************************)
Disconnect(c) ==
  /\ shut # "done"
  /\ pc[c] \in {"joining", "insert", "removing"}
  /\ abandoned' = abandoned \cup {cid[c]}
  /\ Return(c)
  /\ UNCHANGED <<registry, srcVars, shut, drained, contended, detached>>

-----------------------------------------------------------------------------
(* shutdown *)

Entries == {s \in Sources : Registered(s)}

\* Drain the map under the lock, then stop() every entry taken.
ShutdownDrain ==
  /\ shut = "no"
  /\ drained' = Entries
  /\ Stop(Entries)
  /\ registry' = [id \in Ids |-> None]
  /\ shut' = "joining"
  /\ contended' = contended \cup {id \in Ids : \E c \in Callers : Busy(c) /\ cid[c] = id}
  /\ UNCHANGED <<sid, kind, state, callVars, abandoned, detached>>

\* e.join().await for the entries, one at a time.
ShutdownJoined(s) ==
  /\ shut = "joining"
  /\ s \in drained
  /\ Joinable(s)
  /\ JoinOutcome(s)
  /\ drained' = drained \ {s}
  /\ UNCHANGED <<registry, srcVars, callVars, shut, contended, abandoned>>

\* shutdown() returns; main then exits the process.
ShutdownReturn ==
  /\ shut = "joining"
  /\ drained = {}
  /\ shut' = "done"
  /\ UNCHANGED <<registry, srcVars, callVars, drained, obsVars>>

-----------------------------------------------------------------------------
(* The sources themselves *)

\* A source that saw its cancellation unwinds.
StopOnCancel(s) ==
  /\ shut # "done"
  /\ state[s] = "live" /\ cancelled[s]
  /\ state' = [state EXCEPT ![s] = "ended"]
  /\ UNCHANGED <<registry, sid, kind, cancelled, callVars, shut, drained, obsVars>>

(***************************************************************************)
(* A pipe ends by itself when its input does, a worker when its stream     *)
(* errors; a supervisor task re-resolves and retries until cancelled.      *)
(***************************************************************************)
EndByItself(s) ==
  /\ shut # "done"
  /\ state[s] = "live" /\ kind[s] # "task"
  /\ state' = [state EXCEPT ![s] = "ended"]
  /\ UNCHANGED <<registry, sid, kind, cancelled, callVars, shut, drained, obsVars>>

(***************************************************************************)
(* A pipe that is cancelled or whose input ends waits for its forwarders   *)
(* without a bound.  One that waits at the header barrier for a silent     *)
(* track looks at no token, and a read of an http or rtmp input has no     *)
(* timeout (module Pipe, BarrierHeld and Reading): the pipe, and a         *)
(* supervisor task that runs one (module Supervisor), never end then.      *)
(***************************************************************************)
GetStuck(s) ==
  /\ shut # "done"
  /\ state[s] = "live" /\ kind[s] # "worker"
  /\ state' = [state EXCEPT ![s] = "stuck"]
  /\ UNCHANGED <<registry, sid, kind, cancelled, callVars, shut, drained, obsVars>>

CallStep(c) ==
  \/ UpsertJoined(c)
  \/ \E s \in Sources : Build(c, s)
  \/ Insert(c)
  \/ RemoveJoined(c)

Next ==
  \/ \E c \in Callers, id \in Ids, k \in Kinds, update \in BOOLEAN :
        UpsertTake(c, id, k, update)
  \/ \E c \in Callers, id \in Ids : RemoveTake(c, id)
  \/ \E c \in Callers : CallStep(c)
  \/ \E c \in Callers : Disconnect(c)
  \/ ShutdownDrain
  \/ \E s \in Sources : ShutdownJoined(s)
  \/ ShutdownReturn
  \/ \E s \in Sources : StopOnCancel(s)
  \/ \E s \in Sources : EndByItself(s)
  \/ \E s \in Sources : GetStuck(s)

Spec == Init /\ [][Next]_vars

(***************************************************************************)
(* Tokio polls a woken task again, so a call whose next step is possible   *)
(* takes it; a cancelled pipe or task unwinds (module Pipe is about that)  *)
(* unless it is stuck.  Nothing is assumed of a worker, which may sit in a *)
(* socket read.                                                            *)
(***************************************************************************)
Fairness ==
  /\ \A c \in Callers : WF_vars(CallStep(c))
  /\ \A s \in Sources : WF_vars(kind[s] # "worker" /\ StopOnCancel(s))
  /\ \A s \in Sources : WF_vars(ShutdownJoined(s))
  /\ WF_vars(ShutdownReturn)

FairSpec == Spec /\ Fairness

-----------------------------------------------------------------------------
(* Properties *)

TypeOK ==
  /\ registry \in [Ids -> Sources \cup {None}]
  /\ sid \in [Sources -> Ids \cup {None}]
  /\ kind \in [Sources -> Kinds \cup {None}]
  /\ state \in [Sources -> {"unborn", "live", "stuck", "ended"}]
  /\ cancelled \in [Sources -> BOOLEAN]
  /\ pc \in [Callers -> {"idle", "joining", "build", "insert", "removing"}]
  /\ cid \in [Callers -> Ids \cup {None}]
  /\ ckind \in [Callers -> Kinds \cup {None}]
  /\ held \in [Callers -> Sources \cup {None}]
  /\ shut \in {"no", "joining", "done"}
  /\ drained \in SUBSET Sources
  /\ contended \in SUBSET Ids
  /\ abandoned \in SUBSET Ids
  /\ detached \in SUBSET Sources

\* The ids whose callers kept to one complete call at a time.
Orderly(id) == id \notin contended \cup abandoned

(***************************************************************************)
(* upsert_entry's promise (manager.rs:88-90): the old entry is fully joined*)
(* before the new one is built, so two sources of one id never run at the  *)
(* same time.  It holds for every id whose calls never overlapped and were *)
(* never dropped half-way, up to workers detached after the join bound.    *)
(***************************************************************************)
ExclusiveWhenSerialised ==
  \A s, t \in Sources :
    /\ Live(s) /\ Live(t) /\ sid[s] = sid[t] /\ Orderly(sid[s])
    /\ {s, t} \cap detached = {}
    => s = t

(***************************************************************************)
(* No leaked source: a running source that nobody was told to stop is in   *)
(* the registry or in the hands of a call in progress, so that update,     *)
(* remove and shutdown can still reach it.                                 *)
(***************************************************************************)
NoLeakWhenSerialised ==
  \A s \in Sources :
    Live(s) /\ ~cancelled[s] /\ Orderly(sid[s])
    => Registered(s) \/ \E c \in Callers : pc[c] = "insert" /\ held[c] = s

(***************************************************************************)
(* status() and get_pipe() never hand out a source that has been told to   *)
(* stop, whatever calls race: an entry leaves the map in the very step     *)
(* that cancels it and is never put back.                                  *)
(***************************************************************************)
RegisteredNotCancelled ==
  \A id \in Ids : registry[id] # None =>
    /\ ~cancelled[registry[id]]
    /\ sid[registry[id]] = id

(***************************************************************************)
(* shutdown's promise (manager.rs:250-252): when it returns, no source is  *)
(* still running.  It holds for the ids no call was working on when the    *)
(* shutdown started or while it ran, up to detached workers.               *)
(***************************************************************************)
ShutdownStopsSerialised ==
  shut = "done" =>
    \A s \in Sources : Live(s) => ~Orderly(sid[s]) \/ s \in detached

(***************************************************************************)
(* The sources of an id are under control: while its calls come one after  *)
(* another they run one at a time and can be reached, no registered source *)
(* was told to stop, whatever calls race, and shutdown leaves none.        *)
(***************************************************************************)
SourcesOwned ==
  /\ ExclusiveWhenSerialised /\ NoLeakWhenSerialised
  /\ RegisteredNotCancelled /\ ShutdownStopsSerialised

(***************************************************************************)
(* A remove or an update that found an entry comes to its end: the old     *)
(* source is stopped, joined or detached, and the call returns, unless the *)
(* very source it waits for is stuck.  (The process may also exit first.)  *)
(***************************************************************************)
CallsReturn ==
  \A c \in Callers :
    pc[c] \in {"joining", "removing"} ~>
      \/ pc[c] \in {"idle", "build"} \/ shut = "done"
      \/ \E s \in Sources : held[c] = s /\ state[s] = "stuck"

(***************************************************************************)
(* A started shutdown returns, unless it drained an entry whose source is  *)
(* stuck: the entries are joined one after another.                        *)
(***************************************************************************)
ShutdownReturns ==
  (shut = "joining") ~> (shut = "done" \/ \E s \in drained : state[s] = "stuck")

(***************************************************************************)
(* Entry::join (manager.rs:42-77) comes to an end for every source but a   *)
(* stuck one, so a call and a shutdown can wait for ever only for a stuck  *)
(* pipe or task: a worker is joined for 3s at most, whatever it is doing,  *)
(* and a stuck source holds up the calls that took it and the shutdown.    *)
(***************************************************************************)
AllReturn == CallsReturn /\ ShutdownReturns

=============================================================================
