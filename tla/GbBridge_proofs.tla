--------------------------- MODULE GbBridge_proofs ---------------------------
(***************************************************************************)
(* Proofs about module GbBridge, for any number of streams and tasks and   *)
(* any queue capacity.                                                     *)
(***************************************************************************)
EXTENDS GbBridge, TLAPS

-----------------------------------------------------------------------------
(* The inductive invariant *)

\* What the commands in the queue say, and that no pull opens twice.
QueueInv ==
  /\ \A k \in DOMAIN queue :
       /\ queue[k].stream = on[queue[k].pull]
       /\ pc[queue[k].pull] # "idle"
       /\ queue[k].cmd = "open" => pc[queue[k].pull] = "opening"
  /\ \A j, k \in DOMAIN queue :
       queue[j].cmd = "open" /\ queue[k].cmd = "open" /\ queue[j].pull = queue[k].pull => j = k

\* Where a pull's name can be found, and how far its task is then.
PlaceInv ==
  /\ \A s \in Streams : active[s] # None => on[active[s]] = s /\ pc[active[s]] = "done"
  /\ \A p \in Procs : victim[p] # None => on[victim[p]] = on[p] /\ pc[victim[p]] = "done"
  /\ \A s \in Streams : servers[s] # None =>
       on[servers[s]] = s /\ pc[servers[s]] \in Holding \cup {"done"}

\* A pull that has not been answered has no dialog yet.
DialogFresh ==
  \A t \in Tasks : pc[t] \in {"idle", "lookup", "check", "open", "opening", "invite"} =>
    dialog[t] = "none" /\ t \notin janitor

\* A stream on which tasks have not overlapped has one busy task at most ...
OneBusy ==
  \A p, q \in Procs : Busy(p) /\ Busy(q) /\ on[p] = on[q] /\ on[p] \notin contended => p = q

\* ... so that a pull under way, or a teardown, finds active empty until it ends,
Alone ==
  \A p \in Procs : pc[p] \in {"open", "opening", "bye"} \cup Holding /\ on[p] \notin contended =>
    active[on[p]] = None

\* a pull that has opened its server keeps it,
PullKeeps ==
  \A t \in Tasks : pc[t] \in Holding /\ on[t] \notin contended \cup lost =>
    servers[on[t]] = t /\ ~CloseQueued(on[t])

\* and no close follows an open in the queue.
ClosesFirst ==
  \A j, k \in DOMAIN queue :
    queue[j].cmd = "open" /\ queue[k].cmd = "close" /\ queue[j].stream = queue[k].stream
      /\ queue[j].stream \notin contended \cup lost => k < j

IInv ==
  /\ TypeOK /\ QueueInv /\ PlaceInv /\ DialogFresh
  /\ ServerOwned /\ DialogOwned
  /\ OneBusy /\ Alone /\ PullKeeps /\ ClosesFirst /\ PullIntact

-----------------------------------------------------------------------------
(* The queue *)

\* Commands are about pulls and streams.
LEMMA QueueTyped ==
  ASSUME TypeOK
  PROVE  \A k \in DOMAIN queue : queue[k].pull \in Tasks /\ queue[k].stream \in Streams
<1>1. \A k \in DOMAIN queue : queue[k] \in Commands
  BY DEF TypeOK
<1> QED
  BY <1>1 DEF Commands

\* What Append does to the queue.
LEMMA QueueAppend ==
  ASSUME NEW c \in Commands, queue \in Seq(Commands), queue' = Append(queue, c)
  PROVE  /\ queue' \in Seq(Commands)
         /\ Len(queue') = Len(queue) + 1
         /\ DOMAIN queue = 1..Len(queue) /\ DOMAIN queue' = 1..Len(queue) + 1
         /\ \A k \in DOMAIN queue : k \in DOMAIN queue' /\ queue'[k] = queue[k]
         /\ Len(queue) + 1 \in DOMAIN queue' /\ queue'[Len(queue) + 1] = c
         /\ \A k \in DOMAIN queue' : k \in DOMAIN queue \/ (queue'[k] = c /\ k = Len(queue) + 1)
         /\ Len(queue) \in Nat
<1>1. /\ queue' \in Seq(Commands)
      /\ Len(queue) \in Nat /\ Len(queue') = Len(queue) + 1
      /\ DOMAIN queue = 1..Len(queue) /\ DOMAIN queue' = 1..Len(queue) + 1
      /\ \A k \in DOMAIN queue : k \in DOMAIN queue' /\ queue'[k] = queue[k]
      /\ Len(queue) + 1 \in DOMAIN queue' /\ queue'[Len(queue) + 1] = c
  OBVIOUS
<1>2. \A k \in DOMAIN queue' : k \in DOMAIN queue \/ (queue'[k] = c /\ k = Len(queue) + 1)
  <2> SUFFICES ASSUME NEW k \in DOMAIN queue', k \notin DOMAIN queue
               PROVE  queue'[k] = c /\ k = Len(queue) + 1
    OBVIOUS
  <2>1. k = Len(queue) + 1
    BY <1>1
  <2> QED
    BY <1>1, <2>1
<1> QED
  BY <1>1, <1>2

\* What taking the head off the queue does.
LEMMA QueueTail ==
  ASSUME queue \in Seq(Commands), queue # <<>>, queue' = Tail(queue)
  PROVE  /\ queue' \in Seq(Commands)
         /\ Len(queue') = Len(queue) - 1
         /\ 1 \in DOMAIN queue /\ Head(queue) = queue[1] /\ Head(queue) \in Commands
         /\ \A k \in DOMAIN queue' : k \in Nat /\ k + 1 \in DOMAIN queue /\ queue'[k] = queue[k + 1]
         /\ \A k \in DOMAIN queue : k \in Nat /\ (k = 1 \/ (k - 1 \in DOMAIN queue' /\ queue'[k - 1] = queue[k]))
  OBVIOUS

\* The queue is what it was, with at most the command (c, t) at its end.
AtMostLast(c, t) ==
  /\ queue' \in Seq(Commands) /\ Len(queue') <= QueueCap
  /\ \A k \in DOMAIN queue : k \in DOMAIN queue' /\ queue'[k] = queue[k]
  /\ \A k \in DOMAIN queue' : k \in DOMAIN queue
       \/ (queue'[k] = Cmd(c, t) /\ k = Len(queue) + 1)
  /\ \A k \in DOMAIN queue : k \in Nat /\ k < Len(queue) + 1
  /\ Cmd(c, t).cmd = c /\ Cmd(c, t).pull = t /\ Cmd(c, t).stream = on[t]

\* A command that is no close is queued.
SentLast(c, t) ==
  /\ AtMostLast(c, t)
  /\ \A s \in Streams : CloseQueued(s)' <=> CloseQueued(s)

\* A close of t's stream is queued, or lost.
ClosedLast(t) ==
  /\ AtMostLast("close", t)
  /\ lost' \subseteq Streams /\ lost \subseteq lost'
  /\ \A s \in Streams : CloseQueued(s) => CloseQueued(s)'
  /\ \A s \in Streams \ {on[t]} : (CloseQueued(s)' => CloseQueued(s)) /\ (s \in lost' => s \in lost)
  /\ \A s \in Streams : s = on[t] => CloseQueued(s)' \/ s \in lost'

LEMMA Sent ==
  ASSUME TypeOK, NEW t \in Tasks, NEW c \in {"open", "connect"},
         queue' = Append(queue, Cmd(c, t)), Len(queue) < QueueCap
  PROVE  SentLast(c, t)
<1>1. Cmd(c, t) \in Commands
  BY DEF Cmd, Commands, TypeOK, Procs
<1>2. queue \in Seq(Commands) /\ Len(queue) \in Nat /\ QueueCap \in Nat
  BY BridgeAssumption DEF TypeOK
<1>3. Cmd(c, t).cmd = c /\ Cmd(c, t).pull = t /\ Cmd(c, t).stream = on[t]
  BY DEF Cmd
<1>4. \A s \in Streams : CloseQueued(s)' <=> CloseQueued(s)
  BY <1>1, <1>2, <1>3, QueueAppend DEF CloseQueued
<1>5. AtMostLast(c, t)
  BY <1>1, <1>2, <1>3, QueueAppend DEF AtMostLast
<1> QED
  BY <1>4, <1>5 DEF SentLast

LEMMA Dropped ==
  ASSUME TypeOK, NEW t \in Tasks, DropHandle(t)
  PROVE  ClosedLast(t)
<1>1. Cmd("close", t) \in Commands
  BY DEF Cmd, Commands, TypeOK, Procs
<1>2. queue \in Seq(Commands) /\ Len(queue) \in Nat /\ QueueCap \in Nat /\ on[t] \in Streams
      /\ Len(queue) <= QueueCap /\ lost \subseteq Streams
  BY BridgeAssumption DEF TypeOK, Procs
<1>3. Cmd("close", t).cmd = "close" /\ Cmd("close", t).pull = t /\ Cmd("close", t).stream = on[t]
  BY DEF Cmd
<1>4. CASE Len(queue) < QueueCap /\ queue' = Append(queue, Cmd("close", t)) /\ UNCHANGED lost
  <2>1. \A s \in Streams : CloseQueued(s) => CloseQueued(s)'
    BY <1>1, <1>2, <1>4, QueueAppend DEF CloseQueued
  <2>2. \A s \in Streams \ {on[t]} : CloseQueued(s)' => CloseQueued(s)
    BY <1>1, <1>2, <1>3, <1>4, QueueAppend DEF CloseQueued
  <2>3. \A s \in Streams : s = on[t] => CloseQueued(s)'
    <3>1. queue'[Len(queue) + 1] = Cmd("close", t) /\ Len(queue) + 1 \in DOMAIN queue'
      BY <1>1, <1>2, <1>4, QueueAppend
    <3> QED
      BY <1>3, <3>1 DEF CloseQueued
  <2>4. AtMostLast("close", t)
    BY <1>1, <1>2, <1>3, <1>4, QueueAppend DEF AtMostLast
  <2> QED
    BY <1>2, <1>4, <2>1, <2>2, <2>3, <2>4 DEF ClosedLast
<1>5. CASE Len(queue) >= QueueCap /\ lost' = lost \cup {on[t]} /\ UNCHANGED queue
  <2>1. \A s \in Streams : CloseQueued(s) <=> CloseQueued(s)'
    BY <1>5 DEF CloseQueued
  <2>2. AtMostLast("close", t)
    BY <1>2, <1>3, <1>5 DEF AtMostLast
  <2> QED
    BY <1>2, <1>5, <2>1, <2>2 DEF ClosedLast
<1> QED
  BY <1>4, <1>5 DEF DropHandle

\* A BYE changes its own dialog, if that is up, and nothing else.
LEMMA ByeSent ==
  ASSUME TypeOK, NEW t \in Tasks, SendBye(t)
  PROVE  /\ dialog' \in [Tasks -> {"none", "up", "over", "stray", "failed"}]
         /\ \A u \in Tasks : dialog'[u] = dialog[u] \/ (u = t /\ dialog[u] = "up")
         /\ dialog'[t] # "up"
<1>1. PICK outcome \in {"over", "failed"} :
        dialog' = [dialog EXCEPT ![t] = IF dialog[t] = "up" THEN outcome ELSE dialog[t]]
  BY DEF SendBye
<1>2. dialog \in [Tasks -> {"none", "up", "over", "stray", "failed"}]
  BY DEF TypeOK
<1> QED
  BY <1>1, <1>2

\* The queue stays well formed when a handle of a pull that is past opening drops.
LEMMA QueueInvKept ==
  ASSUME TypeOK, QueueInv, NEW x \in Tasks, ClosedLast(x), pc[x] # "idle", UNCHANGED on,
         \A t \in Tasks : pc'[t] = pc[t] \/ (pc[t] \notin {"idle", "opening"} /\ pc'[t] # "idle")
  PROVE  QueueInv'
<1>1. \A k \in DOMAIN queue : queue[k].pull \in Tasks
  BY QueueTyped
<1>2. AtMostLast("close", x)
  BY DEF ClosedLast
<1>3. \A k \in DOMAIN queue' :
        /\ queue'[k].stream = on[queue'[k].pull]
        /\ pc'[queue'[k].pull] # "idle"
        /\ queue'[k].cmd = "open" => pc'[queue'[k].pull] = "opening" /\ k \in DOMAIN queue
  BY <1>1, <1>2 DEF AtMostLast, QueueInv
<1> QED
  BY <1>2, <1>3 DEF AtMostLast, QueueInv

\* A close that the only busy task of a stream queues comes after no open of it.
LEMMA ClosesFirstKept ==
  ASSUME TypeOK, QueueInv, OneBusy, ClosesFirst, UNCHANGED contended,
         NEW x \in Tasks, ClosedLast(x),
         NEW p \in Procs, Busy(p), pc[p] # "opening", on[p] = on[x]
  PROVE  ClosesFirst'
<1> SUFFICES ASSUME NEW j \in DOMAIN queue', NEW k \in DOMAIN queue',
                    queue'[j].cmd = "open", queue'[k].cmd = "close",
                    queue'[j].stream = queue'[k].stream,
                    queue'[j].stream \notin contended' \cup lost'
             PROVE  k < j
  BY DEF ClosesFirst
<1>1. AtMostLast("close", x) /\ lost \subseteq lost'
  BY DEF ClosedLast
<1>2. j \in DOMAIN queue /\ queue'[j] = queue[j]
  BY <1>1 DEF AtMostLast
<1>3. CASE k \in DOMAIN queue
  BY <1>1, <1>2, <1>3 DEF AtMostLast, ClosesFirst
<1>4. CASE queue'[k] = Cmd("close", x)
  <2>1. queue[j].pull \in Tasks
    BY <1>2, QueueTyped
  <2>2. pc[queue[j].pull] = "opening" /\ on[queue[j].pull] = on[x]
    BY <1>1, <1>2, <1>4 DEF QueueInv, AtMostLast
  <2>3. queue[j].pull = p
    BY <1>1, <1>2, <1>4, <2>1, <2>2 DEF OneBusy, Busy, Procs, AtMostLast
  <2> QED
    BY <2>2, <2>3
<1> QED
  BY <1>1, <1>3, <1>4 DEF AtMostLast

-----------------------------------------------------------------------------
(* Induction *)

LEMMA BridgeInit == Init => IInv
  BY BridgeAssumption
     DEF Init, IInv, TypeOK, QueueInv, PlaceInv, DialogFresh, ServerOwned, DialogOwned,
     OneBusy, Alone, PullKeeps, ClosesFirst, PullIntact, Procs, Transports, PcValues, Busy, Holding, Held, CloseQueued

LEMMA BridgeStep == IInv /\ [Next]_vars => IInv'
<1> SUFFICES ASSUME IInv, [Next]_vars PROVE IInv'
  OBVIOUS
<1>0. /\ TypeOK /\ QueueInv /\ PlaceInv /\ ServerOwned /\ DialogOwned /\ DialogFresh
      /\ OneBusy /\ Alone /\ PullKeeps /\ ClosesFirst /\ PullIntact
  BY DEF IInv
<1>1. ASSUME NEW t \in Tasks, NEW s \in Streams, MediaNotFound(t, s) PROVE IInv'
  <2>1. TypeOK'
    BY <1>0, <1>1, BridgeAssumption
       DEF MediaNotFound, NoteContention, Busy, zlmVars, taskVars, sipVars, obsVars, TypeOK,
       Procs, PcValues, Transports
  <2>2. QueueInv' /\ PlaceInv'
    BY <1>0, <1>1, BridgeAssumption
       DEF MediaNotFound, NoteContention, Busy, zlmVars, taskVars, sipVars, obsVars,
       QueueInv, Commands, TypeOK, Procs, PlaceInv, Holding
  <2>3. DialogFresh'
    BY <1>0, <1>1, BridgeAssumption
       DEF MediaNotFound, NoteContention, Busy, zlmVars, taskVars, sipVars, obsVars,
       DialogFresh, PlaceInv, TypeOK, Procs, Holding
  <2>4. ServerOwned' /\ DialogOwned'
    BY <1>0, <1>1, BridgeAssumption
       DEF MediaNotFound, NoteContention, Busy, zlmVars, taskVars, sipVars, obsVars,
       ServerOwned, PlaceInv, Held, CloseQueued, Holding, TypeOK, Procs, DialogOwned,
       DialogFresh
  <2>5. OneBusy' /\ Alone'
    BY <1>0, <1>1, BridgeAssumption
       DEF MediaNotFound, NoteContention, Busy, zlmVars, taskVars, sipVars, obsVars,
       OneBusy, TypeOK, Procs, Alone, PlaceInv, Holding
  <2>6. PullKeeps' /\ ClosesFirst' /\ PullIntact'
    BY <1>0, <1>1, BridgeAssumption
       DEF MediaNotFound, NoteContention, Busy, zlmVars, taskVars, sipVars, obsVars,
       PullKeeps, OneBusy, Alone, CloseQueued, PlaceInv, Holding, TypeOK, Procs,
       ClosesFirst, QueueInv, Commands, PullIntact
  <2> QED
    BY <2>1, <2>2, <2>3, <2>4, <2>5, <2>6 DEF IInv
<1>2. ASSUME NEW t \in Tasks, NEW s \in Streams, MediaNoReader(t, s) PROVE IInv'
  <2>1. TypeOK'
    BY <1>0, <1>2, BridgeAssumption
       DEF MediaNoReader, NoteContention, Busy, zlmVars, taskVars, sipVars, obsVars, TypeOK,
       Procs, PcValues, Transports
  <2>2. QueueInv' /\ PlaceInv'
    BY <1>0, <1>2, BridgeAssumption
       DEF MediaNoReader, NoteContention, Busy, zlmVars, taskVars, sipVars, obsVars,
       QueueInv, Commands, TypeOK, Procs, PlaceInv, Holding
  <2>3. DialogFresh'
    BY <1>0, <1>2, BridgeAssumption
       DEF MediaNoReader, NoteContention, Busy, zlmVars, taskVars, sipVars, obsVars,
       DialogFresh, PlaceInv, TypeOK, Procs, Holding
  <2>4. ServerOwned' /\ DialogOwned'
    <3>1. ServerOwned'
      BY <1>0, <1>2, BridgeAssumption
         DEF MediaNoReader, NoteContention, Busy, zlmVars, taskVars, sipVars, obsVars,
         ServerOwned, PlaceInv, Held, CloseQueued, Holding, TypeOK, Procs
    <3>2. DialogOwned'
      BY <1>0, <1>2, BridgeAssumption
         DEF MediaNoReader, NoteContention, Busy, zlmVars, taskVars, sipVars, obsVars,
         PlaceInv, Held, Holding, TypeOK, Procs, DialogOwned, DialogFresh
    <3> QED
      BY <3>1, <3>2
  <2>5. OneBusy' /\ Alone'
    BY <1>0, <1>2, BridgeAssumption
       DEF MediaNoReader, NoteContention, Busy, zlmVars, taskVars, sipVars, obsVars,
       OneBusy, TypeOK, Procs, Alone, PlaceInv, Holding
  <2>6. PullKeeps' /\ ClosesFirst' /\ PullIntact'
    BY <1>0, <1>2, BridgeAssumption
       DEF MediaNoReader, NoteContention, Busy, zlmVars, taskVars, sipVars, obsVars,
       PullKeeps, OneBusy, Alone, CloseQueued, PlaceInv, Holding, TypeOK, Procs,
       ClosesFirst, QueueInv, Commands, PullIntact
  <2> QED
    BY <2>1, <2>2, <2>3, <2>4, <2>5, <2>6 DEF IInv
<1>3. ASSUME NEW t \in Tasks, NEW s \in Streams, UnregisterMapping(t, s) PROVE IInv'
  <2>1. TypeOK'
    BY <1>0, <1>3, BridgeAssumption
       DEF UnregisterMapping, NoteContention, Busy, zlmVars, taskVars, sipVars, obsVars,
       TypeOK, Procs, PcValues, Transports
  <2>2. QueueInv' /\ PlaceInv'
    BY <1>0, <1>3, BridgeAssumption
       DEF UnregisterMapping, NoteContention, Busy, zlmVars, taskVars, sipVars, obsVars,
       QueueInv, Commands, TypeOK, Procs, PlaceInv, Holding
  <2>3. DialogFresh'
    BY <1>0, <1>3, BridgeAssumption
       DEF UnregisterMapping, NoteContention, Busy, zlmVars, taskVars, sipVars, obsVars,
       DialogFresh, PlaceInv, TypeOK, Procs, Holding
  <2>4. ServerOwned' /\ DialogOwned'
    <3>1. ServerOwned'
      BY <1>0, <1>3, BridgeAssumption
         DEF UnregisterMapping, NoteContention, Busy, zlmVars, taskVars, sipVars, obsVars,
         ServerOwned, PlaceInv, Held, CloseQueued, Holding, TypeOK, Procs
    <3>2. DialogOwned'
      BY <1>0, <1>3, BridgeAssumption
         DEF UnregisterMapping, NoteContention, Busy, zlmVars, taskVars, sipVars, obsVars,
         PlaceInv, Held, Holding, TypeOK, Procs, DialogOwned, DialogFresh
    <3> QED
      BY <3>1, <3>2
  <2>5. OneBusy' /\ Alone'
    BY <1>0, <1>3, BridgeAssumption
       DEF UnregisterMapping, NoteContention, Busy, zlmVars, taskVars, sipVars, obsVars,
       OneBusy, TypeOK, Procs, Alone, PlaceInv, Holding
  <2>6. PullKeeps' /\ ClosesFirst' /\ PullIntact'
    BY <1>0, <1>3, BridgeAssumption
       DEF UnregisterMapping, NoteContention, Busy, zlmVars, taskVars, sipVars, obsVars,
       PullKeeps, OneBusy, Alone, CloseQueued, PlaceInv, Holding, TypeOK, Procs,
       ClosesFirst, QueueInv, Commands, PullIntact
  <2> QED
    BY <2>1, <2>2, <2>3, <2>4, <2>5, <2>6 DEF IInv
<1>4. ASSUME NEW t \in Tasks, LookupMapping(t) PROVE IInv'
  <2>1. TypeOK'
    BY <1>0, <1>4, BridgeAssumption
       DEF LookupMapping, zlmVars, taskVars, sipVars, obsVars, TypeOK, Procs, PcValues,
       Transports
  <2>2. QueueInv' /\ PlaceInv'
    BY <1>0, <1>4, BridgeAssumption
       DEF LookupMapping, zlmVars, taskVars, sipVars, obsVars, QueueInv, Commands, TypeOK,
       Procs, PlaceInv, Holding
  <2>3. DialogFresh'
    BY <1>0, <1>4, BridgeAssumption
       DEF LookupMapping, zlmVars, taskVars, sipVars, obsVars, DialogFresh, PlaceInv,
       TypeOK, Procs, Holding
  <2>4. ServerOwned' /\ DialogOwned'
    <3>1. ServerOwned'
      BY <1>0, <1>4, BridgeAssumption
         DEF LookupMapping, zlmVars, obsVars, ServerOwned, PlaceInv, Held, CloseQueued,
         Holding, TypeOK, Procs
    <3>2. DialogOwned'
      BY <1>0, <1>4, BridgeAssumption
         DEF LookupMapping, sipVars, Held, Holding, TypeOK, Procs, DialogOwned
    <3> QED
      BY <3>1, <3>2
  <2>5. OneBusy' /\ Alone'
    BY <1>0, <1>4, BridgeAssumption
       DEF LookupMapping, zlmVars, taskVars, sipVars, obsVars, OneBusy, Busy, TypeOK, Procs,
       Alone, PlaceInv, Holding
  <2>6. PullKeeps' /\ ClosesFirst' /\ PullIntact'
    BY <1>0, <1>4, BridgeAssumption
       DEF LookupMapping, zlmVars, taskVars, sipVars, obsVars, PullKeeps, OneBusy, Busy,
       Alone, CloseQueued, PlaceInv, Holding, TypeOK, Procs, ClosesFirst, QueueInv,
       Commands, PullIntact
  <2> QED
    BY <2>1, <2>2, <2>3, <2>4, <2>5, <2>6 DEF IInv
<1>5. ASSUME NEW t \in Tasks, CheckActive(t) PROVE IInv'
  <2>1. TypeOK'
    BY <1>0, <1>5, BridgeAssumption
       DEF CheckActive, NotPulling, zlmVars, taskVars, sipVars, obsVars, TypeOK, Procs,
       PcValues, Transports
  <2>2. QueueInv' /\ PlaceInv'
    BY <1>0, <1>5, BridgeAssumption
       DEF CheckActive, NotPulling, zlmVars, taskVars, sipVars, obsVars, QueueInv, Commands,
       TypeOK, Procs, PlaceInv, Holding
  <2>3. DialogFresh'
    BY <1>0, <1>5, BridgeAssumption
       DEF CheckActive, NotPulling, zlmVars, taskVars, sipVars, obsVars, DialogFresh,
       PlaceInv, TypeOK, Procs, Holding
  <2>4. ServerOwned' /\ DialogOwned'
    BY <1>0, <1>5, BridgeAssumption
       DEF CheckActive, NotPulling, zlmVars, taskVars, sipVars, obsVars, ServerOwned,
       PlaceInv, Held, CloseQueued, Holding, TypeOK, Procs, DialogOwned, DialogFresh
  <2>5. OneBusy' /\ Alone'
    BY <1>0, <1>5, BridgeAssumption
       DEF CheckActive, NotPulling, zlmVars, taskVars, sipVars, obsVars, OneBusy, Busy,
       TypeOK, Procs, Alone, PlaceInv, Holding
  <2>6. PullKeeps' /\ ClosesFirst' /\ PullIntact'
    BY <1>0, <1>5, BridgeAssumption
       DEF CheckActive, NotPulling, zlmVars, taskVars, sipVars, obsVars, PullKeeps, OneBusy,
       Busy, Alone, CloseQueued, PlaceInv, Holding, TypeOK, Procs, ClosesFirst, QueueInv,
       Commands, PullIntact
  <2> QED
    BY <2>1, <2>2, <2>3, <2>4, <2>5, <2>6 DEF IInv
<1>6. ASSUME NEW t \in Tasks, SendOpen(t) PROVE IInv'
  <2>1. AtMostLast("open", t) /\ SentLast("open", t)
    BY <1>0, <1>6, Sent DEF SendOpen, SentLast
  <2>2. TypeOK'
    BY <1>0, <1>6, <2>1, BridgeAssumption
       DEF SendOpen, AtMostLast, SentLast, zlmVars, taskVars, sipVars, obsVars, TypeOK,
       Procs, PcValues, Transports
  <2>3. QueueInv' /\ PlaceInv'
    BY <1>0, <1>6, <2>1, BridgeAssumption
       DEF SendOpen, AtMostLast, SentLast, zlmVars, taskVars, sipVars, obsVars, QueueInv,
       Commands, TypeOK, Procs, PlaceInv, Holding
  <2>4. DialogFresh'
    BY <1>0, <1>6, <2>1, BridgeAssumption
       DEF SendOpen, AtMostLast, SentLast, zlmVars, taskVars, sipVars, obsVars, DialogFresh,
       PlaceInv, TypeOK, Procs, Holding
  <2>5. ServerOwned' /\ DialogOwned'
    BY <1>0, <1>6, <2>1, BridgeAssumption
       DEF SendOpen, AtMostLast, SentLast, zlmVars, taskVars, sipVars, obsVars, ServerOwned,
       PlaceInv, Held, Holding, TypeOK, Procs, DialogOwned, DialogFresh
  <2>6. OneBusy' /\ Alone'
    BY <1>0, <1>6, <2>1, BridgeAssumption
       DEF SendOpen, AtMostLast, SentLast, zlmVars, taskVars, sipVars, obsVars, OneBusy,
       Busy, TypeOK, Procs, Alone, PlaceInv, Holding
  <2>7. PullKeeps' /\ ClosesFirst' /\ PullIntact'
    BY <1>0, <1>6, <2>1, BridgeAssumption
       DEF SendOpen, AtMostLast, SentLast, zlmVars, taskVars, sipVars, obsVars, PullKeeps,
       OneBusy, Busy, Alone, PlaceInv, Holding, TypeOK, Procs, ClosesFirst, QueueInv,
       Commands, PullIntact
  <2> QED
    BY <2>2, <2>3, <2>4, <2>5, <2>6, <2>7 DEF IInv
<1>7. ASSUME NEW t \in Tasks, InviteOk(t) PROVE IInv'
  <2>1. TypeOK'
    BY <1>0, <1>7, BridgeAssumption
       DEF InviteOk, SipUp, zlmVars, taskVars, sipVars, obsVars, TypeOK, Procs, PcValues,
       Transports
  <2>2. QueueInv' /\ PlaceInv'
    BY <1>0, <1>7, BridgeAssumption
       DEF InviteOk, SipUp, zlmVars, taskVars, sipVars, obsVars, QueueInv, Commands, TypeOK,
       Procs, PlaceInv, Holding
  <2>3. DialogFresh'
    BY <1>0, <1>7, BridgeAssumption
       DEF InviteOk, SipUp, zlmVars, taskVars, sipVars, obsVars, DialogFresh, PlaceInv,
       TypeOK, Procs, Holding
  <2>4. ServerOwned' /\ DialogOwned'
    BY <1>0, <1>7, BridgeAssumption
       DEF InviteOk, SipUp, zlmVars, taskVars, sipVars, obsVars, ServerOwned, PlaceInv,
       Held, CloseQueued, Holding, TypeOK, Procs, DialogOwned, DialogFresh
  <2>5. OneBusy' /\ Alone'
    BY <1>0, <1>7, BridgeAssumption
       DEF InviteOk, SipUp, zlmVars, taskVars, sipVars, obsVars, OneBusy, Busy, TypeOK,
       Procs, Alone, PlaceInv, Holding
  <2>6. PullKeeps' /\ ClosesFirst' /\ PullIntact'
    BY <1>0, <1>7, BridgeAssumption
       DEF InviteOk, SipUp, zlmVars, taskVars, sipVars, obsVars, PullKeeps, OneBusy, Busy,
       Alone, CloseQueued, PlaceInv, Holding, TypeOK, Procs, ClosesFirst, QueueInv,
       Commands, PullIntact
  <2> QED
    BY <2>1, <2>2, <2>3, <2>4, <2>5, <2>6 DEF IInv
<1>8. ASSUME NEW t \in Tasks, InviteFails(t) PROVE IInv'
  <2>1. AtMostLast("close", t) /\ ClosedLast(t)
    BY <1>0, <1>8, Dropped DEF InviteFails, SipUp, ClosedLast
  <2>2. TypeOK'
    BY <1>0, <1>8, <2>1, BridgeAssumption
       DEF InviteFails, SipUp, AtMostLast, ClosedLast, zlmVars, taskVars, sipVars, obsVars,
       TypeOK, Procs, PcValues, Transports
  <2>3. QueueInv'
    BY <1>0, <1>8, <2>1, QueueInvKept DEF InviteFails, PlaceInv, TypeOK, Procs
  <2>4. PlaceInv'
    BY <1>0, <1>8, <2>1, BridgeAssumption
       DEF InviteFails, SipUp, AtMostLast, ClosedLast, zlmVars, taskVars, sipVars, obsVars,
       PlaceInv, TypeOK, Procs, Holding
  <2>5. DialogFresh'
    BY <1>0, <1>8, <2>1, BridgeAssumption
       DEF InviteFails, SipUp, AtMostLast, ClosedLast, zlmVars, taskVars, sipVars, obsVars,
       DialogFresh, PlaceInv, TypeOK, Procs, Holding
  <2>6. ServerOwned'
    BY <1>0, <1>8, <2>1, BridgeAssumption
       DEF InviteFails, SipUp, AtMostLast, ClosedLast, zlmVars, taskVars, sipVars, obsVars,
       ServerOwned, PlaceInv, Held, Holding, TypeOK, Procs
  <2>7. DialogOwned'
    BY <1>0, <1>8, <2>1, BridgeAssumption
       DEF InviteFails, SipUp, AtMostLast, ClosedLast, zlmVars, taskVars, sipVars, obsVars,
       DialogOwned, DialogFresh, PlaceInv, Held, Holding, TypeOK, Procs
  <2>8. OneBusy' /\ Alone'
    BY <1>0, <1>8, <2>1, BridgeAssumption
       DEF InviteFails, SipUp, AtMostLast, ClosedLast, zlmVars, taskVars, sipVars, obsVars,
       OneBusy, Busy, TypeOK, Procs, Alone, PlaceInv, Holding
  <2>9. PullKeeps'
    BY <1>0, <1>8, <2>1, BridgeAssumption
       DEF InviteFails, SipUp, AtMostLast, ClosedLast, zlmVars, taskVars, sipVars, obsVars,
       PullKeeps, OneBusy, Busy, Alone, PlaceInv, Holding, TypeOK, Procs
  <2>10. ClosesFirst'
    BY <1>0, <1>8, <2>1, ClosesFirstKept DEF InviteFails, PlaceInv, Busy, TypeOK, Procs
  <2>11. PullIntact'
    BY <1>0, <1>8, <2>1, BridgeAssumption
       DEF InviteFails, SipUp, AtMostLast, ClosedLast, zlmVars, taskVars, sipVars, obsVars,
       PullIntact, OneBusy, Busy, Alone, PullKeeps, PlaceInv, Holding, TypeOK, Procs
  <2> QED
    BY <2>2, <2>3, <2>4, <2>5, <2>6, <2>7, <2>8, <2>9, <2>10, <2>11 DEF IInv
<1>9. ASSUME NEW t \in Tasks, SendConnect(t) PROVE IInv'
  <2>1. AtMostLast("connect", t) /\ SentLast("connect", t)
    BY <1>0, <1>9, Sent DEF SendConnect, SentLast
  <2>2. TypeOK'
    BY <1>0, <1>9, <2>1, BridgeAssumption
       DEF SendConnect, AtMostLast, SentLast, zlmVars, taskVars, sipVars, obsVars, TypeOK,
       Procs, PcValues, Transports
  <2>3. QueueInv' /\ PlaceInv'
    BY <1>0, <1>9, <2>1, BridgeAssumption
       DEF SendConnect, AtMostLast, SentLast, zlmVars, taskVars, sipVars, obsVars, QueueInv,
       Commands, TypeOK, Procs, PlaceInv, Holding
  <2>4. DialogFresh'
    BY <1>0, <1>9, <2>1, BridgeAssumption
       DEF SendConnect, AtMostLast, SentLast, zlmVars, taskVars, sipVars, obsVars,
       DialogFresh, PlaceInv, TypeOK, Procs, Holding
  <2>5. ServerOwned' /\ DialogOwned'
    BY <1>0, <1>9, <2>1, BridgeAssumption
       DEF SendConnect, AtMostLast, SentLast, zlmVars, taskVars, sipVars, obsVars,
       ServerOwned, PlaceInv, Held, Holding, TypeOK, Procs, DialogOwned, DialogFresh
  <2>6. OneBusy' /\ Alone'
    BY <1>0, <1>9, <2>1, BridgeAssumption
       DEF SendConnect, AtMostLast, SentLast, zlmVars, taskVars, sipVars, obsVars, OneBusy,
       Busy, TypeOK, Procs, Alone, PlaceInv, Holding
  <2>7. PullKeeps' /\ ClosesFirst' /\ PullIntact'
    BY <1>0, <1>9, <2>1, BridgeAssumption
       DEF SendConnect, AtMostLast, SentLast, zlmVars, taskVars, sipVars, obsVars,
       PullKeeps, OneBusy, Busy, Alone, PlaceInv, Holding, TypeOK, Procs, ClosesFirst,
       QueueInv, Commands, PullIntact
  <2> QED
    BY <2>2, <2>3, <2>4, <2>5, <2>6, <2>7 DEF IInv
<1>10. ASSUME NEW t \in Tasks, ConnectOk(t) PROVE IInv'
  <2>1. TypeOK'
    BY <1>0, <1>10, BridgeAssumption
       DEF ConnectOk, zlmVars, taskVars, sipVars, obsVars, TypeOK, Procs, PcValues,
       Transports
  <2>2. QueueInv' /\ PlaceInv'
    BY <1>0, <1>10, BridgeAssumption
       DEF ConnectOk, zlmVars, taskVars, sipVars, obsVars, QueueInv, Commands, TypeOK,
       Procs, PlaceInv, Holding
  <2>3. DialogFresh'
    BY <1>0, <1>10, BridgeAssumption
       DEF ConnectOk, zlmVars, taskVars, sipVars, obsVars, DialogFresh, PlaceInv, TypeOK,
       Procs, Holding
  <2>4. ServerOwned' /\ DialogOwned'
    BY <1>0, <1>10, BridgeAssumption
       DEF ConnectOk, zlmVars, taskVars, sipVars, obsVars, ServerOwned, PlaceInv, Held,
       CloseQueued, Holding, TypeOK, Procs, DialogOwned, DialogFresh
  <2>5. OneBusy' /\ Alone'
    BY <1>0, <1>10, BridgeAssumption
       DEF ConnectOk, zlmVars, taskVars, sipVars, obsVars, OneBusy, Busy, TypeOK, Procs,
       Alone, PlaceInv, Holding
  <2>6. PullKeeps' /\ ClosesFirst' /\ PullIntact'
    BY <1>0, <1>10, BridgeAssumption
       DEF ConnectOk, zlmVars, taskVars, sipVars, obsVars, PullKeeps, OneBusy, Busy, Alone,
       CloseQueued, PlaceInv, Holding, TypeOK, Procs, ClosesFirst, QueueInv, Commands,
       PullIntact
  <2> QED
    BY <2>1, <2>2, <2>3, <2>4, <2>5, <2>6 DEF IInv
<1>11. ASSUME NEW t \in Tasks, pc[t] \in Holding /\ Abort(t) PROVE IInv'
  <2>1. AtMostLast("close", t) /\ ClosedLast(t)
    BY <1>0, <1>11, Dropped DEF Abort, DropSession, Holding, ClosedLast
  <2>2. TypeOK'
    BY <1>0, <1>11, <2>1, BridgeAssumption
       DEF Abort, DropSession, Holding, AtMostLast, ClosedLast, zlmVars, taskVars, sipVars,
       obsVars, TypeOK, Procs, PcValues, Transports
  <2>3. QueueInv'
    BY <1>0, <1>11, <2>1, QueueInvKept DEF Abort, Holding, PlaceInv, TypeOK, Procs
  <2>4. PlaceInv'
    BY <1>0, <1>11, <2>1, BridgeAssumption
       DEF Abort, DropSession, Holding, AtMostLast, ClosedLast, zlmVars, taskVars, sipVars,
       obsVars, PlaceInv, TypeOK, Procs
  <2>5. DialogFresh'
    BY <1>0, <1>11, <2>1, BridgeAssumption
       DEF Abort, DropSession, Holding, AtMostLast, ClosedLast, zlmVars, taskVars, sipVars,
       obsVars, DialogFresh, PlaceInv, TypeOK, Procs
  <2>6. ServerOwned'
    BY <1>0, <1>11, <2>1, BridgeAssumption
       DEF Abort, DropSession, Holding, AtMostLast, ClosedLast, zlmVars, taskVars, sipVars,
       obsVars, ServerOwned, PlaceInv, Held, TypeOK, Procs
  <2>7. DialogOwned'
    BY <1>0, <1>11, <2>1, BridgeAssumption
       DEF Abort, DropSession, Holding, AtMostLast, ClosedLast, zlmVars, taskVars, sipVars,
       obsVars, DialogOwned, DialogFresh, PlaceInv, Held, TypeOK, Procs
  <2>8. OneBusy' /\ Alone'
    BY <1>0, <1>11, <2>1, BridgeAssumption
       DEF Abort, DropSession, Holding, AtMostLast, ClosedLast, zlmVars, taskVars, sipVars,
       obsVars, OneBusy, Busy, TypeOK, Procs, Alone, PlaceInv
  <2>9. PullKeeps'
    BY <1>0, <1>11, <2>1, BridgeAssumption
       DEF Abort, DropSession, Holding, AtMostLast, ClosedLast, zlmVars, taskVars, sipVars,
       obsVars, PullKeeps, OneBusy, Busy, Alone, PlaceInv, TypeOK, Procs
  <2>10. ClosesFirst'
    BY <1>0, <1>11, <2>1, ClosesFirstKept DEF Abort, Holding, PlaceInv, Busy, TypeOK, Procs
  <2>11. PullIntact'
    BY <1>0, <1>11, <2>1, BridgeAssumption
       DEF Abort, DropSession, Holding, AtMostLast, ClosedLast, zlmVars, taskVars, sipVars,
       obsVars, PullIntact, OneBusy, Busy, Alone, PullKeeps, PlaceInv, TypeOK, Procs
  <2> QED
    BY <2>2, <2>3, <2>4, <2>5, <2>6, <2>7, <2>8, <2>9, <2>10, <2>11 DEF IInv
<1>12. ASSUME NEW t \in Tasks, Insert(t) PROVE IInv'
  <2>1. on[t] \in Streams /\ (active[on[t]] # None => active[on[t]] \in Tasks /\ ClosedLast(active[on[t]]))
    BY <1>0, <1>12, Dropped DEF Insert, DropSession, ClosedLast, TypeOK, Procs
  <2>2. TypeOK'
    BY <1>0, <1>12, <2>1, BridgeAssumption
       DEF Insert, DropSession, AtMostLast, ClosedLast, zlmVars, taskVars, sipVars, obsVars,
       TypeOK, Procs, PcValues, Transports
  <2>3. QueueInv'
    <3>1. CASE active[on[t]] = None
      BY <1>0, <1>12, <3>1 DEF Insert, QueueInv, Commands, TypeOK, Procs
    <3>2. CASE active[on[t]] # None
      BY <1>0, <1>12, <2>1, <3>2, QueueInvKept DEF Insert, PlaceInv, TypeOK, Procs
    <3> QED
      BY <3>1, <3>2
  <2>4. PlaceInv'
    BY <1>0, <1>12, <2>1, BridgeAssumption
       DEF Insert, DropSession, AtMostLast, ClosedLast, zlmVars, taskVars, sipVars, obsVars,
       PlaceInv, TypeOK, Procs, Holding
  <2>5. DialogFresh'
    BY <1>0, <1>12, <2>1, BridgeAssumption
       DEF Insert, DropSession, AtMostLast, ClosedLast, zlmVars, taskVars, sipVars, obsVars,
       DialogFresh, PlaceInv, TypeOK, Procs, Holding
  <2>6. ServerOwned'
    <3>1. /\ on \in [Procs -> Streams] /\ active \in [Streams -> Tasks \cup {None}]
          /\ servers \in [Streams -> Tasks \cup {None}] /\ victim \in [Procs -> Tasks \cup {None}]
          /\ pc \in [Procs -> PcValues] /\ Tasks \subseteq Procs
      BY <1>0 DEF TypeOK, Procs
    <3>2. /\ pc[t] = "insert" /\ active' = [active EXCEPT ![on[t]] = t]
          /\ pc' = [pc EXCEPT ![t] = "done"] /\ UNCHANGED <<servers, on, victim>>
      BY <1>12 DEF Insert
    <3>3. ASSUME NEW s \in Streams, servers[s] # None
          PROVE  Held(servers[s])' \/ CloseQueued(s)' \/ s \in lost'
      <4>1. servers[s] \in Tasks /\ on[servers[s]] = s
        BY <1>0, <3>1, <3>3 DEF PlaceInv
      <4>2. CASE servers[s] = t
        BY <3>1, <3>2, <4>1, <4>2 DEF Held
      <4>3. CASE active[s] # None /\ active[s] = servers[s] /\ servers[s] # t /\ on[t] = s
        <5>1. on[active[s]] = s /\ active[s] \in Tasks
          BY <4>1, <4>3
        <5>2. CloseQueued(s)' \/ s \in lost'
          BY <1>0, <1>12, <2>1, <4>3, <5>1 DEF Insert, ClosedLast
        <5> QED
          BY <5>2
      <4>4. CASE servers[s] # t /\ ~(active[s] = servers[s] /\ on[t] = s) /\ Held(servers[s])
        BY <3>1, <3>2, <4>1, <4>4, BridgeAssumption DEF Held, Holding
      <4>5. CASE ~Held(servers[s])
        <5>1. CloseQueued(s) \/ s \in lost
          BY <1>0, <3>3, <4>5 DEF ServerOwned
        <5> QED
          BY <1>0, <1>12, <2>1, <5>1 DEF Insert, ClosedLast, CloseQueued
      <4> QED
        BY <3>3, <4>2, <4>3, <4>4, <4>5
    <3> QED
      BY <3>2, <3>3 DEF ServerOwned
  <2>7. DialogOwned'
    BY <1>0, <1>12, <2>1, BridgeAssumption
       DEF Insert, DropSession, AtMostLast, ClosedLast, zlmVars, taskVars, sipVars, obsVars,
       DialogOwned, DialogFresh, PlaceInv, Held, Holding, TypeOK, Procs
  <2>8. OneBusy' /\ Alone'
    BY <1>0, <1>12, <2>1, BridgeAssumption
       DEF Insert, DropSession, AtMostLast, ClosedLast, zlmVars, taskVars, sipVars, obsVars,
       OneBusy, Busy, TypeOK, Procs, Alone, PlaceInv, Holding
  <2>9. PullKeeps'
    BY <1>0, <1>12, <2>1, BridgeAssumption
       DEF Insert, DropSession, AtMostLast, ClosedLast, zlmVars, taskVars, sipVars, obsVars,
       PullKeeps, OneBusy, Busy, Alone, CloseQueued, PlaceInv, Holding, TypeOK, Procs
  <2>10. ClosesFirst'
    <3>1. CASE active[on[t]] = None
      BY <1>0, <1>12, <3>1 DEF Insert, ClosesFirst
    <3>2. CASE active[on[t]] # None
      BY <1>0, <1>12, <2>1, <3>2, ClosesFirstKept, SMTT(30)
         DEF Insert, PlaceInv, Busy, TypeOK, Procs
    <3> QED
      BY <3>1, <3>2
  <2>11. PullIntact'
    BY <1>0, <1>12, <2>1, BridgeAssumption
       DEF Insert, DropSession, AtMostLast, ClosedLast, zlmVars, taskVars, sipVars, obsVars,
       PullIntact, OneBusy, Busy, Alone, PullKeeps, CloseQueued, PlaceInv, Holding, TypeOK,
       Procs
  <2> QED
    BY <2>2, <2>3, <2>4, <2>5, <2>6, <2>7, <2>8, <2>9, <2>10, <2>11 DEF IInv
<1>13. ASSUME NEW t \in Tasks, Janitor(t) PROVE IInv'
  <2>0. /\ dialog' \in [Tasks -> {"none", "up", "over", "stray", "failed"}]
        /\ \A u \in Tasks : dialog'[u] = dialog[u] \/ (u = t /\ dialog[u] = "up")
        /\ dialog'[t] # "up"
    BY <1>0, <1>13, ByeSent DEF Janitor
  <2>1. TypeOK'
    BY <1>0, <1>13, <2>0, BridgeAssumption
       DEF Janitor, zlmVars, taskVars, sipVars, obsVars, TypeOK, Procs, PcValues, Transports
  <2>2. QueueInv' /\ PlaceInv'
    BY <1>0, <1>13, BridgeAssumption
       DEF Janitor, zlmVars, taskVars, sipVars, obsVars, QueueInv, Commands, TypeOK, Procs,
       PlaceInv, Holding
  <2>3. DialogFresh'
    BY <1>0, <1>13, <2>0, BridgeAssumption
       DEF Janitor, zlmVars, taskVars, sipVars, obsVars, DialogFresh, PlaceInv, TypeOK,
       Procs, Holding
  <2>4. ServerOwned' /\ DialogOwned'
    BY <1>0, <1>13, <2>0, BridgeAssumption
       DEF Janitor, zlmVars, taskVars, sipVars, obsVars, ServerOwned, PlaceInv, Held,
       CloseQueued, Holding, TypeOK, Procs, DialogOwned, DialogFresh
  <2>5. OneBusy' /\ Alone'
    BY <1>0, <1>13, BridgeAssumption
       DEF Janitor, zlmVars, taskVars, sipVars, obsVars, OneBusy, Busy, TypeOK, Procs,
       Alone, PlaceInv, Holding
  <2>6. PullKeeps' /\ ClosesFirst' /\ PullIntact'
    BY <1>0, <1>13, BridgeAssumption
       DEF Janitor, zlmVars, taskVars, sipVars, obsVars, PullKeeps, OneBusy, Busy, Alone,
       CloseQueued, PlaceInv, Holding, TypeOK, Procs, ClosesFirst, QueueInv, Commands,
       PullIntact
  <2> QED
    BY <2>1, <2>2, <2>3, <2>4, <2>5, <2>6 DEF IInv
<1>14. ASSUME NEW t \in Tasks, DeviceBye(t) PROVE IInv'
  <2>1. TypeOK'
    BY <1>0, <1>14, BridgeAssumption
       DEF DeviceBye, zlmVars, taskVars, sipVars, obsVars, TypeOK, Procs, PcValues,
       Transports
  <2>2. QueueInv' /\ PlaceInv'
    BY <1>0, <1>14, BridgeAssumption
       DEF DeviceBye, zlmVars, taskVars, sipVars, obsVars, QueueInv, Commands, TypeOK,
       Procs, PlaceInv, Holding
  <2>3. DialogFresh'
    BY <1>0, <1>14, BridgeAssumption
       DEF DeviceBye, zlmVars, taskVars, sipVars, obsVars, DialogFresh, PlaceInv, TypeOK,
       Procs, Holding
  <2>4. ServerOwned' /\ DialogOwned'
    BY <1>0, <1>14, BridgeAssumption
       DEF DeviceBye, zlmVars, taskVars, sipVars, obsVars, ServerOwned, PlaceInv, Held,
       CloseQueued, Holding, TypeOK, Procs, DialogOwned, DialogFresh
  <2>5. OneBusy' /\ Alone'
    BY <1>0, <1>14, BridgeAssumption
       DEF DeviceBye, zlmVars, taskVars, sipVars, obsVars, OneBusy, Busy, TypeOK, Procs,
       Alone, PlaceInv, Holding
  <2>6. PullKeeps' /\ ClosesFirst' /\ PullIntact'
    BY <1>0, <1>14, BridgeAssumption
       DEF DeviceBye, zlmVars, taskVars, sipVars, obsVars, PullKeeps, OneBusy, Busy, Alone,
       CloseQueued, PlaceInv, Holding, TypeOK, Procs, ClosesFirst, QueueInv, Commands,
       PullIntact
  <2> QED
    BY <2>1, <2>2, <2>3, <2>4, <2>5, <2>6 DEF IInv
<1>15. ASSUME NEW p \in Procs, TakeActive(p) PROVE IInv'
  <2>1. TypeOK'
    BY <1>0, <1>15, BridgeAssumption
       DEF TakeActive, Returned, zlmVars, taskVars, sipVars, obsVars, TypeOK, Procs,
       PcValues, Transports
  <2>2. QueueInv' /\ PlaceInv'
    BY <1>0, <1>15, BridgeAssumption
       DEF TakeActive, Returned, zlmVars, taskVars, sipVars, obsVars, QueueInv, Commands,
       TypeOK, Procs, PlaceInv, Holding
  <2>3. DialogFresh'
    BY <1>0, <1>15, BridgeAssumption
       DEF TakeActive, Returned, zlmVars, taskVars, sipVars, obsVars, DialogFresh, PlaceInv,
       TypeOK, Procs, Holding
  <2>4. ServerOwned'
    <3>1. /\ on \in [Procs -> Streams] /\ active \in [Streams -> Tasks \cup {None}]
          /\ servers \in [Streams -> Tasks \cup {None}] /\ victim \in [Procs -> Tasks \cup {None}]
          /\ pc \in [Procs -> PcValues] /\ Tasks \subseteq Procs
      BY <1>0 DEF TypeOK, Procs
    <3>2. /\ pc[p] = "teardown" /\ victim' = [victim EXCEPT ![p] = active[on[p]]]
          /\ active' = [active EXCEPT ![on[p]] = None]
          /\ pc' = [pc EXCEPT ![p] = IF active[on[p]] = None THEN Returned(p) ELSE "bye"]
          /\ UNCHANGED <<servers, queue, on, lost>>
      BY <1>15 DEF TakeActive, zlmVars, obsVars
    <3>3. victim[p] = None
      BY <1>0, <3>2 DEF TypeOK
    <3>4. ASSUME NEW s \in Streams, servers[s] # None, Held(servers[s])
          PROVE  Held(servers[s])'
      <4>1. servers[s] \in Tasks /\ on[servers[s]] = s
        BY <1>0, <3>1, <3>4 DEF PlaceInv
      <4>2. CASE pc[servers[s]] \in Holding
        BY <3>1, <3>2, <4>1, <4>2 DEF Held, Holding
      <4>3. CASE active[on[servers[s]]] = servers[s]
        BY <3>1, <3>2, <4>1, <4>3, BridgeAssumption DEF Held
      <4>4. CASE \E q \in Procs : victim[q] = servers[s]
        BY <3>1, <3>2, <3>3, <4>1, <4>4, BridgeAssumption DEF Held
      <4> QED
        BY <3>4, <4>2, <4>3, <4>4 DEF Held
    <3> QED
      BY <1>0, <3>2, <3>4 DEF ServerOwned, CloseQueued
  <2>5. DialogOwned'
    BY <1>0, <1>15, BridgeAssumption
       DEF TakeActive, Returned, zlmVars, taskVars, sipVars, obsVars, DialogOwned,
       DialogFresh, PlaceInv, Held, Holding, TypeOK, Procs
  <2>6. OneBusy' /\ Alone'
    BY <1>0, <1>15, BridgeAssumption
       DEF TakeActive, Returned, zlmVars, taskVars, sipVars, obsVars, OneBusy, Busy, TypeOK,
       Procs, Alone, PlaceInv, Holding
  <2>7. PullKeeps' /\ ClosesFirst' /\ PullIntact'
    BY <1>0, <1>15, BridgeAssumption
       DEF TakeActive, Returned, zlmVars, taskVars, sipVars, obsVars, PullKeeps, OneBusy,
       Busy, Alone, CloseQueued, PlaceInv, Holding, TypeOK, Procs, ClosesFirst, QueueInv,
       Commands, PullIntact
  <2> QED
    BY <2>1, <2>2, <2>3, <2>4, <2>5, <2>6, <2>7 DEF IInv
<1>16. ASSUME NEW p \in Procs, Bye(p) PROVE IInv'
  <2>1. victim[p] \in Tasks /\ AtMostLast("close", victim[p]) /\ ClosedLast(victim[p])
    BY <1>0, <1>16, Dropped DEF Bye, Returned, ClosedLast, TypeOK
  <2>0. /\ dialog' \in [Tasks -> {"none", "up", "over", "stray", "failed"}]
        /\ \A u \in Tasks : dialog'[u] = dialog[u] \/ (u = victim[p] /\ dialog[u] = "up")
        /\ dialog'[victim[p]] # "up"
    BY <1>0, <1>16, <2>1, ByeSent DEF Bye
  <2>2. TypeOK'
    BY <1>0, <1>16, <2>0, <2>1, BridgeAssumption
       DEF Bye, Returned, AtMostLast, ClosedLast, zlmVars, taskVars, sipVars, obsVars,
       TypeOK, Procs, PcValues, Transports
  <2>3. QueueInv'
    BY <1>0, <1>16, <2>1, QueueInvKept DEF Bye, Returned, PlaceInv, TypeOK, Procs
  <2>4. PlaceInv'
    BY <1>0, <1>16, <2>1, BridgeAssumption
       DEF Bye, Returned, AtMostLast, ClosedLast, zlmVars, taskVars, sipVars, obsVars,
       PlaceInv, TypeOK, Procs, Holding
  <2>5. DialogFresh'
    BY <1>0, <1>16, <2>0, <2>1, BridgeAssumption
       DEF Bye, Returned, AtMostLast, ClosedLast, zlmVars, taskVars, sipVars, obsVars,
       DialogFresh, PlaceInv, TypeOK, Procs, Holding
  <2>6. ServerOwned'
    BY <1>0, <1>16, <2>1, BridgeAssumption
       DEF Bye, Returned, AtMostLast, ClosedLast, zlmVars, taskVars, sipVars, obsVars,
       ServerOwned, PlaceInv, Held, Holding, TypeOK, Procs
  <2>7. DialogOwned'
    BY <1>0, <1>16, <2>0, <2>1, BridgeAssumption
       DEF Bye, Returned, AtMostLast, ClosedLast, zlmVars, taskVars, sipVars, obsVars,
       DialogOwned, DialogFresh, PlaceInv, Held, Holding, TypeOK, Procs
  <2>8. OneBusy' /\ Alone'
    BY <1>0, <1>16, <2>1, BridgeAssumption
       DEF Bye, Returned, AtMostLast, ClosedLast, zlmVars, taskVars, sipVars, obsVars,
       OneBusy, Busy, TypeOK, Procs, Alone, PlaceInv, Holding
  <2>9. PullKeeps'
    BY <1>0, <1>16, <2>1, BridgeAssumption
       DEF Bye, Returned, AtMostLast, ClosedLast, zlmVars, taskVars, sipVars, obsVars,
       PullKeeps, OneBusy, Busy, Alone, PlaceInv, Holding, TypeOK, Procs
  <2>10. ClosesFirst'
    BY <1>0, <1>16, <2>1, ClosesFirstKept DEF Bye, PlaceInv, Busy, TypeOK, Procs
  <2>11. PullIntact'
    BY <1>0, <1>16, <2>1, BridgeAssumption
       DEF Bye, Returned, AtMostLast, ClosedLast, zlmVars, taskVars, sipVars, obsVars,
       PullIntact, OneBusy, Busy, Alone, PullKeeps, PlaceInv, Holding, TypeOK, Procs
  <2> QED
    BY <2>2, <2>3, <2>4, <2>5, <2>6, <2>7, <2>8, <2>9, <2>10, <2>11 DEF IInv
<1>17. ASSUME NEW s \in Streams, RegisterMapping(s) PROVE IInv'
  <2>1. TypeOK'
    BY <1>0, <1>17, BridgeAssumption
       DEF RegisterMapping, zlmVars, taskVars, sipVars, obsVars, TypeOK, Procs, PcValues,
       Transports
  <2>2. QueueInv' /\ PlaceInv'
    BY <1>0, <1>17, BridgeAssumption
       DEF RegisterMapping, zlmVars, taskVars, sipVars, obsVars, QueueInv, Commands, TypeOK,
       Procs, PlaceInv, Holding
  <2>3. DialogFresh'
    BY <1>0, <1>17, BridgeAssumption
       DEF RegisterMapping, zlmVars, taskVars, sipVars, obsVars, DialogFresh, PlaceInv,
       TypeOK, Procs, Holding
  <2>4. ServerOwned' /\ DialogOwned'
    BY <1>0, <1>17, BridgeAssumption
       DEF RegisterMapping, zlmVars, taskVars, sipVars, obsVars, ServerOwned, PlaceInv,
       Held, CloseQueued, Holding, TypeOK, Procs, DialogOwned, DialogFresh
  <2>5. OneBusy' /\ Alone'
    BY <1>0, <1>17, BridgeAssumption
       DEF RegisterMapping, zlmVars, taskVars, sipVars, obsVars, OneBusy, Busy, TypeOK,
       Procs, Alone, PlaceInv, Holding
  <2>6. PullKeeps' /\ ClosesFirst' /\ PullIntact'
    BY <1>0, <1>17, BridgeAssumption
       DEF RegisterMapping, zlmVars, taskVars, sipVars, obsVars, PullKeeps, OneBusy, Busy,
       Alone, CloseQueued, PlaceInv, Holding, TypeOK, Procs, ClosesFirst, QueueInv,
       Commands, PullIntact
  <2> QED
    BY <2>1, <2>2, <2>3, <2>4, <2>5, <2>6 DEF IInv
<1>18. ASSUME NEW s \in Streams, NEW m \in Transports, SetTransport(s, m) PROVE IInv'
  <2>1. TypeOK'
    BY <1>0, <1>18, BridgeAssumption
       DEF SetTransport, zlmVars, taskVars, sipVars, obsVars, TypeOK, Procs, PcValues,
       Transports
  <2>2. QueueInv' /\ PlaceInv'
    BY <1>0, <1>18, BridgeAssumption
       DEF SetTransport, zlmVars, taskVars, sipVars, obsVars, QueueInv, Commands, TypeOK,
       Procs, PlaceInv, Holding
  <2>3. DialogFresh'
    BY <1>0, <1>18, BridgeAssumption
       DEF SetTransport, zlmVars, taskVars, sipVars, obsVars, DialogFresh, PlaceInv, TypeOK,
       Procs, Holding
  <2>4. ServerOwned' /\ DialogOwned'
    BY <1>0, <1>18, BridgeAssumption
       DEF SetTransport, zlmVars, taskVars, sipVars, obsVars, ServerOwned, PlaceInv, Held,
       CloseQueued, Holding, TypeOK, Procs, DialogOwned, DialogFresh
  <2>5. OneBusy' /\ Alone'
    BY <1>0, <1>18, BridgeAssumption
       DEF SetTransport, zlmVars, taskVars, sipVars, obsVars, OneBusy, Busy, TypeOK, Procs,
       Alone, PlaceInv, Holding
  <2>6. PullKeeps' /\ ClosesFirst' /\ PullIntact'
    BY <1>0, <1>18, BridgeAssumption
       DEF SetTransport, zlmVars, taskVars, sipVars, obsVars, PullKeeps, OneBusy, Busy,
       Alone, CloseQueued, PlaceInv, Holding, TypeOK, Procs, ClosesFirst, QueueInv,
       Commands, PullIntact
  <2> QED
    BY <2>1, <2>2, <2>3, <2>4, <2>5, <2>6 DEF IInv
<1>19. ASSUME ShutdownStart PROVE IInv'
  <2>1. TypeOK'
    BY <1>0, <1>19, BridgeAssumption
       DEF ShutdownStart, Listed, zlmVars, taskVars, sipVars, obsVars, TypeOK, Procs,
       PcValues, Transports
  <2>2. QueueInv' /\ PlaceInv'
    BY <1>0, <1>19, BridgeAssumption
       DEF ShutdownStart, Listed, zlmVars, taskVars, sipVars, obsVars, QueueInv, Commands,
       TypeOK, Procs, PlaceInv, Holding
  <2>3. DialogFresh'
    BY <1>0, <1>19, BridgeAssumption
       DEF ShutdownStart, Listed, zlmVars, taskVars, sipVars, obsVars, DialogFresh,
       PlaceInv, TypeOK, Procs, Holding
  <2>4. ServerOwned' /\ DialogOwned'
    BY <1>0, <1>19, BridgeAssumption
       DEF ShutdownStart, Listed, zlmVars, taskVars, sipVars, obsVars, ServerOwned,
       PlaceInv, Held, CloseQueued, Holding, TypeOK, Procs, DialogOwned, DialogFresh
  <2>5. OneBusy' /\ Alone'
    BY <1>0, <1>19, BridgeAssumption
       DEF ShutdownStart, Listed, zlmVars, taskVars, sipVars, obsVars, OneBusy, Busy,
       TypeOK, Procs, Alone, PlaceInv, Holding
  <2>6. PullKeeps' /\ ClosesFirst' /\ PullIntact'
    BY <1>0, <1>19, BridgeAssumption
       DEF ShutdownStart, Listed, zlmVars, taskVars, sipVars, obsVars, PullKeeps, OneBusy,
       Busy, Alone, CloseQueued, PlaceInv, Holding, TypeOK, Procs, ClosesFirst, QueueInv,
       Commands, PullIntact
  <2> QED
    BY <2>1, <2>2, <2>3, <2>4, <2>5, <2>6 DEF IInv
<1>20. ASSUME NEW s \in Streams, ShutdownNext(s) PROVE IInv'
  <2>1. TypeOK'
    BY <1>0, <1>20, BridgeAssumption
       DEF ShutdownNext, NoteContention, Busy, zlmVars, taskVars, sipVars, obsVars, TypeOK,
       Procs, PcValues, Transports
  <2>2. QueueInv'
    <3>1. \A k \in DOMAIN queue : queue[k].pull \in Tasks
      BY <1>0, QueueTyped
    <3>2. queue' = queue /\ \A u \in Tasks : pc'[u] = pc[u] /\ on'[u] = on[u]
      BY <1>0, <1>20, BridgeAssumption DEF ShutdownNext, zlmVars, TypeOK, Procs
    <3> QED
      BY <1>0, <3>1, <3>2 DEF QueueInv
  <2>3. PlaceInv'
    BY <1>0, <1>20, BridgeAssumption
       DEF ShutdownNext, NoteContention, Busy, zlmVars, taskVars, sipVars, obsVars,
       PlaceInv, TypeOK, Procs, Holding
  <2>4. DialogFresh'
    BY <1>0, <1>20, BridgeAssumption
       DEF ShutdownNext, NoteContention, Busy, zlmVars, taskVars, sipVars, obsVars,
       DialogFresh, PlaceInv, TypeOK, Procs, Holding
  <2>5. ServerOwned' /\ DialogOwned'
    BY <1>0, <1>20, BridgeAssumption
       DEF ShutdownNext, NoteContention, Busy, zlmVars, taskVars, sipVars, obsVars,
       ServerOwned, PlaceInv, Held, CloseQueued, Holding, TypeOK, Procs, DialogOwned,
       DialogFresh
  <2>6. OneBusy' /\ Alone'
    BY <1>0, <1>20, BridgeAssumption
       DEF ShutdownNext, NoteContention, Busy, zlmVars, taskVars, sipVars, obsVars, OneBusy,
       TypeOK, Procs, Alone, PlaceInv, Holding
  <2>7. PullKeeps' /\ ClosesFirst' /\ PullIntact'
    BY <1>0, <1>20, BridgeAssumption
       DEF ShutdownNext, NoteContention, Busy, zlmVars, taskVars, sipVars, obsVars,
       PullKeeps, OneBusy, Alone, CloseQueued, PlaceInv, Holding, TypeOK, Procs,
       ClosesFirst, QueueInv, Commands, PullIntact
  <2> QED
    BY <2>1, <2>2, <2>3, <2>4, <2>5, <2>6, <2>7 DEF IInv
<1>21. ASSUME ShutdownEnd PROVE IInv'
  <2>1. TypeOK'
    BY <1>0, <1>21, BridgeAssumption
       DEF ShutdownEnd, zlmVars, taskVars, sipVars, obsVars, TypeOK, Procs, PcValues,
       Transports
  <2>2. QueueInv' /\ PlaceInv'
    BY <1>0, <1>21, BridgeAssumption
       DEF ShutdownEnd, zlmVars, taskVars, sipVars, obsVars, QueueInv, Commands, TypeOK,
       Procs, PlaceInv, Holding
  <2>3. DialogFresh'
    BY <1>0, <1>21, BridgeAssumption
       DEF ShutdownEnd, zlmVars, taskVars, sipVars, obsVars, DialogFresh, PlaceInv, TypeOK,
       Procs, Holding
  <2>4. ServerOwned' /\ DialogOwned'
    BY <1>0, <1>21, BridgeAssumption
       DEF ShutdownEnd, zlmVars, taskVars, sipVars, obsVars, ServerOwned, PlaceInv, Held,
       CloseQueued, Holding, TypeOK, Procs, DialogOwned, DialogFresh
  <2>5. OneBusy' /\ Alone'
    BY <1>0, <1>21, BridgeAssumption
       DEF ShutdownEnd, zlmVars, taskVars, sipVars, obsVars, OneBusy, Busy, TypeOK, Procs,
       Alone, PlaceInv, Holding
  <2>6. PullKeeps' /\ ClosesFirst' /\ PullIntact'
    BY <1>0, <1>21, BridgeAssumption
       DEF ShutdownEnd, zlmVars, taskVars, sipVars, obsVars, PullKeeps, OneBusy, Busy,
       Alone, CloseQueued, PlaceInv, Holding, TypeOK, Procs, ClosesFirst, QueueInv,
       Commands, PullIntact
  <2> QED
    BY <2>1, <2>2, <2>3, <2>4, <2>5, <2>6 DEF IInv
<1>22. ASSUME Worker PROVE IInv'
  <2> DEFINE c == Head(queue)
  <2>1. /\ queue' \in Seq(Commands) /\ Len(queue') <= QueueCap
        /\ c.pull \in Tasks /\ c.stream \in Streams /\ c.stream = on[c.pull] /\ pc[c.pull] # "idle"
        /\ c.cmd = "open" => pc[c.pull] = "opening"
        /\ c.cmd = "open" => \A k \in DOMAIN queue' : queue'[k].cmd = "open" => queue'[k].pull # c.pull
        /\ \A k \in DOMAIN queue' : k \in Nat /\ k + 1 \in DOMAIN queue /\ queue'[k] = queue[k + 1]
        /\ \A k \in DOMAIN queue : k \in Nat /\ (k = 1 \/ (k - 1 \in DOMAIN queue' /\ queue'[k - 1] = queue[k]))
        /\ 1 \in DOMAIN queue /\ queue[1] = c
    <3>1. queue \in Seq(Commands) /\ queue # <<>> /\ queue' = Tail(queue) /\ Len(queue) \in Nat
          /\ QueueCap \in Nat /\ Len(queue) <= QueueCap
      BY <1>0, <1>22, BridgeAssumption DEF Worker, TypeOK
    <3>2. 1 \in DOMAIN queue /\ queue[1] = c
      BY <3>1, QueueTail
    <3>3. /\ \A k \in DOMAIN queue' : k \in Nat /\ k + 1 \in DOMAIN queue /\ queue'[k] = queue[k + 1]
          /\ \A k \in DOMAIN queue : k \in Nat /\ (k = 1 \/ (k - 1 \in DOMAIN queue' /\ queue'[k - 1] = queue[k]))
      BY <3>1, QueueTail
    <3>4. queue' \in Seq(Commands) /\ Len(queue') <= QueueCap
      BY <3>1, QueueTail
    <3>5. /\ c.pull \in Tasks /\ c.stream \in Streams /\ c.stream = on[c.pull] /\ pc[c.pull] # "idle"
          /\ c.cmd = "open" => pc[c.pull] = "opening"
      BY <1>0, <3>2, QueueTyped DEF QueueInv
    <3>6. c.cmd = "open" => \A k \in DOMAIN queue' : queue'[k].cmd = "open" => queue'[k].pull # c.pull
      <4> SUFFICES ASSUME c.cmd = "open", NEW k \in DOMAIN queue', queue'[k].cmd = "open", queue'[k].pull = c.pull
                   PROVE  FALSE
        OBVIOUS
      <4>1. k \in Nat /\ k + 1 \in DOMAIN queue /\ queue[k + 1].cmd = "open" /\ queue[k + 1].pull = queue[1].pull
        BY <3>2, <3>3
      <4>2. k + 1 = 1 /\ k \in Nat
        BY <1>0, <3>2, <4>1 DEF QueueInv
      <4>3. k = 0
        BY <4>2
      <4>4. k \in 1..Len(queue')
        BY <3>4
      <4> QED
        BY <4>3, <4>4, <3>4
    <3> QED
      BY <3>2, <3>3, <3>4, <3>5, <3>6
  <2>2. \A k \in DOMAIN queue' : queue'[k].pull \in Tasks /\ queue'[k].stream \in Streams
    BY <1>0, <2>1, QueueTyped
  <2>3. \A s \in Streams : CloseQueued(s)' => CloseQueued(s)
    BY <2>1 DEF CloseQueued
  <2>4. \A s \in Streams : CloseQueued(s) => CloseQueued(s)' \/ (c.cmd = "close" /\ c.stream = s)
    BY <2>1 DEF CloseQueued
  <2>5. c.cmd = "close" => CloseQueued(c.stream)
    BY <2>1 DEF CloseQueued
  <2>6. c.cmd = "open" /\ c.stream \notin contended \cup lost => ~CloseQueued(c.stream)
    <3> SUFFICES ASSUME c.cmd = "open", c.stream \notin contended \cup lost,
                        NEW k \in DOMAIN queue, queue[k].cmd = "close", queue[k].stream = c.stream
                 PROVE  FALSE
      BY DEF CloseQueued
    <3>1. k < 1
      BY <1>0, <2>1 DEF ClosesFirst
    <3>2. k \in 1..Len(queue) /\ Len(queue) \in Nat
      BY <1>0 DEF TypeOK
    <3> QED
      BY <3>1, <3>2
  <2>7. \A j, k \in DOMAIN queue' :
          queue'[j].cmd = "open" /\ queue'[k].cmd = "open" /\ queue'[j].pull = queue'[k].pull => j = k
    <3> SUFFICES ASSUME NEW j \in DOMAIN queue', NEW k \in DOMAIN queue', queue'[j].cmd = "open",
                        queue'[k].cmd = "open", queue'[j].pull = queue'[k].pull
                 PROVE  j = k
      OBVIOUS
    <3>1. j + 1 = k + 1
      BY <1>0, <2>1 DEF QueueInv
    <3> QED
      BY <2>1, <3>1
  <2>8. \A k \in DOMAIN queue' :
          /\ queue'[k].stream = on[queue'[k].pull]
          /\ pc[queue'[k].pull] # "idle"
          /\ queue'[k].cmd = "open" => pc[queue'[k].pull] = "opening"
    BY <1>0, <2>1 DEF QueueInv
  <2> HIDE DEF c
  <2>9. CASE c.cmd = "open" /\ WorkerOpen(c)
    <3>0. UNCHANGED <<streams, active, on, transport, victim, sipVars, todo, obsVars>>
      BY <1>22 DEF Worker
    <3>a. PICK v \in {"invite", "done"} : pc' = [pc EXCEPT ![c.pull] = v]
      BY <2>9 DEF WorkerOpen
    <3>b. pc[c.pull] = "opening" /\ c.pull \in Procs
      BY <2>1, <2>9 DEF Procs
    <3>1. TypeOK'
      BY <1>0, <2>1, <2>9, <3>0, <3>a, <3>b, BridgeAssumption
         DEF WorkerOpen, sipVars, obsVars, TypeOK, Procs, PcValues, Transports, Commands
    <3>2. QueueInv'
      BY <1>0, <2>1, <2>2, <2>7, <2>8, <2>9, <3>0, <3>a, <3>b, BridgeAssumption
         DEF WorkerOpen, sipVars, obsVars, QueueInv, TypeOK, Procs
    <3>3. PlaceInv'
      BY <1>0, <2>1, <2>9, <3>0, <3>a, <3>b, BridgeAssumption
         DEF WorkerOpen, sipVars, obsVars, PlaceInv, TypeOK, Procs, Holding
    <3>4. DialogFresh'
      BY <1>0, <2>1, <2>9, <3>0, <3>a, <3>b, BridgeAssumption
         DEF WorkerOpen, sipVars, obsVars, DialogFresh, PlaceInv, TypeOK, Procs, Holding
    <3>5. ServerOwned'
      BY <1>0, <2>1, <2>3, <2>4, <2>9, <3>0, <3>a, <3>b, BridgeAssumption
         DEF WorkerOpen, sipVars, obsVars, ServerOwned, PlaceInv, Held, Holding, TypeOK,
         Procs
    <3>6. DialogOwned'
      BY <1>0, <2>1, <2>9, <3>0, <3>a, <3>b, BridgeAssumption
         DEF WorkerOpen, sipVars, obsVars, DialogOwned, DialogFresh, PlaceInv, Held,
         Holding, TypeOK, Procs
    <3>7. OneBusy' /\ Alone'
      BY <1>0, <2>1, <2>9, <3>0, <3>a, <3>b, BridgeAssumption
         DEF WorkerOpen, sipVars, obsVars, OneBusy, Busy, TypeOK, Procs, Alone, PlaceInv,
         Holding
    <3>8. PullKeeps'
      BY <1>0, <2>1, <2>3, <2>5, <2>6, <2>9, <3>0, <3>a, <3>b, BridgeAssumption
         DEF WorkerOpen, sipVars, obsVars, PullKeeps, OneBusy, Busy, Alone, PlaceInv,
         Holding, TypeOK, Procs
    <3>9. ClosesFirst'
      BY <1>0, <2>1, <2>2, <2>9, <3>0, <3>a, <3>b, BridgeAssumption, SMTT(30)
         DEF WorkerOpen, sipVars, obsVars, ClosesFirst, QueueInv, OneBusy, Busy, TypeOK,
         Procs
    <3>10. PullIntact'
      BY <1>0, <2>1, <2>3, <2>5, <2>9, <3>0, <3>a, <3>b, BridgeAssumption
         DEF WorkerOpen, sipVars, obsVars, PullIntact, OneBusy, Busy, Alone, PullKeeps,
         PlaceInv, Holding, TypeOK, Procs
    <3> QED
      BY <3>1, <3>2, <3>3, <3>4, <3>5, <3>6, <3>7, <3>8, <3>9, <3>10 DEF IInv
  <2>10. CASE c.cmd = "connect" /\ WorkerConnect(c)
    <3>0. UNCHANGED <<streams, active, on, transport, victim, sipVars, todo, obsVars>>
      BY <1>22 DEF Worker
    <3>1. TypeOK'
      BY <1>0, <2>1, <2>10, <3>0, BridgeAssumption
         DEF WorkerConnect, sipVars, obsVars, TypeOK, Procs, PcValues, Transports, Commands
    <3>2. QueueInv'
      BY <1>0, <2>1, <2>2, <2>7, <2>8, <2>10, <3>0, BridgeAssumption
         DEF WorkerConnect, sipVars, obsVars, QueueInv, TypeOK, Procs
    <3>3. PlaceInv'
      BY <1>0, <2>1, <2>10, <3>0, BridgeAssumption
         DEF WorkerConnect, sipVars, obsVars, PlaceInv, TypeOK, Procs, Holding
    <3>4. DialogFresh'
      BY <1>0, <2>1, <2>10, <3>0, BridgeAssumption
         DEF WorkerConnect, sipVars, obsVars, DialogFresh, PlaceInv, TypeOK, Procs, Holding
    <3>5. ServerOwned'
      BY <1>0, <2>1, <2>3, <2>4, <2>10, <3>0, BridgeAssumption
         DEF WorkerConnect, sipVars, obsVars, ServerOwned, PlaceInv, Held, Holding, TypeOK,
         Procs
    <3>6. DialogOwned'
      BY <1>0, <2>1, <2>10, <3>0, BridgeAssumption
         DEF WorkerConnect, sipVars, obsVars, DialogOwned, DialogFresh, PlaceInv, Held,
         Holding, TypeOK, Procs
    <3>7. OneBusy' /\ Alone'
      BY <1>0, <2>1, <2>10, <3>0, BridgeAssumption
         DEF WorkerConnect, sipVars, obsVars, OneBusy, Busy, TypeOK, Procs, Alone, PlaceInv,
         Holding
    <3>8. PullKeeps'
      BY <1>0, <2>1, <2>3, <2>5, <2>6, <2>10, <3>0, BridgeAssumption
         DEF WorkerConnect, sipVars, obsVars, PullKeeps, OneBusy, Busy, Alone, PlaceInv,
         Holding, TypeOK, Procs
    <3>9. ClosesFirst'
      BY <1>0, <2>1, <2>2, <2>10, <3>0, BridgeAssumption, SMTT(30)
         DEF WorkerConnect, sipVars, obsVars, ClosesFirst, QueueInv, OneBusy, Busy, TypeOK,
         Procs
    <3>10. PullIntact'
      BY <1>0, <2>1, <2>3, <2>5, <2>10, <3>0, BridgeAssumption
         DEF WorkerConnect, sipVars, obsVars, PullIntact, OneBusy, Busy, Alone, PullKeeps,
         PlaceInv, Holding, TypeOK, Procs
    <3> QED
      BY <3>1, <3>2, <3>3, <3>4, <3>5, <3>6, <3>7, <3>8, <3>9, <3>10 DEF IInv
  <2>11. CASE c.cmd = "close" /\ WorkerClose(c)
    <3>0. UNCHANGED <<streams, active, on, transport, victim, sipVars, todo, obsVars>>
      BY <1>22 DEF Worker
    <3>1. TypeOK'
      BY <1>0, <2>1, <2>11, <3>0, BridgeAssumption
         DEF WorkerClose, sipVars, obsVars, TypeOK, Procs, PcValues, Transports, Commands
    <3>2. QueueInv'
      BY <1>0, <2>1, <2>2, <2>7, <2>8, <2>11, <3>0, BridgeAssumption
         DEF WorkerClose, sipVars, obsVars, QueueInv, TypeOK, Procs
    <3>3. PlaceInv'
      BY <1>0, <2>1, <2>11, <3>0, BridgeAssumption
         DEF WorkerClose, sipVars, obsVars, PlaceInv, TypeOK, Procs, Holding
    <3>4. DialogFresh'
      BY <1>0, <2>1, <2>11, <3>0, BridgeAssumption
         DEF WorkerClose, sipVars, obsVars, DialogFresh, PlaceInv, TypeOK, Procs, Holding
    <3>5. ServerOwned'
      BY <1>0, <2>1, <2>3, <2>4, <2>11, <3>0, BridgeAssumption
         DEF WorkerClose, sipVars, obsVars, ServerOwned, PlaceInv, Held, Holding, TypeOK,
         Procs
    <3>6. DialogOwned'
      BY <1>0, <2>1, <2>11, <3>0, BridgeAssumption
         DEF WorkerClose, sipVars, obsVars, DialogOwned, DialogFresh, PlaceInv, Held,
         Holding, TypeOK, Procs
    <3>7. OneBusy' /\ Alone'
      BY <1>0, <2>1, <2>11, <3>0, BridgeAssumption
         DEF WorkerClose, sipVars, obsVars, OneBusy, Busy, TypeOK, Procs, Alone, PlaceInv,
         Holding
    <3>8. PullKeeps'
      BY <1>0, <2>1, <2>3, <2>5, <2>6, <2>11, <3>0, BridgeAssumption
         DEF WorkerClose, sipVars, obsVars, PullKeeps, OneBusy, Busy, Alone, PlaceInv,
         Holding, TypeOK, Procs
    <3>9. ClosesFirst'
      BY <1>0, <2>1, <2>2, <2>11, <3>0, BridgeAssumption, SMTT(30)
         DEF WorkerClose, sipVars, obsVars, ClosesFirst, QueueInv, OneBusy, Busy, TypeOK,
         Procs
    <3>10. PullIntact'
      BY <1>0, <2>1, <2>3, <2>5, <2>11, <3>0, BridgeAssumption
         DEF WorkerClose, sipVars, obsVars, PullIntact, OneBusy, Busy, Alone, PullKeeps,
         PlaceInv, Holding, TypeOK, Procs
    <3> QED
      BY <3>1, <3>2, <3>3, <3>4, <3>5, <3>6, <3>7, <3>8, <3>9, <3>10 DEF IInv
  <2> QED
    BY <1>22, <2>9, <2>10, <2>11 DEF Worker, c
<1>23. CASE UNCHANGED vars
  BY <1>0, <1>23
     DEF vars, zlmVars, taskVars, sipVars, obsVars, IInv, TypeOK, QueueInv, PlaceInv,
     DialogFresh, ServerOwned, DialogOwned,
     OneBusy, Alone, PullKeeps, ClosesFirst, PullIntact, Busy, Held, CloseQueued
<1> QED
  <2> SUFFICES ASSUME Next PROVE IInv'
    BY <1>23
  <2>1. ASSUME NEW t \in Tasks, Pull(t) PROVE IInv'
    <3>1. ASSUME ConnectFails(t) \/ ConnectTimeout(t) PROVE pc[t] \in Holding /\ Abort(t)
      BY <3>1 DEF ConnectFails, ConnectTimeout, ConnectBounded, Holding
    <3> QED
      BY <1>4, <1>5, <1>6, <1>7, <1>8, <1>9, <1>10, <1>11, <1>12, <2>1, <3>1 DEF Pull
  <2>2. ASSUME NEW p \in Procs, Teardown(p) PROVE IInv'
    BY <1>15, <1>16, <2>2 DEF Teardown
  <2>3. ASSUME NEW t \in Tasks, NEW s \in Streams, Hook(t, s) PROVE IInv'
    BY <1>1, <1>2, <1>3, <2>3 DEF Hook
  <2> QED
    BY <1>13, <1>14, <1>17, <1>18, <1>19, <1>20, <1>21, <1>22, <2>1, <2>2, <2>3 DEF Next

-----------------------------------------------------------------------------
(* The theorems *)

\* The invariant holds in every state of the bridge.
THEOREM BridgeInvariant == Spec => []IInv
  BY BridgeInit, BridgeStep, PTL DEF Spec

\* The bridge's state keeps its type; the command channel its capacity.
THEOREM BridgeTypeCorrect == Spec => []TypeOK
<1>1. IInv => TypeOK
  BY DEF IInv
<1> QED
  BY <1>1, BridgeInvariant, PTL

\* No RtpServer is left behind: the server in the worker's table belongs to a live
\* handle, or its CloseRtp is on its way or was refused by a full channel.
THEOREM NoServerLeak == Spec => []ServerOwned
<1>1. IInv => ServerOwned
  BY DEF IInv
<1> QED
  BY <1>1, BridgeInvariant, PTL

\* Every session gets its BYE: a dialog that is up has somebody who will send it.
\* (Dialogs that never became a session and those whose BYE failed have nobody.)
THEOREM SessionsOwned == Spec => []DialogOwned
<1>1. IInv => DialogOwned
  BY DEF IInv
<1> QED
  BY <1>1, BridgeInvariant, PTL

\* While the tasks on a stream do not overlap, start_pull is idempotent: the pull in
\* active has its RtpServer, and no queued command will take it.
THEOREM SequentialPullsIntact == Spec => []PullIntact
<1>1. IInv => PullIntact
  BY DEF IInv
<1> QED
  BY <1>1, BridgeInvariant, PTL

(***************************************************************************)
(* Nothing of a pull is forgotten, whatever hooks, teardowns and timeouts  *)
(* of the bridge race: its RtpServer is held or being closed, its session  *)
(* is held or gets its one BYE, which may fail.                            *)
(***************************************************************************)
THEOREM PullsOwnedAlways == Spec => []PullsOwned
  <1>1. ServerOwned /\ DialogOwned => PullsOwned
    BY DEF PullsOwned
  <1> QED
    BY <1>1, NoServerLeak, SessionsOwned, PTL

-----------------------------------------------------------------------------
(* Shutdown *)

\* Once shutdown has begun, a pull in active is one it could not see, or its
\* stream is still to be torn down: listed, or the one shutdown is at.
ReleaseInv ==
  /\ pc[Main] \in {"idle", "closing", "teardown", "bye", "done"}
  /\ pc[Main] = "done" => todo = {}
  /\ pc[Main] # "idle" => \A s \in Streams : active[s] # None =>
       active[s] \in late \/ s \in todo \/ (pc[Main] = "teardown" /\ on[Main] = s)

\* Nothing is lost from sight when active, the list and shutdown stay as they are.
LEMMA ReleaseKept ==
  ASSUME ReleaseInv, UNCHANGED <<active, todo, late>>,
         pc'[Main] = pc[Main], on'[Main] = on[Main]
  PROVE  ReleaseInv'
  BY DEF ReleaseInv

LEMMA ReleaseStep ==
  ASSUME TypeOK, ReleaseInv, [Next]_vars
  PROVE  ReleaseInv'
<1>0. Main \in Procs /\ pc \in [Procs -> PcValues] /\ on \in [Procs -> Streams]
      /\ active \in [Streams -> Tasks \cup {None}] /\ None \notin Tasks
  BY BridgeAssumption DEF TypeOK, Procs
<1>1. ASSUME NEW t \in Tasks, Pull(t) PROVE ReleaseInv'
  <2>0. t # Main /\ t \in Procs
    BY BridgeAssumption DEF Procs
  <2>1. CASE Insert(t)
    <3>1. pc'[Main] = pc[Main] /\ UNCHANGED <<on, todo>> /\ late \subseteq late'
      BY <1>0, <2>0, <2>1 DEF Insert
    <3>2. ASSUME NEW s \in Streams, active'[s] # active[s], pc[Main] # "idle"
          PROVE  active'[s] \in late'
      BY <1>0, <2>1, <3>2 DEF Insert
    <3>3. ASSUME pc'[Main] # "idle", NEW s \in Streams, active'[s] # None
          PROVE  active'[s] \in late' \/ s \in todo' \/ (pc'[Main] = "teardown" /\ on'[Main] = s)
      <4>1. CASE active'[s] = active[s]
        BY <3>1, <3>3, <4>1 DEF ReleaseInv
      <4> QED
        BY <3>1, <3>2, <3>3, <4>1
    <3> QED
      BY <3>1, <3>3 DEF ReleaseInv
  <2>2. CASE ~Insert(t)
    <3>1. UNCHANGED <<active, todo, late, on>> /\ pc'[Main] = pc[Main]
      BY <1>0, <1>1, <2>0, <2>2
         DEF Pull, LookupMapping, CheckActive, SendOpen, InviteOk, InviteFails, SendConnect,
         ConnectOk, ConnectFails, ConnectTimeout, Abort, obsVars
    <3> QED
      BY <3>1, ReleaseKept
  <2> QED
    BY <2>1, <2>2
<1>2. ASSUME NEW t \in Tasks, Janitor(t) \/ DeviceBye(t) PROVE ReleaseInv'
  BY <1>2, ReleaseKept DEF Janitor, DeviceBye, taskVars, obsVars
<1>3. ASSUME NEW p \in Procs, TakeActive(p) PROVE ReleaseInv'
  <2>1. UNCHANGED <<on, todo, late>>
    BY <1>3 DEF TakeActive, obsVars
  <2>2. \A s \in Streams : active'[s] # None => active'[s] = active[s] /\ s # on[p]
    BY <1>0, <1>3 DEF TakeActive
  <2>3. CASE p = Main
    <3>1. pc[Main] = "teardown" /\ pc'[Main] \in {"closing", "bye"}
      BY <1>0, <1>3, <2>3 DEF TakeActive, Returned
    <3> QED
      BY <2>1, <2>2, <2>3, <3>1 DEF ReleaseInv
  <2>4. CASE p # Main
    <3>1. pc'[Main] = pc[Main]
      BY <1>0, <1>3, <2>4 DEF TakeActive
    <3> QED
      BY <2>1, <2>2, <3>1 DEF ReleaseInv
  <2> QED
    BY <2>3, <2>4
<1>4. ASSUME NEW p \in Procs, Bye(p) PROVE ReleaseInv'
  <2>1. UNCHANGED <<active, on, todo, late>>
    BY <1>4 DEF Bye
  <2>2. CASE p = Main
    <3>1. pc[Main] = "bye" /\ pc'[Main] = "closing"
      BY <1>0, <1>4, <2>2 DEF Bye, Returned
    <3> QED
      BY <2>1, <3>1 DEF ReleaseInv
  <2>3. CASE p # Main
    BY <1>0, <1>4, <2>1, <2>3, ReleaseKept DEF Bye
  <2> QED
    BY <2>2, <2>3
<1>5. ASSUME NEW t \in Tasks, NEW s \in Streams, Hook(t, s) PROVE ReleaseInv'
  <2>1. t # Main
    BY BridgeAssumption
  <2> QED
    BY <1>0, <1>5, <2>1, ReleaseKept DEF Hook, MediaNotFound, MediaNoReader, UnregisterMapping
<1>6. ASSUME NEW s \in Streams, ShutdownNext(s) PROVE ReleaseInv'
  <2>1. /\ pc[Main] = "closing" /\ pc'[Main] = "teardown" /\ on'[Main] = s
        /\ todo' = todo \ {s} /\ UNCHANGED <<active, late>>
    BY <1>0, <1>6 DEF ShutdownNext
  <2> QED
    BY <2>1 DEF ReleaseInv
<1>7. CASE \E s \in Streams : RegisterMapping(s) \/ \E m \in Transports : SetTransport(s, m)
  BY <1>7, ReleaseKept DEF RegisterMapping, SetTransport, taskVars, obsVars
<1>8. CASE ShutdownStart
  <2>1. pc'[Main] = "closing" /\ todo' = Listed /\ UNCHANGED <<active, streams>>
    BY <1>0, <1>8 DEF ShutdownStart
  <2>2. \A s \in Streams : active[s] # None => active[s] \in late' \/ s \in Listed
    BY <1>8 DEF ShutdownStart, Listed
  <2> QED
    BY <2>1, <2>2 DEF ReleaseInv
<1>9. CASE ShutdownEnd
  <2>1. pc[Main] = "closing" /\ todo = {} /\ pc'[Main] = "done" /\ UNCHANGED <<active, todo, late>>
    BY <1>0, <1>9 DEF ShutdownEnd, obsVars
  <2> QED
    BY <2>1 DEF ReleaseInv
<1>10. CASE Worker
  <2>1. queue \in Seq(Commands) /\ queue # <<>>
    BY <1>10 DEF Worker, TypeOK
  <2>2. Head(queue) \in Commands
    BY <2>1
  <2>3. Head(queue).pull \in Tasks /\ Head(queue).pull # Main
    BY <2>2, BridgeAssumption DEF Commands
  <2>4. pc'[Main] = pc[Main] /\ UNCHANGED <<active, on, todo, late>>
    BY <1>0, <1>10, <2>3 DEF Worker, WorkerOpen, WorkerConnect, WorkerClose, obsVars
  <2> QED
    BY <2>4, ReleaseKept
<1>11. CASE UNCHANGED vars
  BY <1>11, ReleaseKept DEF vars, taskVars, obsVars
<1> QED
  BY <1>1, <1>2, <1>3, <1>4, <1>5, <1>6, <1>7, <1>8, <1>9, <1>10, <1>11 DEF Next, Teardown

(***************************************************************************)
(* When gb::shutdown is through, no pull is left in active but those it    *)
(* could not see: begun while it ran, or without a mapping when it listed  *)
(* them; for any streams, hooks and interleaving with its teardowns.       *)
(***************************************************************************)
THEOREM ShutdownReleasesAlways == Spec => []ShutdownReleases
<1>1. Init => ReleaseInv
  BY BridgeAssumption DEF Init, ReleaseInv, Procs
<1>2. ReleaseInv => ShutdownReleases
  BY DEF ReleaseInv, ShutdownReleases
<1>3. IInv => TypeOK
  BY DEF IInv
<1> QED
  BY <1>1, <1>2, <1>3, BridgeInvariant, ReleaseStep, PTL DEF Spec

=============================================================================
