---------------------------- MODULE Mixer_proofs -----------------------------
(***************************************************************************)
(* The mixing console of Mixer: it implements MixConsole, its knobs work,  *)
(* nothing runs unowned and what is saved is what is there, for any buses, *)
(* sources, calls and faults.                                              *)
(***************************************************************************)
EXTENDS Mixer, WellFoundedInduction, FiniteSetTheorems, TLAPS

-----------------------------------------------------------------------------
(* Induction over natural numbers, from the well-foundedness of inclusion    *)
(* among finite sets.                                                        *)

\* A set of natural numbers that is not empty has a least element.
LEMMA LeastNat ==
  ASSUME NEW T \in SUBSET Nat, T # {}
  PROVE  \E x \in T : \A y \in T : x <= y
<1> DEFINE I == {0..x : x \in T}
           R == StrictSubsetOrdering(Nat)
<1>1. \A x \in Nat : 0..x \in FiniteSubsetsOf(Nat)
  BY FS_Interval DEF FiniteSubsetsOf
<1>2. I \subseteq FiniteSubsetsOf(Nat) /\ I # {}
  BY <1>1
<1>3. IsWellFoundedOn(R, FiniteSubsetsOf(Nat))
  BY FS_StrictSubsetOrderingWellFounded
<1> HIDE DEF I, R
<1>4. PICK i \in I : \A j \in I : ~ (<<j, i>> \in R)
  BY <1>2, <1>3, WFMin
<1>5. PICK x \in T : i = 0..x
  BY DEF I
<1>6. ASSUME NEW y \in T, y < x PROVE FALSE
  <2>1. /\ 0..y \in I /\ 0..y \subseteq 0..x /\ 0..y # 0..x
        /\ 0..x \in SUBSET Nat /\ 0..y \in SUBSET Nat
    BY <1>6 DEF I
  <2>2. <<0..y, 0..x>> \in R
    BY <2>1 DEF R, StrictSubsetOrdering
  <2>3. QED
    BY <2>1, <2>2, <1>4, <1>5
<1>7. QED
  BY <1>6

-----------------------------------------------------------------------------
(* The command queue of a loop: what its thread mixes once it has caught up. *)

\* A set of positions in a queue has a last one.
LEMMA LatestIs ==
  ASSUME NEW n \in Nat, NEW S \in SUBSET (1..n), S # {}
  PROVE  Latest(S) \in S /\ \A j \in S : j <= Latest(S)
<1> DEFINE T == {n - i : i \in S}
<1>1. T \in SUBSET Nat /\ T # {}
  <2>1. \A i \in S : i \in 1..n
    OBVIOUS
  <2>2. \A i \in 1..n : n - i \in Nat
    OBVIOUS
  <2> QED
    BY <2>1, <2>2
<1>2. PICK x \in T : \A y \in T : x <= y
  <2> HIDE DEF T
  <2> QED
    BY <1>1, LeastNat
<1>3. PICK i \in S : x = n - i
  OBVIOUS
<1>4. \A j \in S : j <= i
  <2> SUFFICES ASSUME NEW j \in S PROVE j <= i
    OBVIOUS
  <2>1. n - i <= n - j
    BY <1>2, <1>3
  <2> QED
    BY <2>1
<1> HIDE DEF T
<1> QED
  BY <1>4 DEF Latest

\* A command.
Command == [src : Srcs, knob : Nat, rx : Receiver]

Input0 == [knob : Nat, rx : Receiver]

\* The commands for an input, by their positions.
LEMMA PendingIs ==
  ASSUME NEW l \in Loop, NEW s, Pending(l, s) # {}
  PROVE  /\ Latest(Pending(l, s)) \in 1..Len(l.queue)
         /\ l.queue[Latest(Pending(l, s))].src = s
         /\ l.queue[Latest(Pending(l, s))] \in Command
<1>1. l.queue \in Seq(Command)
  BY DEF Loop, Command
<1>2. Len(l.queue) \in Nat /\ DOMAIN l.queue = 1..Len(l.queue)
  BY <1>1
<1>3. Pending(l, s) \in SUBSET (1..Len(l.queue))
  BY <1>2 DEF Pending
<1>4. Latest(Pending(l, s)) \in Pending(l, s)
  BY <1>2, <1>3, LatestIs
<1>5. /\ Latest(Pending(l, s)) \in 1..Len(l.queue)
      /\ l.queue[Latest(Pending(l, s))].src = s
  BY <1>2, <1>4 DEF Pending
<1>6. \A i \in 1..Len(l.queue) : l.queue[i] \in Command
  BY <1>1
<1> QED
  BY <1>5, <1>6

\* What an input comes to is a knob and a receiver.
LEMMA AppliedType ==
  ASSUME NEW l \in Loop, NEW s \in Srcs
  PROVE  Applied(l, s) \in Input0 /\ KnobOf(l, s) \in Nat
<1>1. CASE Pending(l, s) = {}
  BY <1>1 DEF Applied, KnobOf, Loop, Input0
<1>2. CASE Pending(l, s) # {}
  <2> DEFINE c == l.queue[Latest(Pending(l, s))]
  <2>1. c \in Command
    BY <1>2, PendingIs
  <2>2. Applied(l, s) = [knob |-> c.knob, rx |-> c.rx]
    BY <1>2 DEF Applied
  <2> HIDE DEF c
  <2> QED
    BY <2>1, <2>2 DEF KnobOf, Input0, Command
<1> QED
  BY <1>1, <1>2

\* Loop m is l with one command more in its queue.
Queued(l, m, c) == m.queue = Append(l.queue, c) /\ m.active = l.active

\* A command more decides over its input, and over no other.
LEMMA AppliedAppend ==
  ASSUME NEW l \in Loop, NEW m, NEW c \in Command, Queued(l, m, c)
  PROVE  /\ Applied(m, c.src) = [knob |-> c.knob, rx |-> c.rx]
         /\ \A t \in Srcs : t # c.src => Applied(m, t) = Applied(l, t)
<1> DEFINE n == Len(l.queue)
<1> USE DEF Queued
<1>1. l.queue \in Seq(Command)
  BY DEF Loop, Command
<1>2. /\ n \in Nat /\ DOMAIN l.queue = 1..n /\ DOMAIN m.queue = 1..(n + 1)
      /\ m.queue[n + 1] = c /\ \A i \in 1..n : m.queue[i] = l.queue[i]
  BY <1>1
<1> HIDE DEF n
<1>3. \A i \in 1..(n + 1) : i \in 1..n \/ i = n + 1
  BY <1>2
<1>4. 1..n \subseteq 1..(n + 1) /\ n + 1 \in 1..(n + 1) /\ n + 1 \in Nat
  BY <1>2
<1>5. Applied(m, c.src) = [knob |-> c.knob, rx |-> c.rx]
  <2> DEFINE P == Pending(m, c.src)
  <2>1. P \in SUBSET (1..(n + 1)) /\ n + 1 \in P
    BY <1>2, <1>4 DEF Pending
  <2> HIDE DEF P
  <2>2. Latest(P) \in P /\ n + 1 <= Latest(P)
    BY <1>4, <2>1, LatestIs
  <2>3. Latest(P) = n + 1
    <3>1. Latest(P) \in 1..(n + 1)
      BY <2>1, <2>2
    <3> HIDE DEF Latest
    <3> QED
      BY <1>2, <2>2, <3>1
  <2>4. m.queue[Latest(P)] = c
    BY <1>2, <2>3
  <2>5. P # {}
    BY <2>1
  <2> QED
    BY <2>4, <2>5 DEF Applied, P
<1>6. ASSUME NEW t \in Srcs, t # c.src PROVE Applied(m, t) = Applied(l, t)
  <2>1. Pending(m, t) = Pending(l, t)
    BY <1>2, <1>3, <1>4, <1>6 DEF Pending
  <2>2. CASE Pending(l, t) = {}
    BY <2>1, <2>2 DEF Applied
  <2>3. CASE Pending(l, t) # {}
    <3>1. Latest(Pending(l, t)) \in 1..Len(l.queue)
      BY <2>3, PendingIs
    <3>2. m.queue[Latest(Pending(l, t))] = l.queue[Latest(Pending(l, t))]
      BY <1>2, <3>1 DEF n
    <3> QED
      BY <2>1, <2>3, <3>2 DEF Applied
  <2> QED
    BY <2>2, <2>3
<1> QED
  BY <1>5, <1>6

\* With nothing queued it is what the thread has.
LEMMA AppliedIdle ==
  ASSUME NEW m, m.queue = <<>>, NEW s
  PROVE  Applied(m, s) = m.active[s]
<1>1. Pending(m, s) = {}
  BY DEF Pending
<1> QED
  BY <1>1 DEF Applied

-----------------------------------------------------------------------------
(* The inductive invariant. *)

Tasks == Calls \cup {Boot}

Pcs == {"idle", "next", "done", "ensure", "open", "insert", "start", "fill", "list", "remove",
        "add", "take", "volume", "mute", "persist", "save"}

Resting == {"idle", "next", "done"}

\* The bus, and what it is asked: a mute of restore_all names no volume.
JobOk(j) ==
  /\ j = [op |-> j.op, bus |-> j.bus, inputs |-> j.inputs, muted |-> j.muted]
  /\ j.op \in {"create", "remove", "add", "take", "volume", "mute"}
  /\ j.bus \in BusIds /\ j.muted \in BOOLEAN
  /\ j.inputs \in Seq([src : Srcs, volume : Volumes \cup {0}])
  /\ j.op \in {"create", "add", "volume"} => j.inputs \in Seq(Input)
  /\ j.op \in {"add", "take", "volume", "mute"} => Len(j.inputs) = 1

\* How far a call is fits what it was asked.
JobFits(c) ==
  /\ c.pc \in {"ensure", "open", "insert"} =>
       /\ c.job.op \in {"create", "add"}
       /\ c.job.inputs # <<>> => c.at \in 1..Len(c.job.inputs)
  /\ c.pc \in {"open", "insert", "start", "fill", "list"} => c.job.inputs # <<>>
  /\ c.pc \in {"start", "fill", "list"} => c.job.op = "create"
  /\ c.pc \in {"add", "take", "volume", "mute"} => c.job.op = c.pc

Shaped(c) ==
  c = [pc |-> c.pc, job |-> c.job, at |-> c.at, src |-> c.src, loop |-> c.loop,
       snap |-> c.snap, mutes |-> c.mutes]

\* Call c, with sources S: it owns a source or a loop only where it says so.
TaskOk(c, S) ==
  /\ Shaped(c) /\ c.pc \in Pcs /\ c.mutes \subseteq Srcs
  /\ IF c.pc \in Resting THEN c.at = 1 ELSE JobOk(c.job) /\ JobFits(c)
  /\ IF c.pc = "insert" THEN c.src \in DOMAIN S /\ S[c.src].dev = c.job.inputs[c.at].src
     ELSE c.src = 0
  /\ (c.loop # 0) = (c.pc \in {"fill", "list"})

HaltOk(c) ==
  /\ Shaped(c) /\ c.pc \in {"idle", "halt", "detach", "done"}
  /\ c.src = 0 /\ c.loop = 0
  /\ c.pc = "detach" => c.snap \in Srcs

CallsOk ==
  /\ call = [p \in Procs |-> call[p]]
  /\ \A p \in Tasks : TaskOk(call[p], source)
  /\ HaltOk(call[Halt])

PoolOk ==
  /\ source \in Seq(Source) /\ pool \in [Srcs -> Nat]
  /\ \A s \in Srcs : pool[s] # 0 => pool[s] \in DOMAIN source /\ source[pool[s]].dev = s

\* The knob the API turns is the one the thread reads, unless its source ended.
WiredOk(l, s, S) ==
  /\ KnobOf(l, s) \in {l.controls[s], 0}
  /\ KnobOf(l, s) # 0 => LET k == Applied(l, s).rx.src IN k \in DOMAIN S /\ S[k].dev = s
  /\ KnobOf(l, s) = 0 /\ l.controls[s] # 0 =>
       \E k \in DOMAIN S : S[k].dev = s /\ S[k].st # "run"

\* No two inputs share a knob.
LoopOk(l, S) ==
  /\ l \in Loop
  /\ \A s \in Srcs : l.controls[s] <= Len(l.knobs)
  /\ \A s, t \in Srcs : l.controls[s] = l.controls[t] /\ l.controls[s] # 0 => s = t
  /\ \A s \in Srcs : WiredOk(l, s, S)

Unmuted == [volume : Volumes, muted : {FALSE}]

\* Nothing on the loop is muted yet.
AllFresh(l) == \A i \in 1..Len(l.knobs) : l.knobs[i] \in Unmuted

LoopsOk ==
  /\ loop \in Seq(Loop)
  /\ \A k \in DOMAIN loop : LoopOk(loop[k], source)

\* A loop is on one bus, or with the call that makes it.
BusesOk ==
  /\ buses \in [BusIds -> Nat]
  /\ \A b \in BusIds : buses[b] # 0 => buses[b] \in DOMAIN loop
  /\ \A b, c \in BusIds : buses[b] = buses[c] /\ buses[b] # 0 => b = c

MakingOk ==
  \A p \in Tasks : call[p].loop # 0 =>
    /\ call[p].loop \in DOMAIN loop /\ AllFresh(loop[call[p].loop])
    /\ \A b \in BusIds : buses[b] # call[p].loop
    /\ \A q \in Tasks \ {p} : call[q].loop # call[p].loop

\* The parts of NothingUnowned.
SourcesHeld ==
  \A k \in DOMAIN source : source[k].st = "run" =>
    pool[source[k].dev] = k \/ \E p \in Procs : call[p].src = k

LoopsHeld ==
  \A k \in DOMAIN loop : loop[k].st = "run" =>
    (\E b \in BusIds : buses[b] = k) \/ \E p \in Procs : call[p].loop = k

LoopInv == LoopsOk /\ BusesOk /\ MakingOk /\ LoopsHeld

MixInv == CallsOk /\ PoolOk /\ SourcesHeld /\ LoopInv

-----------------------------------------------------------------------------
(* The operations on a loop. *)

\* What is heard of an input on a loop.
HeardOn(l, s) == IF KnobOf(l, s) = 0 THEN None ELSE l.knobs[KnobOf(l, s)]

\* Sources come, keep their device, and do not run again.
Later(S, T) ==
  \A k \in DOMAIN S : /\ k \in DOMAIN T /\ T[k].dev = S[k].dev
                      /\ S[k].st # "run" => T[k].st # "run"

\* What a loop relies on of the sources lasts.
LEMMA LoopOkLater ==
  ASSUME NEW l, NEW S, NEW T, LoopOk(l, S), Later(S, T)
  PROVE  LoopOk(l, T)
<1>1. \A s \in Srcs : WiredOk(l, s, T)
  BY DEF LoopOk, WiredOk, Later
<1> QED
  BY <1>1 DEF LoopOk

\* The fields of a loop.
LEMMA LoopFields ==
  ASSUME NEW l \in Loop
  PROVE  /\ l.knobs \in Seq(Setting) /\ Len(l.knobs) \in Nat
         /\ l.controls \in [Srcs -> Nat] /\ l.queue \in Seq(Command)
         /\ l.active \in [Srcs -> Input0] /\ l.st \in {"run", "stopped", "leaked"}
<1>1. l.knobs \in Seq(Setting)
  BY DEF Loop
<1> QED
  BY <1>1 DEF Loop, Command, Input0

\* add_input puts a new knob under the API's hand and in the thread's queue.
LEMMA PlugOk ==
  ASSUME PoolOk, NEW l, LoopOk(l, source), NEW s \in Srcs, pool[s] # 0, NEW v \in Volumes
  PROVE  /\ LoopOk(Plug(l, s, v), source) /\ Plug(l, s, v).st = l.st
         /\ AllFresh(l) => AllFresh(Plug(l, s, v))
         /\ HeardOn(Plug(l, s, v), s) \in Unmuted
         /\ \A t \in Srcs \ {s} : HeardOn(Plug(l, s, v), t) = HeardOn(l, t)
<1> DEFINE n == Len(l.knobs)
           new == [volume |-> v, muted |-> FALSE]
           c == [src |-> s, knob |-> n + 1, rx |-> Subscribe(s)]
           m == Plug(l, s, v)
<1>1. l \in Loop /\ n \in Nat
  BY LoopFields DEF LoopOk
<1>2. /\ l.knobs \in Seq(Setting) /\ l.controls \in [Srcs -> Nat] /\ l.queue \in Seq(Command)
      /\ l.active \in [Srcs -> Input0] /\ l.st \in {"run", "stopped", "leaked"}
  BY <1>1, LoopFields
<1>3. m = [l EXCEPT !.knobs = Append(l.knobs, new), !.controls = [l.controls EXCEPT ![s] = n + 1],
                    !.queue = Append(l.queue, c)]
  BY DEF Plug
<1>6. new \in Unmuted /\ new \in Setting
  BY DEF Unmuted, Setting
<1>7. /\ pool[s] \in Nat /\ pool[s] \in DOMAIN source /\ source[pool[s]].dev = s
  BY DEF PoolOk
<1>8. c \in Command /\ c.src = s /\ c.knob = n + 1 /\ c.rx.src = pool[s]
  BY <1>1, <1>7 DEF Command, Receiver, Subscribe
<1>9. /\ m \in Loop
      /\ m.knobs = Append(l.knobs, new) /\ m.controls = [l.controls EXCEPT ![s] = n + 1]
      /\ m.queue = Append(l.queue, c) /\ m.active = l.active /\ m.st = l.st
  <2>1. Append(l.knobs, new) \in Seq(Setting) /\ Append(l.queue, c) \in Seq(Command)
    BY <1>2, <1>6, <1>8
  <2>2. [l.controls EXCEPT ![s] = n + 1] \in [Srcs -> Nat]
    BY <1>1, <1>2
  <2> DEFINE K == Append(l.knobs, new)
             C == [l.controls EXCEPT ![s] = n + 1]
             Q == Append(l.queue, c)
  <2>3. m = [l EXCEPT !.knobs = K, !.controls = C, !.queue = Q]
    BY <1>3
  <2> HIDE DEF m, K, C, Q
  <2>4. m.knobs = K /\ m.controls = C /\ m.queue = Q /\ m.active = l.active /\ m.st = l.st
    BY <1>1, <2>3 DEF Loop
  <2>5. m \in Loop
    BY <1>1, <2>1, <2>2, <2>3 DEF Loop, Command, K, C, Q
  <2> QED
    BY <2>4, <2>5 DEF K, C, Q
<1>10. /\ Len(m.knobs) = n + 1 /\ m.knobs[n + 1] = new
       /\ \A i \in 1..n : m.knobs[i] = l.knobs[i]
       /\ m.controls[s] = n + 1 /\ \A t \in Srcs \ {s} : m.controls[t] = l.controls[t]
  BY <1>1, <1>2, <1>9, <1>6
<1>11. /\ Applied(m, s) = [knob |-> c.knob, rx |-> c.rx]
       /\ \A t \in Srcs \ {s} : Applied(m, t) = Applied(l, t)
  <2> HIDE DEF c, m
  <2>0. Queued(l, m, c)
    BY <1>9 DEF Queued
  <2>1. /\ Applied(m, c.src) = [knob |-> c.knob, rx |-> c.rx]
        /\ \A t \in Srcs : t # c.src => Applied(m, t) = Applied(l, t)
    <3>1. l \in Loop /\ c \in Command
      BY <1>1, <1>8
    <3> QED
      BY <2>0, <3>1, AppliedAppend
  <2> QED
    BY <1>8, <2>1
<1>12. /\ KnobOf(m, s) = n + 1 /\ Applied(m, s).rx.src = pool[s]
       /\ \A t \in Srcs \ {s} : KnobOf(m, t) = KnobOf(l, t)
  BY <1>8, <1>11 DEF KnobOf
<1> HIDE DEF m, c, new, n
<1>13. \A t \in Srcs : WiredOk(m, t, source)
  <2> SUFFICES ASSUME NEW t \in Srcs PROVE WiredOk(m, t, source)
    OBVIOUS
  <2>1. CASE t = s
    BY <1>1, <1>7, <1>10, <1>12, <2>1 DEF WiredOk
  <2>2. CASE t # s
    <3>1. WiredOk(l, t, source)
      BY DEF LoopOk
    <3> QED
      BY <1>10, <1>11, <1>12, <2>2, <3>1 DEF WiredOk
  <2> QED
    BY <2>1, <2>2
<1>14. \A t \in Srcs : l.controls[t] <= n /\ l.controls[t] \in Nat
  BY <1>2 DEF LoopOk, n
<1>15. \A t \in Srcs : m.controls[t] <= Len(m.knobs)
  BY <1>1, <1>10, <1>14
<1>16. \A t, u \in Srcs : m.controls[t] = m.controls[u] /\ m.controls[t] # 0 => t = u
  <2> SUFFICES ASSUME NEW t \in Srcs, NEW u \in Srcs, m.controls[t] = m.controls[u],
                      m.controls[t] # 0
               PROVE  t = u
    OBVIOUS
  <2>1. (t = s) = (u = s)
    BY <1>1, <1>10, <1>14
  <2>2. CASE t # s /\ u # s
    BY <1>10, <2>2 DEF LoopOk
  <2> QED
    BY <2>1, <2>2
<1>17. LoopOk(m, source)
  BY <1>9, <1>13, <1>15, <1>16 DEF LoopOk
<1>18. AllFresh(l) => AllFresh(m)
  <2>1. \A i \in 1..(n + 1) : i \in 1..n \/ i = n + 1
    BY <1>1
  <2> QED
    BY <1>6, <1>10, <2>1 DEF AllFresh, n
<1>19. HeardOn(m, s) \in Unmuted
  BY <1>1, <1>6, <1>10, <1>12 DEF HeardOn
<1>20. ASSUME NEW t \in Srcs \ {s} PROVE HeardOn(m, t) = HeardOn(l, t)
  <2>1. KnobOf(l, t) \in {l.controls[t], 0}
    BY DEF LoopOk, WiredOk
  <2>2. KnobOf(l, t) # 0 => KnobOf(l, t) \in 1..n
    BY <1>1, <1>14, <2>1
  <2> QED
    BY <1>10, <1>12, <2>2 DEF HeardOn
<1> QED
  BY <1>9, <1>17, <1>18, <1>19, <1>20 DEF m

\* A knob that is read is a knob there is.
LEMMA KnobIn ==
  ASSUME NEW l, NEW S, LoopOk(l, S), NEW s \in Srcs, KnobOf(l, s) # 0
  PROVE  /\ KnobOf(l, s) = l.controls[s] /\ KnobOf(l, s) \in 1..Len(l.knobs)
         /\ HeardOn(l, s) = l.knobs[l.controls[s]] /\ HeardOn(l, s) \in Setting
<1>1. l \in Loop /\ Len(l.knobs) \in Nat /\ l.controls[s] \in Nat /\ l.knobs \in Seq(Setting)
  BY LoopFields DEF LoopOk
<1>2. KnobOf(l, s) = l.controls[s]
  BY DEF LoopOk, WiredOk
<1>3. l.controls[s] \in 1..Len(l.knobs)
  BY <1>1, <1>2 DEF LoopOk
<1>4. l.knobs[l.controls[s]] \in Setting
  BY <1>1, <1>3
<1> QED
  BY <1>2, <1>3, <1>4 DEF HeardOn

\* Loops that are wired the same.
Same(l, m) ==
  /\ m.controls = l.controls /\ Len(m.knobs) = Len(l.knobs)
  /\ \A s \in Srcs : Applied(m, s) = Applied(l, s)

\* Loops that are wired the same are both well wired.
LEMMA SameOk ==
  ASSUME NEW l, NEW S, NEW m \in Loop, LoopOk(l, S), Same(l, m)
  PROVE  LoopOk(m, S) /\ \A s \in Srcs : KnobOf(m, s) = KnobOf(l, s)
<1>1. \A s \in Srcs : KnobOf(m, s) = KnobOf(l, s)
  BY DEF Same, KnobOf
<1>2. \A s \in Srcs : WiredOk(m, s, S)
  BY <1>1 DEF Same, LoopOk, WiredOk
<1> QED
  BY <1>1, <1>2 DEF LoopOk, Same

\* The same knob of the same knobs sounds the same.
LEMMA HeardSame ==
  ASSUME NEW l, NEW m, m.knobs = l.knobs, NEW s, KnobOf(m, s) = KnobOf(l, s)
  PROVE  HeardOn(m, s) = HeardOn(l, s)
BY DEF HeardOn

\* Loop l with its commands applied, with the knob of s at x, without the sound of s.
Flushed(l)      == [l EXCEPT !.queue = <<>>, !.active = [s \in Srcs |-> Applied(l, s)]]
TurnTo(l, s, x) == [l EXCEPT !.knobs = [l.knobs EXCEPT ![l.controls[s]] = x]]
Silenced(l, s)  == [l EXCEPT !.active = [l.active EXCEPT ![s] = Silent]]

\* mix_loop applies its commands: nothing sounds different.
LEMMA FlushOk ==
  ASSUME NEW l, NEW S, LoopOk(l, S), NEW m, m = Flushed(l)
  PROVE  /\ LoopOk(m, S) /\ m.st = l.st /\ (AllFresh(l) => AllFresh(m))
         /\ \A s \in Srcs : HeardOn(m, s) = HeardOn(l, s)
<1>1. l \in Loop
  BY DEF LoopOk
<1> DEFINE A == [s \in Srcs |-> Applied(l, s)]
<1>2. A \in [Srcs -> Input0]
  BY <1>1, AppliedType
<1>3. m = [l EXCEPT !.queue = <<>>, !.active = A]
  BY DEF Flushed
<1>4. \A s \in Srcs : A[s] = Applied(l, s)
  OBVIOUS
<1> HIDE DEF A
<1>5. /\ m.queue = <<>> /\ m.active = A /\ m.knobs = l.knobs /\ m.controls = l.controls
      /\ m.st = l.st
  BY <1>1, <1>3 DEF Loop
<1>6. <<>> \in Seq(Command)
  OBVIOUS
<1>7. m \in Loop
  BY <1>1, <1>2, <1>3, <1>6 DEF Loop, Command, Input0
<1>8. \A s \in Srcs : Applied(m, s) = Applied(l, s)
  BY <1>4, <1>5, AppliedIdle
<1>9. Same(l, m)
  BY <1>5, <1>8 DEF Same
<1>10. LoopOk(m, S) /\ \A s \in Srcs : KnobOf(m, s) = KnobOf(l, s)
  BY <1>7, <1>9, SameOk
<1>11. \A s \in Srcs : HeardOn(m, s) = HeardOn(l, s)
  BY <1>5, <1>10, HeardSame
<1>12. AllFresh(l) => AllFresh(m)
  BY <1>5 DEF AllFresh
<1> QED
  BY <1>5, <1>10, <1>11, <1>12

\* A knob that is turned is turned for its input only.
LEMMA TurnOk ==
  ASSUME NEW l, NEW S, LoopOk(l, S), NEW s \in Srcs, l.controls[s] # 0, NEW x \in Setting, NEW m,
         m = TurnTo(l, s, x)
  PROVE  /\ LoopOk(m, S) /\ m.st = l.st
         /\ KnobOf(m, s) = KnobOf(l, s)
         /\ KnobOf(l, s) # 0 => HeardOn(m, s) = x
         /\ KnobOf(l, s) = 0 => HeardOn(m, s) = HeardOn(l, s)
         /\ \A t \in Srcs \ {s} : HeardOn(m, t) = HeardOn(l, t)
<1>1. l \in Loop /\ l.knobs \in Seq(Setting) /\ Len(l.knobs) \in Nat /\ l.controls \in [Srcs -> Nat]
  BY LoopFields DEF LoopOk
<1> DEFINE k == l.controls[s]
           K == [l.knobs EXCEPT ![k] = x]
<1>2. k \in 1..Len(l.knobs)
  BY <1>1 DEF LoopOk
<1>3. /\ K \in Seq(Setting) /\ Len(K) = Len(l.knobs) /\ K[k] = x
      /\ \A i \in 1..Len(l.knobs) : i # k => K[i] = l.knobs[i]
  BY <1>1, <1>2
<1>4. m = [l EXCEPT !.knobs = K]
  BY DEF TurnTo
<1> HIDE DEF K
<1>5. /\ m.knobs = K /\ m.queue = l.queue /\ m.active = l.active /\ m.controls = l.controls
      /\ m.st = l.st
  BY <1>1, <1>4 DEF Loop
<1>6. m \in Loop
  BY <1>1, <1>3, <1>4 DEF Loop
<1>7. \A t \in Srcs : Applied(m, t) = Applied(l, t)
  BY <1>5 DEF Applied, Pending
<1>8. Same(l, m)
  BY <1>3, <1>5, <1>7 DEF Same
<1>9. LoopOk(m, S) /\ \A t \in Srcs : KnobOf(m, t) = KnobOf(l, t)
  BY <1>6, <1>8, SameOk
<1>10. KnobOf(l, s) # 0 => HeardOn(m, s) = x
  <2> SUFFICES ASSUME KnobOf(l, s) # 0 PROVE HeardOn(m, s) = x
    OBVIOUS
  <2>1. KnobOf(m, s) = k /\ KnobOf(m, s) # 0
    BY <1>9, KnobIn
  <2> QED
    BY <1>3, <1>5, <2>1 DEF HeardOn
<1>11. KnobOf(l, s) = 0 => HeardOn(m, s) = HeardOn(l, s)
  BY <1>9 DEF HeardOn
<1>12. ASSUME NEW t \in Srcs \ {s} PROVE HeardOn(m, t) = HeardOn(l, t)
  <2>1. CASE KnobOf(l, t) = 0
    BY <1>9, <2>1 DEF HeardOn
  <2>2. CASE KnobOf(l, t) # 0
    <3>1. KnobOf(l, t) = l.controls[t] /\ KnobOf(l, t) \in 1..Len(l.knobs)
      BY <2>2, KnobIn
    <3>2. KnobOf(l, t) # k
      BY <2>2, <3>1 DEF LoopOk
    <3> QED
      BY <1>3, <1>5, <1>9, <3>1, <3>2 DEF HeardOn
  <2> QED
    BY <2>1, <2>2
<1> QED
  BY <1>5, <1>9, <1>10, <1>11, <1>12

\* An input whose source has ended falls silent.
LEMMA DeadOk ==
  ASSUME NEW l, NEW S, LoopOk(l, S), NEW s \in Srcs, l.queue = <<>>,
         l.active[s].knob # 0, S[l.active[s].rx.src].st # "run", NEW m, m = Silenced(l, s)
  PROVE  /\ LoopOk(m, S) /\ m.st = l.st /\ (AllFresh(l) => AllFresh(m))
         /\ HeardOn(m, s) = None
         /\ \A t \in Srcs \ {s} : HeardOn(m, t) = HeardOn(l, t)
<1>1. l \in Loop /\ l.active \in [Srcs -> Input0]
  BY LoopFields DEF LoopOk
<1> DEFINE A == [l.active EXCEPT ![s] = Silent]
<1>2. Silent \in Input0 /\ Silent.knob = 0
  BY DEF Silent, NoRx, Input0, Receiver
<1>3. A \in [Srcs -> Input0] /\ A[s] = Silent /\ \A t \in Srcs \ {s} : A[t] = l.active[t]
  BY <1>1, <1>2
<1>4. m = [l EXCEPT !.active = A]
  BY DEF Silenced
<1> HIDE DEF A
<1>5. /\ m.active = A /\ m.queue = l.queue /\ m.knobs = l.knobs /\ m.controls = l.controls
      /\ m.st = l.st
  BY <1>1, <1>4 DEF Loop
<1>6. m \in Loop
  BY <1>1, <1>3, <1>4 DEF Loop, Input0
<1>7. Applied(m, s) = Silent /\ Applied(l, s) = l.active[s]
  <2>1. Applied(m, s) = m.active[s]
    BY <1>5, AppliedIdle
  <2>2. Applied(l, s) = l.active[s]
    BY AppliedIdle
  <2> QED
    BY <1>3, <1>5, <2>1, <2>2
<1>8. ASSUME NEW t \in Srcs \ {s} PROVE Applied(m, t) = Applied(l, t)
  <2>1. Applied(m, t) = m.active[t]
    BY <1>5, AppliedIdle
  <2>2. Applied(l, t) = l.active[t]
    BY AppliedIdle
  <2> QED
    BY <1>3, <1>5, <2>1, <2>2
<1>9. /\ KnobOf(m, s) = 0 /\ KnobOf(l, s) # 0
      /\ \A t \in Srcs \ {s} : KnobOf(m, t) = KnobOf(l, t)
  BY <1>2, <1>7, <1>8 DEF KnobOf
<1>10. WiredOk(m, s, S)
  <2>1. LET k == l.active[s].rx.src IN k \in DOMAIN S /\ S[k].dev = s
    BY <1>7, <1>9 DEF LoopOk, WiredOk
  <2> QED
    BY <1>9, <2>1 DEF WiredOk
<1>11. \A t \in Srcs \ {s} : WiredOk(m, t, S)
  BY <1>5, <1>8, <1>9 DEF LoopOk, WiredOk
<1>12. LoopOk(m, S)
  BY <1>5, <1>6, <1>10, <1>11 DEF LoopOk
<1> QED
  BY <1>5, <1>9, <1>12 DEF HeardOn, AllFresh

\* remove_input: the thread is told, and the input is listed no more.
LEMMA UnplugOk ==
  ASSUME NEW l, NEW S, LoopOk(l, S), NEW s \in Srcs
  PROVE  /\ LoopOk(Unplug(l, s), S) /\ Unplug(l, s).st = l.st
         /\ AllFresh(l) => AllFresh(Unplug(l, s))
         /\ HeardOn(Unplug(l, s), s) = None
         /\ \A t \in Srcs \ {s} : HeardOn(Unplug(l, s), t) = HeardOn(l, t)
<1>1. l \in Loop /\ l.queue \in Seq(Command) /\ l.controls \in [Srcs -> Nat]
  BY LoopFields DEF LoopOk
<1>2. CASE l.controls[s] = 0
  <2>1. Unplug(l, s) = l
    BY <1>2 DEF Unplug
  <2>2. KnobOf(l, s) = 0
    BY <1>2 DEF LoopOk, WiredOk
  <2> QED
    BY <2>1, <2>2 DEF HeardOn
<1>3. CASE l.controls[s] # 0
  <2> DEFINE c == [src |-> s, knob |-> 0, rx |-> NoRx]
             C == [l.controls EXCEPT ![s] = 0]
             Q == Append(l.queue, c)
             m == Unplug(l, s)
  <2>1. c \in Command /\ c.src = s /\ c.knob = 0
    BY DEF Command, NoRx, Receiver
  <2>2. Q \in Seq(Command)
    BY <1>1, <2>1
  <2>3. C \in [Srcs -> Nat] /\ C[s] = 0 /\ \A t \in Srcs \ {s} : C[t] = l.controls[t]
    BY <1>1
  <2>4. m = [l EXCEPT !.controls = C, !.queue = Q]
    BY <1>3 DEF Unplug
  <2>5. Q = Append(l.queue, c)
    OBVIOUS
  <2> HIDE DEF m, Q, C, c
  <2>6. /\ m.controls = C /\ m.queue = Q /\ m.active = l.active /\ m.knobs = l.knobs
        /\ m.st = l.st
    BY <1>1, <2>4 DEF Loop
  <2>7. m \in Loop
    BY <1>1, <2>2, <2>3, <2>4 DEF Loop, Command
  <2>8. Queued(l, m, c)
    BY <2>5, <2>6 DEF Queued
  <2>9. /\ Applied(m, c.src) = [knob |-> c.knob, rx |-> c.rx]
        /\ \A t \in Srcs : t # c.src => Applied(m, t) = Applied(l, t)
    <3>1. l \in Loop /\ c \in Command
      BY <1>1, <2>1
    <3> QED
      BY <2>8, <3>1, AppliedAppend
  <2>10. /\ KnobOf(m, s) = 0 /\ \A t \in Srcs \ {s} : Applied(m, t) = Applied(l, t)
         /\ \A t \in Srcs \ {s} : KnobOf(m, t) = KnobOf(l, t)
    BY <2>1, <2>9 DEF KnobOf
  <2>11. \A t \in Srcs : WiredOk(m, t, S)
    <3> SUFFICES ASSUME NEW t \in Srcs PROVE WiredOk(m, t, S)
      OBVIOUS
    <3>1. CASE t = s
      BY <2>3, <2>6, <2>10, <3>1 DEF WiredOk
    <3>2. CASE t # s
      <4>1. WiredOk(l, t, S)
        BY DEF LoopOk
      <4> QED
        BY <2>3, <2>6, <2>10, <3>2, <4>1 DEF WiredOk
    <3> QED
      BY <3>1, <3>2
  <2>12. \A t \in Srcs : m.controls[t] <= Len(m.knobs)
    <3>1. Len(l.knobs) \in Nat
      BY <1>1, LoopFields
    <3> QED
      BY <1>1, <2>3, <2>6, <3>1 DEF LoopOk
  <2>13. \A t, u \in Srcs : m.controls[t] = m.controls[u] /\ m.controls[t] # 0 => t = u
    BY <2>3, <2>6 DEF LoopOk
  <2>14. LoopOk(m, S)
    BY <2>7, <2>11, <2>12, <2>13 DEF LoopOk
  <2> QED
    BY <2>6, <2>10, <2>14 DEF HeardOn, AllFresh, m
<1> QED
  BY <1>2, <1>3

\* A loop from its fields.
LEMMA LoopFrom ==
  ASSUME NEW k \in Seq(Setting), NEW c \in [Srcs -> Nat], NEW q \in Seq(Command),
         NEW a \in [Srcs -> Input0], NEW st \in {"run", "stopped", "leaked"}
  PROVE  [knobs |-> k, controls |-> c, queue |-> q, active |-> a, st |-> st] \in Loop
BY DEF Loop, Command, Input0

\* A new loop, also a stopped one, has nothing on it.
LEMMA NewLoopOk ==
  ASSUME NEW S, NEW st \in {"run", "stopped", "leaked"}, NEW m, m = [NewLoop EXCEPT !.st = st]
  PROVE  LoopOk(m, S) /\ AllFresh(m) /\ m.st = st
<1>1. m = [knobs |-> <<>>, controls |-> [s \in Srcs |-> 0], queue |-> <<>>,
           active |-> [s \in Srcs |-> Silent], st |-> st]
  BY DEF NewLoop
<1>2. /\ m.knobs = <<>> /\ m.controls = [s \in Srcs |-> 0] /\ m.queue = <<>>
      /\ m.active = [s \in Srcs |-> Silent] /\ m.st = st
  BY <1>1
<1>3. Silent \in Input0 /\ Silent.knob = 0
  BY DEF Silent, NoRx, Input0, Receiver
<1>4. m \in Loop
  <2>1. <<>> \in Seq(Setting) /\ <<>> \in Seq(Command)
    OBVIOUS
  <2> DEFINE C == [s \in Srcs |-> 0]
             A == [s \in Srcs |-> Silent]
             K == <<>>
             r == [knobs |-> K, controls |-> C, queue |-> K, active |-> A, st |-> st]
  <2>2. C \in [Srcs -> Nat] /\ A \in [Srcs -> Input0]
    BY <1>3
  <2>3. m = r /\ K \in Seq(Setting) /\ K \in Seq(Command)
    BY <1>1, <2>1
  <2> HIDE DEF A, C, K
  <2>4. r \in Loop
    BY <2>2, <2>3, LoopFrom
  <2> HIDE DEF r
  <2> QED
    BY <2>3, <2>4
<1>5. ASSUME NEW s \in Srcs PROVE KnobOf(m, s) = 0 /\ m.controls[s] = 0
  <2>1. Applied(m, s) = m.active[s]
    BY <1>2, AppliedIdle
  <2> QED
    BY <1>2, <1>3, <2>1 DEF KnobOf
<1>6. \A s \in Srcs : WiredOk(m, s, S)
  BY <1>5 DEF WiredOk
<1> QED
  BY <1>2, <1>4, <1>5, <1>6 DEF LoopOk, AllFresh

\* Function f does what Filled does, for the first n inputs.
FillsAt(f, l, is, i) ==
  f[i] = IF i = 0 THEN l
         ELSE IF pool[is[i].src] = 0 THEN f[i - 1]
         ELSE Plug(f[i - 1], is[i].src, is[i].volume)

Fills(f, l, is, n) ==
  f = [i \in 0..n |-> IF i = 0 THEN l
                      ELSE IF pool[is[i].src] = 0 THEN f[i - 1]
                      ELSE Plug(f[i - 1], is[i].src, is[i].volume)]

\* Its equation at one point.
LEMMA FillsPoint ==
  ASSUME NEW f, NEW l, NEW is, NEW n \in Nat, Fills(f, l, is, n), NEW i \in 0..n
  PROVE  FillsAt(f, l, is, i)
<1> DEFINE E(j) == IF j = 0 THEN l
                   ELSE IF pool[is[j].src] = 0 THEN f[j - 1]
                   ELSE Plug(f[j - 1], is[j].src, is[j].volume)
<1>1. f = [j \in 0..n |-> E(j)]
  BY DEF Fills
<1> HIDE DEF E
<1>2. f[i] = E(i)
  BY <1>1
<1> QED
  BY <1>2 DEF E, FillsAt

\* The recursive definition has a solution, by the least length without one.
LEMMA FillsExists ==
  ASSUME NEW l, NEW is, NEW n \in Nat
  PROVE  \E f : Fills(f, l, is, n)
<1> DEFINE T == {m \in Nat : ~ \E f : Fills(f, l, is, m)}
<1>1. ASSUME T # {} PROVE FALSE
  <2>1. PICK m \in T : \A k \in T : m <= k
    BY <1>1, LeastNat
  <2>2. CASE m = 0
    <3>1. Fills([i \in 0..0 |-> l], l, is, 0)
      BY DEF Fills
    <3> QED
      BY <2>1, <2>2, <3>1
  <2>3. CASE m > 0
    <3>1. m \in Nat /\ m - 1 \in Nat /\ m - 1 \notin T
      BY <2>1, <2>3
    <3>2. PICK g : Fills(g, l, is, m - 1)
      BY <3>1
    <3> DEFINE Last == IF pool[is[m].src] = 0 THEN g[m - 1]
                       ELSE Plug(g[m - 1], is[m].src, is[m].volume)
               f == [i \in 0..m |-> IF i < m THEN g[i] ELSE Last]
    <3>3. /\ f[m] = Last /\ \A i \in 0..(m - 1) : f[i] = g[i]
      BY <3>1
    <3>4. ASSUME NEW i \in 0..m PROVE FillsAt(f, l, is, i)
      <4>1. CASE i < m
        <5>1. i \in 0..(m - 1) /\ (i # 0 => i - 1 \in 0..(m - 1))
          BY <3>1, <4>1
        <5>2. FillsAt(g, l, is, i)
          BY <3>1, <3>2, <5>1, FillsPoint
        <5>3. f[i] = g[i] /\ (i # 0 => f[i - 1] = g[i - 1])
          BY <3>3, <5>1
        <5> HIDE DEF f
        <5> QED
          BY <5>2, <5>3 DEF FillsAt
      <4>2. CASE i = m
        <5>1. m # 0 /\ m - 1 \in 0..(m - 1)
          BY <2>3, <3>1
        <5>2. f[m - 1] = g[m - 1]
          BY <3>3, <5>1
        <5> HIDE DEF f
        <5> QED
          BY <3>3, <4>2, <5>1, <5>2 DEF FillsAt
      <4> QED
        BY <4>1, <4>2, <3>1
    <3> DEFINE E(i) == IF i = 0 THEN l
                       ELSE IF pool[is[i].src] = 0 THEN f[i - 1]
                       ELSE Plug(f[i - 1], is[i].src, is[i].volume)
    <3>5. f = [i \in 0..m |-> E(i)]
      <4>1. \A i \in 0..m : f[i] = E(i)
        BY <3>4 DEF FillsAt
      <4>2. f = [i \in 0..m |-> f[i]]
        OBVIOUS
      <4> HIDE DEF f, E
      <4> QED
        BY <4>1, <4>2
    <3>6. Fills(f, l, is, m)
      BY <3>5 DEF Fills
    <3> HIDE DEF f
    <3> QED
      BY <2>1, <3>6
  <2> QED
    BY <2>1, <2>2, <2>3
<1> QED
  BY <1>1

\* FillBus plugs what it can, and nothing is muted.
LEMMA FilledOk ==
  ASSUME PoolOk, NEW l, LoopOk(l, source), AllFresh(l), NEW is \in Seq(Input)
  PROVE  /\ LoopOk(Filled(l, is), source) /\ AllFresh(Filled(l, is))
         /\ Filled(l, is).st = l.st
<1> DEFINE n == Len(is)
           f == CHOOSE g : Fills(g, l, is, n)
           Good(m) == LoopOk(m, source) /\ AllFresh(m) /\ m.st = l.st
<1>1. n \in Nat
  OBVIOUS
<1>2. Fills(f, l, is, n)
  BY <1>1, FillsExists
<1>3. Filled(l, is) = f[n]
  BY Zenon DEF Filled, Fills
<1> HIDE DEF f
<1> DEFINE T == {i \in 0..n : ~Good(f[i])}
<1>4. ASSUME T # {} PROVE FALSE
  <2>0. T \in SUBSET Nat
    BY <1>1
  <2>1. PICK k \in T : \A j \in T : k <= j
    <3> HIDE DEF T
    <3> QED
      BY <1>4, <2>0, LeastNat
  <2>2. k \in 0..n /\ ~Good(f[k])
    BY <2>1
  <2>3. FillsAt(f, l, is, k)
    BY <1>1, <1>2, <2>2, FillsPoint
  <2>4. k # 0
    <3>1. ASSUME k = 0 PROVE FALSE
      <4>1. f[k] = l
        BY <2>3, <3>1 DEF FillsAt
      <4> QED
        BY <2>2, <4>1
    <3> QED
      BY <3>1
  <2>5. k - 1 \in 0..n /\ k - 1 \notin T /\ k \in 1..n
    BY <1>1, <2>1, <2>2, <2>4
  <2>6. Good(f[k - 1])
    BY <2>5
  <2>7. is[k] \in Input
    BY <2>5
  <2>8. is[k].src \in Srcs /\ is[k].volume \in Volumes
    BY <2>7 DEF Input
  <2>9. CASE pool[is[k].src] = 0
    <3>1. f[k] = f[k - 1]
      BY <2>3, <2>4, <2>9 DEF FillsAt
    <3> QED
      BY <2>2, <2>6, <3>1
  <2>10. CASE pool[is[k].src] # 0
    <3>1. f[k] = Plug(f[k - 1], is[k].src, is[k].volume)
      BY <2>3, <2>4, <2>10 DEF FillsAt
    <3>2. Good(Plug(f[k - 1], is[k].src, is[k].volume))
      BY <2>6, <2>8, <2>10, PlugOk
    <3> QED
      BY <2>2, <3>1, <3>2
  <2> QED
    BY <2>9, <2>10
<1>5. n \in 0..n
  BY <1>1
<1>6. Good(f[n])
  BY <1>4, <1>5
<1> QED
  BY <1>3, <1>6

-----------------------------------------------------------------------------
(* What a step of a call does to the calls. *)

\* The step is one of task p, which is then c.
Moves(p, c) == call' = [call EXCEPT ![p] = c]

\* One call goes on: the others are as they were.
LEMMA MoveOk ==
  ASSUME CallsOk, NEW p \in Tasks, NEW c, Moves(p, c), TaskOk(c, source'), Later(source, source')
  PROVE  /\ CallsOk' /\ call'[p] = c
         /\ \A q \in Procs \ {p} : call'[q] = call[q]
<1> USE MixerAssumption
<1>1. p \in Procs /\ p # Halt /\ Halt \in Procs /\ Tasks \subseteq Procs
  BY DEF Tasks, Procs
<1>2. call'[p] = c /\ \A q \in Procs \ {p} : call'[q] = call[q]
  BY <1>1 DEF CallsOk, Moves
<1>3. call' = [q \in Procs |-> call'[q]]
  BY <1>1 DEF CallsOk, Moves
<1>4. \A q \in Tasks : TaskOk(call'[q], source')
  <2> SUFFICES ASSUME NEW q \in Tasks, q # p PROVE TaskOk(call'[q], source')
    BY <1>2
  <2>1. TaskOk(call[q], source) /\ call'[q] = call[q]
    BY <1>1, <1>2 DEF CallsOk
  <2> QED
    BY <2>1 DEF TaskOk, Later
<1>5. HaltOk(call'[Halt])
  BY <1>1, <1>2 DEF CallsOk
<1> QED
  BY <1>2, <1>3, <1>4, <1>5 DEF CallsOk

\* Sources are held as they were when no call lets go of one.
LEMMA HeldSources ==
  ASSUME PoolOk, SourcesHeld, UNCHANGED <<source, pool>>,
         \A q \in Procs : call'[q].src = call[q].src
  PROVE  PoolOk' /\ SourcesHeld' /\ Later(source, source')
<1>1. PoolOk' /\ Later(source, source')
  BY DEF PoolOk, Later
<1>2. SourcesHeld'
  BY DEF SourcesHeld
<1> QED
  BY <1>1, <1>2

\* A call at rest.
LEMMA IdleIs ==
  ASSUME NEW pc \in Resting, NEW S
  PROVE  TaskOk(Idle(pc), S) /\ Idle(pc).src = 0 /\ Idle(pc).loop = 0
<1>1. /\ Idle(pc).pc = pc /\ Idle(pc).at = 1 /\ Idle(pc).src = 0 /\ Idle(pc).loop = 0
      /\ Idle(pc).mutes = {} /\ Shaped(Idle(pc))
  BY DEF Idle, Shaped
<1> QED
  BY <1>1 DEF TaskOk, Resting, Pcs

\* A call that begins with a job.
Begun(pc, j, m) == [Idle(pc) EXCEPT !.job = j, !.mutes = m]

\* Its fields.
LEMMA BeginsWith ==
  ASSUME NEW pc, NEW j, NEW m
  PROVE  LET c == Begun(pc, j, m) IN
         /\ c.pc = pc /\ c.job = j /\ c.at = 1 /\ c.src = 0 /\ c.loop = 0 /\ c.mutes = m
         /\ Shaped(c)
<1> DEFINE b == Idle(pc)
           c == Begun(pc, j, m)
<1>1. Shaped(b) /\ b.pc = pc /\ b.at = 1 /\ b.src = 0 /\ b.loop = 0
  BY DEF Idle, Shaped
<1>2. c = [b EXCEPT !.job = j, !.mutes = m]
  BY DEF Begun
<1> HIDE DEF b, c
<1>3. /\ c.pc = pc /\ c.job = j /\ c.at = 1 /\ c.src = 0 /\ c.loop = 0 /\ c.mutes = m
      /\ Shaped(c)
  BY <1>1, <1>2 DEF Shaped
<1> QED
  BY <1>3 DEF c

\* Where restore_all goes on after a save.
LEMMA AfterSaveIs ==
  ASSUME CallsOk, NEW p \in Tasks, JobOk(Job(p)), NEW S
  PROVE  TaskOk(AfterSave(p), S) /\ AfterSave(p).src = 0 /\ AfterSave(p).loop = 0
<1>1. CASE p # Boot \/ call[p].mutes = {}
  <2>1. AfterSave(p) = Idle("done") \/ AfterSave(p) = Idle("next")
    BY <1>1 DEF AfterSave
  <2>2. "done" \in Resting /\ "next" \in Resting
    BY DEF Resting
  <2> QED
    BY <2>1, <2>2, IdleIs
<1>2. CASE p = Boot /\ call[p].mutes # {}
  <2> DEFINE s == CHOOSE x \in call[p].mutes : TRUE
             i == [src |-> s, volume |-> 0]
             j == [Job(p) EXCEPT !.op = "mute", !.muted = TRUE, !.inputs = <<i>>]
             c == Begun("mute", j, call[p].mutes \ {s})
  <2>1. s \in call[p].mutes /\ call[p].mutes \subseteq Srcs
    BY <1>2 DEF CallsOk, TaskOk
  <2>2. AfterSave(p) = c
    BY <1>2 DEF AfterSave, Begun
  <2> HIDE DEF s
  <2>3. i \in [src : Srcs, volume : Volumes \cup {0}]
    BY <2>1
  <2>4. <<i>> \in Seq([src : Srcs, volume : Volumes \cup {0}]) /\ Len(<<i>>) = 1
    BY <2>3
  <2>5. /\ j.op = "mute" /\ j.muted = TRUE /\ j.inputs = <<i>> /\ j.bus = Job(p).bus
        /\ j = [op |-> j.op, bus |-> j.bus, inputs |-> j.inputs, muted |-> j.muted]
    <3> DEFINE k == Job(p)
               I == <<i>>
    <3>1. k = [op |-> k.op, bus |-> k.bus, inputs |-> k.inputs, muted |-> k.muted]
      BY DEF JobOk
    <3>2. j = [k EXCEPT !.op = "mute", !.muted = TRUE, !.inputs = I]
      OBVIOUS
    <3> HIDE DEF j, k, I
    <3>3. j.op = "mute" /\ j.muted = TRUE /\ j.inputs = I /\ j.bus = k.bus
      BY <3>1, <3>2
    <3>4. j = [op |-> j.op, bus |-> j.bus, inputs |-> j.inputs, muted |-> j.muted]
      BY <3>1, <3>2
    <3> QED
      BY <3>3, <3>4 DEF I, k
  <2>6. Job(p).bus \in BusIds
    BY DEF JobOk
  <2> HIDE DEF i, j
  <2>7. JobOk(j)
    BY <2>4, <2>5, <2>6 DEF JobOk
  <2>8. /\ c.pc = "mute" /\ c.job = j /\ c.src = 0 /\ c.loop = 0
        /\ c.mutes = call[p].mutes \ {s} /\ Shaped(c)
    BY BeginsWith
  <2> HIDE DEF c
  <2>9. JobFits(c)
    BY <2>5, <2>8 DEF JobFits
  <2>10. TaskOk(c, S)
    BY <2>1, <2>7, <2>8, <2>9 DEF TaskOk, Pcs, Resting
  <2> QED
    BY <2>2, <2>8, <2>10
<1> QED
  BY <1>1, <1>2

\* An error is answered, minded or tried again, and nothing is kept.
LEMMA FailIs ==
  ASSUME CallsOk, NEW p \in Tasks, JobOk(Job(p)), Fail(p), NEW S
  PROVE  \E c : Moves(p, c) /\ TaskOk(c, S) /\ c.src = 0 /\ c.loop = 0
<1>1. CASE call' = [call EXCEPT ![p] = Idle("done")] \/ call' = [call EXCEPT ![p] = Idle("next")]
  <2>1. "done" \in Resting /\ "next" \in Resting
    BY DEF Resting
  <2> QED
    BY <1>1, <2>1, IdleIs DEF Moves
<1>2. CASE call' = [call EXCEPT ![p] = AfterSave(p)]
  BY <1>2, AfterSaveIs DEF Moves
<1>3. CASE /\ Job(p).op = "create"
           /\ call' = [call EXCEPT ![p] =
                         [Idle("ensure") EXCEPT !.job = Job(p), !.mutes = call[p].mutes]]
  <2> DEFINE c == Begun("ensure", Job(p), call[p].mutes)
  <2>1. /\ c.pc = "ensure" /\ c.job = Job(p) /\ c.at = 1 /\ c.src = 0 /\ c.loop = 0
        /\ c.mutes = call[p].mutes /\ Shaped(c)
    BY BeginsWith
  <2>2. Moves(p, c)
    BY <1>3 DEF Moves, Begun
  <2> HIDE DEF c
  <2>3. call[p].mutes \subseteq Srcs
    BY DEF CallsOk, TaskOk
  <2>4. Job(p).inputs # <<>> => 1 \in 1..Len(Job(p).inputs)
    BY DEF JobOk
  <2>5. JobFits(c)
    BY <1>3, <2>1, <2>4 DEF JobFits
  <2>6. TaskOk(c, S)
    BY <2>1, <2>3, <2>5 DEF TaskOk, Pcs, Resting
  <2> QED
    BY <2>1, <2>2, <2>6
<1> QED
  BY <1>1, <1>2, <1>3 DEF Fail

-----------------------------------------------------------------------------
(* Loops and buses, and what the console hears of a step. *)

Mix(l) == [s \in Srcs |-> HeardOn(l, s)]

\* The console allows the step.
ConsoleStep == Console!Next \/ Heard' = Heard

\* What is heard is what the loops of the buses mix.
LEMMA HeardIs ==
  /\ DOMAIN Heard = BusIds /\ Heard = [b \in BusIds |-> Heard[b]]
  /\ \A b \in BusIds : Heard[b] = IF buses[b] = 0 THEN None ELSE Mix(loop[buses[b]])
BY DEF Heard, Mix, HeardOn

\* The same after a step.
LEMMA HeardIsThen ==
  /\ DOMAIN Heard' = BusIds /\ Heard' = [b \in BusIds |-> Heard'[b]]
  /\ \A b \in BusIds : Heard'[b] = IF buses'[b] = 0 THEN None ELSE Mix(loop'[buses'[b]])
BY DEF Heard, Mix, HeardOn, KnobOf, Applied, Pending

\* A mix is settings and silence, and not nothing.
LEMMA MixIs ==
  ASSUME NEW l, NEW S, LoopOk(l, S)
  PROVE  /\ Mix(l) \in [Srcs -> Setting \cup {None}] /\ Mix(l) # None
         /\ \A s \in Srcs : Mix(l)[s] = HeardOn(l, s)
<1>1. \A s \in Srcs : HeardOn(l, s) \in Setting \cup {None}
  <2> SUFFICES ASSUME NEW s \in Srcs PROVE HeardOn(l, s) \in Setting \cup {None}
    OBVIOUS
  <2>1. CASE KnobOf(l, s) = 0
    BY <2>1 DEF HeardOn
  <2>2. CASE KnobOf(l, s) # 0
    BY <2>2, KnobIn
  <2> QED
    BY <2>1, <2>2
<1>2. Mix(l) \in [Srcs -> Setting \cup {None}]
  BY <1>1 DEF Mix
<1>3. Mix(l) # None
  BY <1>2, MixerAssumption
<1> QED
  BY <1>2, <1>3 DEF Mix

\* What is heard changes on no bus.
LEMMA HeardSameAll ==
  ASSUME \A b \in BusIds : Heard'[b] = Heard[b]
  PROVE  Heard' = Heard
<1> DEFINE H == Heard
           K == Heard'
<1>1. H = [b \in BusIds |-> H[b]] /\ K = [b \in BusIds |-> K[b]]
  BY HeardIs, HeardIsThen
<1>2. \A b \in BusIds : K[b] = H[b]
  OBVIOUS
<1> HIDE DEF H, K
<1>3. K = H
  BY <1>1, <1>2
<1> QED
  BY <1>3 DEF H, K

\* No loop and no bus changes.
LEMMA QuietLoops ==
  ASSUME LoopInv, Later(source, source'), UNCHANGED <<loop, buses>>,
         \A q \in Procs : call'[q].loop = call[q].loop
  PROVE  LoopInv' /\ ConsoleStep
<1>1. LoopsOk'
  BY LoopOkLater DEF LoopInv, LoopsOk
<1>2. BusesOk'
  BY DEF LoopInv, BusesOk
<1>3. MakingOk'
  BY DEF LoopInv, MakingOk, Tasks, Procs
<1>4. LoopsHeld'
  BY DEF LoopInv, LoopsHeld
<1>5. Heard' = Heard
  BY HeardIs, HeardIsThen, HeardSameAll
<1> QED
  BY <1>1, <1>2, <1>3, <1>4, <1>5 DEF LoopInv, ConsoleStep

\* Loop k becomes m.
Becomes(k, m) ==
  /\ loop' = [loop EXCEPT ![k] = m] /\ UNCHANGED <<source, buses>>
  /\ \A q \in Procs : call'[q].loop = call[q].loop

\* One loop changes and runs on.
LEMMA OneLoop ==
  ASSUME LoopInv, NEW k \in DOMAIN loop, NEW m, Becomes(k, m), LoopOk(m, source),
         m.st = loop[k].st,
         (AllFresh(loop[k]) => AllFresh(m)) \/ \E b \in BusIds : buses[b] = k
  PROVE  /\ LoopInv'
         /\ \A b \in BusIds : Heard'[b] = IF buses[b] = k THEN Mix(m) ELSE Heard[b]
<1>1. loop \in Seq(Loop) /\ m \in Loop /\ DOMAIN loop = 1..Len(loop) /\ Len(loop) \in Nat
  BY DEF LoopInv, LoopsOk, LoopOk
<1>2. /\ loop' \in Seq(Loop) /\ DOMAIN loop' = DOMAIN loop /\ loop'[k] = m
      /\ \A j \in DOMAIN loop : j # k => loop'[j] = loop[j]
  BY <1>1 DEF Becomes
<1>3. LoopsOk'
  <2>1. \A j \in DOMAIN loop : LoopOk(loop'[j], source)
    BY <1>2 DEF LoopInv, LoopsOk
  <2> QED
    BY <1>2, <2>1 DEF LoopsOk, Becomes
<1>4. BusesOk'
  BY <1>2 DEF LoopInv, BusesOk, Becomes
<1>5. MakingOk'
  <2> SUFFICES ASSUME NEW p \in Tasks, call'[p].loop # 0
               PROVE  (/\ call[p].loop \in DOMAIN loop /\ AllFresh(loop[call[p].loop])
                       /\ \A b \in BusIds : buses[b] # call[p].loop
                       /\ \A q \in Tasks \ {p} : call[q].loop # call[p].loop)'
    BY DEF MakingOk
  <2>1. \A q \in Tasks : call'[q].loop = call[q].loop
    BY DEF Becomes, Tasks, Procs
  <2>2. /\ call[p].loop \in DOMAIN loop /\ AllFresh(loop[call[p].loop])
        /\ \A b \in BusIds : buses[b] # call[p].loop
        /\ \A q \in Tasks \ {p} : call[q].loop # call[p].loop
    BY <2>1 DEF LoopInv, MakingOk
  <2>3. AllFresh(loop'[call[p].loop])
    BY <1>2, <2>2
  <2> QED
    BY <1>2, <2>1, <2>2, <2>3 DEF Becomes
<1>6. LoopsHeld'
  <2>1. \A j \in DOMAIN loop : loop'[j].st = loop[j].st
    BY <1>2
  <2> QED
    BY <1>2, <2>1 DEF LoopInv, LoopsHeld, Becomes
<1>7. ASSUME NEW b \in BusIds
      PROVE  Heard'[b] = IF buses[b] = k THEN Mix(m) ELSE Heard[b]
  <2>1. buses'[b] = buses[b] /\ k # 0 /\ (buses[b] # 0 => buses[b] \in DOMAIN loop)
    BY <1>1 DEF Becomes, LoopInv, BusesOk
  <2>2. /\ Heard[b] = IF buses[b] = 0 THEN None ELSE Mix(loop[buses[b]])
        /\ Heard'[b] = IF buses[b] = 0 THEN None ELSE Mix(loop'[buses[b]])
    BY <2>1, HeardIs, HeardIsThen
  <2> QED
    BY <1>2, <2>1, <2>2
<1> QED
  BY <1>3, <1>4, <1>5, <1>6, <1>7 DEF LoopInv

\* What the console hears when loop k becomes m.
LEMMA OneHeard ==
  ASSUME LoopInv, NEW k \in DOMAIN loop, NEW m, LoopOk(m, source),
         \A b \in BusIds : Heard'[b] = IF buses[b] = k THEN Mix(m) ELSE Heard[b]
  PROVE  \/ Heard' = Heard
         \/ \E b \in BusIds : /\ buses[b] = k /\ Console!OnlyBus(b)
                              /\ Heard[b] = Mix(loop[k]) /\ Heard'[b] = Mix(m)
                              /\ Heard[b] # None /\ Heard'[b] # None
<1>1. CASE \A b \in BusIds : buses[b] # k
  BY <1>1, HeardSameAll
<1>2. CASE \E b \in BusIds : buses[b] = k
  <2>1. PICK b \in BusIds : buses[b] = k
    BY <1>2
  <2>2. k # 0 /\ LoopOk(loop[k], source) /\ \A c \in BusIds \ {b} : buses[c] # k
    BY <2>1 DEF LoopInv, LoopsOk, BusesOk
  <2>3. Console!OnlyBus(b)
    BY <2>2 DEF Console!OnlyBus
  <2>4. Heard[b] = Mix(loop[k]) /\ Heard'[b] = Mix(m)
    BY <2>1, <2>2, HeardIs
  <2>5. Mix(loop[k]) # None /\ Mix(m) # None
    BY <2>2, MixIs
  <2> QED
    BY <2>1, <2>3, <2>4, <2>5
<1> QED
  BY <1>1, <1>2


\* Loop m is loop k without input s, with input s anew, or with its knob turned.
Without(k, m, s) ==
  HeardOn(m, s) = None /\ \A t \in Srcs \ {s} : HeardOn(m, t) = HeardOn(loop[k], t)

Renewed(k, m, s) ==
  HeardOn(m, s) \in Unmuted /\ \A t \in Srcs \ {s} : HeardOn(m, t) = HeardOn(loop[k], t)

Turned(k, m, s) ==
  /\ \A t \in Srcs \ {s} : HeardOn(m, t) = HeardOn(loop[k], t)
  /\ \/ HeardOn(m, s) = HeardOn(loop[k], s)
     \/ /\ HeardOn(loop[k], s) # None /\ HeardOn(m, s) \in Setting
        /\ \/ HeardOn(m, s).volume = HeardOn(loop[k], s).volume
           \/ HeardOn(m, s).muted = HeardOn(loop[k], s).muted

\* The loops after the step, and that the console takes it for one of its own.
Allowed == LoopInv' /\ ConsoleStep

\* What the console makes of loop k becoming m.
LEMMA LoopAllowed ==
  ASSUME LoopInv, NEW k \in DOMAIN loop, NEW m, Becomes(k, m), LoopOk(m, source),
         m.st = loop[k].st,
         (AllFresh(loop[k]) => AllFresh(m)) \/ \E b \in BusIds : buses[b] = k,
         NEW s \in Srcs, Without(k, m, s) \/ Renewed(k, m, s) \/ Turned(k, m, s)
  PROVE  Allowed
<1>1. /\ LoopInv'
      /\ \A b \in BusIds : Heard'[b] = IF buses[b] = k THEN Mix(m) ELSE Heard[b]
  BY OneLoop
<1>2. \/ Heard' = Heard
      \/ \E b \in BusIds : /\ buses[b] = k /\ Console!OnlyBus(b)
                           /\ Heard[b] = Mix(loop[k]) /\ Heard'[b] = Mix(m)
                           /\ Heard[b] # None /\ Heard'[b] # None
  BY <1>1, OneHeard
<1>3. LoopOk(loop[k], source)
  BY DEF LoopInv, LoopsOk
<1>4. /\ \A t \in Srcs : Mix(m)[t] = HeardOn(m, t) /\ Mix(loop[k])[t] = HeardOn(loop[k], t)
      /\ Mix(m) = [t \in Srcs |-> Mix(m)[t]] /\ Mix(loop[k]) = [t \in Srcs |-> Mix(loop[k])[t]]
  BY DEF Mix
<1>5. CASE Heard' = Heard
  BY <1>1, <1>5 DEF Allowed, ConsoleStep
<1>6. ASSUME NEW b \in BusIds, Console!OnlyBus(b), Heard[b] = Mix(loop[k]), Heard'[b] = Mix(m),
             Heard[b] # None, Heard'[b] # None
      PROVE  ConsoleStep
  <2>1. CASE Without(k, m, s)
    <3>1. Mix(m) = [Mix(loop[k]) EXCEPT ![s] = None]
      BY <1>4, <2>1 DEF Without
    <3>2. \A c \in BusIds : Heard'[c] = IF c \in {b} THEN [Heard[c] EXCEPT ![s] = None] ELSE Heard[c]
      BY <1>6, <3>1 DEF Console!OnlyBus
    <3>3. Heard' = [c \in BusIds |-> IF c \in {b} THEN [Heard[c] EXCEPT ![s] = None] ELSE Heard[c]]
      <4> DEFINE H == Heard
                 K == Heard'
      <4>1. K = [c \in BusIds |-> K[c]]
        BY HeardIsThen
      <4>2. \A c \in BusIds : K[c] = IF c \in {b} THEN [H[c] EXCEPT ![s] = None] ELSE H[c]
        BY <3>2
      <4> HIDE DEF H, K
      <4>3. K = [c \in BusIds |-> IF c \in {b} THEN [H[c] EXCEPT ![s] = None] ELSE H[c]]
        BY <4>1, <4>2
      <4> QED
        BY <4>3 DEF H, K
    <3>4. {b} \in SUBSET {c \in BusIds : Heard[c] # None} /\ Console!Take({b}, s)
      BY <1>6, <3>3 DEF Console!Take
    <3> QED
      BY <3>4 DEF ConsoleStep, Console!Next
  <2>2. \A t \in Srcs \ {s} : HeardOn(m, t) = HeardOn(loop[k], t)
    BY DEF Without, Renewed, Turned
  <2>3. Console!OnlyInput(b, s)
    BY <1>4, <1>6, <2>2 DEF Console!OnlyInput
  <2>4. CASE Renewed(k, m, s)
    <3>1. Console!Put(b, s)
      BY <1>4, <1>6, <2>3, <2>4 DEF Console!Put, Console!Fresh, Renewed, Unmuted
    <3> QED
      BY <3>1 DEF ConsoleStep, Console!Next
  <2>5. CASE Turned(k, m, s)
    <3>1. CASE HeardOn(m, s) = HeardOn(loop[k], s)
      <4>1. Mix(m) = Mix(loop[k])
        BY <2>2, <3>1 DEF Mix
      <4>2. \A c \in BusIds : Heard'[c] = Heard[c]
        BY <1>6, <4>1 DEF Console!OnlyBus
      <4> QED
        BY <4>2, HeardSameAll DEF ConsoleStep
    <3>2. CASE HeardOn(m, s) # HeardOn(loop[k], s)
      <4>1. Console!Turn(b, s)
        BY <1>4, <1>6, <2>3, <2>5, <3>2 DEF Console!Turn, Console!Setting, Turned, Setting
      <4> QED
        BY <4>1 DEF ConsoleStep, Console!Next
    <3> QED
      BY <3>1, <3>2
  <2> QED
    BY <2>1, <2>4, <2>5
<1> QED
  BY <1>1, <1>2, <1>5, <1>6 DEF Allowed

\* Bus b gets loop n, or none, and the loop it had is stopped; the call that made
\* n lets go of it.
Lists(b, n) ==
  /\ buses' = [buses EXCEPT ![b] = n] /\ loop' = Stop(buses[b]) /\ UNCHANGED source
  /\ n # 0 => \E p \in Tasks : call[p].loop = n
  /\ \A q \in Procs : call'[q].loop = IF call[q].loop = n THEN 0 ELSE call[q].loop

\* A bus is opened, replaced or closed.
LEMMA ListAllowed ==
  ASSUME LoopInv, NEW b \in BusIds, NEW n \in Nat, Lists(b, n)
  PROVE  Allowed
<1> DEFINE k == buses[b]
           dead == [NewLoop EXCEPT !.st = "stopped"]
<1>1. loop \in Seq(Loop) /\ DOMAIN loop = 1..Len(loop) /\ Len(loop) \in Nat
  BY DEF LoopInv, LoopsOk
<1>2. k \in Nat /\ (k # 0 => k \in DOMAIN loop) /\ (\A c \in BusIds \ {b} : buses[c] = k => k = 0)
  BY DEF LoopInv, BusesOk
<1>3. LoopOk(dead, source) /\ dead.st = "stopped" /\ dead \in Loop
  BY NewLoopOk DEF LoopOk
<1>4. \A p \in Tasks : p \in Procs
  BY DEF Tasks, Procs
<1>5. n # 0 => /\ n \in DOMAIN loop /\ AllFresh(loop[n]) /\ n # k
               /\ \A c \in BusIds : buses[c] # n
  BY DEF Lists, LoopInv, MakingOk
<1>6. /\ buses' \in [BusIds -> Nat] /\ buses'[b] = n
      /\ \A c \in BusIds \ {b} : buses'[c] = buses[c]
  BY DEF Lists, LoopInv, BusesOk
<1> HIDE DEF dead
<1>7. /\ loop' \in Seq(Loop) /\ DOMAIN loop' = DOMAIN loop /\ (k # 0 => loop'[k] = dead)
      /\ \A j \in DOMAIN loop : j # k => loop'[j] = loop[j]
  <2>1. CASE k = 0
    BY <1>1, <2>1 DEF Lists, Stop
  <2>2. CASE k # 0
    <3>1. loop' = [loop EXCEPT ![k] = dead]
      BY <2>2 DEF Lists, Stop, dead
    <3> QED
      BY <1>1, <1>2, <1>3, <2>2, <3>1
  <2> QED
    BY <2>1, <2>2
<1> HIDE DEF k
<1>8. LoopsOk'
  <2>1. \A j \in DOMAIN loop : LoopOk(loop'[j], source)
    BY <1>3, <1>7 DEF LoopInv, LoopsOk
  <2> QED
    BY <1>7, <2>1 DEF LoopsOk, Lists
<1>9. BusesOk'
  <2>1. \A c \in BusIds : buses'[c] # 0 => buses'[c] \in DOMAIN loop
    BY <1>5, <1>6 DEF LoopInv, BusesOk
  <2>2. \A c, d \in BusIds : buses'[c] = buses'[d] /\ buses'[c] # 0 => c = d
    BY <1>5, <1>6 DEF LoopInv, BusesOk
  <2> QED
    BY <1>6, <1>7, <2>1, <2>2 DEF BusesOk
<1>10. MakingOk'
  <2> SUFFICES ASSUME NEW p \in Tasks, call'[p].loop # 0
               PROVE  (/\ call[p].loop \in DOMAIN loop /\ AllFresh(loop[call[p].loop])
                       /\ \A c \in BusIds : buses[c] # call[p].loop
                       /\ \A q \in Tasks \ {p} : call[q].loop # call[p].loop)'
    BY DEF MakingOk
  <2>1. call'[p].loop = call[p].loop /\ call[p].loop # n /\ call[p].loop # 0
    BY <1>4 DEF Lists
  <2>2. /\ call[p].loop \in DOMAIN loop /\ AllFresh(loop[call[p].loop])
        /\ \A c \in BusIds : buses[c] # call[p].loop
        /\ \A q \in Tasks \ {p} : call[q].loop # call[p].loop
    BY <2>1 DEF LoopInv, MakingOk
  <2>3. call[p].loop # k
    BY <2>2 DEF k
  <2>4. \A q \in Tasks \ {p} : call'[q].loop # call[p].loop
    BY <1>4, <2>1, <2>2 DEF Lists
  <2>5. \A c \in BusIds : buses'[c] # call[p].loop
    BY <1>6, <2>1, <2>2
  <2>6. loop'[call[p].loop] = loop[call[p].loop]
    BY <1>7, <2>2, <2>3
  <2> QED
    BY <1>7, <2>1, <2>2, <2>4, <2>5, <2>6
<1>11. LoopsHeld'
  <2> SUFFICES ASSUME NEW j \in DOMAIN loop, loop'[j].st = "run"
               PROVE  (\E c \in BusIds : buses'[c] = j) \/ \E q \in Procs : call'[q].loop = j
    BY <1>7 DEF LoopsHeld
  <2>1. j # k /\ loop[j].st = "run" /\ j # 0
    BY <1>1, <1>3, <1>7
  <2>2. (\E c \in BusIds : buses[c] = j) \/ \E q \in Procs : call[q].loop = j
    BY <2>1 DEF LoopInv, LoopsHeld
  <2>3. CASE \E c \in BusIds : buses[c] = j
    BY <1>6, <2>1, <2>3 DEF k
  <2>4. CASE \E q \in Procs : call[q].loop = j
    BY <1>6, <2>1, <2>4 DEF Lists
  <2> QED
    BY <2>2, <2>3, <2>4
<1>12. Console!OnlyBus(b)
  <2> SUFFICES ASSUME NEW c \in BusIds \ {b} PROVE Heard'[c] = Heard[c]
    BY DEF Console!OnlyBus
  <2>1. buses'[c] = buses[c] /\ (buses[c] # 0 => buses[c] \in DOMAIN loop /\ buses[c] # k)
    BY <1>2, <1>6 DEF LoopInv, BusesOk
  <2>2. /\ Heard[c] = IF buses[c] = 0 THEN None ELSE Mix(loop[buses[c]])
        /\ Heard'[c] = IF buses[c] = 0 THEN None ELSE Mix(loop'[buses[c]])
    BY <2>1, HeardIs, HeardIsThen
  <2> QED
    BY <1>7, <2>1, <2>2
<1>13. CASE n = 0
  <2>1. Console!Close(b)
    BY <1>6, <1>12, <1>13, HeardIsThen DEF Console!Close
  <2> QED
    BY <1>8, <1>9, <1>10, <1>11, <2>1 DEF Allowed, LoopInv, ConsoleStep, Console!Next
<1>14. CASE n # 0
  <2>1. Heard'[b] = Mix(loop[n]) /\ LoopOk(loop[n], source)
    <3>1. loop'[n] = loop[n] /\ LoopOk(loop[n], source)
      BY <1>5, <1>7, <1>14 DEF LoopInv, LoopsOk
    <3> QED
      BY <1>6, <1>14, <3>1, HeardIsThen
  <2>2. Mix(loop[n]) # None /\ \A s \in Srcs : Mix(loop[n])[s] = HeardOn(loop[n], s)
    BY <2>1, MixIs
  <2>3. ASSUME NEW s \in Srcs PROVE HeardOn(loop[n], s) \in Unmuted \cup {None}
    <3>1. CASE KnobOf(loop[n], s) = 0
      BY <3>1 DEF HeardOn
    <3>2. CASE KnobOf(loop[n], s) # 0
      <4>1. /\ KnobOf(loop[n], s) \in 1..Len(loop[n].knobs)
            /\ HeardOn(loop[n], s) = loop[n].knobs[KnobOf(loop[n], s)]
        BY <2>1, <3>2, KnobIn
      <4> QED
        BY <1>5, <1>14, <4>1 DEF AllFresh
    <3> QED
      BY <3>1, <3>2
  <2>4. Console!Open(b)
    BY <1>12, <2>1, <2>2, <2>3 DEF Console!Open, Console!Fresh, Unmuted
  <2> QED
    BY <1>8, <1>9, <1>10, <1>11, <2>4 DEF Allowed, LoopInv, ConsoleStep, Console!Next
<1> QED
  BY <1>13, <1>14

\* A loop more, which task p holds if it runs on.
Adds(p, m) ==
  /\ loop' = Append(loop, m) /\ UNCHANGED <<source, buses>>
  /\ call[p].loop = 0 /\ call'[p].loop = (IF m.st = "run" THEN Len(loop) + 1 ELSE 0)
  /\ \A q \in Procs \ {p} : call'[q].loop = call[q].loop

\* A loop is made: nothing is heard of it yet.
LEMMA AddAllowed ==
  ASSUME LoopInv, NEW p \in Tasks, NEW m, LoopOk(m, source), AllFresh(m), Adds(p, m)
  PROVE  Allowed
<1> DEFINE n == Len(loop) + 1
<1>1. loop \in Seq(Loop) /\ DOMAIN loop = 1..Len(loop) /\ Len(loop) \in Nat /\ m \in Loop
  BY DEF LoopInv, LoopsOk, LoopOk
<1>2. /\ loop' \in Seq(Loop) /\ DOMAIN loop' = 1..n /\ loop'[n] = m
      /\ \A j \in DOMAIN loop : loop'[j] = loop[j]
  BY <1>1 DEF Adds
<1>3. n \notin DOMAIN loop /\ n # 0 /\ \A j \in 1..n : j \in DOMAIN loop \/ j = n
  BY <1>1
<1>4. DOMAIN loop \subseteq 1..n /\ n \in 1..n
  BY <1>1
<1>5. p \in Procs /\ \A q \in Tasks : q \in Procs
  BY DEF Tasks, Procs
<1>6. call'[p].loop = (IF m.st = "run" THEN n ELSE 0)
  BY DEF Adds
<1> HIDE DEF n
<1>7. LoopsOk'
  <2>1. \A j \in 1..n : LoopOk(loop'[j], source)
    BY <1>2, <1>3 DEF LoopInv, LoopsOk
  <2> QED
    BY <1>2, <2>1 DEF LoopsOk, Adds
<1>8. BusesOk'
  <2>1. \A b \in BusIds : buses[b] # 0 => buses[b] \in 1..n
    BY <1>4 DEF LoopInv, BusesOk
  <2> QED
    BY <1>2, <2>1 DEF LoopInv, BusesOk, Adds
<1>9. MakingOk'
  <2> SUFFICES ASSUME NEW q \in Tasks, call'[q].loop # 0
               PROVE  (/\ call[q].loop \in DOMAIN loop /\ AllFresh(loop[call[q].loop])
                       /\ \A b \in BusIds : buses[b] # call[q].loop
                       /\ \A r \in Tasks \ {q} : call[r].loop # call[q].loop)'
    BY DEF MakingOk
  <2>1. \A r \in Tasks : r # p => call'[r].loop = call[r].loop
    BY <1>5 DEF Adds
  <2>2. \A r \in Tasks : call[r].loop # 0 => call[r].loop \in DOMAIN loop
    BY DEF LoopInv, MakingOk
  <2>3. \A b \in BusIds : buses[b] # n /\ buses'[b] = buses[b]
    BY <1>3 DEF LoopInv, BusesOk, Adds
  <2>4. CASE q = p
    <3>1. call'[q].loop = n
      BY <1>6, <2>4
    <3>2. \A r \in Tasks \ {q} : call'[r].loop # n
      BY <1>3, <2>1, <2>2, <2>4
    <3> QED
      BY <1>2, <1>4, <2>3, <3>1, <3>2
  <2>5. CASE q # p
    <3>1. call'[q].loop = call[q].loop /\ call[q].loop # 0
      BY <2>1, <2>5
    <3>2. /\ call[q].loop \in DOMAIN loop /\ AllFresh(loop[call[q].loop])
          /\ \A b \in BusIds : buses[b] # call[q].loop
          /\ \A r \in Tasks \ {q} : call[r].loop # call[q].loop
      BY <3>1 DEF LoopInv, MakingOk
    <3>3. \A r \in Tasks \ {q} : call'[r].loop # call[q].loop
      BY <1>3, <1>6, <2>1, <3>1, <3>2
    <3>4. call[q].loop \in 1..n /\ loop'[call[q].loop] = loop[call[q].loop]
      BY <1>2, <1>4, <3>2
    <3> QED
      BY <1>2, <2>3, <3>1, <3>2, <3>3, <3>4
  <2> QED
    BY <2>4, <2>5
<1>10. LoopsHeld'
  <2> SUFFICES ASSUME NEW j \in 1..n, loop'[j].st = "run"
               PROVE  (\E b \in BusIds : buses'[b] = j) \/ \E q \in Procs : call'[q].loop = j
    BY <1>2 DEF LoopsHeld
  <2>1. CASE j = n
    BY <1>2, <1>5, <1>6, <2>1
  <2>2. CASE j \in DOMAIN loop
    <3>1. j # 0 /\ ((\E b \in BusIds : buses[b] = j) \/ \E q \in Procs : call[q].loop = j)
      BY <1>1, <1>2, <2>2 DEF LoopInv, LoopsHeld
    <3> QED
      BY <3>1 DEF Adds
  <2> QED
    BY <1>3, <2>1, <2>2
<1>11. \A b \in BusIds : Heard'[b] = Heard[b]
  <2> SUFFICES ASSUME NEW b \in BusIds PROVE Heard'[b] = Heard[b]
    OBVIOUS
  <2>1. buses'[b] = buses[b] /\ (buses[b] # 0 => buses[b] \in DOMAIN loop)
    BY DEF LoopInv, BusesOk, Adds
  <2>2. /\ Heard[b] = IF buses[b] = 0 THEN None ELSE Mix(loop[buses[b]])
        /\ Heard'[b] = IF buses[b] = 0 THEN None ELSE Mix(loop'[buses[b]])
    BY <2>1, HeardIs, HeardIsThen
  <2> QED
    BY <1>2, <2>1, <2>2
<1> QED
  BY <1>7, <1>8, <1>9, <1>10, <1>11, HeardSameAll DEF Allowed, LoopInv, ConsoleStep

\* remove_source takes source s off every bus.
Detaches(s) ==
  /\ loop' = [k \in DOMAIN loop |-> IF \E b \in BusIds : buses[b] = k
                                    THEN Unplug(loop[k], s) ELSE loop[k]]
  /\ UNCHANGED <<source, buses>> /\ \A q \in Procs : call'[q].loop = call[q].loop

\* The console hears it as one step.
LEMMA DetachAllowed ==
  ASSUME LoopInv, NEW s \in Srcs, Detaches(s)
  PROVE  Allowed
<1>1. loop \in Seq(Loop) /\ DOMAIN loop = 1..Len(loop) /\ Len(loop) \in Nat
  BY DEF LoopInv, LoopsOk
<1> DEFINE On(k) == \E b \in BusIds : buses[b] = k
<1>2. /\ DOMAIN loop' = DOMAIN loop
      /\ \A k \in DOMAIN loop : loop'[k] = IF On(k) THEN Unplug(loop[k], s) ELSE loop[k]
  BY DEF Detaches
<1>3. \A k \in DOMAIN loop : LoopOk(loop'[k], source) /\ loop'[k].st = loop[k].st
  <2> SUFFICES ASSUME NEW k \in DOMAIN loop
               PROVE  LoopOk(loop'[k], source) /\ loop'[k].st = loop[k].st
    OBVIOUS
  <2>1. LoopOk(loop[k], source)
    BY DEF LoopInv, LoopsOk
  <2>2. LoopOk(Unplug(loop[k], s), source) /\ Unplug(loop[k], s).st = loop[k].st
    BY <2>1, UnplugOk
  <2> QED
    BY <1>2, <2>1, <2>2
<1>4. loop' \in Seq(Loop)
  <2>1. \A k \in 1..Len(loop) : loop'[k] \in Loop
    BY <1>1, <1>3 DEF LoopOk
  <2>2. loop' = [k \in 1..Len(loop) |-> loop'[k]]
    BY <1>1 DEF Detaches
  <2> DEFINE L == loop'
  <2> HIDE DEF L
  <2>3. L = [k \in 1..Len(loop) |-> L[k]] /\ \A k \in 1..Len(loop) : L[k] \in Loop
    BY <2>1, <2>2 DEF L
  <2>4. L \in Seq(Loop)
    BY <1>1, <2>3
  <2> QED
    BY <2>4 DEF L
<1>5. LoopsOk'
  BY <1>2, <1>3, <1>4 DEF LoopsOk, Detaches
<1>6. BusesOk'
  BY <1>2 DEF LoopInv, BusesOk, Detaches
<1>7. MakingOk'
  <2> SUFFICES ASSUME NEW p \in Tasks, call'[p].loop # 0
               PROVE  (/\ call[p].loop \in DOMAIN loop /\ AllFresh(loop[call[p].loop])
                       /\ \A b \in BusIds : buses[b] # call[p].loop
                       /\ \A q \in Tasks \ {p} : call[q].loop # call[p].loop)'
    BY DEF MakingOk
  <2>1. \A q \in Tasks : call'[q].loop = call[q].loop
    BY DEF Detaches, Tasks, Procs
  <2>2. /\ call[p].loop \in DOMAIN loop /\ AllFresh(loop[call[p].loop])
        /\ \A b \in BusIds : buses[b] # call[p].loop
        /\ \A q \in Tasks \ {p} : call[q].loop # call[p].loop
    BY <2>1 DEF LoopInv, MakingOk
  <2>3. loop'[call[p].loop] = loop[call[p].loop]
    BY <1>2, <2>2
  <2> QED
    BY <1>2, <2>1, <2>2, <2>3 DEF Detaches
<1>8. LoopsHeld'
  BY <1>2, <1>3 DEF LoopInv, LoopsHeld, Detaches
<1>9. ASSUME NEW b \in BusIds
      PROVE  Heard'[b] = IF Heard[b] # None THEN [Heard[b] EXCEPT ![s] = None] ELSE Heard[b]
  <2>1. /\ Heard[b] = IF buses[b] = 0 THEN None ELSE Mix(loop[buses[b]])
        /\ Heard'[b] = IF buses[b] = 0 THEN None ELSE Mix(loop'[buses[b]])
    BY HeardIs, HeardIsThen DEF Detaches
  <2>2. CASE buses[b] = 0
    BY <2>1, <2>2
  <2>3. CASE buses[b] # 0
    <3> DEFINE l == loop[buses[b]]
    <3>1. buses[b] \in DOMAIN loop /\ LoopOk(l, source) /\ loop'[buses[b]] = Unplug(l, s)
      BY <1>2, <2>3 DEF LoopInv, BusesOk, LoopsOk
    <3> HIDE DEF l
    <3>2. /\ HeardOn(Unplug(l, s), s) = None
          /\ \A t \in Srcs \ {s} : HeardOn(Unplug(l, s), t) = HeardOn(l, t)
      BY <3>1, UnplugOk
    <3>3. Mix(Unplug(l, s)) = [Mix(l) EXCEPT ![s] = None]
      BY <3>2 DEF Mix
    <3>4. Mix(l) # None
      BY <3>1, MixIs
    <3> QED
      BY <2>1, <2>3, <3>1, <3>3, <3>4 DEF l
  <2> QED
    BY <2>2, <2>3
<1>10. ConsoleStep
  <2> DEFINE H == Heard
             K == Heard'
             B == {b \in BusIds : Heard[b] # None}
  <2>1. K = [b \in BusIds |-> K[b]]
    BY HeardIsThen
  <2>2. \A b \in BusIds : K[b] = IF b \in B THEN [H[b] EXCEPT ![s] = None] ELSE H[b]
    BY <1>9
  <2> HIDE DEF H, K, B
  <2>3. K = [b \in BusIds |-> IF b \in B THEN [H[b] EXCEPT ![s] = None] ELSE H[b]]
    BY <2>1, <2>2
  <2>4. Console!Take(B, s)
    BY <2>3 DEF Console!Take, H, K
  <2>5. B \in SUBSET {b \in BusIds : Heard[b] # None}
    BY DEF B
  <2> QED
    BY <2>4, <2>5 DEF ConsoleStep, Console!Next
<1> QED
  BY <1>5, <1>6, <1>7, <1>8, <1>10 DEF Allowed, LoopInv

\* Loop k changes and sounds the same, or nobody hears it.
LEMMA SilentAllowed ==
  ASSUME LoopInv, NEW k \in DOMAIN loop, NEW m, Becomes(k, m), LoopOk(m, source),
         m.st = loop[k].st, AllFresh(loop[k]) => AllFresh(m),
         (\A s \in Srcs : HeardOn(m, s) = HeardOn(loop[k], s)) \/ \A b \in BusIds : buses[b] # k
  PROVE  Allowed
<1>1. /\ LoopInv'
      /\ \A b \in BusIds : Heard'[b] = IF buses[b] = k THEN Mix(m) ELSE Heard[b]
  BY OneLoop
<1>2. \A b \in BusIds : Heard'[b] = Heard[b]
  <2> SUFFICES ASSUME NEW b \in BusIds, buses[b] = k PROVE Heard'[b] = Heard[b]
    BY <1>1
  <2>1. Mix(m) = Mix(loop[k])
    BY DEF Mix
  <2>2. k # 0
    BY DEF LoopInv, LoopsOk
  <2> QED
    BY <1>1, <2>1, <2>2, HeardIs
<1> QED
  BY <1>1, <1>2, HeardSameAll DEF Allowed, ConsoleStep

-----------------------------------------------------------------------------
(* The steps. *)

\* What every step has to show.
Kept == CallsOk' /\ PoolOk' /\ SourcesHeld' /\ Allowed

\* Task p becomes c and no source is touched.
Quietly(p, c) == Moves(p, c) /\ UNCHANGED <<source, pool>> /\ c.src = call[p].src

\* Such a step keeps calls and sources.
LEMMA QuietMove ==
  ASSUME MixInv, NEW p \in Tasks, NEW c, Quietly(p, c), TaskOk(c, source)
  PROVE  /\ CallsOk' /\ PoolOk' /\ SourcesHeld' /\ Later(source, source')
         /\ call'[p] = c /\ \A q \in Procs \ {p} : call'[q] = call[q]
<1>1. Moves(p, c) /\ source' = source /\ CallsOk
  BY DEF Quietly, MixInv
<1>2. Later(source, source') /\ TaskOk(c, source')
  BY <1>1 DEF Later
<1>3. /\ CallsOk' /\ call'[p] = c /\ \A q \in Procs \ {p} : call'[q] = call[q]
  BY <1>1, <1>2, MoveOk
<1>4. \A q \in Procs : call'[q].src = call[q].src
  BY <1>3 DEF Quietly
<1>5. PoolOk' /\ SourcesHeld'
  BY <1>4, HeldSources DEF MixInv, Quietly
<1> QED
  BY <1>2, <1>3, <1>5

\* And one that touches no loop either keeps everything.
LEMMA QuietStep ==
  ASSUME MixInv, NEW p \in Tasks, NEW c, Quietly(p, c), TaskOk(c, source),
         c.loop = call[p].loop, UNCHANGED <<loop, buses>>
  PROVE  Kept
<1>1. /\ CallsOk' /\ PoolOk' /\ SourcesHeld' /\ Later(source, source')
      /\ call'[p] = c /\ \A q \in Procs \ {p} : call'[q] = call[q]
  BY QuietMove
<1>2. \A q \in Procs : call'[q].loop = call[q].loop
  BY <1>1
<1>3. LoopInv
  BY DEF MixInv
<1>4. Allowed
  BY <1>1, <1>2, <1>3, QuietLoops DEF Allowed
<1> QED
  BY <1>1, <1>4 DEF Kept

\* An error changes nothing else.
LEMMA FailStep ==
  ASSUME MixInv, NEW p \in Tasks, JobOk(Job(p)), Fail(p), call[p].src = 0, call[p].loop = 0,
         UNCHANGED <<source, pool, loop, buses>>
  PROVE  Kept
<1>1. PICK c : Moves(p, c) /\ TaskOk(c, source) /\ c.src = 0 /\ c.loop = 0
  BY FailIs DEF MixInv
<1>2. Quietly(p, c)
  BY <1>1 DEF Quietly
<1> QED
  BY <1>1, <1>2, QuietStep

\* What is known of a task that is at work.
LEMMA AtWork ==
  ASSUME MixInv, NEW p \in Tasks, call[p].pc \notin Resting
  PROVE  /\ TaskOk(call[p], source) /\ Shaped(call[p]) /\ JobOk(Job(p)) /\ JobFits(call[p])
         /\ Job(p) = call[p].job /\ p \in Procs /\ call = [q \in Procs |-> call[q]]
         /\ call[p].pc # "insert" => call[p].src = 0
         /\ call[p].pc \notin {"fill", "list"} => call[p].loop = 0
BY DEF MixInv, CallsOk, TaskOk, Job, Tasks, Procs

\* A task goes on to another place.
Heads(p, x) == call' = [call EXCEPT ![p].pc = x]

\* Its fields then.
LEMMA GoesTo ==
  ASSUME MixInv, NEW p \in Tasks, NEW x, Heads(p, x)
  PROVE  \E c : /\ Moves(p, c) /\ c = [call[p] EXCEPT !.pc = x] /\ Shaped(c)
                /\ c.pc = x /\ c.job = call[p].job /\ c.at = call[p].at /\ c.src = call[p].src
                /\ c.loop = call[p].loop /\ c.snap = call[p].snap /\ c.mutes = call[p].mutes
<1>1. p \in Procs /\ call = [q \in Procs |-> call[q]] /\ Shaped(call[p])
  BY DEF MixInv, CallsOk, TaskOk, Tasks, Procs
<1> DEFINE c == [call[p] EXCEPT !.pc = x]
<1>2. /\ Shaped(c)
      /\ c.pc = x /\ c.job = call[p].job /\ c.at = call[p].at /\ c.src = call[p].src
      /\ c.loop = call[p].loop /\ c.snap = call[p].snap /\ c.mutes = call[p].mutes
  BY <1>1 DEF Shaped
<1>3. Moves(p, c)
  BY DEF Moves, Heads
<1> QED
  BY <1>2, <1>3

\* Inputs, also as inputs that may have no volume.
LEMMA InputsAre ==
  ASSUME NEW is \in Seq(Input)
  PROVE  is \in Seq([src : Srcs, volume : Volumes \cup {0}])
<1> DEFINE W == [src : Srcs, volume : Volumes \cup {0}]
<1>1. Len(is) \in Nat /\ is = [k \in 1..Len(is) |-> is[k]] /\ \A k \in 1..Len(is) : is[k] \in Input
  OBVIOUS
<1>2. \A i \in Input : i \in W
  BY DEF Input
<1> HIDE DEF W
<1>3. is \in Seq(W)
  BY <1>1, <1>2
<1> QED
  BY <1>3 DEF W

\* A call begins.
LEMMA BeginOk ==
  ASSUME MixInv, NEW p \in Calls, NEW r \in Requests, Begin(p, r)
  PROVE  Kept
<1> USE MixerAssumption
<1> DEFINE x == First[r.op]
           c == [call[p] EXCEPT !.pc = x, !.job = r]
<1>1. p \in Tasks /\ p \in Procs /\ call[p].pc = "idle"
  BY DEF Begin, At, Tasks, Procs
<1>2. /\ call = [q \in Procs |-> call[q]] /\ Shaped(call[p]) /\ TaskOk(call[p], source)
      /\ call[p].at = 1 /\ call[p].src = 0 /\ call[p].loop = 0 /\ call[p].mutes \subseteq Srcs
  BY <1>1 DEF MixInv, CallsOk, TaskOk, Resting
<1>3. r.op \in {"create", "remove", "add", "take", "volume", "mute"} /\ JobOk(r)
  <2>1. /\ r = [op |-> r.op, bus |-> r.bus, inputs |-> r.inputs, muted |-> r.muted]
        /\ r.op \in {"create", "remove", "add", "take", "volume", "mute"}
        /\ r.bus \in BusIds /\ r.muted \in BOOLEAN /\ r.inputs \in Seq(Input)
    OBVIOUS
  <2>2. r.inputs \in Seq([src : Srcs, volume : Volumes \cup {0}])
    BY <2>1, InputsAre
  <2> QED
    BY <2>1, <2>2 DEF JobOk
<1>4. /\ x \in {"ensure", "remove", "take", "volume", "mute"}
      /\ x = "ensure" => r.op \in {"create", "add"}
      /\ x \in {"take", "volume", "mute"} => r.op = x
  BY <1>3 DEF First
<1>5. Moves(p, c)
  BY <1>1, <1>2 DEF Begin, Moves
<1> HIDE DEF x
<1>6. /\ Shaped(c) /\ c.pc = x /\ c.job = r /\ c.at = 1 /\ c.src = 0 /\ c.loop = 0
      /\ c.mutes = call[p].mutes
  <2> DEFINE o == call[p]
  <2>1. c = [o EXCEPT !.pc = x, !.job = r] /\ Shaped(o) /\ o.at = 1 /\ o.src = 0 /\ o.loop = 0
    BY <1>2
  <2> HIDE DEF o, c
  <2>2. /\ c.pc = x /\ c.job = r /\ c.at = 1 /\ c.src = 0 /\ c.loop = 0 /\ c.mutes = o.mutes
        /\ Shaped(c)
    BY <2>1 DEF Shaped
  <2> QED
    BY <2>2 DEF o
<1> HIDE DEF c
<1>7. r.inputs # <<>> => 1 \in 1..Len(r.inputs)
  BY <1>3 DEF JobOk
<1>8. JobFits(c)
  BY <1>4, <1>6, <1>7 DEF JobFits
<1>9. TaskOk(c, source)
  BY <1>2, <1>3, <1>4, <1>6, <1>8 DEF TaskOk, Pcs, Resting
<1>10. Quietly(p, c) /\ UNCHANGED <<loop, buses>>
  BY <1>2, <1>5, <1>6 DEF Quietly, Begin
<1> QED
  BY <1>1, <1>2, <1>6, <1>9, <1>10, QuietStep

\* restore_all begins with the next bus.
LEMMA RestoreOk ==
  ASSUME MixInv, NEW b \in BusIds, RestoreNext(b)
  PROVE  Kept
<1> USE MixerAssumption
<1>1. PICK is \in UNION {[1..n -> Input] : n \in 0..Cardinality(Srcs)} :
        call' = [call EXCEPT ![Boot].pc = "ensure",
                   ![Boot].job = [op |-> "create", bus |-> b, inputs |-> is, muted |-> FALSE],
                   ![Boot].mutes = {s \in Srcs : saved[b][s] # None /\ saved[b][s].muted}]
  BY Zenon DEF RestoreNext
<1> DEFINE j == [op |-> "create", bus |-> b, inputs |-> is, muted |-> FALSE]
           M == {s \in Srcs : saved[b][s] # None /\ saved[b][s].muted}
           c == [call[Boot] EXCEPT !.pc = "ensure", !.job = j, !.mutes = M]
<1>2. Boot \in Tasks /\ Boot \in Procs /\ call[Boot].pc = "next" /\ M \subseteq Srcs
  BY DEF RestoreNext, At, Tasks, Procs
<1>3. /\ call = [q \in Procs |-> call[q]] /\ Shaped(call[Boot]) /\ TaskOk(call[Boot], source)
      /\ call[Boot].at = 1 /\ call[Boot].src = 0 /\ call[Boot].loop = 0
  BY <1>2 DEF MixInv, CallsOk, TaskOk, Resting
<1>4. is \in Seq(Input) /\ (is # <<>> => 1 \in 1..Len(is))
  <2>1. Cardinality(Srcs) \in Nat
    BY FS_CardinalityType
  <2>2. PICK n \in 0..Cardinality(Srcs) : is \in [1..n -> Input]
    OBVIOUS
  <2>3. n \in Nat
    BY <2>1
  <2>4. is \in Seq(Input)
    BY <2>2, <2>3
  <2> QED
    BY <2>4
<1>5. JobOk(j) /\ j.op = "create" /\ j.inputs = is
  <2>1. is \in Seq([src : Srcs, volume : Volumes \cup {0}])
    BY <1>4, InputsAre
  <2> QED
    BY <1>4, <2>1 DEF JobOk
<1> HIDE DEF j, M
<1>6. Moves(Boot, c)
  BY <1>1, <1>2, <1>3 DEF Moves, j, M
<1>7. /\ Shaped(c) /\ c.pc = "ensure" /\ c.job = j /\ c.at = 1 /\ c.src = 0 /\ c.loop = 0
      /\ c.mutes = M
  <2> DEFINE o == call[Boot]
  <2>1. /\ c = [o EXCEPT !.pc = "ensure", !.job = j, !.mutes = M]
        /\ Shaped(o) /\ o.at = 1 /\ o.src = 0 /\ o.loop = 0
    BY <1>3
  <2> HIDE DEF o, c
  <2> QED
    BY <2>1 DEF Shaped
<1> HIDE DEF c
<1>8. JobFits(c)
  BY <1>4, <1>5, <1>7 DEF JobFits
<1>9. TaskOk(c, source)
  BY <1>2, <1>5, <1>7, <1>8 DEF TaskOk, Pcs, Resting
<1>10. Quietly(Boot, c) /\ UNCHANGED <<loop, buses>>
  BY <1>3, <1>6, <1>7 DEF Quietly, RestoreNext
<1> QED
  BY <1>2, <1>3, <1>7, <1>9, <1>10, QuietStep

\* persist_all takes its snapshot and writes it.
LEMMA PersistOk ==
  ASSUME MixInv, NEW p \in Tasks, Snapshot(p) \/ \E ok \in BOOLEAN : Save(p, ok)
  PROVE  Kept
<1>1. CASE Snapshot(p)
  <2> DEFINE S == [b \in BusIds |-> IF buses[b] = 0 THEN None ELSE Settings(loop[buses[b]])]
             c == [call[p] EXCEPT !.pc = "save", !.snap = S]
  <2>1. call[p].pc = "persist" /\ call[p].pc \notin Resting
    BY <1>1 DEF Snapshot, At, Resting
  <2>2. /\ TaskOk(call[p], source) /\ Shaped(call[p]) /\ JobOk(Job(p)) /\ Job(p) = call[p].job
        /\ p \in Procs /\ call = [q \in Procs |-> call[q]] /\ call[p].src = 0 /\ call[p].loop = 0
    BY <2>1, AtWork
  <2>3. Moves(p, c)
    BY <1>1, <2>2 DEF Snapshot, Moves
  <2> HIDE DEF S
  <2>4. /\ Shaped(c) /\ c.pc = "save" /\ c.job = call[p].job /\ c.src = 0 /\ c.loop = 0
        /\ c.mutes = call[p].mutes
    <3> DEFINE o == call[p]
    <3>1. c = [o EXCEPT !.pc = "save", !.snap = S] /\ Shaped(o) /\ o.src = 0 /\ o.loop = 0
      BY <2>2
    <3> HIDE DEF o, c
    <3>2. /\ Shaped(c) /\ c.pc = "save" /\ c.job = o.job /\ c.src = 0 /\ c.loop = 0
          /\ c.mutes = o.mutes
      BY <3>1 DEF Shaped
    <3> QED
      BY <3>2 DEF o
  <2> HIDE DEF c
  <2>5. JobFits(c)
    BY <2>4 DEF JobFits
  <2>6. TaskOk(c, source)
    BY <2>2, <2>4, <2>5 DEF TaskOk, Pcs, Resting
  <2>7. Quietly(p, c) /\ UNCHANGED <<loop, buses>>
    BY <1>1, <2>2, <2>3, <2>4 DEF Quietly, Snapshot
  <2> QED
    BY <2>2, <2>4, <2>6, <2>7, QuietStep
<1>2. ASSUME NEW ok \in BOOLEAN, Save(p, ok) PROVE Kept
  <2>1. call[p].pc = "save" /\ call[p].pc \notin Resting
    BY <1>2 DEF Save, At, Resting
  <2>2. JobOk(Job(p)) /\ call[p].src = 0 /\ call[p].loop = 0
    BY <2>1, AtWork
  <2>3. TaskOk(AfterSave(p), source) /\ AfterSave(p).src = 0 /\ AfterSave(p).loop = 0
    BY <2>2, AfterSaveIs DEF MixInv
  <2>4. Quietly(p, AfterSave(p)) /\ UNCHANGED <<loop, buses>>
    BY <1>2, <2>2, <2>3 DEF Quietly, Save, Moves
  <2> QED
    BY <2>2, <2>3, <2>4, QuietStep
<1> QED
  BY <1>1, <1>2

\* Where a call goes when it has a source.
LEMMA AfterEnsureIs ==
  ASSUME MixInv, NEW p \in Tasks, call[p].pc \in {"ensure", "insert"}, Job(p).inputs # <<>>, NEW S
  PROVE  TaskOk(AfterEnsure(p), S) /\ AfterEnsure(p).src = 0 /\ AfterEnsure(p).loop = 0
<1> DEFINE o == call[p]
           j == Job(p)
           c == AfterEnsure(p)
<1>1. /\ TaskOk(o, source) /\ Shaped(o) /\ JobOk(j) /\ JobFits(o) /\ j = o.job /\ o.loop = 0
      /\ j.inputs # <<>> /\ o.mutes \subseteq Srcs
  <2>1. call[p].pc \notin Resting /\ call[p].pc \notin {"fill", "list"}
    BY DEF Resting
  <2> QED
    BY <2>1, AtWork DEF TaskOk
<1>2. /\ o.at \in 1..Len(j.inputs) /\ j.op \in {"create", "add"} /\ Len(j.inputs) \in Nat
  BY <1>1 DEF JobFits, JobOk
<1>3. CASE o.at < Len(j.inputs)
  <2>1. c = [o EXCEPT !.pc = "ensure", !.at = o.at + 1, !.src = 0]
    BY <1>3 DEF AfterEnsure
  <2> HIDE DEF c, o, j
  <2>2. /\ c.pc = "ensure" /\ c.job = j /\ c.at = o.at + 1 /\ c.src = 0 /\ c.loop = 0
        /\ c.mutes = o.mutes /\ Shaped(c)
    BY <1>1, <2>1 DEF Shaped
  <2>3. o.at + 1 \in 1..Len(j.inputs)
    BY <1>2, <1>3
  <2>4. JobFits(c)
    BY <1>1, <1>2, <2>2, <2>3 DEF JobFits
  <2>5. TaskOk(c, S)
    BY <1>1, <2>2, <2>4 DEF TaskOk, Pcs, Resting
  <2> QED
    BY <2>2, <2>5 DEF c
<1>4. CASE ~(o.at < Len(j.inputs))
  <2> DEFINE x == IF j.op = "create" THEN "start" ELSE "add"
  <2>1. c = [o EXCEPT !.pc = x, !.src = 0]
    BY <1>4 DEF AfterEnsure
  <2>2. (x = "start" /\ j.op = "create") \/ (x = "add" /\ j.op = "add")
    BY <1>2
  <2> HIDE DEF c, o, j, x
  <2>3. /\ c.pc = x /\ c.job = j /\ c.src = 0 /\ c.loop = 0
        /\ c.mutes = o.mutes /\ Shaped(c)
    BY <1>1, <2>1 DEF Shaped
  <2>4. JobFits(c)
    BY <1>1, <2>2, <2>3 DEF JobFits
  <2>5. TaskOk(c, S)
    BY <1>1, <2>2, <2>3, <2>4 DEF TaskOk, Pcs, Resting
  <2> QED
    BY <2>3, <2>5 DEF c
<1> QED
  BY <1>3, <1>4

\* ensure_source looks.
LEMMA EnsureLookOk ==
  ASSUME MixInv, NEW p \in Tasks, EnsureLook(p)
  PROVE  Kept
<1>1. call[p].pc = "ensure" /\ call[p].pc \notin Resting /\ call[p].pc \notin {"fill", "list", "insert"}
  BY DEF EnsureLook, At, Resting
<1>2. /\ TaskOk(call[p], source) /\ Shaped(call[p]) /\ JobOk(Job(p)) /\ JobFits(call[p])
      /\ Job(p) = call[p].job /\ call[p].src = 0 /\ call[p].loop = 0
  BY <1>1, AtWork
<1>3. UNCHANGED <<source, pool, loop, buses>>
  BY DEF EnsureLook
<1>4. CASE Job(p).inputs = <<>> /\ Fail(p)
  BY <1>2, <1>3, <1>4, FailStep
<1>5. CASE Job(p).inputs # <<>> /\ Moves(p, AfterEnsure(p))
  <2>1. TaskOk(AfterEnsure(p), source) /\ AfterEnsure(p).src = 0 /\ AfterEnsure(p).loop = 0
    BY <1>1, <1>5, AfterEnsureIs
  <2>2. Quietly(p, AfterEnsure(p))
    BY <1>2, <1>3, <1>5, <2>1 DEF Quietly
  <2> QED
    BY <1>2, <1>3, <2>1, <2>2, QuietStep
<1>6. CASE Job(p).inputs # <<>> /\ Moves(p, [call[p] EXCEPT !.pc = "open"])
  <2> DEFINE o == call[p]
             c == [o EXCEPT !.pc = "open"]
  <2>0. /\ TaskOk(o, source) /\ Shaped(o) /\ JobOk(o.job) /\ JobFits(o) /\ o.job.inputs # <<>>
        /\ o.src = 0 /\ o.loop = 0 /\ o.pc = "ensure"
    BY <1>1, <1>2, <1>6
  <2>1. Quietly(p, c)
    <3>1. c.src = o.src
      BY <2>0 DEF Shaped
    <3> QED
      BY <1>3, <1>6, <3>1 DEF Quietly
  <2>2. c = [o EXCEPT !.pc = "open"]
    OBVIOUS
  <2> HIDE DEF c, o
  <2>3. /\ c.pc = "open" /\ c.job = o.job /\ c.at = o.at /\ c.src = 0 /\ c.loop = 0
        /\ c.mutes = o.mutes /\ Shaped(c)
    BY <2>0, <2>2 DEF Shaped
  <2>4. JobFits(c)
    BY <2>0, <2>3 DEF JobFits
  <2>5. TaskOk(c, source)
    BY <2>0, <2>3, <2>4 DEF TaskOk, Pcs, Resting
  <2>6. c.loop = call[p].loop
    BY <2>0, <2>3 DEF o
  <2> QED
    BY <1>3, <2>1, <2>5, <2>6, QuietStep
<1> QED
  BY <1>4, <1>5, <1>6 DEF EnsureLook, Moves

\* The source of the input a call is at.
LEMMA CurIs ==
  ASSUME MixInv, NEW p \in Tasks, call[p].pc \in {"open", "insert"}
  PROVE  /\ Job(p).inputs # <<>> /\ Cur(p).src \in Srcs
         /\ Cur(p) = call[p].job.inputs[call[p].at]
<1>1. /\ JobOk(Job(p)) /\ JobFits(call[p]) /\ Job(p) = call[p].job
  BY AtWork DEF Resting
<1>2. /\ Job(p).inputs # <<>> /\ call[p].at \in 1..Len(Job(p).inputs)
      /\ Job(p).inputs \in Seq([src : Srcs, volume : Volumes \cup {0}])
  BY <1>1 DEF JobFits, JobOk
<1>3. Job(p).inputs[call[p].at] \in [src : Srcs, volume : Volumes \cup {0}]
  <2> DEFINE W == [src : Srcs, volume : Volumes \cup {0}]
             is == Job(p).inputs
             at == call[p].at
  <2>1. is \in Seq(W) /\ at \in 1..Len(is)
    BY <1>2
  <2> HIDE DEF W, is, at
  <2>2. is[at] \in W
    BY <2>1
  <2> QED
    BY <2>2 DEF W, is, at
<1> QED
  BY <1>1, <1>2, <1>3 DEF Cur

\* ensure_source opens, without the lock.
LEMMA EnsureOpenOk ==
  ASSUME MixInv, NEW p \in Tasks, NEW ok \in BOOLEAN, EnsureOpen(p, ok)
  PROVE  Kept
<1>1. call[p].pc = "open" /\ call[p].pc \notin Resting /\ call[p].pc \notin {"fill", "list", "insert"}
  BY DEF EnsureOpen, At, Resting
<1>2. /\ TaskOk(call[p], source) /\ Shaped(call[p]) /\ JobOk(Job(p)) /\ JobFits(call[p])
      /\ Job(p) = call[p].job /\ call[p].src = 0 /\ call[p].loop = 0
      /\ p \in Procs /\ call = [q \in Procs |-> call[q]]
  BY <1>1, AtWork
<1>3. UNCHANGED <<pool, loop, buses>>
  BY DEF EnsureOpen
<1>4. CASE Fail(p) /\ UNCHANGED source
  BY <1>2, <1>3, <1>4, FailStep
<1>5. CASE /\ source' = Append(source, [dev |-> Cur(p).src, st |-> "run"])
           /\ call' = [call EXCEPT ![p].pc = "insert", ![p].src = Len(source) + 1]
  <2> DEFINE o == call[p]
             n == Len(source) + 1
             c == [o EXCEPT !.pc = "insert", !.src = n]
             new == [dev |-> Cur(p).src, st |-> "run"]
  <2>0. /\ TaskOk(o, source) /\ Shaped(o) /\ JobOk(o.job) /\ JobFits(o) /\ o.job.inputs # <<>>
        /\ o.src = 0 /\ o.loop = 0 /\ o.pc = "open" /\ Cur(p).src \in Srcs
        /\ Cur(p) = o.job.inputs[o.at]
    BY <1>1, <1>2, CurIs
  <2>1. new \in Source /\ new.dev = Cur(p).src
    BY <2>0 DEF Source
  <2>2. source \in Seq(Source) /\ Len(source) \in Nat /\ DOMAIN source = 1..Len(source)
    BY DEF MixInv, PoolOk
  <2>3. /\ source' \in Seq(Source) /\ DOMAIN source' = 1..n /\ source'[n] = new
        /\ \A k \in DOMAIN source : source'[k] = source[k]
    BY <1>5, <2>1, <2>2
  <2>4. n \notin DOMAIN source /\ n \in 1..n /\ DOMAIN source \subseteq 1..n
        /\ (\A k \in 1..n : k \in DOMAIN source \/ k = n) /\ n # 0
    BY <2>2
  <2>5. Moves(p, c)
    BY <1>2, <1>5 DEF Moves
  <2>6. c = [o EXCEPT !.pc = "insert", !.src = n]
    OBVIOUS
  <2> HIDE DEF c, o, n
  <2>7. /\ c.pc = "insert" /\ c.job = o.job /\ c.at = o.at /\ c.src = n /\ c.loop = 0
        /\ c.mutes = o.mutes /\ Shaped(c)
    BY <2>0, <2>6 DEF Shaped
  <2>8. JobFits(c)
    BY <2>0, <2>7 DEF JobFits
  <2>9. TaskOk(c, source')
    BY <2>0, <2>1, <2>3, <2>4, <2>7, <2>8 DEF TaskOk, Pcs, Resting
  <2>10. Later(source, source')
    BY <2>3, <2>4 DEF Later
  <2>11. CallsOk' /\ call'[p] = c /\ \A q \in Procs \ {p} : call'[q] = call[q]
    BY <2>5, <2>9, <2>10, MoveOk DEF MixInv
  <2>12. PoolOk'
    <3>1. \A s \in Srcs : pool[s] # 0 => pool[s] \in 1..n /\ source'[pool[s]].dev = s
      BY <2>3, <2>4 DEF MixInv, PoolOk
    <3> QED
      BY <1>3, <2>3, <3>1 DEF MixInv, PoolOk
  <2>13. SourcesHeld'
    <3> SUFFICES ASSUME NEW k \in 1..n, source'[k].st = "run"
                 PROVE  pool[source'[k].dev] = k \/ \E q \in Procs : call'[q].src = k
      BY <1>3, <2>3 DEF SourcesHeld
    <3>1. CASE k = n
      BY <1>2, <2>7, <2>11, <3>1
    <3>2. CASE k \in DOMAIN source
      <4>1. source'[k] = source[k] /\ k # 0
        BY <2>2, <2>3, <3>2
      <4>2. pool[source[k].dev] = k \/ \E q \in Procs : call[q].src = k
        BY <3>2, <4>1 DEF MixInv, SourcesHeld
      <4>3. \A q \in Procs : call[q].src = k => call'[q].src = k
        BY <2>0, <2>11, <4>1 DEF o
      <4> QED
        BY <4>1, <4>2, <4>3
    <3> QED
      BY <2>4, <3>1, <3>2
  <2>14. \A q \in Procs : call'[q].loop = call[q].loop
    BY <2>0, <2>7, <2>11 DEF o
  <2>15. Allowed
    BY <1>3, <2>10, <2>14, QuietLoops DEF MixInv, Allowed
  <2> QED
    BY <2>11, <2>12, <2>13, <2>15 DEF Kept
<1> QED
  BY <1>4, <1>5 DEF EnsureOpen

\* ensure_source inserts, or drops what it opened.
LEMMA EnsureInsertOk ==
  ASSUME MixInv, NEW p \in Tasks, EnsureInsert(p)
  PROVE  Kept
<1> DEFINE s == Cur(p).src
           mine == call[p].src
           c == AfterEnsure(p)
<1>1. call[p].pc = "insert" /\ call[p].pc \notin Resting /\ call[p].pc \notin {"fill", "list"}
  BY DEF EnsureInsert, At, Resting
<1>2. /\ TaskOk(call[p], source) /\ call[p].loop = 0 /\ p \in Procs
  BY <1>1, AtWork
<1>3. s \in Srcs /\ Job(p).inputs # <<>> /\ mine \in DOMAIN source /\ source[mine].dev = s
  BY <1>1, <1>2, CurIs DEF TaskOk
<1>4. /\ source \in Seq(Source) /\ Len(source) \in Nat /\ DOMAIN source = 1..Len(source)
      /\ pool \in [Srcs -> Nat]
      /\ \A t \in Srcs : pool[t] # 0 => pool[t] \in DOMAIN source /\ source[pool[t]].dev = t
  BY DEF MixInv, PoolOk
<1>5. TaskOk(c, source') /\ c.src = 0 /\ c.loop = 0
  BY <1>1, <1>3, AfterEnsureIs
<1>6. Moves(p, c) /\ UNCHANGED <<loop, buses>>
  BY DEF EnsureInsert, Moves
<1>7. /\ pool' = IF pool[s] = 0 THEN [pool EXCEPT ![s] = mine] ELSE pool
      /\ source' = IF pool[s] = 0 THEN source ELSE [source EXCEPT ![mine].st = "stopped"]
  BY DEF EnsureInsert
<1>8. \A k \in DOMAIN source : source[k] \in Source
  BY <1>4
<1> HIDE DEF s, c
<1>9. /\ source' \in Seq(Source) /\ DOMAIN source' = DOMAIN source
      /\ \A k \in DOMAIN source : source'[k].dev = source[k].dev
      /\ \A k \in DOMAIN source : source'[k] = source[k]
                                  \/ (k = mine /\ pool[s] # 0 /\ source'[k].st = "stopped")
      /\ pool[s] # 0 => source'[mine].st = "stopped"
  <2>1. CASE pool[s] = 0
    BY <1>4, <1>7, <2>1
  <2>2. CASE pool[s] # 0
    <3> DEFINE x == [source[mine] EXCEPT !.st = "stopped"]
    <3>1. source[mine] \in Source
      BY <1>3, <1>8
    <3>2. x \in Source /\ x.st = "stopped" /\ x.dev = source[mine].dev
      BY <3>1 DEF Source
    <3>3. source' = [source EXCEPT ![mine] = x]
      BY <1>7, <2>2
    <3> HIDE DEF x, mine
    <3>4. /\ source' \in Seq(Source) /\ DOMAIN source' = DOMAIN source /\ source'[mine] = x
          /\ \A k \in DOMAIN source : k # mine => source'[k] = source[k]
      BY <1>3, <1>4, <3>2, <3>3
    <3> QED
      BY <2>2, <3>2, <3>4
  <2> QED
    BY <2>1, <2>2
<1> HIDE DEF mine
<1>10. Later(source, source')
  BY <1>9 DEF Later
<1>11. CallsOk' /\ call'[p] = c /\ \A q \in Procs \ {p} : call'[q] = call[q]
  BY <1>5, <1>6, <1>10, MoveOk DEF MixInv
<1>12. /\ pool' \in [Srcs -> Nat] /\ \A t \in Srcs : t # s => pool'[t] = pool[t]
       /\ pool[s] # 0 => pool'[s] = pool[s]
       /\ pool[s] = 0 => pool'[s] = mine
  BY <1>3, <1>4, <1>7
<1>13. PoolOk'
  <2>1. \A t \in Srcs : pool'[t] # 0 => pool'[t] \in DOMAIN source /\ source[pool'[t]].dev = t
    BY <1>3, <1>4, <1>12
  <2>2. \A t \in Srcs : pool'[t] # 0 => pool'[t] \in DOMAIN source' /\ source'[pool'[t]].dev = t
    BY <1>9, <2>1
  <2> QED
    BY <1>9, <1>12, <2>2 DEF PoolOk
<1>14. SourcesHeld'
  <2> SUFFICES ASSUME NEW k \in DOMAIN source, source'[k].st = "run"
               PROVE  pool'[source'[k].dev] = k \/ \E q \in Procs : call'[q].src = k
    BY <1>9 DEF SourcesHeld
  <2>1. source'[k] = source[k] /\ k # 0 /\ (k = mine => pool[s] = 0) /\ source[k].dev \in Srcs
    BY <1>4, <1>8, <1>9 DEF Source
  <2>2. pool[source[k].dev] = k \/ \E q \in Procs : call[q].src = k
    BY <2>1 DEF MixInv, SourcesHeld
  <2>3. CASE pool[source[k].dev] = k
    BY <1>12, <2>1, <2>3
  <2>4. CASE k = mine
    BY <1>3, <1>12, <2>1, <2>4
  <2>5. CASE \E q \in Procs : call[q].src = k /\ k # mine
    BY <1>11, <2>5 DEF mine
  <2> QED
    BY <2>2, <2>3, <2>4, <2>5
<1>15. \A q \in Procs : call'[q].loop = call[q].loop
  BY <1>2, <1>5, <1>11
<1>16. Allowed
  BY <1>6, <1>10, <1>15, QuietLoops DEF MixInv, Allowed
<1> QED
  BY <1>11, <1>13, <1>14, <1>16 DEF Kept

\* The sources after a step that only ends some.
Ends ==
  /\ source' \in Seq(Source) /\ DOMAIN source' = DOMAIN source
  /\ \A k \in DOMAIN source : /\ source'[k].dev = source[k].dev
                              /\ source'[k] # source[k] => source'[k].st # "run"

\* Source k leaves its running state.
LEMMA EndsOne ==
  ASSUME source \in Seq(Source), NEW k \in DOMAIN source, NEW x \in {"ended", "stopped"},
         source' = [source EXCEPT ![k].st = x]
  PROVE  Ends /\ source'[k].st = x
<1>1. source[k] \in Source
  OBVIOUS
<1> DEFINE y == [source[k] EXCEPT !.st = x]
<1>2. y \in Source /\ y.st = x /\ y.dev = source[k].dev
  BY <1>1 DEF Source
<1>3. source' = [source EXCEPT ![k] = y]
  OBVIOUS
<1> HIDE DEF y
<1>4. /\ source' \in Seq(Source) /\ DOMAIN source' = DOMAIN source /\ source'[k] = y
      /\ \A j \in DOMAIN source : j # k => source'[j] = source[j]
  BY <1>2, <1>3
<1> QED
  BY <1>2, <1>4 DEF Ends

\* A stream ends; its source stays where it is.
LEMMA SourceEndsOk ==
  ASSUME MixInv, NEW k \in DOMAIN source, SourceEnds(k)
  PROVE  Kept
<1>1. source' = [source EXCEPT ![k].st = "ended"] /\ UNCHANGED <<pool, loop, buses, call>>
  BY DEF SourceEnds
<1>2. Ends
  BY <1>1, EndsOne DEF MixInv, PoolOk
<1>3. Later(source, source')
  BY <1>2 DEF Ends, Later
<1>4. CallsOk'
  <2>1. \A q \in Tasks : TaskOk(call[q], source')
    BY <1>3 DEF MixInv, CallsOk, TaskOk, Later
  <2> QED
    BY <1>1, <2>1 DEF MixInv, CallsOk
<1>5. PoolOk'
  BY <1>1, <1>2 DEF MixInv, PoolOk, Ends
<1>6. SourcesHeld'
  BY <1>1, <1>2 DEF MixInv, SourcesHeld, Ends
<1>7. Allowed
  BY <1>1, <1>3, QuietLoops DEF MixInv, Allowed
<1> QED
  BY <1>4, <1>5, <1>6, <1>7 DEF Kept

\* MixBus::start makes a loop, and leaks it if the encoder cannot be made.
LEMMA StartBusOk ==
  ASSUME MixInv, NEW p \in Tasks, NEW ok \in BOOLEAN, StartBus(p, ok)
  PROVE  Kept
<1>1. call[p].pc = "start" /\ call[p].pc \notin Resting /\ call[p].pc \notin {"fill", "list", "insert"}
  BY DEF StartBus, At, Resting
<1>2. /\ TaskOk(call[p], source) /\ Shaped(call[p]) /\ JobOk(Job(p)) /\ JobFits(call[p])
      /\ Job(p) = call[p].job /\ call[p].src = 0 /\ call[p].loop = 0
      /\ p \in Procs /\ call = [q \in Procs |-> call[q]]
  BY <1>1, AtWork
<1>3. UNCHANGED <<source, pool, buses>> /\ LoopInv
  BY DEF StartBus, MixInv
<1>4. CASE Fail(p) /\ UNCHANGED loop
  BY <1>2, <1>3, <1>4, FailStep
<1>5. CASE /\ loop' = Append(loop, NewLoop)
           /\ call' = [call EXCEPT ![p].pc = "fill", ![p].loop = Len(loop) + 1]
  <2> DEFINE o == call[p]
             n == Len(loop) + 1
             c == [o EXCEPT !.pc = "fill", !.loop = n]
             m == [NewLoop EXCEPT !.st = "run"]
  <2>0. /\ TaskOk(o, source) /\ Shaped(o) /\ JobOk(o.job) /\ JobFits(o)
        /\ o.src = 0 /\ o.loop = 0 /\ o.pc = "start"
    BY <1>1, <1>2
  <2>1. m = NewLoop
    BY DEF NewLoop
  <2>2. LoopOk(m, source) /\ AllFresh(m) /\ m.st = "run"
    BY NewLoopOk
  <2>3. n \in Nat /\ n # 0
    BY <1>3 DEF LoopInv, LoopsOk
  <2>4. Moves(p, c)
    BY <1>2, <1>5 DEF Moves
  <2>5. c = [o EXCEPT !.pc = "fill", !.loop = n]
    OBVIOUS
  <2> HIDE DEF c, o, n, m
  <2>6. /\ c.pc = "fill" /\ c.job = o.job /\ c.at = o.at /\ c.src = 0 /\ c.loop = n
        /\ c.mutes = o.mutes /\ Shaped(c)
    BY <2>0, <2>5 DEF Shaped
  <2>7. JobFits(c)
    BY <2>0, <2>6 DEF JobFits
  <2>8. TaskOk(c, source)
    BY <2>0, <2>3, <2>6, <2>7 DEF TaskOk, Pcs, Resting
  <2>9. Quietly(p, c)
    BY <1>2, <1>3, <2>4, <2>6 DEF Quietly
  <2>10. /\ CallsOk' /\ PoolOk' /\ SourcesHeld'
         /\ call'[p] = c /\ \A q \in Procs \ {p} : call'[q] = call[q]
    BY <2>8, <2>9, QuietMove
  <2>11. Adds(p, m)
    BY <1>2, <1>3, <1>5, <2>1, <2>2, <2>6, <2>10 DEF Adds, n
  <2>12. Allowed
    BY <1>3, <2>2, <2>11, AddAllowed
  <2> QED
    BY <2>10, <2>12 DEF Kept
<1>6. CASE loop' = Append(loop, [NewLoop EXCEPT !.st = "leaked"]) /\ Fail(p)
  <2> DEFINE m == [NewLoop EXCEPT !.st = "leaked"]
  <2>1. LoopOk(m, source) /\ AllFresh(m) /\ m.st = "leaked"
    BY NewLoopOk
  <2>2. loop' = Append(loop, m)
    BY <1>6
  <2> HIDE DEF m
  <2>3. PICK c : Moves(p, c) /\ TaskOk(c, source) /\ c.src = 0 /\ c.loop = 0
    BY <1>2, <1>6, FailIs DEF MixInv
  <2>4. Quietly(p, c)
    BY <1>2, <1>3, <2>3 DEF Quietly
  <2>5. /\ CallsOk' /\ PoolOk' /\ SourcesHeld'
        /\ call'[p] = c /\ \A q \in Procs \ {p} : call'[q] = call[q]
    BY <2>3, <2>4, QuietMove
  <2>6. Adds(p, m)
    BY <1>2, <1>3, <2>1, <2>2, <2>3, <2>5 DEF Adds
  <2>7. Allowed
    BY <1>3, <2>1, <2>6, AddAllowed
  <2> QED
    BY <2>5, <2>7 DEF Kept
<1> QED
  BY <1>4, <1>5, <1>6 DEF StartBus

\* The inputs are plugged in before the bus is listed.
LEMMA FillBusOk ==
  ASSUME MixInv, NEW p \in Tasks, FillBus(p)
  PROVE  Kept
<1> DEFINE k == call[p].loop
           m == Filled(loop[k], Job(p).inputs)
<1>1. call[p].pc = "fill" /\ call[p].pc \notin Resting /\ call[p].pc # "insert"
  BY DEF FillBus, At, Resting
<1>2. /\ TaskOk(call[p], source) /\ Shaped(call[p]) /\ JobOk(Job(p)) /\ JobFits(call[p])
      /\ Job(p) = call[p].job /\ call[p].src = 0 /\ p \in Procs
  BY <1>1, AtWork
<1>3. k # 0 /\ Job(p).op = "create" /\ Job(p).inputs \in Seq(Input)
  BY <1>1, <1>2 DEF TaskOk, JobFits, JobOk
<1>4. /\ k \in DOMAIN loop /\ AllFresh(loop[k]) /\ (\A b \in BusIds : buses[b] # k)
      /\ LoopOk(loop[k], source) /\ LoopInv /\ PoolOk
  BY <1>3 DEF MixInv, LoopInv, MakingOk, LoopsOk
<1>5. LoopOk(m, source) /\ AllFresh(m) /\ m.st = loop[k].st
  BY <1>3, <1>4, FilledOk
<1>6. UNCHANGED <<source, pool, buses>> /\ loop' = [loop EXCEPT ![k] = m]
  BY DEF FillBus
<1>7. PICK c : /\ Moves(p, c) /\ Shaped(c)
               /\ c.pc = "list" /\ c.job = call[p].job /\ c.at = call[p].at /\ c.src = call[p].src
               /\ c.loop = call[p].loop /\ c.mutes = call[p].mutes
  <2>1. Heads(p, "list")
    BY DEF FillBus, Go, Heads
  <2> QED
    BY <2>1, GoesTo
<1>8. JobFits(c)
  BY <1>1, <1>2, <1>7 DEF JobFits
<1>9. TaskOk(c, source)
  BY <1>1, <1>2, <1>3, <1>7, <1>8 DEF TaskOk, Pcs, Resting
<1>10. Quietly(p, c)
  BY <1>6, <1>7 DEF Quietly
<1>11. /\ CallsOk' /\ PoolOk' /\ SourcesHeld'
       /\ call'[p] = c /\ \A q \in Procs \ {p} : call'[q] = call[q]
  BY <1>9, <1>10, QuietMove
<1> HIDE DEF m
<1>12. Becomes(k, m)
  BY <1>6, <1>7, <1>11 DEF Becomes
<1>13. Allowed
  BY <1>4, <1>5, <1>12, SilentAllowed
<1> QED
  BY <1>11, <1>13 DEF Kept

\* The bus is listed; one of its id that was there is stopped.
LEMMA ListBusOk ==
  ASSUME MixInv, NEW p \in Tasks, ListBus(p)
  PROVE  Kept
<1> DEFINE n == call[p].loop
           b == Job(p).bus
           o == call[p]
           c == [o EXCEPT !.pc = "persist", !.loop = 0]
<1>1. call[p].pc = "list" /\ call[p].pc \notin Resting /\ call[p].pc # "insert"
  BY DEF ListBus, At, Resting
<1>2. /\ TaskOk(call[p], source) /\ Shaped(call[p]) /\ JobOk(Job(p)) /\ JobFits(call[p])
      /\ Job(p) = call[p].job /\ call[p].src = 0 /\ p \in Procs /\ call = [q \in Procs |-> call[q]]
  BY <1>1, AtWork
<1>3. n # 0 /\ b \in BusIds /\ LoopInv
  BY <1>1, <1>2 DEF TaskOk, JobOk, MixInv
<1>4. n \in DOMAIN loop /\ n \in Nat /\ \A q \in Tasks \ {p} : call[q].loop # n
  BY <1>3 DEF LoopInv, MakingOk, LoopsOk
<1>5. /\ UNCHANGED <<source, pool>> /\ buses' = [buses EXCEPT ![b] = n] /\ loop' = Stop(buses[b])
  BY DEF ListBus
<1>6. Moves(p, c)
  BY <1>2 DEF Moves, ListBus
<1>7. c = [o EXCEPT !.pc = "persist", !.loop = 0] /\ Shaped(o) /\ o.src = 0
  BY <1>2
<1> HIDE DEF c, o, b, n
<1>8. /\ c.pc = "persist" /\ c.job = o.job /\ c.at = o.at /\ c.src = 0 /\ c.loop = 0
      /\ c.mutes = o.mutes /\ Shaped(c)
  BY <1>7 DEF Shaped
<1>9. JobFits(c)
  BY <1>8 DEF JobFits
<1>10. TaskOk(c, source)
  BY <1>2, <1>8, <1>9 DEF TaskOk, Pcs, Resting, o
<1>11. Quietly(p, c)
  BY <1>2, <1>5, <1>6, <1>8 DEF Quietly
<1>12. /\ CallsOk' /\ PoolOk' /\ SourcesHeld'
       /\ call'[p] = c /\ \A q \in Procs \ {p} : call'[q] = call[q]
  BY <1>10, <1>11, QuietMove
<1>13. call[Halt].loop = 0
  BY DEF MixInv, CallsOk, HaltOk
<1>14. \A q \in Procs : call'[q].loop = IF call[q].loop = n THEN 0 ELSE call[q].loop
  <2> SUFFICES ASSUME NEW q \in Procs
               PROVE  call'[q].loop = IF call[q].loop = n THEN 0 ELSE call[q].loop
    OBVIOUS
  <2>1. CASE q = p
    BY <1>8, <1>12, <2>1 DEF n
  <2>2. CASE q # p /\ q \in Tasks
    BY <1>4, <1>12, <2>2
  <2>3. CASE q # p /\ q = Halt
    BY <1>3, <1>12, <1>13, <2>3
  <2> QED
    BY <2>1, <2>2, <2>3 DEF Tasks, Procs
<1>15. Lists(b, n)
  BY <1>5, <1>14 DEF Lists, n
<1>16. Allowed
  BY <1>3, <1>4, <1>15, ListAllowed
<1> QED
  BY <1>12, <1>16 DEF Kept

\* A call that has done its work goes on to persist_all.
LEMMA ToPersist ==
  ASSUME MixInv, NEW p \in Tasks, call[p].pc \in {"remove", "add", "take", "volume", "mute"},
         Go(p, "persist"), UNCHANGED <<source, pool>>
  PROVE  /\ CallsOk' /\ PoolOk' /\ SourcesHeld'
         /\ \A q \in Procs : call'[q].loop = call[q].loop
<1>1. call[p].pc \notin Resting /\ call[p].pc \notin {"insert", "fill", "list"}
  BY DEF Resting
<1>2. /\ TaskOk(call[p], source) /\ JobOk(Job(p)) /\ Job(p) = call[p].job
      /\ call[p].src = 0 /\ call[p].loop = 0
  BY <1>1, AtWork
<1>3. PICK c : /\ Moves(p, c) /\ Shaped(c)
               /\ c.pc = "persist" /\ c.job = call[p].job /\ c.src = call[p].src
               /\ c.loop = call[p].loop /\ c.mutes = call[p].mutes
  <2>1. Heads(p, "persist")
    BY DEF Go, Heads
  <2> QED
    BY <2>1, GoesTo
<1>4. JobFits(c)
  BY <1>3 DEF JobFits
<1>5. TaskOk(c, source)
  BY <1>2, <1>3, <1>4 DEF TaskOk, Pcs, Resting
<1>6. Quietly(p, c)
  BY <1>3 DEF Quietly
<1>7. /\ CallsOk' /\ PoolOk' /\ SourcesHeld'
      /\ call'[p] = c /\ \A q \in Procs \ {p} : call'[q] = call[q]
  BY <1>5, <1>6, QuietMove
<1> QED
  BY <1>3, <1>7

\* remove_bus stops the thread of the bus.
LEMMA RemoveBusOk ==
  ASSUME MixInv, NEW p \in Tasks, RemoveBus(p)
  PROVE  Kept
<1> DEFINE b == Job(p).bus
<1>1. /\ call[p].pc = "remove" /\ call[p].pc \notin Resting
      /\ call[p].pc \notin {"insert", "fill", "list"}
  BY DEF RemoveBus, At, Resting
<1>2. JobOk(Job(p)) /\ call[p].src = 0 /\ call[p].loop = 0
  BY <1>1, AtWork
<1>3. UNCHANGED <<source, pool>> /\ b \in BusIds /\ LoopInv
  BY <1>2 DEF RemoveBus, JobOk, MixInv
<1>4. CASE Fail(p) /\ UNCHANGED <<buses, loop>>
  BY <1>2, <1>3, <1>4, FailStep
<1>5. CASE Go(p, "persist") /\ buses' = [buses EXCEPT ![b] = 0] /\ loop' = Stop(buses[b])
  <2>1. /\ CallsOk' /\ PoolOk' /\ SourcesHeld'
        /\ \A q \in Procs : call'[q].loop = call[q].loop
    BY <1>1, <1>3, <1>5, ToPersist
  <2>2. Lists(b, 0)
    BY <1>3, <1>5, <2>1 DEF Lists
  <2>3. Allowed
    BY <1>3, <2>2, ListAllowed
  <2> QED
    BY <2>1, <2>3 DEF Kept
<1> QED
  BY <1>4, <1>5 DEF RemoveBus

\* The input a call names, and the bus.
LEMMA NamedIs ==
  ASSUME MixInv, NEW p \in Tasks, call[p].pc \in {"add", "take", "volume", "mute"}
  PROVE  /\ JobOk(Job(p)) /\ Job(p).op = call[p].pc /\ Job(p).bus \in BusIds
         /\ Job(p).muted \in BOOLEAN /\ MySrc(p) \in Srcs
         /\ call[p].pc \in {"add", "volume"} => Job(p).inputs[1].volume \in Volumes
         /\ call[p].src = 0 /\ call[p].loop = 0
<1>1. call[p].pc \notin Resting /\ call[p].pc \notin {"insert", "fill", "list"}
  BY DEF Resting
<1>2. /\ JobOk(Job(p)) /\ JobFits(call[p]) /\ Job(p) = call[p].job
      /\ call[p].src = 0 /\ call[p].loop = 0
  BY <1>1, AtWork
<1>3. Job(p).op = call[p].pc
  BY <1>2 DEF JobFits
<1> DEFINE W == [src : Srcs, volume : Volumes \cup {0}]
           is == Job(p).inputs
<1>4. is \in Seq(W) /\ Len(is) = 1 /\ (call[p].pc \in {"add", "volume"} => is \in Seq(Input))
  BY <1>2, <1>3 DEF JobOk
<1>5. is[1] \in W /\ (call[p].pc \in {"add", "volume"} => is[1] \in Input)
  <2> HIDE DEF W, is
  <2>1. is[1] \in W
    <3>1. is \in Seq(W) /\ Len(is) = 1
      BY <1>4
    <3> QED
      BY <3>1
  <2>2. ASSUME call[p].pc \in {"add", "volume"} PROVE is[1] \in Input
    <3>1. is \in Seq(Input) /\ Len(is) = 1
      BY <1>4, <2>2
    <3> QED
      BY <3>1
  <2> QED
    BY <2>1, <2>2
<1>6. is[1].src \in Srcs /\ (call[p].pc \in {"add", "volume"} => is[1].volume \in Volumes)
  BY <1>5 DEF Input
<1> QED
  BY <1>2, <1>3, <1>6 DEF MySrc, JobOk

\* The loop of a listed bus.
LEMMA OnBus ==
  ASSUME LoopInv, NEW b \in BusIds, buses[b] # 0
  PROVE  buses[b] \in DOMAIN loop /\ LoopOk(loop[buses[b]], source)
BY DEF LoopInv, BusesOk, LoopsOk

\* bus_add_input.
LEMMA AddInputOk ==
  ASSUME MixInv, NEW p \in Tasks, AddInput(p)
  PROVE  Kept
<1> DEFINE b == Job(p).bus
           k == buses[b]
           s == MySrc(p)
           v == Job(p).inputs[1].volume
           m == Plug(loop[k], s, v)
<1>1. call[p].pc = "add"
  BY DEF AddInput, At
<1>2. /\ JobOk(Job(p)) /\ b \in BusIds /\ s \in Srcs /\ v \in Volumes
      /\ call[p].src = 0 /\ call[p].loop = 0
  BY <1>1, NamedIs
<1>3. UNCHANGED <<source, pool, buses>> /\ LoopInv /\ PoolOk
  BY DEF AddInput, MixInv
<1>4. CASE Fail(p) /\ UNCHANGED loop
  BY <1>2, <1>3, <1>4, FailStep
<1>5. CASE k # 0 /\ pool[s] # 0 /\ Go(p, "persist") /\ loop' = [loop EXCEPT ![k] = m]
  <2>1. /\ CallsOk' /\ PoolOk' /\ SourcesHeld'
        /\ \A q \in Procs : call'[q].loop = call[q].loop
    BY <1>1, <1>3, <1>5, ToPersist
  <2>2. k \in DOMAIN loop /\ LoopOk(loop[k], source)
    BY <1>2, <1>3, <1>5, OnBus
  <2>3. /\ LoopOk(m, source) /\ m.st = loop[k].st
        /\ HeardOn(m, s) \in Unmuted /\ \A t \in Srcs \ {s} : HeardOn(m, t) = HeardOn(loop[k], t)
    BY <1>2, <1>3, <1>5, <2>2, PlugOk
  <2>4. \E c \in BusIds : buses[c] = k
    BY <1>2
  <2> HIDE DEF m, s, v, k
  <2>5. Becomes(k, m)
    BY <1>3, <1>5, <2>1 DEF Becomes
  <2>6. Renewed(k, m, s)
    BY <2>3 DEF Renewed
  <2>7. Allowed
    BY <1>2, <1>3, <2>2, <2>3, <2>4, <2>5, <2>6, LoopAllowed
  <2> QED
    BY <2>1, <2>7 DEF Kept
<1> QED
  BY <1>4, <1>5 DEF AddInput, MySrc

\* The bus of a call is there and lists the input.
Listed(p) == buses[Job(p).bus] # 0 /\ MyBus(p).controls[MySrc(p)] # 0

\* A change of an input that leaves the loop well wired.
LEMMA OnInputOk ==
  ASSUME MixInv, NEW p \in Tasks, NEW pc \in {"take", "volume", "mute"}, NEW m, OnInput(p, pc, m),
         Listed(p) => /\ LoopOk(m, source) /\ m.st = MyBus(p).st
                      /\ \/ Without(buses[Job(p).bus], m, MySrc(p))
                         \/ Turned(buses[Job(p).bus], m, MySrc(p))
  PROVE  Kept
<1> DEFINE b == Job(p).bus
           k == buses[b]
           s == MySrc(p)
<1>1. call[p].pc = pc
  BY DEF OnInput, At
<1>2. /\ JobOk(Job(p)) /\ b \in BusIds /\ s \in Srcs /\ call[p].src = 0 /\ call[p].loop = 0
  BY <1>1, NamedIs
<1>3. UNCHANGED <<source, pool, buses>> /\ LoopInv
  BY DEF OnInput, MixInv
<1>4. CASE Fail(p) /\ UNCHANGED loop
  BY <1>2, <1>3, <1>4, FailStep
<1>5. CASE Listed(p) /\ Go(p, "persist") /\ loop' = [loop EXCEPT ![k] = m]
  <2>1. /\ CallsOk' /\ PoolOk' /\ SourcesHeld'
        /\ \A q \in Procs : call'[q].loop = call[q].loop
    BY <1>1, <1>3, <1>5, ToPersist
  <2>2. k \in DOMAIN loop /\ LoopOk(m, source) /\ m.st = loop[k].st
    BY <1>2, <1>3, <1>5, OnBus DEF Listed, MyBus
  <2>3. \E c \in BusIds : buses[c] = k
    BY <1>2
  <2>4. Without(k, m, s) \/ Turned(k, m, s)
    BY <1>5
  <2> HIDE DEF s, k
  <2>5. Becomes(k, m)
    BY <1>3, <1>5, <2>1 DEF Becomes
  <2>6. Allowed
    BY <1>2, <1>3, <2>2, <2>3, <2>4, <2>5, LoopAllowed
  <2> QED
    BY <2>1, <2>6 DEF Kept
<1> QED
  BY <1>4, <1>5 DEF OnInput, Listed, MyBus

\* bus_remove_input.
LEMMA RemoveInputOk ==
  ASSUME MixInv, NEW p \in Tasks, RemoveInput(p)
  PROVE  Kept
<1> DEFINE k == buses[Job(p).bus]
           s == MySrc(p)
           m == Unplug(MyBus(p), s)
<1>1. OnInput(p, "take", m) /\ call[p].pc = "take"
  BY DEF RemoveInput, OnInput, At
<1>2. s \in Srcs /\ Job(p).bus \in BusIds /\ LoopInv
  BY <1>1, NamedIs DEF MixInv
<1>3. ASSUME Listed(p) PROVE LoopOk(m, source) /\ m.st = MyBus(p).st /\ Without(k, m, s)
  <2>1. LoopOk(MyBus(p), source)
    BY <1>2, <1>3, OnBus DEF Listed, MyBus
  <2> QED
    BY <1>2, <2>1, UnplugOk DEF Without, MyBus
<1> HIDE DEF m
<1> QED
  BY <1>1, <1>3, OnInputOk

\* A knob turned to x, which differs in one thing.
LEMMA KnobTurned ==
  ASSUME MixInv, NEW p \in Tasks, call[p].pc \in {"volume", "mute"}, Listed(p), NEW x \in Setting,
         LET y == MyBus(p).knobs[MyBus(p).controls[MySrc(p)]]
         IN  x.volume = y.volume \/ x.muted = y.muted
  PROVE  /\ LoopOk(TurnTo(MyBus(p), MySrc(p), x), source)
         /\ TurnTo(MyBus(p), MySrc(p), x).st = MyBus(p).st
         /\ Turned(buses[Job(p).bus], TurnTo(MyBus(p), MySrc(p), x), MySrc(p))
<1> DEFINE l == MyBus(p)
           s == MySrc(p)
           y == l.knobs[l.controls[s]]
           m == TurnTo(l, s, x)
<1>1. s \in Srcs /\ Job(p).bus \in BusIds /\ LoopInv
  BY NamedIs DEF MixInv
<1>2. LoopOk(l, source) /\ l.controls[s] # 0 /\ l = loop[buses[Job(p).bus]]
  BY <1>1, OnBus DEF Listed, MyBus
<1>3. x.volume = y.volume \/ x.muted = y.muted
  OBVIOUS
<1> HIDE DEF l, s
<1>4. /\ LoopOk(m, source) /\ m.st = l.st
      /\ KnobOf(l, s) # 0 => HeardOn(m, s) = x
      /\ KnobOf(l, s) = 0 => HeardOn(m, s) = HeardOn(l, s)
      /\ \A t \in Srcs \ {s} : HeardOn(m, t) = HeardOn(l, t)
  BY <1>1, <1>2, TurnOk
<1> HIDE DEF m
<1>5. CASE KnobOf(l, s) = 0
  BY <1>2, <1>4, <1>5 DEF Turned, l, s, m
<1>6. CASE KnobOf(l, s) # 0
  <2>1. HeardOn(l, s) = y /\ HeardOn(l, s) \in Setting
    BY <1>1, <1>2, <1>6, KnobIn
  <2>2. HeardOn(l, s) # None
    BY <2>1, MixerAssumption
  <2>3. HeardOn(m, s) = x
    BY <1>4, <1>6
  <2>4. Turned(buses[Job(p).bus], m, s)
    BY <1>2, <1>3, <1>4, <2>1, <2>2, <2>3 DEF Turned
  <2> QED
    BY <1>4, <2>4 DEF l, s, m
<1> QED
  BY <1>5, <1>6

\* bus_set_volume.
LEMMA SetVolumeOk ==
  ASSUME MixInv, NEW p \in Tasks, SetVolume(p)
  PROVE  Kept
<1> DEFINE l == MyBus(p)
           s == MySrc(p)
           v == Job(p).inputs[1].volume
           y == l.knobs[l.controls[s]]
           x == [y EXCEPT !.volume = v]
           m == TurnTo(l, s, x)
<1>1. call[p].pc = "volume"
  BY DEF SetVolume, OnInput, At
<1>2. OnInput(p, "volume", m)
  BY DEF SetVolume, TurnTo
<1>3. s \in Srcs /\ Job(p).bus \in BusIds /\ v \in Volumes /\ LoopInv
  BY <1>1, NamedIs DEF MixInv
<1>4. ASSUME Listed(p)
      PROVE  LoopOk(m, source) /\ m.st = l.st /\ Turned(buses[Job(p).bus], m, s)
  <2>1. LoopOk(l, source) /\ l.controls[s] # 0
    BY <1>3, <1>4, OnBus DEF Listed, MyBus
  <2>2. y \in Setting
    <3> HIDE DEF l, s
    <3>1. l.knobs \in Seq(Setting) /\ Len(l.knobs) \in Nat /\ l.controls[s] \in Nat
      BY <1>3, <2>1, LoopFields DEF LoopOk
    <3>2. l.controls[s] \in 1..Len(l.knobs)
      BY <1>3, <2>1, <3>1 DEF LoopOk
    <3> QED
      BY <3>1, <3>2
  <2>3. x \in Setting /\ x.muted = y.muted
    <3> HIDE DEF y, v
    <3> QED
      BY <1>3, <2>2 DEF Setting
  <2> HIDE DEF x
  <2> QED
    BY <1>1, <1>4, <2>3, KnobTurned
<1> HIDE DEF m
<1> QED
  BY <1>2, <1>4, OnInputOk

\* bus_set_muted.
LEMMA SetMutedOk ==
  ASSUME MixInv, NEW p \in Tasks, SetMuted(p)
  PROVE  Kept
<1> DEFINE l == MyBus(p)
           s == MySrc(p)
           v == Job(p).muted
           y == l.knobs[l.controls[s]]
           x == [y EXCEPT !.muted = v]
           m == TurnTo(l, s, x)
<1>1. call[p].pc = "mute"
  BY DEF SetMuted, OnInput, At
<1>2. OnInput(p, "mute", m)
  BY DEF SetMuted, TurnTo
<1>3. s \in Srcs /\ Job(p).bus \in BusIds /\ v \in BOOLEAN /\ LoopInv
  BY <1>1, NamedIs DEF MixInv
<1>4. ASSUME Listed(p)
      PROVE  LoopOk(m, source) /\ m.st = l.st /\ Turned(buses[Job(p).bus], m, s)
  <2>1. LoopOk(l, source) /\ l.controls[s] # 0
    BY <1>3, <1>4, OnBus DEF Listed, MyBus
  <2>2. y \in Setting
    <3> HIDE DEF l, s
    <3>1. l.knobs \in Seq(Setting) /\ Len(l.knobs) \in Nat /\ l.controls[s] \in Nat
      BY <1>3, <2>1, LoopFields DEF LoopOk
    <3>2. l.controls[s] \in 1..Len(l.knobs)
      BY <1>3, <2>1, <3>1 DEF LoopOk
    <3> QED
      BY <3>1, <3>2
  <2>3. x \in Setting /\ x.volume = y.volume
    <3> HIDE DEF y, v
    <3> QED
      BY <1>3, <2>2 DEF Setting
  <2> HIDE DEF x
  <2> QED
    BY <1>1, <1>4, <2>3, KnobTurned
<1> HIDE DEF m
<1> QED
  BY <1>2, <1>4, OnInputOk

\* Shutdown becomes c.
Halts(c) == call' = [call EXCEPT ![Halt] = c]

\* A step of shutdown: the tasks are as they were.
LEMMA HaltMove ==
  ASSUME MixInv, NEW c, Halts(c), HaltOk(c), Later(source, source')
  PROVE  /\ CallsOk' /\ \A q \in Procs : call'[q].src = call[q].src /\ call'[q].loop = call[q].loop
<1> USE MixerAssumption
<1>1. Halt \in Procs /\ Halt \notin Tasks /\ \A q \in Tasks : q \in Procs
  BY DEF Tasks, Procs
<1>2. call = [q \in Procs |-> call[q]] /\ HaltOk(call[Halt])
  BY DEF MixInv, CallsOk
<1>3. /\ call'[Halt] = c /\ (\A q \in Procs \ {Halt} : call'[q] = call[q])
      /\ call' = [q \in Procs |-> call'[q]]
  BY <1>1, <1>2 DEF Halts
<1>4. \A q \in Tasks : TaskOk(call'[q], source')
  <2> SUFFICES ASSUME NEW q \in Tasks PROVE TaskOk(call[q], source')
    BY <1>1, <1>3
  <2>1. TaskOk(call[q], source)
    BY DEF MixInv, CallsOk
  <2> QED
    BY <2>1 DEF TaskOk, Later
<1>5. CallsOk'
  BY <1>3, <1>4 DEF CallsOk
<1>6. \A q \in Procs : call'[q].src = call[q].src /\ call'[q].loop = call[q].loop
  BY <1>2, <1>3 DEF HaltOk
<1> QED
  BY <1>5, <1>6

\* A step of shutdown that touches no source.
LEMMA HaltQuiet ==
  ASSUME MixInv, NEW c, Halts(c), HaltOk(c), UNCHANGED <<source, pool>>
  PROVE  /\ CallsOk' /\ PoolOk' /\ SourcesHeld' /\ Later(source, source')
         /\ \A q \in Procs : call'[q].loop = call[q].loop
<1>1. Later(source, source')
  BY DEF Later
<1>2. CallsOk' /\ \A q \in Procs : call'[q].src = call[q].src /\ call'[q].loop = call[q].loop
  BY <1>1, HaltMove
<1>3. PoolOk' /\ SourcesHeld'
  BY <1>2, HeldSources DEF MixInv
<1> QED
  BY <1>1, <1>2, <1>3

\* shutdown begins, and ends.
LEMMA HaltEdgesOk ==
  ASSUME MixInv, HaltBegin \/ HaltEnd
  PROVE  Kept
<1>1. UNCHANGED <<source, pool, loop, buses>> /\ LoopInv
  BY DEF HaltBegin, HaltEnd, MixInv
<1>2. \E c : Halts(c) /\ HaltOk(c)
  <2>1. CASE HaltBegin
    <3> DEFINE j == [buses |-> {b \in BusIds : buses[b] # 0}, srcs |-> {s \in Srcs : pool[s] # 0}]
               o == Idle("halt")
               c == [o EXCEPT !.job = j]
    <3>1. Halts(c)
      BY <2>1 DEF HaltBegin, Halts
    <3>2. Shaped(o) /\ o.pc = "halt" /\ o.src = 0 /\ o.loop = 0
      BY DEF Idle, Shaped
    <3>3. c.pc = "halt" /\ c.src = 0 /\ c.loop = 0 /\ Shaped(c)
      <4> HIDE DEF o, j
      <4>1. c = [o EXCEPT !.job = j]
        OBVIOUS
      <4> HIDE DEF c
      <4> QED
        BY <3>2, <4>1 DEF Shaped
    <3> HIDE DEF c
    <3> QED
      BY <3>1, <3>3 DEF HaltOk
  <2>2. CASE HaltEnd
    <3> DEFINE o == call[Halt]
               c == [o EXCEPT !.pc = "done"]
    <3>1. Halts(c) /\ HaltOk(o)
      BY <2>2 DEF HaltEnd, Halts, MixInv, CallsOk
    <3>2. c.pc = "done" /\ c.src = 0 /\ c.loop = 0 /\ Shaped(c)
      <4> HIDE DEF o
      <4> QED
        BY <3>1 DEF HaltOk, Shaped
    <3> HIDE DEF c
    <3> QED
      BY <3>1, <3>2 DEF HaltOk
  <2> QED
    BY <2>1, <2>2
<1>3. /\ CallsOk' /\ PoolOk' /\ SourcesHeld' /\ Later(source, source')
      /\ \A q \in Procs : call'[q].loop = call[q].loop
  BY <1>1, <1>2, HaltQuiet
<1>4. Allowed
  BY <1>1, <1>3, QuietLoops DEF Allowed
<1> QED
  BY <1>3, <1>4 DEF Kept

\* shutdown removes a bus.
LEMMA HaltBusOk ==
  ASSUME MixInv, NEW b \in BusIds, HaltBus(b)
  PROVE  Kept
<1> DEFINE o == call[Halt]
           j == [o.job EXCEPT !.buses = @ \ {b}]
           c == [o EXCEPT !.job = j]
<1>1. /\ UNCHANGED <<source, pool>> /\ LoopInv /\ o.pc = "halt" /\ HaltOk(o)
      /\ buses' = [buses EXCEPT ![b] = 0] /\ loop' = Stop(buses[b])
  BY DEF HaltBus, MixInv, CallsOk, At
<1>2. Halts(c)
  BY DEF HaltBus, Halts
<1>3. HaltOk(c)
  <2> HIDE DEF o, j
  <2>1. c.pc = "halt" /\ c.src = 0 /\ c.loop = 0 /\ Shaped(c)
    BY <1>1 DEF HaltOk, Shaped
  <2> HIDE DEF c
  <2> QED
    BY <2>1 DEF HaltOk
<1> HIDE DEF c, o, j
<1>4. /\ CallsOk' /\ PoolOk' /\ SourcesHeld'
      /\ \A q \in Procs : call'[q].loop = call[q].loop
  BY <1>1, <1>2, <1>3, HaltQuiet
<1>5. Lists(b, 0)
  BY <1>1, <1>4 DEF Lists
<1>6. Allowed
  BY <1>1, <1>5, ListAllowed
<1> QED
  BY <1>4, <1>6 DEF Kept

\* shutdown removes a source from the pool and drops it.
LEMMA HaltSourceOk ==
  ASSUME MixInv, NEW s \in Srcs, HaltSource(s)
  PROVE  Kept
<1> DEFINE o == call[Halt]
           j == [o.job EXCEPT !.srcs = @ \ {s}]
           c == [o EXCEPT !.pc = "detach", !.job = j, !.snap = s]
<1>1. /\ UNCHANGED <<loop, buses>> /\ LoopInv /\ HaltOk(o)
      /\ pool' = [pool EXCEPT ![s] = 0]
      /\ source' = IF pool[s] = 0 THEN source ELSE [source EXCEPT ![pool[s]].st = "stopped"]
  BY DEF HaltSource, MixInv, CallsOk
<1>2. Halts(c)
  <2>1. Halt \in Procs /\ call = [q \in Procs |-> call[q]]
    BY DEF MixInv, CallsOk, Procs
  <2> QED
    BY <2>1 DEF HaltSource, Halts
<1>3. HaltOk(c)
  <2>1. c = [o EXCEPT !.pc = "detach", !.job = j, !.snap = s]
    OBVIOUS
  <2> HIDE DEF o, j, c
  <2>2. c.pc = "detach" /\ c.src = 0 /\ c.loop = 0 /\ c.snap = s /\ Shaped(c)
    BY <1>1, <2>1 DEF HaltOk, Shaped
  <2> QED
    BY <2>2 DEF HaltOk
<1> HIDE DEF c, o, j
<1>4. /\ source \in Seq(Source) /\ pool \in [Srcs -> Nat]
      /\ \A t \in Srcs : pool[t] # 0 => pool[t] \in DOMAIN source /\ source[pool[t]].dev = t
  BY DEF MixInv, PoolOk
<1>5. Ends /\ (pool[s] # 0 => source'[pool[s]].st = "stopped")
  <2>1. CASE pool[s] = 0
    BY <1>1, <1>4, <2>1 DEF Ends
  <2>2. CASE pool[s] # 0
    <3> DEFINE k == pool[s]
    <3>1. k \in DOMAIN source /\ source' = [source EXCEPT ![k].st = "stopped"]
      BY <1>1, <1>4, <2>2
    <3> HIDE DEF k
    <3>2. Ends /\ source'[k].st = "stopped"
      BY <1>4, <3>1, EndsOne
    <3> QED
      BY <3>2 DEF k
  <2> QED
    BY <2>1, <2>2
<1>6. Later(source, source')
  BY <1>5 DEF Ends, Later
<1>7. CallsOk' /\ \A q \in Procs : call'[q].src = call[q].src /\ call'[q].loop = call[q].loop
  BY <1>2, <1>3, <1>6, HaltMove
<1>8. pool' \in [Srcs -> Nat] /\ pool'[s] = 0 /\ \A t \in Srcs \ {s} : pool'[t] = pool[t]
  BY <1>1, <1>4
<1>9. PoolOk'
  <2>1. \A t \in Srcs : pool'[t] # 0 => pool'[t] \in DOMAIN source /\ source[pool'[t]].dev = t
    BY <1>4, <1>8
  <2>2. \A t \in Srcs : pool'[t] # 0 => pool'[t] \in DOMAIN source' /\ source'[pool'[t]].dev = t
    BY <1>5, <2>1 DEF Ends
  <2> QED
    BY <1>5, <1>8, <2>2 DEF PoolOk, Ends
<1>10. SourcesHeld'
  <2> SUFFICES ASSUME NEW k \in DOMAIN source, source'[k].st = "run"
               PROVE  pool'[source'[k].dev] = k \/ \E q \in Procs : call'[q].src = k
    BY <1>5 DEF SourcesHeld, Ends
  <2>0. source[k] \in Source /\ k # 0
    BY <1>4
  <2>1. source'[k] = source[k] /\ source[k].dev \in Srcs
    BY <1>5, <2>0 DEF Ends, Source
  <2>2. pool[source[k].dev] = k \/ \E q \in Procs : call[q].src = k
    BY <2>1 DEF MixInv, SourcesHeld
  <2>3. pool[source[k].dev] = k => source[k].dev # s
    BY <1>5, <2>0, <2>1
  <2> QED
    BY <1>7, <1>8, <2>1, <2>2, <2>3
<1>11. Allowed
  BY <1>1, <1>6, <1>7, QuietLoops DEF Allowed
<1> QED
  BY <1>7, <1>9, <1>10, <1>11 DEF Kept

\* And takes it off every bus.
LEMMA HaltDetachOk ==
  ASSUME MixInv, HaltDetach
  PROVE  Kept
<1> DEFINE o == call[Halt]
           c == [o EXCEPT !.pc = "halt", !.snap = NoRow]
<1>1. UNCHANGED <<source, pool, buses>> /\ LoopInv /\ HaltOk(o) /\ o.pc = "detach"
  BY DEF HaltDetach, MixInv, CallsOk, At
<1>2. Halts(c)
  <2>1. Halt \in Procs /\ call = [q \in Procs |-> call[q]]
    BY DEF MixInv, CallsOk, Procs
  <2> QED
    BY <2>1 DEF HaltDetach, Halts
<1>3. PICK s \in Srcs : s = o.snap
  BY <1>1 DEF HaltOk
<1>4. HaltOk(c)
  <2>1. c = [o EXCEPT !.pc = "halt", !.snap = NoRow]
    OBVIOUS
  <2> HIDE DEF o, c
  <2>2. c.pc = "halt" /\ c.src = 0 /\ c.loop = 0 /\ Shaped(c)
    BY <1>1, <2>1 DEF HaltOk, Shaped
  <2> QED
    BY <2>2 DEF HaltOk
<1>5. loop' = [k \in DOMAIN loop |-> IF \E b \in BusIds : buses[b] = k
                                     THEN Unplug(loop[k], s) ELSE loop[k]]
  BY <1>3 DEF HaltDetach
<1> HIDE DEF c, o
<1>6. /\ CallsOk' /\ PoolOk' /\ SourcesHeld'
      /\ \A q \in Procs : call'[q].loop = call[q].loop
  BY <1>1, <1>2, <1>4, HaltQuiet
<1>7. Detaches(s)
  BY <1>1, <1>5, <1>6 DEF Detaches
<1>8. Allowed
  BY <1>1, <1>7, DetachAllowed
<1> QED
  BY <1>6, <1>8 DEF Kept

\* A step of a mixing thread: loop k becomes m, and no call moves.
LEMMA ThreadKeeps ==
  ASSUME MixInv, UNCHANGED <<source, pool, buses, call>>
  PROVE  /\ CallsOk' /\ PoolOk' /\ SourcesHeld' /\ Later(source, source')
         /\ \A q \in Procs : call'[q].loop = call[q].loop
<1>1. Later(source, source')
  BY DEF Later
<1>2. CallsOk'
  BY DEF MixInv, CallsOk
<1>3. PoolOk' /\ SourcesHeld'
  BY HeldSources DEF MixInv
<1> QED
  BY <1>1, <1>2, <1>3

\* mix_loop applies its commands.
LEMMA MixApplyOk ==
  ASSUME MixInv, NEW k \in DOMAIN loop, MixApply(k)
  PROVE  Kept
<1> DEFINE m == Flushed(loop[k])
<1>1. UNCHANGED <<source, pool, buses, call>> /\ LoopInv /\ LoopOk(loop[k], source)
  BY DEF MixApply, MixInv, LoopInv, LoopsOk
<1>2. loop' = [loop EXCEPT ![k] = m]
  BY <1>1 DEF MixApply, Flushed
<1>3. /\ LoopOk(m, source) /\ m.st = loop[k].st /\ (AllFresh(loop[k]) => AllFresh(m))
      /\ \A s \in Srcs : HeardOn(m, s) = HeardOn(loop[k], s)
  BY <1>1, FlushOk
<1> HIDE DEF m
<1>4. /\ CallsOk' /\ PoolOk' /\ SourcesHeld' /\ \A q \in Procs : call'[q].loop = call[q].loop
  BY <1>1, ThreadKeeps
<1>5. Becomes(k, m)
  BY <1>1, <1>2, <1>4 DEF Becomes
<1>6. Allowed
  BY <1>1, <1>3, <1>5, SilentAllowed
<1> QED
  BY <1>4, <1>6 DEF Kept

\* mix_loop drops an input that has ended.
LEMMA MixDeadOk ==
  ASSUME MixInv, NEW k \in DOMAIN loop, NEW s \in Srcs, MixDead(k, s)
  PROVE  Kept
<1> DEFINE m == Silenced(loop[k], s)
<1>1. UNCHANGED <<source, pool, buses, call>> /\ LoopInv /\ LoopOk(loop[k], source)
  BY DEF MixDead, MixInv, LoopInv, LoopsOk
<1>2. loop' = [loop EXCEPT ![k] = m]
  BY <1>1 DEF MixDead, Silenced
<1>3. /\ loop[k].queue = <<>> /\ loop[k].active[s].knob # 0
      /\ source[loop[k].active[s].rx.src].st # "run"
  BY DEF MixDead, Dead
<1>4. /\ LoopOk(m, source) /\ m.st = loop[k].st /\ (AllFresh(loop[k]) => AllFresh(m))
      /\ HeardOn(m, s) = None
      /\ \A t \in Srcs \ {s} : HeardOn(m, t) = HeardOn(loop[k], t)
  BY <1>1, <1>3, DeadOk
<1> HIDE DEF m
<1>5. /\ CallsOk' /\ PoolOk' /\ SourcesHeld' /\ \A q \in Procs : call'[q].loop = call[q].loop
  BY <1>1, ThreadKeeps
<1>6. Becomes(k, m) /\ Without(k, m, s)
  BY <1>1, <1>2, <1>4, <1>5 DEF Becomes, Without
<1>7. Allowed
  BY <1>1, <1>4, <1>6, LoopAllowed
<1> QED
  BY <1>5, <1>7 DEF Kept

-----------------------------------------------------------------------------
(* The theorems. *)

\* Before the first call.
LEMMA MixInit ==
  ASSUME Init
  PROVE  MixInv /\ Console!Init
<1>1. PICK st \in Starts : call = [p \in Procs |-> Idle(IF p = Boot THEN "next"
                                                        ELSE IF p \in st.calls THEN "idle"
                                                        ELSE "done")]
  BY DEF Init
<1>2. /\ source = <<>> /\ pool = [s \in Srcs |-> 0] /\ loop = <<>> /\ buses = [b \in BusIds |-> 0]
  BY DEF Init
<1>3. \A p \in Procs : \E x \in Resting : call[p] = Idle(x) /\ (p = Halt => x \in {"idle", "done"})
  BY <1>1, MixerAssumption DEF Resting, Procs
<1>4. CallsOk
  <2>1. \A p \in Tasks : TaskOk(call[p], source)
    BY <1>3, IdleIs DEF Tasks, Procs
  <2>2. HaltOk(call[Halt])
    <3>1. PICK x \in {"idle", "done"} : call[Halt] = Idle(x)
      BY <1>3 DEF Procs
    <3>2. Idle(x).pc = x /\ Idle(x).src = 0 /\ Idle(x).loop = 0 /\ Shaped(Idle(x))
      BY DEF Idle, Shaped
    <3> QED
      BY <3>1, <3>2 DEF HaltOk
  <2>3. call = [p \in Procs |-> call[p]]
    BY <1>1
  <2> QED
    BY <2>1, <2>2, <2>3 DEF CallsOk
<1>5. PoolOk
  BY <1>2 DEF PoolOk
<1>6. SourcesHeld
  BY <1>2 DEF SourcesHeld
<1>7. LoopInv
  <2>1. LoopsOk /\ LoopsHeld
    BY <1>2 DEF LoopsOk, LoopsHeld
  <2>2. BusesOk
    BY <1>2 DEF BusesOk
  <2>3. \A p \in Tasks : call[p].loop = 0
    <3>1. \A p \in Tasks : \E x \in Resting : call[p] = Idle(x)
      BY <1>3 DEF Tasks, Procs
    <3>2. \A x \in Resting : Idle(x).loop = 0
      BY DEF Idle
    <3> QED
      BY <3>1, <3>2
  <2>4. MakingOk
    BY <2>3 DEF MakingOk
  <2> QED
    BY <2>1, <2>2, <2>4 DEF LoopInv
<1>8. Console!Init
  <2> DEFINE H == Heard
  <2>1. H = [b \in BusIds |-> H[b]] /\ \A b \in BusIds : H[b] = None
    BY <1>2, HeardIs
  <2> HIDE DEF H
  <2>2. H = [b \in BusIds |-> None]
    BY <2>1
  <2> QED
    BY <2>2 DEF Console!Init, H
<1> QED
  BY <1>4, <1>5, <1>6, <1>7, <1>8 DEF MixInv

\* Every step keeps the invariant, and is one of the console or none.
LEMMA MixStep ==
  ASSUME MixInv, [Next]_vars
  PROVE  MixInv' /\ (Console!Next \/ UNCHANGED Heard)
<1> SUFFICES Kept
  BY DEF Kept, Allowed, ConsoleStep, MixInv
<1>1. ASSUME NEW p \in Tasks, Step(p) PROVE Kept
  BY <1>1, EnsureLookOk, EnsureOpenOk, EnsureInsertOk, StartBusOk, FillBusOk, ListBusOk,
     RemoveBusOk, AddInputOk, RemoveInputOk, SetVolumeOk, SetMutedOk, PersistOk DEF Step
<1>2. CASE \E c \in Calls, r \in Requests : Begin(c, r)
  BY <1>2, BeginOk
<1>3. CASE \E b \in BusIds : RestoreNext(b) \/ HaltBus(b)
  BY <1>3, RestoreOk, HaltBusOk
<1>4. CASE HaltBegin \/ HaltDetach \/ HaltEnd \/ \E s \in Srcs : HaltSource(s)
  BY <1>4, HaltEdgesOk, HaltDetachOk, HaltSourceOk
<1>5. CASE \E k \in DOMAIN source : SourceEnds(k)
  BY <1>5, SourceEndsOk
<1>6. CASE \E k \in DOMAIN loop : MixApply(k) \/ \E s \in Srcs : MixDead(k, s)
  BY <1>6, MixApplyOk, MixDeadOk
<1>7. CASE UNCHANGED vars
  <2>1. UNCHANGED <<source, pool, buses, call, loop>> /\ LoopInv
    BY <1>7 DEF vars, MixInv
  <2>2. /\ CallsOk' /\ PoolOk' /\ SourcesHeld' /\ Later(source, source')
        /\ \A q \in Procs : call'[q].loop = call[q].loop
    BY <2>1, ThreadKeeps
  <2>3. Allowed
    BY <2>1, <2>2, QuietLoops DEF Allowed
  <2> QED
    BY <2>2, <2>3 DEF Kept
<1> QED
  BY <1>1, <1>2, <1>3, <1>4, <1>5, <1>6, <1>7 DEF Next, Tasks

\* The invariant lasts.
THEOREM MixInvAlways == Spec => []MixInv
<1>1. Init => MixInv
  BY MixInit
<1>2. MixInv /\ [Next]_vars => MixInv'
  BY MixStep
<1> QED
  BY <1>1, <1>2, PTL DEF Spec

(***************************************************************************)
(* What the mixing threads hear, once they have caught up, changes only as *)
(* MixConsole allows: create_bus, remove_bus, bus_add_input,               *)
(* bus_remove_input, bus_set_volume and bus_set_muted, restore_all,        *)
(* shutdown and the ends of streams each take effect as one operation of   *)
(* the console or as none, for any buses, sources, requests and faults.    *)
(***************************************************************************)
THEOREM ConsoleImplementedAlways == Spec => ConsoleImplemented
<1>1. Init => Console!Init
  BY MixInit
<1>2. MixInv /\ [Next]_vars => [Console!Next]_Heard
  BY MixStep
<1> QED
  BY <1>1, <1>2, MixInvAlways, PTL DEF Spec, ConsoleImplemented, Console!Spec

(***************************************************************************)
(* For every input the API lists, the thread reads the very knob the API   *)
(* turns once its queue is applied, unless a source of that device has     *)
(* ended, and it mixes nothing the API does not list: add_input and        *)
(* remove_input keep the two ends of the command queue together.           *)
(***************************************************************************)
THEOREM KnobWorksAlways == Spec => []KnobWorks
<1>1. MixInv => KnobWorks
  <2> SUFFICES ASSUME MixInv, NEW b \in BusIds, buses[b] # 0, NEW s \in Srcs
               PROVE  LET l == loop[buses[b]] IN
                      /\ KnobOf(l, s) \in {l.controls[s], 0}
                      /\ (KnobOf(l, s) = 0 /\ l.controls[s] # 0) =>
                           \E k \in DOMAIN source : source[k].dev = s /\ source[k].st # "run"
    BY DEF KnobWorks
  <2>1. LoopOk(loop[buses[b]], source)
    BY OnBus DEF MixInv
  <2>2. WiredOk(loop[buses[b]], s, source)
    BY <2>1 DEF LoopOk
  <2> QED
    BY <2>2 DEF WiredOk
<1> QED
  BY <1>1, MixInvAlways, PTL

(***************************************************************************)
(* A source that reads is in the pool or with the call that opened it, and *)
(* a mixing thread belongs to a listed bus or to the call that creates it, *)
(* however ensure_source, create_bus, remove_bus and shutdown interleave.  *)
(***************************************************************************)
THEOREM NothingUnownedAlways == Spec => []NothingUnowned
<1>1. MixInv => NothingUnowned
  BY DEF MixInv, LoopInv, SourcesHeld, LoopsHeld, NothingUnowned
<1> QED
  BY <1>1, MixInvAlways, PTL

-----------------------------------------------------------------------------
(* What is saved. *)

\* What persist_all would write.
Now == [b \in BusIds |-> IF buses[b] = 0 THEN None ELSE Settings(loop[buses[b]])]

\* What shutdown has before it.
HaltJob == [buses : SUBSET BusIds, srcs : SUBSET Srcs]

HaltJobOk ==
  /\ call[Halt].job \in HaltJob \cup {None}
  /\ Busy(Halt) => call[Halt].job \in HaltJob

\* Without an overlap one is busy, and shutdown comes last.
AloneOk ==
  clean => /\ \A p, q \in Procs : Busy(p) /\ Busy(q) => p = q
           /\ call[Halt].job # None => saved = NoRow /\ \A p \in Tasks : ~Busy(p)

\* What is about to be written is still so.
SnapOk == clean => \A p \in Tasks : At(p, "save") => call[p].snap = Now

Writing == {"persist", "save"}

\* restore_all is making a bus.
Creates(c) == c.pc \notin Resting /\ c.job.op = "create"

\* The row is what the buses are, or will be: somebody is about to write it,
\* restore_all is making a bus, or it has not begun.
RowOk ==
  clean /\ call[Halt].job = None =>
    \/ \E p \in Tasks : call[p].pc \in Writing
    \/ Creates(call[Boot])
    \/ row = Now
    \/ saved = row /\ Now = NoRow

UntouchedOk == ~touched => \A c \in Calls : ~Busy(c)

\* A saved bus.
Saved == [Srcs -> Setting \cup {None}]

Muted(r) == {s \in Srcs : r[s] # None /\ r[s].muted}

\* Bus r before the inputs in T are muted.
Before(r, T) ==
  [s \in Srcs |-> IF r[s] = None THEN None
                  ELSE [volume |-> r[s].volume, muted |-> r[s].muted /\ s \notin T]]

\* The first n inputs have their sources in pool P.
Ensured(is, n, P) == \A i \in 1..n : P[is[i].src] # 0

Making == {"ensure", "open", "insert", "start", "fill", "list"}

\* Call c restores a bus that was saved as r: with pool P, its loop l, and x listed.
Restores(c, P, l, x, r) ==
  /\ r # None
  /\ c.pc \in Making \cup Writing \cup {"mute"}
  /\ c.pc \in Making => c.job.op = "create" /\ c.mutes = Muted(r) /\ IsInputs(c.job.inputs, r)
  /\ c.pc \in {"ensure", "open", "insert"} => Ensured(c.job.inputs, c.at - 1, P)
  /\ c.pc \in {"start", "fill"} => Ensured(c.job.inputs, Len(c.job.inputs), P)
  /\ c.pc = "fill" => \A s \in Srcs : l.controls[s] = 0
  /\ c.pc = "list" => Settings(l) = Before(r, Muted(r))
  /\ c.pc \in Writing => c.mutes \subseteq Muted(r) /\ x = Before(r, c.mutes)
  /\ c.pc = "mute" => LET s == c.job.inputs[1].src IN
                      /\ s \in Muted(r) /\ c.mutes \subseteq Muted(r) /\ s \notin c.mutes
                      /\ c.job.muted /\ x = Before(r, c.mutes \cup {s})

Underway(r) == Restores(call[Boot], pool, loop[call[Boot].loop], Now[call[Boot].job.bus], r)

BootOn(b) == call[Boot].pc \notin Resting /\ call[Boot].job.bus = b

\* How far restore_all is with row r.
Backing(r) ==
  \A b \in BusIds :
    /\ saved[b] # None => saved[b] = r[b] /\ ~BootOn(b)
    /\ saved[b] = None /\ ~BootOn(b) => Now[b] = r[b]
    /\ BootOn(b) => Underway(r[b])

RestoreOn ==
  clean /\ ~touched => \E st \in Starts : IF call[Halt].job = None THEN Backing(st.row)
                                          ELSE row = st.row

SaveInv == saved \in Row /\ HaltJobOk /\ AloneOk /\ SnapOk /\ RowOk /\ UntouchedOk /\ RestoreOn

\* Who is who.
LEMMA WhoIs ==
  /\ Boot \in Tasks /\ Boot \in Procs /\ Halt \in Procs /\ Halt \notin Tasks /\ Boot # Halt
  /\ Tasks \subseteq Procs /\ Calls \subseteq Tasks /\ Boot \notin Calls
  /\ \A p \in Procs : p \in Tasks \/ p = Halt
  /\ \A p \in Tasks : p \in Calls \/ p = Boot
BY MixerAssumption DEF Tasks, Procs

\* Row by row.
LEMMA NowIs ==
  /\ Now = [b \in BusIds |-> Now[b]]
  /\ \A b \in BusIds : Now[b] = IF buses[b] = 0 THEN None ELSE Settings(loop[buses[b]])
BY DEF Now

LEMMA NowIsThen ==
  /\ Now' = [b \in BusIds |-> Now'[b]]
  /\ \A b \in BusIds : Now'[b] = IF buses'[b] = 0 THEN None ELSE Settings(loop'[buses'[b]])
BY DEF Now, Settings

LEMMA NowSame ==
  ASSUME \A b \in BusIds : Now'[b] = Now[b]
  PROVE  Now' = Now
<1> DEFINE M == Now
           N == Now'
<1>1. M = [b \in BusIds |-> M[b]] /\ N = [b \in BusIds |-> N[b]] /\ \A b \in BusIds : N[b] = M[b]
  BY NowIs, NowIsThen
<1> HIDE DEF M, N
<1>2. M = N
  BY <1>1
<1> QED
  BY <1>2 DEF M, N

\* No bus and no loop changes.
LEMMA NowQuiet ==
  ASSUME UNCHANGED <<loop, buses>>
  PROVE  Now' = Now
BY NowIs, NowIsThen, NowSame

\* Loop k becomes m.
LEMMA NowOne ==
  ASSUME LoopInv, NEW k \in DOMAIN loop, NEW m, loop' = [loop EXCEPT ![k] = m], buses' = buses
  PROVE  \A b \in BusIds : Now'[b] = IF buses[b] = k THEN Settings(m) ELSE Now[b]
<1>1. loop \in Seq(Loop) /\ k # 0
  BY DEF LoopInv, LoopsOk
<1>2. loop'[k] = m /\ \A j \in DOMAIN loop : j # k => loop'[j] = loop[j]
  BY <1>1
<1>3. \A b \in BusIds : buses[b] # 0 => buses[b] \in DOMAIN loop
  BY DEF LoopInv, BusesOk
<1> QED
  BY <1>1, <1>2, <1>3, NowIs, NowIsThen

\* A task becomes c: the others, and shutdown, are as they were.
LEMMA OneGoes ==
  ASSUME MixInv, NEW p \in Tasks, NEW c, Moves(p, c)
  PROVE  /\ call'[p] = c /\ (\A q \in Procs \ {p} : call'[q] = call[q])
         /\ call'[Halt] = call[Halt] /\ p \in Procs
<1>1. call = [q \in Procs |-> call[q]] /\ p \in Procs
  BY WhoIs DEF MixInv, CallsOk
<1>2. call'[p] = c /\ (\A q \in Procs \ {p} : call'[q] = call[q])
  BY <1>1 DEF Moves
<1> QED
  BY <1>1, <1>2, WhoIs

-----------------------------------------------------------------------------
(* What a step of a task has to show. *)

\* Task p becomes c, at work until now, and takes nothing from restore_all's list.
Works(p, c) ==
  /\ Moves(p, c) /\ call[p].pc \notin Resting
  /\ UNCHANGED <<saved, touched>> /\ (clean' => clean)

\* What it writes, or is about to write.
WritesOk(p, c) ==
  /\ c.pc = "save" => c.snap = Now'
  /\ \/ c.pc \in Writing \/ (p = Boot /\ Creates(c)) \/ row' = Now'
     \/ /\ call[p].pc \notin Writing /\ ~(p = Boot /\ Creates(call[p]))
        /\ row' = row /\ Now' = Now

\* What restore_all has come to.
BacksOk(c) ==
  \A r \in Saved : Underway(r) =>
    /\ \A b \in BusIds : b # call[Boot].job.bus => Now'[b] = Now[b]
    /\ IF c.pc \in Resting THEN Now'[call[Boot].job.bus] = r
       ELSE /\ c.job.bus = call[Boot].job.bus
            /\ Restores(c, pool', loop'[c.loop], Now'[c.job.bus], r)

\* Then it keeps the invariant.
LEMMA TaskKeeps ==
  ASSUME MixInv, SaveInv, NEW p \in Tasks, NEW c, Works(p, c),
         clean' => WritesOk(p, c) /\ (p = Boot => BacksOk(c))
  PROVE  SaveInv'
<1>1. /\ call'[p] = c /\ (\A q \in Procs \ {p} : call'[q] = call[q])
      /\ call'[Halt] = call[Halt] /\ p \in Procs /\ p # Halt
  BY OneGoes, WhoIs DEF Works
<1>2. \A q \in Procs : Busy(q)' => Busy(q)
  BY <1>1 DEF Busy, Works, Resting
<1>3. UNCHANGED <<saved, touched>> /\ (clean' => clean) /\ Busy(p)
  BY DEF Works, Busy, Resting
<1>4. HaltJobOk'
  BY <1>1 DEF SaveInv, HaltJobOk, Busy
<1>5. AloneOk'
  <2> SUFFICES ASSUME clean' PROVE AloneOk'
    BY DEF AloneOk
  <2>1. /\ \A x, y \in Procs : Busy(x) /\ Busy(y) => x = y
        /\ call[Halt].job # None => saved = NoRow /\ \A x \in Tasks : ~Busy(x)
    BY <1>3 DEF SaveInv, AloneOk
  <2>2. \A x, y \in Procs : Busy(x)' /\ Busy(y)' => x = y
    BY <1>2, <2>1
  <2>3. call'[Halt].job # None => saved' = NoRow /\ \A x \in Tasks : ~Busy(x)'
    BY <1>1, <1>2, <1>3, <2>1, WhoIs
  <2> QED
    BY <2>2, <2>3 DEF AloneOk
<1>6. UntouchedOk'
  BY <1>2, <1>3, WhoIs DEF SaveInv, UntouchedOk
<1>7. ASSUME clean'
      PROVE  /\ call[Halt].job = None
             /\ \A q \in Tasks : q # p => call[q].pc \in Resting /\ call'[q] = call[q]
  BY <1>1, <1>3, <1>7, WhoIs DEF SaveInv, AloneOk, Busy, Resting
<1>8. SnapOk'
  <2> SUFFICES ASSUME clean', NEW q \in Tasks, call'[q].pc = "save" PROVE call'[q].snap = Now'
    BY DEF SnapOk, At
  <2>1. q = p
    BY <1>7 DEF Resting
  <2> QED
    BY <1>1, <2>1 DEF WritesOk
<1>9. RowOk'
  <2> SUFFICES ASSUME clean'
               PROVE  \/ \E q \in Tasks : call'[q].pc \in Writing
                      \/ Creates(call'[Boot])
                      \/ row' = Now'
                      \/ saved' = row' /\ Now' = NoRow
    BY DEF RowOk, Creates
  <2>1. CASE c.pc \in Writing \/ (p = Boot /\ Creates(c)) \/ row' = Now'
    BY <1>1, <2>1
  <2>2. CASE /\ call[p].pc \notin Writing /\ ~(p = Boot /\ Creates(call[p]))
             /\ row' = row /\ Now' = Now
    <3>1. /\ call[Halt].job = None
          /\ \A q \in Tasks : call[q].pc \notin Writing
          /\ ~Creates(call[Boot])
      BY <1>7, <2>2, WhoIs DEF Writing, Resting, Creates
    <3>2. row = Now \/ (saved = row /\ Now = NoRow)
      BY <1>3, <3>1 DEF SaveInv, RowOk
    <3> QED
      BY <1>3, <2>2, <3>2
  <2> QED
    BY <2>1, <2>2 DEF WritesOk
<1>10. RestoreOn'
  <2> SUFFICES ASSUME clean', ~touched'
               PROVE  \E st \in Starts : IF call'[Halt].job = None THEN Backing(st.row)'
                                         ELSE row' = st.row
    BY DEF RestoreOn
  <2>1. call'[Halt].job = None /\ p = Boot
    BY <1>1, <1>3, <1>7, WhoIs DEF SaveInv, UntouchedOk
  <2>2. PICK st \in Starts : Backing(st.row)
    BY <1>1, <1>3, <2>1 DEF SaveInv, RestoreOn
  <2>3. st.row \in Row
    BY MixerAssumption
  <2>4. call[Boot].pc \notin Resting /\ BacksOk(c) /\ call'[Boot] = c
    BY <1>1, <2>1 DEF Works
  <2>5. ASSUME NEW b \in BusIds
        PROVE  /\ saved'[b] # None => saved'[b] = st.row[b] /\ ~BootOn(b)'
               /\ saved'[b] = None /\ ~BootOn(b)' => Now'[b] = st.row[b]
               /\ BootOn(b)' => Underway(st.row[b])'
    <3>1. /\ saved[b] # None => saved[b] = st.row[b] /\ ~BootOn(b)
          /\ saved[b] = None /\ ~BootOn(b) => Now[b] = st.row[b]
          /\ BootOn(b) => Underway(st.row[b])
      BY <2>2 DEF Backing
    <3>2. PICK d \in BusIds : d = call[Boot].job.bus
      BY <2>4, AtWork, WhoIs DEF JobOk
    <3>3. Underway(st.row[d]) /\ st.row[d] \in Saved
      <4>1. BootOn(d)
        BY <2>4, <3>2 DEF BootOn
      <4>2. Underway(st.row[d])
        BY <2>2, <4>1 DEF Backing
      <4>3. st.row[d] # None
        BY <4>2 DEF Underway, Restores
      <4> QED
        BY <2>3, <4>2, <4>3 DEF Row, Saved
    <3>4. /\ \A x \in BusIds : x # d => Now'[x] = Now[x]
          /\ IF c.pc \in Resting THEN Now'[d] = st.row[d]
             ELSE c.job.bus = d /\ Restores(c, pool', loop'[c.loop], Now'[c.job.bus], st.row[d])
      BY <2>4, <3>2, <3>3 DEF BacksOk
    <3>5. BootOn(b)' <=> (c.pc \notin Resting /\ b = d)
      BY <2>4, <3>4 DEF BootOn
    <3>6. BootOn(b) <=> b = d
      BY <2>4, <3>2 DEF BootOn
    <3>7. BootOn(b)' => Underway(st.row[b])'
      BY <2>4, <3>4, <3>5 DEF Underway, Restores, Settings
    <3> QED
      BY <1>3, <3>1, <3>4, <3>5, <3>6, <3>7
  <2>6. Backing(st.row)'
    BY <2>5 DEF Backing
  <2> QED
    BY <2>1, <2>6
<1> QED
  BY <1>3, <1>4, <1>5, <1>6, <1>8, <1>9, <1>10 DEF SaveInv, Row

-----------------------------------------------------------------------------
(* The steps of a task. *)

\* An error: nothing that is saved changes.
LEMMA FailKeeps ==
  ASSUME MixInv, SaveInv, NEW p \in Tasks, call[p].pc \notin Resting \cup Writing, Fail(p),
         UNCHANGED <<row, saved, touched>>, Now' = Now,
         p = Boot /\ call[p].pc = "mute" => \A r \in Saved : ~Underway(r)
  PROVE  SaveInv'
<1>1. /\ JobOk(Job(p)) /\ JobFits(call[p]) /\ Job(p) = call[p].job
  BY AtWork
<1>2. CASE p # Boot /\ call' = [call EXCEPT ![p] = Idle("done")] /\ UNCHANGED clean
  <2>1. Idle("done").pc = "done"
    BY DEF Idle
  <2>2. Works(p, Idle("done"))
    BY <1>2 DEF Works, Moves
  <2>3. WritesOk(p, Idle("done"))
    BY <1>2, <2>1 DEF WritesOk
  <2> QED
    BY <1>2, <2>2, <2>3, TaskKeeps
<1>3. CASE p = Boot /\ Job(p).op = "mute" /\ UNCHANGED clean /\ call' = [call EXCEPT ![p] = AfterSave(p)]
  <2>1. Works(p, AfterSave(p))
    BY <1>3 DEF Works, Moves
  <2>2. AfterSave(p).pc \in {"next", "mute"}
    <3>1. CASE call[p].mutes = {}
      BY <1>3, <3>1 DEF AfterSave, Idle
    <3>2. CASE call[p].mutes # {}
      <4>1. PICK j, m : AfterSave(p) = Begun("mute", j, m)
        BY <1>3, <3>2 DEF AfterSave, Begun
      <4> QED
        BY <4>1, BeginsWith
    <3> QED
      BY <3>1, <3>2
  <2>3. WritesOk(p, AfterSave(p))
    BY <1>1, <1>3, <2>2 DEF WritesOk, Creates
  <2>4. BacksOk(AfterSave(p))
    <3> SUFFICES ASSUME NEW r \in Saved, Underway(r) PROVE FALSE
      BY DEF BacksOk
    <3>1. call[p].pc = "mute"
      BY <1>1, <1>3 DEF Underway, Restores, Making
    <3> QED
      BY <1>3, <3>1
  <2> QED
    BY <2>1, <2>3, <2>4, TaskKeeps
<1>4. CASE /\ p = Boot /\ Job(p).op = "create" /\ UNCHANGED clean
           /\ call' = [call EXCEPT ![p] =
                         [Idle("ensure") EXCEPT !.job = Job(p), !.mutes = call[p].mutes]]
  <2> DEFINE c == Begun("ensure", Job(p), call[p].mutes)
  <2>1. c.pc = "ensure" /\ c.job = call[p].job /\ c.at = 1 /\ c.mutes = call[p].mutes
    BY <1>1, BeginsWith
  <2>2. Works(p, c)
    BY <1>4 DEF Works, Moves, Begun
  <2> HIDE DEF c
  <2>3. WritesOk(p, c)
    BY <1>1, <1>4, <2>1 DEF WritesOk, Creates, Resting
  <2>4. BacksOk(c)
    <3> SUFFICES ASSUME NEW r \in Saved, Underway(r)
                 PROVE  Restores(c, pool', loop'[c.loop], Now'[c.job.bus], r)
      BY <1>4, <2>1 DEF BacksOk, Resting
    <3>1. call[p].pc \in Making
      BY <1>1, <1>4 DEF Underway, Restores, Writing, JobFits
    <3>2. r # None /\ call[p].mutes = Muted(r) /\ IsInputs(call[p].job.inputs, r)
      BY <1>4, <3>1 DEF Underway, Restores
    <3>3. Ensured(c.job.inputs, c.at - 1, pool')
      BY <2>1 DEF Ensured
    <3> QED
      BY <1>1, <1>4, <2>1, <3>2, <3>3 DEF Restores, Making, Writing
  <2> QED
    BY <2>2, <2>3, <2>4, TaskKeeps
<1>5. CASE p = Boot /\ clean' = FALSE /\ call' = [call EXCEPT ![p] = Idle("next")]
  <2>1. Works(p, Idle("next"))
    BY <1>5 DEF Works, Moves
  <2> QED
    BY <1>5, <2>1, TaskKeeps
<1> QED
  BY <1>2, <1>3, <1>4, <1>5 DEF Fail

\* Where a call goes when it has a source, field by field.
LEMMA AfterEnsureGoes ==
  ASSUME MixInv, NEW p \in Tasks, call[p].pc \in {"ensure", "insert"}, Job(p).inputs # <<>>
  PROVE  LET c == AfterEnsure(p)
             o == call[p]
             n == Len(o.job.inputs)
         IN /\ c.job = o.job /\ c.mutes = o.mutes /\ c.loop = o.loop
            /\ o.at \in 1..n /\ n \in Nat
            /\ \/ o.at < n /\ c.pc = "ensure" /\ c.at = o.at + 1
               \/ o.at = n /\ o.job.op = "create" /\ c.pc = "start"
               \/ o.at = n /\ o.job.op = "add" /\ c.pc = "add"
<1> DEFINE o == call[p]
           j == Job(p)
           c == AfterEnsure(p)
           n == Len(j.inputs)
<1>1. Shaped(o) /\ JobOk(j) /\ JobFits(o) /\ j = o.job
  BY AtWork DEF Resting
<1>2. o.at \in 1..n /\ j.op \in {"create", "add"} /\ n \in Nat
  BY <1>1 DEF JobFits, JobOk
<1>3. CASE o.at < n
  <2>1. c = [o EXCEPT !.pc = "ensure", !.at = o.at + 1, !.src = 0]
    BY <1>3 DEF AfterEnsure
  <2> HIDE DEF c, o, j
  <2>2. c.job = o.job /\ c.mutes = o.mutes /\ c.loop = o.loop /\ c.pc = "ensure" /\ c.at = o.at + 1
    BY <1>1, <2>1 DEF Shaped
  <2> QED
    BY <1>1, <1>2, <1>3, <2>2 DEF c, o, j
<1>4. CASE ~(o.at < n)
  <2> DEFINE x == IF j.op = "create" THEN "start" ELSE "add"
  <2>1. c = [o EXCEPT !.pc = x, !.src = 0]
    BY <1>4 DEF AfterEnsure
  <2>2. (x = "start" /\ j.op = "create") \/ (x = "add" /\ j.op = "add")
    BY <1>2
  <2>3. o.at = n
    BY <1>2, <1>4
  <2> HIDE DEF c, o, j, x, n
  <2>4. c.job = o.job /\ c.mutes = o.mutes /\ c.loop = o.loop /\ c.pc = x
    BY <1>1, <2>1 DEF Shaped
  <2>5. \/ o.at = n /\ o.job.op = "create" /\ c.pc = "start"
        \/ o.at = n /\ o.job.op = "add" /\ c.pc = "add"
    BY <1>1, <2>2, <2>3, <2>4
  <2> QED
    BY <1>1, <1>2, <2>4, <2>5 DEF c, o, j, n
<1> QED
  BY <1>3, <1>4

\* The call has a source for its input, and goes on.
LEMMA EnsuredKeeps ==
  ASSUME MixInv, SaveInv, NEW p \in Tasks, call[p].pc \in {"ensure", "insert"}, Job(p).inputs # <<>>,
         Moves(p, AfterEnsure(p)), UNCHANGED <<loop, buses, row, saved, touched, clean>>,
         \A s \in Srcs : pool[s] # 0 => pool'[s] # 0, pool'[Cur(p).src] # 0
  PROVE  SaveInv'
<1> DEFINE c == AfterEnsure(p)
           o == call[p]
           is == o.job.inputs
           n == Len(is)
<1>1. /\ c.job = o.job /\ c.mutes = o.mutes /\ c.loop = o.loop
      /\ o.at \in 1..n /\ n \in Nat
      /\ \/ o.at < n /\ c.pc = "ensure" /\ c.at = o.at + 1
         \/ o.at = n /\ o.job.op = "create" /\ c.pc = "start"
         \/ o.at = n /\ o.job.op = "add" /\ c.pc = "add"
  BY AfterEnsureGoes
<1>2. Works(p, c) /\ Now' = Now
  BY NowQuiet DEF Works, Resting
<1>3. JobOk(o.job) /\ o.job = Job(p)
  BY AtWork DEF Resting
<1>4. WritesOk(p, c)
  BY <1>1, <1>2 DEF WritesOk, Writing, Creates, Resting
<1>5. ASSUME p = Boot PROVE BacksOk(c)
  <2> SUFFICES ASSUME NEW r \in Saved, Underway(r)
               PROVE  Restores(c, pool', loop'[c.loop], Now'[c.job.bus], r)
    BY <1>1, <1>2, <1>5 DEF BacksOk, Resting
  <2>1. /\ r # None /\ o.job.op = "create" /\ o.mutes = Muted(r) /\ IsInputs(is, r)
        /\ Ensured(is, o.at - 1, pool)
    BY <1>5 DEF Underway, Restores, Making
  <2>2. Ensured(is, o.at, pool')
    <3> SUFFICES ASSUME NEW i \in 1..o.at PROVE pool'[is[i].src] # 0
      BY DEF Ensured
    <3>1. CASE i = o.at
      BY <1>3, <3>1 DEF Cur
    <3>2. CASE i # o.at
      <4>1. i \in 1..(o.at - 1) /\ i \in 1..n
        BY <1>1, <3>2
      <4>2. pool[is[i].src] # 0
        BY <2>1, <4>1 DEF Ensured
      <4>3. is[i].src \in Srcs
        <5> DEFINE W == [src : Srcs, volume : Volumes \cup {0}]
        <5>1. is \in Seq(W)
          BY <1>3 DEF JobOk
        <5>2. i \in 1..Len(is)
          BY <4>1
        <5> HIDE DEF is, W
        <5>3. is[i] \in W
          BY <5>1, <5>2
        <5> QED
          BY <5>3 DEF W
      <4> QED
        BY <4>2, <4>3
    <3> QED
      BY <3>1, <3>2
  <2> HIDE DEF c, is
  <2>3. CASE c.pc = "ensure" /\ c.at = o.at + 1
    <3>1. c.at - 1 = o.at
      BY <1>1, <2>3
    <3> QED
      BY <1>1, <2>1, <2>2, <2>3, <3>1 DEF Restores, Making, Writing, is
  <2>4. CASE c.pc = "start" /\ o.at = n
    BY <1>1, <2>1, <2>2, <2>4 DEF Restores, Making, Writing, is
  <2> QED
    BY <1>1, <2>1, <2>3, <2>4
<1> HIDE DEF c
<1> QED
  BY <1>2, <1>4, <1>5, TaskKeeps DEF Works

LEMMA EnsureLookKeeps ==
  ASSUME MixInv, SaveInv, NEW p \in Tasks, EnsureLook(p)
  PROVE  SaveInv'
<1>1. /\ call[p].pc = "ensure" /\ UNCHANGED <<source, pool, loop, buses, row, saved, touched>>
      /\ Now' = Now
  BY NowQuiet DEF EnsureLook, At
<1>2. Shaped(call[p]) /\ Job(p) = call[p].job
  BY <1>1, AtWork DEF Resting
<1>3. CASE Job(p).inputs = <<>> /\ Fail(p)
  BY <1>1, <1>3, FailKeeps DEF Resting, Writing
<1>4. CASE Job(p).inputs # <<>> /\ UNCHANGED clean /\ Moves(p, AfterEnsure(p)) /\ pool[Cur(p).src] # 0
  BY <1>1, <1>4, EnsuredKeeps
<1>5. CASE Job(p).inputs # <<>> /\ UNCHANGED clean /\ Moves(p, [call[p] EXCEPT !.pc = "open"])
  <2> DEFINE o == call[p]
             c == [o EXCEPT !.pc = "open"]
  <2>1. Works(p, c) /\ Shaped(o)
    BY <1>1, <1>2, <1>5 DEF Works, Resting
  <2> HIDE DEF o
  <2>2. c.pc = "open" /\ c.job = o.job /\ c.at = o.at /\ c.mutes = o.mutes
    BY <2>1 DEF Shaped
  <2> HIDE DEF c
  <2>3. WritesOk(p, c)
    BY <1>1, <2>2 DEF WritesOk, Writing, Creates, Resting, o
  <2>4. ASSUME p = Boot PROVE BacksOk(c)
    BY <1>1, <2>2, <2>4 DEF BacksOk, Resting, Underway, Restores, Making, Writing, o
  <2> QED
    BY <2>1, <2>3, <2>4, TaskKeeps
<1> QED
  BY <1>3, <1>4, <1>5 DEF EnsureLook, Moves

LEMMA EnsureOpenKeeps ==
  ASSUME MixInv, SaveInv, NEW p \in Tasks, NEW ok \in BOOLEAN, EnsureOpen(p, ok)
  PROVE  SaveInv'
<1>1. /\ call[p].pc = "open" /\ UNCHANGED <<pool, loop, buses, row, saved, touched>>
      /\ Now' = Now
  BY NowQuiet DEF EnsureOpen, At
<1>2. Shaped(call[p]) /\ Job(p) = call[p].job /\ p \in Procs /\ call = [q \in Procs |-> call[q]]
  BY <1>1, AtWork DEF Resting
<1>3. CASE Fail(p)
  BY <1>1, <1>3, FailKeeps DEF Resting, Writing
<1>4. CASE UNCHANGED clean /\ call' = [call EXCEPT ![p].pc = "insert", ![p].src = Len(source) + 1]
  <2> DEFINE o == call[p]
             n == Len(source) + 1
             c == [o EXCEPT !.pc = "insert", !.src = n]
  <2>1. Works(p, c) /\ Shaped(o)
    BY <1>1, <1>2, <1>4 DEF Works, Resting, Moves
  <2>2. c = [o EXCEPT !.pc = "insert", !.src = n]
    OBVIOUS
  <2> HIDE DEF o, c, n
  <2>3. c.pc = "insert" /\ c.job = o.job /\ c.at = o.at /\ c.mutes = o.mutes
    BY <2>1, <2>2 DEF Shaped
  <2>4. WritesOk(p, c)
    BY <1>1, <2>3 DEF WritesOk, Writing, Creates, Resting, o
  <2>5. ASSUME p = Boot PROVE BacksOk(c)
    BY <1>1, <2>3, <2>5 DEF BacksOk, Resting, Underway, Restores, Making, Writing, o
  <2> QED
    BY <2>1, <2>4, <2>5, TaskKeeps
<1> QED
  BY <1>3, <1>4 DEF EnsureOpen

LEMMA EnsureInsertKeeps ==
  ASSUME MixInv, SaveInv, NEW p \in Tasks, EnsureInsert(p)
  PROVE  SaveInv'
<1> DEFINE s == Cur(p).src
           mine == call[p].src
<1>1. /\ call[p].pc = "insert" /\ UNCHANGED <<loop, buses, row, saved, touched, clean>>
      /\ Moves(p, AfterEnsure(p)) /\ pool' = IF pool[s] = 0 THEN [pool EXCEPT ![s] = mine] ELSE pool
  BY DEF EnsureInsert, At, Moves
<1>2. Job(p).inputs # <<>> /\ s \in Srcs
  BY <1>1, CurIs
<1>3. mine \in DOMAIN source /\ source \in Seq(Source) /\ pool \in [Srcs -> Nat]
  BY <1>1, AtWork DEF Resting, TaskOk, MixInv, PoolOk
<1>4. mine # 0
  BY <1>3
<1> HIDE DEF s, mine
<1>5. pool'[s] # 0 /\ \A t \in Srcs : pool[t] # 0 => pool'[t] # 0
  BY <1>1, <1>2, <1>3, <1>4
<1> QED
  BY <1>1, <1>2, <1>5, EnsuredKeeps DEF s

\* A loop more is on no bus.
LEMMA NowMore ==
  ASSUME LoopInv, NEW m, loop' = Append(loop, m), buses' = buses
  PROVE  Now' = Now
<1>1. loop \in Seq(Loop) /\ \A b \in BusIds : buses[b] # 0 => buses[b] \in DOMAIN loop
  BY DEF LoopInv, LoopsOk, BusesOk
<1>2. \A k \in DOMAIN loop : loop'[k] = loop[k]
  BY <1>1
<1> QED
  BY <1>1, <1>2, NowIs, NowIsThen, NowSame

LEMMA StartBusKeeps ==
  ASSUME MixInv, SaveInv, NEW p \in Tasks, NEW ok \in BOOLEAN, StartBus(p, ok)
  PROVE  SaveInv'
<1>1. call[p].pc = "start" /\ UNCHANGED <<pool, buses, row, saved, touched>> /\ LoopInv
  BY DEF StartBus, At, MixInv
<1>2. /\ Shaped(call[p]) /\ Job(p) = call[p].job /\ p \in Procs /\ call = [q \in Procs |-> call[q]]
      /\ JobFits(call[p])
  BY <1>1, AtWork DEF Resting
<1>3. CASE Fail(p) /\ UNCHANGED loop
  <2>1. Now' = Now
    BY <1>1, <1>3, NowQuiet
  <2> QED
    BY <1>1, <1>3, <2>1, FailKeeps DEF Resting, Writing
<1>4. CASE loop' = Append(loop, [NewLoop EXCEPT !.st = "leaked"]) /\ Fail(p)
  <2>1. Now' = Now
    BY <1>1, <1>4, NowMore
  <2> QED
    BY <1>1, <1>4, <2>1, FailKeeps DEF Resting, Writing
<1>5. CASE /\ loop' = Append(loop, NewLoop) /\ UNCHANGED clean
           /\ call' = [call EXCEPT ![p].pc = "fill", ![p].loop = Len(loop) + 1]
  <2> DEFINE o == call[p]
             n == Len(loop) + 1
             c == [o EXCEPT !.pc = "fill", !.loop = n]
  <2>1. Works(p, c) /\ Shaped(o) /\ JobFits(o) /\ o.pc = "start"
    BY <1>1, <1>2, <1>5 DEF Works, Resting, Moves
  <2>2. c = [o EXCEPT !.pc = "fill", !.loop = n]
    OBVIOUS
  <2>3. Now' = Now
    BY <1>1, <1>5, NowMore
  <2>4. loop'[n] = NewLoop
    BY <1>1, <1>5 DEF LoopInv, LoopsOk
  <2>5. \A s \in Srcs : loop'[n].controls[s] = 0
    BY <2>4 DEF NewLoop
  <2> HIDE DEF o, c, n
  <2>6. c.pc = "fill" /\ c.job = o.job /\ c.at = o.at /\ c.mutes = o.mutes /\ c.loop = n
    BY <2>1, <2>2 DEF Shaped
  <2>7. WritesOk(p, c)
    BY <1>1, <2>3, <2>6 DEF WritesOk, Writing, Creates, Resting, o
  <2>8. ASSUME p = Boot PROVE BacksOk(c)
    BY <1>1, <2>1, <2>3, <2>5, <2>6, <2>8 DEF BacksOk, Resting, Underway, Restores, Making, Writing, o
  <2> QED
    BY <2>1, <2>7, <2>8, TaskKeeps
<1> QED
  BY <1>3, <1>4, <1>5 DEF StartBus

\* An input that is plugged in has its volume and is not muted; the others stay.
LEMMA PlugSets ==
  ASSUME NEW l, NEW S, LoopOk(l, S), NEW s \in Srcs, NEW v \in Volumes, NEW m, m = Plug(l, s, v)
  PROVE  /\ m.controls[s] # 0 /\ m.knobs[m.controls[s]] = [volume |-> v, muted |-> FALSE]
         /\ \A t \in Srcs \ {s} : /\ m.controls[t] = l.controls[t]
                                  /\ l.controls[t] # 0 => m.knobs[l.controls[t]] = l.knobs[l.controls[t]]
<1> DEFINE n == Len(l.knobs)
           x == [volume |-> v, muted |-> FALSE]
<1>1. l \in Loop /\ l.knobs \in Seq(Setting) /\ n \in Nat /\ l.controls \in [Srcs -> Nat]
  BY LoopFields DEF LoopOk
<1>2. m.knobs = Append(l.knobs, x) /\ m.controls = [l.controls EXCEPT ![s] = n + 1]
  <2> DEFINE e == [src |-> s, knob |-> n + 1, rx |-> Subscribe(s)]
             K == Append(l.knobs, x)
             C == [l.controls EXCEPT ![s] = n + 1]
             Q == Append(l.queue, e)
  <2>1. m = [l EXCEPT !.knobs = K, !.controls = C, !.queue = Q]
    BY DEF Plug
  <2> HIDE DEF K, C, Q
  <2>2. m.knobs = K /\ m.controls = C
    BY <1>1, <2>1 DEF Loop
  <2> QED
    BY <2>2 DEF K, C
<1>3. x \in Setting
  BY DEF Setting
<1> HIDE DEF x
<1>4. m.knobs[n + 1] = x /\ \A i \in 1..n : m.knobs[i] = l.knobs[i]
  BY <1>1, <1>2, <1>3
<1>5. \A t \in Srcs : l.controls[t] # 0 => l.controls[t] \in 1..n
  BY <1>1 DEF LoopOk
<1>6. m.controls[s] = n + 1 /\ \A t \in Srcs \ {s} : m.controls[t] = l.controls[t]
  BY <1>1, <1>2
<1>7. n + 1 # 0
  BY <1>1
<1> HIDE DEF n
<1> QED
  BY <1>4, <1>5, <1>6, <1>7 DEF x

\* On loop m the first i inputs are on, as bus r has them, and no others.
HasFirst(m, is, i, r) ==
  \A s \in Srcs : /\ m.controls[s] # 0 <=> \E j \in 1..i : is[j].src = s
                  /\ m.controls[s] # 0 => m.knobs[m.controls[s]] = [volume |-> r[s].volume, muted |-> FALSE]

\* If all sources are there, FillBus makes bus r, before it is muted.
LEMMA FilledSets ==
  ASSUME PoolOk, NEW l, LoopOk(l, source), \A s \in Srcs : l.controls[s] = 0, NEW is \in Seq(Input),
         NEW r \in Saved, IsInputs(is, r), Ensured(is, Len(is), pool)
  PROVE  Settings(Filled(l, is)) = Before(r, Muted(r))
<1> DEFINE n == Len(is)
           f == CHOOSE g : Fills(g, l, is, n)
           Good(i) == LoopOk(f[i], source) /\ HasFirst(f[i], is, i, r)
<1>1. n \in Nat
  OBVIOUS
<1>2. Fills(f, l, is, n)
  BY <1>1, FillsExists
<1>3. Filled(l, is) = f[n]
  BY Zenon DEF Filled, Fills
<1> HIDE DEF f
<1> DEFINE T == {i \in 0..n : ~Good(i)}
<1>4. ASSUME T # {} PROVE FALSE
  <2>0. T \in SUBSET Nat
    BY <1>1
  <2>1. PICK k \in T : \A j \in T : k <= j
    <3> HIDE DEF T
    <3> QED
      BY <1>4, <2>0, LeastNat
  <2>2. k \in 0..n /\ ~Good(k)
    BY <2>1
  <2>3. FillsAt(f, l, is, k)
    BY <1>1, <1>2, <2>2, FillsPoint
  <2>4. k # 0
    <3>1. ASSUME k = 0 PROVE FALSE
      <4>1. f[0] = l
        BY <2>3, <3>1 DEF FillsAt
      <4>2. HasFirst(l, is, 0, r)
        BY DEF HasFirst
      <4>3. Good(0)
        BY <4>1, <4>2
      <4> QED
        BY <2>2, <3>1, <4>3
    <3> QED
      BY <3>1
  <2>5. k - 1 \in 0..n /\ k - 1 \notin T /\ k \in 1..n
    BY <1>1, <2>1, <2>2, <2>4
  <2>6. Good(k - 1)
    BY <2>5
  <2>7. is[k] \in Input
    BY <2>5
  <2>8. is[k].src \in Srcs /\ is[k].volume \in Volumes
    BY <2>7 DEF Input
  <2>9. pool[is[k].src] # 0 /\ is[k].volume = r[is[k].src].volume
    BY <1>1, <2>5 DEF Ensured, IsInputs
  <2> DEFINE m == Plug(f[k - 1], is[k].src, is[k].volume)
             o == f[k - 1]
  <2>10. f[k] = m
    BY <2>3, <2>4, <2>9 DEF FillsAt
  <2>11. LoopOk(m, source)
    BY <2>6, <2>8, <2>9, PlugOk
  <2>12. /\ m.controls[is[k].src] # 0
         /\ m.knobs[m.controls[is[k].src]] = [volume |-> is[k].volume, muted |-> FALSE]
         /\ \A t \in Srcs \ {is[k].src} :
              /\ m.controls[t] = o.controls[t]
              /\ o.controls[t] # 0 => m.knobs[o.controls[t]] = o.knobs[o.controls[t]]
    BY <2>6, <2>8, PlugSets
  <2> HIDE DEF m
  <2>13. \A j \in 1..k : j \in 1..(k - 1) \/ j = k
    BY <2>5
  <2>14. 1..(k - 1) \subseteq 1..k /\ k \in 1..k
    BY <2>5
  <2>15. HasFirst(m, is, k, r)
    <3> SUFFICES ASSUME NEW s \in Srcs
                 PROVE  /\ m.controls[s] # 0 <=> \E j \in 1..k : is[j].src = s
                        /\ m.controls[s] # 0 =>
                             m.knobs[m.controls[s]] = [volume |-> r[s].volume, muted |-> FALSE]
      BY DEF HasFirst
    <3>1. CASE s = is[k].src
      BY <2>9, <2>12, <2>14, <3>1
    <3>2. CASE s # is[k].src
      <4>1. /\ o.controls[s] # 0 <=> \E j \in 1..(k - 1) : is[j].src = s
            /\ o.controls[s] # 0 => o.knobs[o.controls[s]] = [volume |-> r[s].volume, muted |-> FALSE]
        BY <2>6 DEF HasFirst
      <4> HIDE DEF o
      <4> QED
        BY <2>12, <2>13, <2>14, <3>2, <4>1
    <3> QED
      BY <3>1, <3>2
  <2> QED
    BY <2>2, <2>10, <2>11, <2>15
<1>5. n \in 0..n
  BY <1>1
<1>6. Good(n)
  BY <1>4, <1>5
<1> DEFINE m == f[n]
<1>7. HasFirst(m, is, n, r)
  BY <1>6
<1>8. \A s \in Srcs : r[s] # None <=> \E j \in 1..n : is[j].src = s
  <2>1. DOMAIN is = 1..n
    OBVIOUS
  <2>2. {i.src : i \in {is[k] : k \in 1..n}} = {s \in Srcs : r[s] # None}
    BY <2>1 DEF IsInputs
  <2> HIDE DEF n
  <2>3. \A s \in Srcs : r[s] # None <=> s \in {i.src : i \in {is[k] : k \in 1..n}}
    BY <2>2
  <2> QED
    BY <2>3
<1> HIDE DEF m, n
<1>9. ASSUME NEW s \in Srcs
      PROVE  (IF m.controls[s] = 0 THEN None ELSE m.knobs[m.controls[s]]) =
             IF r[s] = None THEN None
             ELSE [volume |-> r[s].volume, muted |-> r[s].muted /\ s \notin Muted(r)]
  <2>1. CASE r[s] = None
    BY <1>7, <1>8, <2>1 DEF HasFirst
  <2>2. CASE r[s] # None
    <3>1. (r[s].muted /\ s \notin Muted(r)) = FALSE
      BY <2>2 DEF Muted
    <3>2. m.controls[s] # 0 /\ m.knobs[m.controls[s]] = [volume |-> r[s].volume, muted |-> FALSE]
      BY <1>7, <1>8, <2>2 DEF HasFirst
    <3> QED
      BY <2>2, <3>1, <3>2
  <2> QED
    BY <2>1, <2>2
<1>10. Settings(m) = Before(r, Muted(r))
  BY <1>9, Zenon DEF Settings, Before
<1> QED
  BY <1>3, <1>10 DEF m, n

\* What restore_all works at, if it is at work.
LEMMA FillBusKeeps ==
  ASSUME MixInv, SaveInv, NEW p \in Tasks, FillBus(p)
  PROVE  SaveInv'
<1> DEFINE k == call[p].loop
           m == Filled(loop[k], Job(p).inputs)
<1>1. call[p].pc = "fill" /\ call[p].pc \notin Resting
  BY DEF FillBus, At, Resting
<1>2. /\ TaskOk(call[p], source) /\ JobOk(Job(p)) /\ JobFits(call[p]) /\ Job(p) = call[p].job
  BY <1>1, AtWork
<1>3. k # 0 /\ Job(p).op = "create" /\ Job(p).inputs \in Seq(Input)
  BY <1>1, <1>2 DEF TaskOk, JobFits, JobOk
<1>4. /\ k \in DOMAIN loop /\ (\A b \in BusIds : buses[b] # k)
      /\ LoopOk(loop[k], source) /\ LoopInv /\ PoolOk
  BY <1>3 DEF MixInv, LoopInv, MakingOk, LoopsOk
<1>5. UNCHANGED <<pool, buses, row, saved, touched, clean>> /\ loop' = [loop EXCEPT ![k] = m]
  BY DEF FillBus, Go
<1>6. PICK c : /\ Moves(p, c)
               /\ c.pc = "list" /\ c.job = call[p].job /\ c.loop = call[p].loop /\ c.mutes = call[p].mutes
  <2>1. Heads(p, "list")
    BY DEF FillBus, Go, Heads
  <2> QED
    BY <2>1, GoesTo
<1>7. Now' = Now
  <2>1. \A b \in BusIds : Now'[b] = Now[b]
    BY <1>4, <1>5, NowOne
  <2> QED
    BY <2>1, NowSame
<1>8. loop'[k] = m
  BY <1>4, <1>5
<1>9. Works(p, c)
  BY <1>1, <1>5, <1>6 DEF Works
<1>10. WritesOk(p, c)
  BY <1>1, <1>5, <1>6, <1>7 DEF WritesOk, Writing, Creates, Resting
<1>11. ASSUME p = Boot PROVE BacksOk(c)
  <2> SUFFICES ASSUME NEW r \in Saved, Underway(r)
               PROVE  Restores(c, pool', loop'[c.loop], Now'[c.job.bus], r)
    BY <1>6, <1>7, <1>11 DEF BacksOk, Resting
  <2>1. /\ r # None /\ call[p].mutes = Muted(r) /\ IsInputs(Job(p).inputs, r)
        /\ Ensured(Job(p).inputs, Len(Job(p).inputs), pool) /\ \A s \in Srcs : loop[k].controls[s] = 0
    BY <1>1, <1>2, <1>11 DEF Underway, Restores, Making
  <2>2. Settings(m) = Before(r, Muted(r))
    BY <1>3, <1>4, <2>1, FilledSets
  <2> HIDE DEF m
  <2> QED
    BY <1>2, <1>3, <1>6, <1>8, <2>1, <2>2 DEF Restores, Making, Writing
<1> QED
  BY <1>9, <1>10, <1>11, TaskKeeps

\* A call has done its work and goes on to persist_all.
LEMMA DoneKeeps ==
  ASSUME MixInv, SaveInv, NEW p \in Tasks, NEW c, Moves(p, c), call[p].pc \notin Resting,
         UNCHANGED <<saved, touched, clean>>, c.pc = "persist", p = Boot => BacksOk(c)
  PROVE  SaveInv'
<1>1. Works(p, c) /\ WritesOk(p, c)
  BY DEF Works, WritesOk, Writing
<1> QED
  BY <1>1, TaskKeeps

LEMMA ListBusKeeps ==
  ASSUME MixInv, SaveInv, NEW p \in Tasks, ListBus(p)
  PROVE  SaveInv'
<1> DEFINE n == call[p].loop
           b == Job(p).bus
           o == call[p]
           c == [o EXCEPT !.pc = "persist", !.loop = 0]
           k == buses[b]
           dead == [NewLoop EXCEPT !.st = "stopped"]
<1>1. call[p].pc = "list" /\ call[p].pc \notin Resting
  BY DEF ListBus, At, Resting
<1>2. /\ TaskOk(call[p], source) /\ Shaped(call[p]) /\ JobOk(Job(p))
      /\ Job(p) = call[p].job /\ p \in Procs /\ call = [q \in Procs |-> call[q]]
  BY <1>1, AtWork
<1>3. n # 0 /\ b \in BusIds /\ LoopInv
  BY <1>1, <1>2 DEF TaskOk, JobOk, MixInv
<1>4. n \in DOMAIN loop /\ \A d \in BusIds : buses[d] # n
  BY <1>3 DEF LoopInv, MakingOk
<1>5. /\ UNCHANGED <<pool, row, saved, touched, clean>> /\ buses' = [buses EXCEPT ![b] = n]
      /\ loop' = IF k = 0 THEN loop ELSE [loop EXCEPT ![k] = dead]
  BY DEF ListBus, Stop
<1>6. Moves(p, c)
  BY <1>2 DEF Moves, ListBus
<1>7. c = [o EXCEPT !.pc = "persist", !.loop = 0] /\ Shaped(o)
  BY <1>2
<1>8. /\ buses \in [BusIds -> Nat] /\ (\A d \in BusIds : buses[d] # 0 => buses[d] \in DOMAIN loop)
      /\ (\A d, e \in BusIds : buses[d] = buses[e] /\ buses[d] # 0 => d = e) /\ loop \in Seq(Loop)
  BY <1>3 DEF LoopInv, BusesOk, LoopsOk
<1> HIDE DEF c, o, dead
<1>9. \A j \in DOMAIN loop : j # k => loop'[j] = loop[j]
  BY <1>5, <1>8
<1>10. buses'[b] = n /\ \A d \in BusIds : d # b => buses'[d] = buses[d]
  BY <1>3, <1>5, <1>8
<1>11. Now'[b] = Settings(loop[n])
  BY <1>3, <1>4, <1>9, <1>10, NowIsThen
<1>12. \A d \in BusIds : d # b => Now'[d] = Now[d]
  BY <1>3, <1>8, <1>9, <1>10, NowIs, NowIsThen
<1>13. c.pc = "persist" /\ c.job = o.job /\ c.mutes = o.mutes
  BY <1>7 DEF Shaped
<1>14. ASSUME p = Boot PROVE BacksOk(c)
  <2> SUFFICES ASSUME NEW r \in Saved, Underway(r)
               PROVE  Restores(c, pool', loop'[c.loop], Now'[c.job.bus], r)
    BY <1>2, <1>12, <1>13, <1>14 DEF BacksOk, Resting, o
  <2>1. r # None /\ o.mutes = Muted(r) /\ Settings(loop[n]) = Before(r, Muted(r))
    BY <1>1, <1>14 DEF Underway, Restores, Making, o
  <2>2. Now'[c.job.bus] = Before(r, c.mutes)
    BY <1>2, <1>11, <1>13, <2>1 DEF o
  <2> QED
    BY <1>13, <2>1, <2>2 DEF Restores, Making, Writing
<1> QED
  BY <1>1, <1>5, <1>6, <1>13, <1>14, DoneKeeps

\* restore_all neither removes nor adds.
LEMMA NotBoot ==
  ASSUME call[Boot].pc \in {"remove", "add", "take", "volume"}
  PROVE  \A r \in Saved : ~Underway(r)
BY DEF Underway, Restores, Making, Writing

\* The call goes on to persist_all, or fails.
LEMMA ToPersistKeeps ==
  ASSUME MixInv, SaveInv, NEW p \in Tasks, call[p].pc \in {"remove", "add", "take", "volume"},
         UNCHANGED <<row, saved, touched>>,
         Go(p, "persist") \/ (Fail(p) /\ UNCHANGED <<loop, buses>>)
  PROVE  SaveInv'
<1>1. p = Boot => \A r \in Saved : ~Underway(r)
  BY NotBoot
<1>2. CASE Go(p, "persist")
  <2>1. Heads(p, "persist") /\ UNCHANGED clean
    BY <1>2 DEF Go, Heads
  <2>2. PICK c : Moves(p, c) /\ c.pc = "persist"
    BY <2>1, GoesTo
  <2>3. p = Boot => BacksOk(c)
    BY <1>1 DEF BacksOk
  <2> QED
    BY <2>1, <2>2, <2>3, DoneKeeps DEF Resting
<1>3. CASE Fail(p) /\ UNCHANGED <<loop, buses>>
  <2>1. Now' = Now
    BY <1>3, NowQuiet
  <2> QED
    BY <1>3, <2>1, FailKeeps DEF Resting, Writing
<1> QED
  BY <1>2, <1>3

LEMMA ChangesKeep ==
  ASSUME MixInv, SaveInv, NEW p \in Tasks,
         RemoveBus(p) \/ AddInput(p) \/ RemoveInput(p) \/ SetVolume(p)
  PROVE  SaveInv'
<1>1. CASE RemoveBus(p)
  BY <1>1, ToPersistKeeps DEF RemoveBus, At
<1>2. CASE AddInput(p)
  BY <1>2, ToPersistKeeps DEF AddInput, At
<1>3. ASSUME NEW pc \in {"take", "volume"}, NEW m, OnInput(p, pc, m) PROVE SaveInv'
  BY <1>3, ToPersistKeeps DEF OnInput, At
<1>4. CASE RemoveInput(p)
  BY <1>3, <1>4 DEF RemoveInput
<1>5. CASE SetVolume(p)
  BY <1>3, <1>5 DEF SetVolume
<1> QED
  BY <1>1, <1>2, <1>4, <1>5

\* A saved bus is not none, and neither is an input of it.
LEMMA BeforeIs ==
  ASSUME NEW r \in Saved, NEW T
  PROVE  /\ Before(r, T) \in Saved /\ Before(r, T) # None
         /\ \A s \in Srcs : r[s] # None =>
              /\ r[s] \in Setting /\ Before(r, T)[s] # None
              /\ Before(r, T)[s] = [volume |-> r[s].volume, muted |-> r[s].muted /\ s \notin T]
<1>1. \A s \in Srcs : r[s] # None => r[s] \in Setting
  BY DEF Saved
<1>2. ASSUME NEW s \in Srcs, r[s] # None
      PROVE  /\ Before(r, T)[s] = [volume |-> r[s].volume, muted |-> r[s].muted /\ s \notin T]
             /\ Before(r, T)[s] \in Setting
  <2>1. r[s].volume \in Volumes /\ r[s].muted \in BOOLEAN
    BY <1>1, <1>2 DEF Setting
  <2>2. Before(r, T)[s] = [volume |-> r[s].volume, muted |-> r[s].muted /\ s \notin T]
    BY <1>2 DEF Before
  <2> DEFINE m == r[s].muted /\ s \notin T
  <2>3. m \in BOOLEAN
    OBVIOUS
  <2> HIDE DEF m
  <2>4. [volume |-> r[s].volume, muted |-> m] \in Setting
    BY <2>1, <2>3 DEF Setting
  <2> QED
    BY <2>2, <2>4 DEF m
<1>3. None \notin Setting /\ None \notin Saved
  BY MixerAssumption DEF Saved
<1>4. \A s \in Srcs : Before(r, T)[s] \in Setting \cup {None}
  BY <1>2 DEF Before
<1>5. Before(r, T) \in Saved
  BY <1>4 DEF Before, Saved
<1> QED
  BY <1>1, <1>2, <1>3, <1>5

\* Only the one field is set.
LEMMA Switched ==
  ASSUME NEW w, NEW u, NEW v, NEW y, y = [volume |-> w, muted |-> u]
  PROVE  [y EXCEPT !.muted = v] = [volume |-> w, muted |-> v]
OBVIOUS

LEMMA SetMutedKeeps ==
  ASSUME MixInv, SaveInv, NEW p \in Tasks, SetMuted(p)
  PROVE  SaveInv'
<1> DEFINE b == Job(p).bus
           k == buses[b]
           l == MyBus(p)
           s == MySrc(p)
           v == Job(p).muted
           y == l.knobs[l.controls[s]]
           x == [y EXCEPT !.muted = v]
           m == TurnTo(l, s, x)
<1>1. call[p].pc = "mute" /\ UNCHANGED <<pool, buses, row, saved, touched>> /\ OnInput(p, "mute", m)
  BY DEF SetMuted, OnInput, At, TurnTo
<1>2. s \in Srcs /\ b \in BusIds /\ v \in BOOLEAN /\ LoopInv /\ Job(p) = call[p].job /\ l = loop[k]
  BY <1>1, NamedIs, AtWork DEF MixInv, Resting, MyBus
<1>3. ASSUME NEW r \in Saved, Underway(r), p = Boot
      PROVE  /\ Listed(p) /\ s \in Muted(r) /\ call[p].mutes \subseteq Muted(r) /\ s \notin call[p].mutes
             /\ v = TRUE /\ Now[b] = Before(r, call[p].mutes \cup {s}) /\ r # None
  <2>1. /\ s \in Muted(r) /\ call[p].mutes \subseteq Muted(r) /\ s \notin call[p].mutes
        /\ v = TRUE /\ Now[b] = Before(r, call[p].mutes \cup {s}) /\ r # None
    BY <1>1, <1>2, <1>3 DEF Underway, Restores, MySrc
  <2>2. Now[b] # None /\ Now[b][s] # None
    <3> DEFINE T == call[p].mutes \cup {s}
    <3>1. Before(r, T) # None /\ \A t \in Srcs : r[t] # None => Before(r, T)[t] # None
      BY BeforeIs
    <3>2. s \in Srcs /\ r[s] # None
      BY <2>1 DEF Muted
    <3> HIDE DEF s
    <3> QED
      BY <2>1, <3>1, <3>2
  <2>3. k # 0 /\ Now[b] = Settings(l)
    BY <1>2, <2>2, NowIs
  <2>4. l.controls[s] # 0
    BY <1>2, <2>2, <2>3 DEF Settings
  <2> QED
    BY <2>1, <2>3, <2>4 DEF Listed
<1>4. CASE Fail(p) /\ UNCHANGED loop /\ ~Listed(p)
  <2>1. Now' = Now
    BY <1>1, <1>4, NowQuiet
  <2>2. p = Boot => \A r \in Saved : ~Underway(r)
    BY <1>3, <1>4
  <2> QED
    BY <1>1, <1>4, <2>1, <2>2, FailKeeps DEF Resting, Writing
<1>5. CASE Listed(p) /\ Go(p, "persist") /\ loop' = [loop EXCEPT ![k] = m]
  <2>1. Heads(p, "persist") /\ UNCHANGED clean
    BY <1>5 DEF Go, Heads
  <2>2. PICK c : /\ Moves(p, c) /\ c.pc = "persist" /\ c.job = call[p].job
                 /\ c.mutes = call[p].mutes
    BY <2>1, GoesTo
  <2>3. k \in DOMAIN loop /\ LoopOk(l, source) /\ l.controls[s] # 0
    BY <1>2, <1>5, OnBus DEF Listed
  <2>4. /\ Now'[b] = Settings(m) /\ \A d \in BusIds : d # b => Now'[d] = Now[d]
    <3>1. \A d \in BusIds : Now'[d] = IF buses[d] = k THEN Settings(m) ELSE Now[d]
      BY <1>1, <1>2, <1>5, <2>3, NowOne
    <3>2. \A d \in BusIds : buses[d] = k => d = b
      BY <1>2, <1>5 DEF LoopInv, BusesOk, Listed
    <3> QED
      BY <1>2, <3>1, <3>2
  <2>5. /\ m.controls = l.controls /\ m.knobs[l.controls[s]] = x
        /\ \A t \in Srcs \ {s} : l.controls[t] # 0 => m.knobs[l.controls[t]] = l.knobs[l.controls[t]]
    <3> HIDE DEF l, s, x
    <3>1. l \in Loop /\ l.knobs \in Seq(Setting) /\ Len(l.knobs) \in Nat /\ l.controls \in [Srcs -> Nat]
      BY <2>3, LoopFields DEF LoopOk
    <3>2. \A t \in Srcs : l.controls[t] # 0 => l.controls[t] \in DOMAIN l.knobs
      BY <2>3, <3>1 DEF LoopOk
    <3>3. \A t \in Srcs \ {s} : l.controls[t] # l.controls[s]
      BY <1>2, <2>3 DEF LoopOk
    <3> DEFINE K == [l.knobs EXCEPT ![l.controls[s]] = x]
    <3>4. m.controls = l.controls /\ m.knobs = K
      BY <3>1 DEF TurnTo, Loop
    <3>5. K[l.controls[s]] = x /\ \A i \in DOMAIN l.knobs : i # l.controls[s] => K[i] = l.knobs[i]
      BY <1>2, <2>3, <3>2
    <3> HIDE DEF K, m
    <3> QED
      BY <3>2, <3>3, <3>4, <3>5
  <2>6. ASSUME p = Boot PROVE BacksOk(c)
    <3> SUFFICES ASSUME NEW r \in Saved, Underway(r)
                 PROVE  Restores(c, pool', loop'[c.loop], Now'[c.job.bus], r)
      BY <1>2, <2>2, <2>4, <2>6 DEF BacksOk, Resting
    <3> DEFINE T == call[p].mutes
    <3>1. /\ s \in Muted(r) /\ T \subseteq Muted(r) /\ s \notin T
          /\ v = TRUE /\ Now[b] = Before(r, T \cup {s}) /\ r # None
      BY <1>3, <2>6
    <3>2. Before(r, T \cup {s}) = Settings(l)
      BY <1>2, <1>5, <3>1, NowIs DEF Listed
    <3>3. /\ r[s] # None /\ r[s].muted = TRUE /\ r[s] \in Setting
      BY <1>2, <3>1, BeforeIs DEF Muted, Setting
    <3>4. x = [volume |-> r[s].volume, muted |-> TRUE]
      <4>1. y = Settings(l)[s]
        BY <1>2, <2>3 DEF Settings
      <4>2. Before(r, T \cup {s})[s] = [volume |-> r[s].volume, muted |-> FALSE]
        <5>1. (r[s].muted /\ s \notin T \cup {s}) = FALSE
          OBVIOUS
        <5> QED
          BY <1>2, <3>3, <5>1, BeforeIs
      <4>3. y = [volume |-> r[s].volume, muted |-> FALSE]
        BY <3>2, <4>1, <4>2
      <4>4. v = TRUE
        BY <3>1
      <4> DEFINE w == r[s].volume
                 u == FALSE
      <4>5. y = [volume |-> w, muted |-> u]
        BY <4>3
      <4> HIDE DEF y, v, w, u
      <4>6. x = [volume |-> w, muted |-> v]
        BY <4>5, Switched
      <4> QED
        BY <4>4, <4>6, Zenon DEF w
    <3> HIDE DEF x, m, l, s, T
    <3>5. ASSUME NEW t \in Srcs
          PROVE  (IF m.controls[t] = 0 THEN None ELSE m.knobs[m.controls[t]]) =
                 IF r[t] = None THEN None
                 ELSE [volume |-> r[t].volume, muted |-> r[t].muted /\ t \notin T]
      <4>1. CASE t = s
        <5>1. (r[s].muted /\ s \notin T) = TRUE
          BY <3>1, <3>3
        <5> QED
          BY <2>3, <2>5, <3>3, <3>4, <4>1, <5>1
      <4>2. CASE t # s
        <5>1. Settings(l)[t] = IF m.controls[t] = 0 THEN None ELSE m.knobs[m.controls[t]]
          BY <2>5, <4>2 DEF Settings
        <5>2. (t \notin T \cup {s}) = (t \notin T)
          BY <4>2
        <5>3. Before(r, T \cup {s})[t] = IF r[t] = None THEN None
                 ELSE [volume |-> r[t].volume, muted |-> r[t].muted /\ t \notin T]
          BY <5>2 DEF Before
        <5> QED
          BY <3>2, <5>1, <5>3
      <4> QED
        BY <4>1, <4>2
    <3>6. Settings(m) = Before(r, T)
      BY <3>5, Zenon DEF Settings, Before
    <3>7. Now'[c.job.bus] = Before(r, c.mutes)
      BY <1>2, <2>2, <2>4, <3>6 DEF T
    <3> QED
      BY <2>2, <3>1, <3>7 DEF Restores, Making, Writing, T
  <2> QED
    BY <1>1, <2>1, <2>2, <2>6, DoneKeeps DEF Resting
<1> QED
  BY <1>1, <1>4, <1>5 DEF OnInput, Listed, MyBus

LEMMA SnapshotKeeps ==
  ASSUME MixInv, SaveInv, NEW p \in Tasks, Snapshot(p)
  PROVE  SaveInv'
<1> DEFINE o == call[p]
           c == [o EXCEPT !.pc = "save", !.snap = Now]
<1>1. /\ o.pc = "persist" /\ UNCHANGED <<pool, row, saved, touched, clean>> /\ Now' = Now
  BY NowQuiet DEF Snapshot, At
<1>2. Shaped(o) /\ p \in Procs /\ call = [q \in Procs |-> call[q]]
  BY <1>1, AtWork DEF Resting
<1>3. Works(p, c)
  <2>1. call' = [call EXCEPT ![p].pc = "save", ![p].snap = Now]
    BY DEF Snapshot, Now
  <2> HIDE DEF Now
  <2>2. Moves(p, c)
    BY <1>2, <2>1 DEF Moves
  <2> QED
    BY <1>1, <2>2 DEF Works, Resting
<1>4. c.pc = "save" /\ c.job = o.job /\ c.mutes = o.mutes /\ c.snap = Now /\ c.at = o.at
  <2> HIDE DEF o, Now
  <2>1. c = [o EXCEPT !.pc = "save", !.snap = Now]
    OBVIOUS
  <2> HIDE DEF c
  <2> QED
    BY <1>2, <2>1 DEF Shaped
<1> HIDE DEF c
<1>5. WritesOk(p, c)
  BY <1>1, <1>4 DEF WritesOk, Writing
<1>6. ASSUME p = Boot PROVE BacksOk(c)
  BY <1>1, <1>4, <1>6 DEF BacksOk, Resting, Underway, Restores, Making, Writing
<1> QED
  BY <1>3, <1>5, <1>6, TaskKeeps

LEMMA SaveKeeps ==
  ASSUME MixInv, SaveInv, NEW p \in Tasks, NEW ok \in BOOLEAN, Save(p, ok)
  PROVE  SaveInv'
<1> DEFINE c == AfterSave(p)
           o == call[p]
<1>1. /\ o.pc = "save" /\ UNCHANGED <<pool, saved, touched>> /\ Now' = Now /\ (clean' => clean /\ ok)
      /\ row' = IF ok THEN call[p].snap ELSE row
  BY NowQuiet DEF Save, At
<1>2. Job(p) = o.job /\ JobOk(Job(p))
  BY <1>1, AtWork DEF Resting
<1>3. Works(p, c)
  BY <1>1 DEF Works, Resting, Moves, Save
<1>4. ASSUME clean' PROVE row' = Now'
  BY <1>1, <1>4 DEF SaveInv, SnapOk, At
<1>5. CASE p # Boot \/ o.mutes = {}
  <2>1. c = Idle("done") \/ c = Idle("next")
    BY <1>5 DEF AfterSave
  <2>2. c.pc \in {"done", "next"}
    BY <2>1 DEF Idle
  <2>3. ASSUME p = Boot PROVE BacksOk(c)
    <3> SUFFICES ASSUME NEW r \in Saved, Underway(r) PROVE Now[o.job.bus] = r
      BY <1>1, <2>2, <2>3 DEF BacksOk, Resting
    <3>1. Now[o.job.bus] = Before(r, {})
      BY <1>1, <1>5, <2>3 DEF Underway, Restores, Writing
    <3>2. ASSUME NEW s \in Srcs
          PROVE  r[s] = IF r[s] = None THEN None
                        ELSE [volume |-> r[s].volume, muted |-> r[s].muted /\ s \notin {}]
      <4>1. CASE r[s] # None
        <5>1. r[s] \in Setting
          BY <4>1 DEF Saved
        <5>2. r[s] = [volume |-> r[s].volume, muted |-> r[s].muted] /\ r[s].muted \in BOOLEAN
          BY <5>1 DEF Setting
        <5>3. (r[s].muted /\ s \notin {}) = r[s].muted
          BY <5>2
        <5> QED
          BY <4>1, <5>2, <5>3
      <4> QED
        BY <4>1
    <3>3. r = [s \in Srcs |-> r[s]]
      BY DEF Saved
    <3>4. r = Before(r, {})
      BY <3>2, <3>3 DEF Before
    <3> QED
      BY <3>1, <3>4
  <2>4. clean' => WritesOk(p, c)
    BY <1>4, <2>2 DEF WritesOk
  <2> QED
    BY <1>3, <2>3, <2>4, TaskKeeps
<1>6. CASE p = Boot /\ o.mutes # {}
  <2> DEFINE s == CHOOSE x \in o.mutes : TRUE
             i == [src |-> s, volume |-> 0]
             I == <<i>>
             k == Job(p)
             j == [k EXCEPT !.op = "mute", !.muted = TRUE, !.inputs = I]
  <2>1. s \in o.mutes
    BY <1>6
  <2>2. c = Begun("mute", j, o.mutes \ {s})
    BY <1>6 DEF AfterSave, Begun
  <2>3. I[1].src = s
    OBVIOUS
  <2>4. c.pc = "mute" /\ c.job = j /\ c.mutes = o.mutes \ {s}
    <3> HIDE DEF c, j, s
    <3> QED
      BY <2>2, BeginsWith
  <2> HIDE DEF s, I
  <2>5. j.muted = TRUE /\ j.inputs = I /\ j.bus = k.bus
    <3>1. k = [op |-> k.op, bus |-> k.bus, inputs |-> k.inputs, muted |-> k.muted]
      BY <1>2 DEF JobOk
    <3> HIDE DEF k
    <3> QED
      BY <3>1
  <2> HIDE DEF c, j
  <2>6. BacksOk(c)
    <3> SUFFICES ASSUME NEW r \in Saved, Underway(r)
                 PROVE  Restores(c, pool', loop'[c.loop], Now'[c.job.bus], r)
      BY <1>1, <1>2, <1>6, <2>4, <2>5 DEF BacksOk, Resting
    <3>1. r # None /\ o.mutes \subseteq Muted(r) /\ Now[o.job.bus] = Before(r, o.mutes)
      BY <1>1, <1>6 DEF Underway, Restores, Writing
    <3>2. (o.mutes \ {s}) \cup {s} = o.mutes
      BY <2>1
    <3>3. Now'[c.job.bus] = Before(r, c.mutes \cup {c.job.inputs[1].src})
      BY <1>1, <1>2, <2>4, <2>3, <2>5, <3>1, <3>2
    <3> QED
      BY <2>1, <2>4, <2>3, <2>5, <3>1, <3>3 DEF Restores, Making, Writing
  <2>7. clean' => WritesOk(p, c)
    BY <1>4, <2>4 DEF WritesOk
  <2> QED
    BY <1>3, <2>6, <2>7, TaskKeeps
<1> QED
  BY <1>5, <1>6

-----------------------------------------------------------------------------
(* The other steps. *)

\* A call begins.
LEMMA BeginKeeps ==
  ASSUME MixInv, SaveInv, NEW p \in Calls, NEW r \in Requests, Begin(p, r)
  PROVE  SaveInv'
<1>1. /\ call[p].pc = "idle" /\ call[Halt].job = None /\ touched' /\ clean' = (clean /\ Alone(p))
      /\ UNCHANGED <<loop, buses, row, saved>> /\ Now' = Now
  BY NowQuiet DEF Begin, At
<1>2. /\ p \in Procs /\ p # Halt /\ p # Boot /\ call = [q \in Procs |-> call[q]] /\ Shaped(call[p])
      /\ p \in Tasks
  BY WhoIs DEF MixInv, CallsOk, TaskOk
<1> DEFINE o == call[p]
           x == First[r.op]
           c == [o EXCEPT !.pc = x, !.job = r]
<1>3. Moves(p, c)
  BY <1>2 DEF Moves, Begin
<1>4. c.pc \in {"ensure", "remove", "take", "volume", "mute"}
  <2>1. r.op \in {"create", "remove", "add", "take", "volume", "mute"}
    BY MixerAssumption
  <2>2. x \in {"ensure", "remove", "take", "volume", "mute"}
    BY <2>1 DEF First
  <2>3. c.pc = x
    <3> HIDE DEF o, x
    <3> QED
      BY <1>2 DEF Shaped, o
  <2> QED
    BY <2>2, <2>3
<1> HIDE DEF c
<1>5. call'[p] = c /\ (\A q \in Procs \ {p} : call'[q] = call[q]) /\ call'[Halt] = call[Halt]
  BY <1>2, <1>3, OneGoes
<1>6. HaltJobOk' /\ UntouchedOk' /\ RestoreOn' /\ saved' \in Row
  BY <1>1, <1>5 DEF SaveInv, HaltJobOk, UntouchedOk, RestoreOn, Busy, Row
<1>7. ASSUME clean' PROVE \A q \in Procs : q # p => ~Busy(q) /\ ~Busy(q)'
  BY <1>1, <1>5, <1>7 DEF Alone, Busy
<1>8. AloneOk'
  BY <1>1, <1>5, <1>7 DEF AloneOk
<1>9. SnapOk'
  <2> SUFFICES ASSUME clean', NEW q \in Tasks, call'[q].pc = "save" PROVE FALSE
    BY DEF SnapOk, At
  <2>1. q = p
    BY <1>7, WhoIs DEF Busy
  <2> QED
    BY <1>4, <1>5, <2>1
<1>10. RowOk'
  <2> SUFFICES ASSUME clean' PROVE row' = Now' \/ (saved' = row' /\ Now' = NoRow)
    BY DEF RowOk
  <2>1. ~Creates(call[Boot]) /\ \A q \in Tasks : call[q].pc \notin Writing
    BY <1>1, <1>2, <1>7, WhoIs DEF Busy, Creates, Resting, Writing
  <2> QED
    BY <1>1, <2>1 DEF SaveInv, RowOk
<1> QED
  BY <1>6, <1>8, <1>9, <1>10 DEF SaveInv

\* restore_all takes the next bus.
LEMMA RestoreKeeps ==
  ASSUME MixInv, SaveInv, NEW b \in BusIds, RestoreNext(b)
  PROVE  SaveInv'
<1> DEFINE o == call[Boot]
           M == {s \in Srcs : saved[b][s] # None /\ saved[b][s].muted}
<1>1. /\ o.pc = "next" /\ saved[b] # None /\ saved' = [saved EXCEPT ![b] = None]
      /\ clean' = (clean /\ Alone(Boot)) /\ UNCHANGED <<loop, buses, row, pool, touched>> /\ Now' = Now
  BY NowQuiet DEF RestoreNext, At
<1>2. PICK is \in UNION {[1..n -> Input] : n \in 0..Cardinality(Srcs)} :
        /\ IsInputs(is, saved[b])
        /\ call' = [call EXCEPT ![Boot].pc = "ensure",
                      ![Boot].job = [op |-> "create", bus |-> b, inputs |-> is, muted |-> FALSE],
                      ![Boot].mutes = M]
  BY Zenon DEF RestoreNext
<1>3. /\ call = [q \in Procs |-> call[q]] /\ Shaped(o) /\ o.at = 1 /\ Boot \in Tasks /\ Boot \in Procs
  BY <1>1, WhoIs DEF MixInv, CallsOk, TaskOk, Resting
<1> DEFINE j == [op |-> "create", bus |-> b, inputs |-> is, muted |-> FALSE]
           c == [o EXCEPT !.pc = "ensure", !.job = j, !.mutes = M]
<1>4. j.op = "create" /\ j.bus = b /\ j.inputs = is
  OBVIOUS
<1>5. M = Muted(saved[b])
  BY DEF Muted
<1> HIDE DEF j, M
<1>6. Moves(Boot, c)
  BY <1>2, <1>3 DEF Moves, j, M
<1>7. c.pc = "ensure" /\ c.job = j /\ c.at = 1 /\ c.mutes = M
  <2>1. c = [o EXCEPT !.pc = "ensure", !.job = j, !.mutes = M]
    OBVIOUS
  <2> HIDE DEF o, c
  <2> QED
    BY <1>3, <2>1 DEF Shaped
<1> HIDE DEF c, o
<1>8. call'[Boot] = c /\ (\A q \in Procs \ {Boot} : call'[q] = call[q]) /\ call'[Halt] = call[Halt]
  BY <1>3, <1>6, OneGoes
<1>9. /\ saved' \in Row /\ saved'[b] = None /\ \A d \in BusIds : d # b => saved'[d] = saved[d]
  BY <1>1 DEF SaveInv, Row
<1>10. HaltJobOk' /\ UntouchedOk'
  BY <1>1, <1>8, WhoIs DEF SaveInv, HaltJobOk, UntouchedOk, Busy
<1>11. ASSUME clean' PROVE call[Halt].job = None /\ \A q \in Procs : q # Boot => ~Busy(q) /\ ~Busy(q)'
  <2>1. saved # NoRow
    BY <1>1 DEF NoRow
  <2> QED
    BY <1>1, <1>8, <1>11, <2>1 DEF SaveInv, AloneOk, Alone, Busy
<1>12. AloneOk'
  BY <1>8, <1>11 DEF AloneOk
<1>13. SnapOk'
  <2> SUFFICES ASSUME clean', NEW q \in Tasks, call'[q].pc = "save" PROVE FALSE
    BY DEF SnapOk, At
  <2>1. q = Boot
    BY <1>11, WhoIs DEF Busy
  <2> QED
    BY <1>7, <1>8, <2>1
<1>14. RowOk'
  BY <1>4, <1>7, <1>8 DEF RowOk, Creates, Resting
<1>15. RestoreOn'
  <2> SUFFICES ASSUME clean', ~touched'
               PROVE  \E st \in Starts : IF call'[Halt].job = None THEN Backing(st.row)'
                                         ELSE row' = st.row
    BY DEF RestoreOn
  <2>1. PICK st \in Starts : Backing(st.row)
    BY <1>1, <1>11 DEF SaveInv, RestoreOn
  <2>2. ASSUME NEW d \in BusIds
        PROVE  /\ saved'[d] # None => saved'[d] = st.row[d] /\ ~BootOn(d)'
               /\ saved'[d] = None /\ ~BootOn(d)' => Now'[d] = st.row[d]
               /\ BootOn(d)' => Underway(st.row[d])'
    <3>1. /\ saved[d] # None => saved[d] = st.row[d] /\ ~BootOn(d)
          /\ saved[d] = None /\ ~BootOn(d) => Now[d] = st.row[d]
      BY <2>1 DEF Backing
    <3>2. ~BootOn(d) /\ (BootOn(d)' <=> d = b)
      BY <1>1, <1>4, <1>7, <1>8 DEF BootOn, Resting, o
    <3>3. ASSUME d = b PROVE Underway(st.row[d])'
      <4>1. st.row[d] = saved[b] /\ st.row[d] # None
        BY <1>1, <3>1, <3>3
      <4>2. Ensured(c.job.inputs, c.at - 1, pool')
        BY <1>7 DEF Ensured
      <4>3. Restores(c, pool', loop'[c.loop], Now'[c.job.bus], st.row[d])
        BY <1>2, <1>4, <1>5, <1>7, <4>1, <4>2 DEF Restores, Making, Writing
      <4> QED
        BY <1>8, <4>3 DEF Underway, Restores, Settings
    <3> QED
      BY <1>1, <1>9, <3>1, <3>2, <3>3
  <2>3. Backing(st.row)'
    BY <2>2 DEF Backing
  <2> QED
    BY <1>8, <1>11, <2>3
<1> QED
  BY <1>9, <1>10, <1>12, <1>13, <1>14, <1>15 DEF SaveInv

\* What shutdown has before it is not none.
LEMMA HaltJobIs == None \notin HaltJob
BY MixerAssumption DEF HaltJob

\* shutdown begins: what was restored is in the row.
LEMMA HaltBeginKeeps ==
  ASSUME MixInv, SaveInv, HaltBegin
  PROVE  SaveInv'
<1> DEFINE j == [buses |-> {b \in BusIds : buses[b] # 0}, srcs |-> {s \in Srcs : pool[s] # 0}]
           o == Idle("halt")
           c == [o EXCEPT !.job = j]
<1>1. /\ clean' = (clean /\ Alone(Halt) /\ saved = NoRow)
      /\ UNCHANGED <<loop, buses, row, saved, touched>> /\ Halts(c)
  BY DEF HaltBegin, Halts
<1>2. j \in HaltJob
  BY DEF HaltJob
<1> HIDE DEF j
<1>3. c.job = j /\ c.pc = "halt"
  BY DEF Idle
<1> HIDE DEF c
<1>4. call'[Halt] = c /\ (\A q \in Procs \ {Halt} : call'[q] = call[q]) /\ Now' = Now
  BY <1>1, NowQuiet, WhoIs DEF MixInv, CallsOk, Halts
<1>5. call'[Halt].job \in HaltJob /\ call'[Halt].job # None
  BY <1>2, <1>3, <1>4, HaltJobIs
<1>6. HaltJobOk' /\ UntouchedOk' /\ saved' \in Row /\ RowOk'
  BY <1>1, <1>4, <1>5, WhoIs DEF SaveInv, HaltJobOk, UntouchedOk, Busy, Row, RowOk
<1>7. ASSUME clean' PROVE \A q \in Procs : q # Halt => ~Busy(q) /\ ~Busy(q)'
  BY <1>1, <1>4, <1>7 DEF Alone, Busy
<1>8. AloneOk' /\ SnapOk'
  <2>1. AloneOk'
    BY <1>1, <1>4, <1>7, WhoIs DEF AloneOk
  <2>2. SnapOk'
    BY <1>7, WhoIs DEF SnapOk, At, Busy
  <2> QED
    BY <2>1, <2>2
<1>9. RestoreOn'
  <2> SUFFICES ASSUME clean', ~touched' PROVE \E st \in Starts : row' = st.row
    BY <1>5 DEF RestoreOn
  <2>1. PICK st \in Starts : IF call[Halt].job = None THEN Backing(st.row) ELSE row = st.row
    BY <1>1 DEF SaveInv, RestoreOn
  <2>2. CASE call[Halt].job # None
    BY <1>1, <2>1, <2>2
  <2>3. CASE call[Halt].job = None
    <3>1. ~Busy(Boot) /\ (\A q \in Tasks : ~Busy(q)) /\ saved = NoRow
      BY <1>1, <1>7, WhoIs
    <3>2. \A b \in BusIds : Now[b] = st.row[b]
      BY <2>1, <2>3, <3>1 DEF Backing, BootOn, Busy, Resting, NoRow
    <3>3. st.row \in Row
      BY MixerAssumption
    <3>4. Now = st.row
      <4> DEFINE N == Now
                 R == st.row
      <4>1. N = [b \in BusIds |-> N[b]] /\ R = [b \in BusIds |-> R[b]] /\ \A b \in BusIds : N[b] = R[b]
        BY <3>2, <3>3, NowIs DEF Row
      <4> HIDE DEF N, R
      <4>2. N = R
        BY <4>1
      <4> QED
        BY <4>2 DEF N, R
    <3>5. row = Now \/ (saved = row /\ Now = NoRow)
      BY <1>1, <2>3, <3>1 DEF SaveInv, RowOk, Busy, Creates, Resting, Writing
    <3> QED
      BY <1>1, <3>1, <3>4, <3>5
  <2> QED
    BY <2>2, <2>3
<1> QED
  BY <1>6, <1>8, <1>9 DEF SaveInv

\* shutdown goes on: it writes nothing.
LEMMA HaltGoes ==
  ASSUME MixInv, SaveInv, NEW c, Halts(c), call[Halt].pc \in {"halt", "detach"}, c.job \in HaltJob,
         UNCHANGED <<row, saved, touched, clean>>
  PROVE  SaveInv'
<1>1. call'[Halt] = c /\ (\A q \in Procs \ {Halt} : call'[q] = call[q])
  BY WhoIs DEF MixInv, CallsOk, Halts
<1>2. Busy(Halt) /\ call[Halt].job \in HaltJob /\ call[Halt].job # None /\ call'[Halt].job # None
  BY <1>1, HaltJobIs DEF SaveInv, HaltJobOk, Busy
<1>3. HaltJobOk' /\ UntouchedOk' /\ saved' \in Row /\ RowOk'
  BY <1>1, <1>2, WhoIs DEF SaveInv, HaltJobOk, UntouchedOk, Busy, Row, RowOk
<1>4. ASSUME clean' PROVE saved = NoRow /\ \A q \in Tasks : ~Busy(q) /\ ~Busy(q)'
  BY <1>1, <1>2, <1>4, WhoIs DEF SaveInv, AloneOk, Busy
<1>5. AloneOk'
  BY <1>4, WhoIs DEF AloneOk
<1>6. SnapOk'
  BY <1>4 DEF SnapOk, At, Busy
<1>7. RestoreOn'
  BY <1>2 DEF SaveInv, RestoreOn
<1> QED
  BY <1>3, <1>5, <1>6, <1>7 DEF SaveInv

\* What remove_source makes of the call.
LEMMA HaltSourceHalts ==
  ASSUME MixInv, NEW s \in Srcs, HaltSource(s)
  PROVE  LET o == call[Halt]
             j == [o.job EXCEPT !.srcs = @ \ {s}]
         IN Halts([o EXCEPT !.pc = "detach", !.job = j, !.snap = s])
<1> DEFINE o == call[Halt]
           j == [o.job EXCEPT !.srcs = @ \ {s}]
           c == [o EXCEPT !.pc = "detach", !.job = j, !.snap = s]
<1>1. Halt \in Procs /\ call = [q \in Procs |-> call[q]]
  BY DEF MixInv, CallsOk, Procs
<1>2. Halts(c)
  BY <1>1 DEF HaltSource, Halts
<1> QED
  BY <1>2

LEMMA HaltKeeps ==
  ASSUME MixInv, SaveInv,
         HaltEnd \/ HaltDetach \/ (\E b \in BusIds : HaltBus(b)) \/ (\E s \in Srcs : HaltSource(s))
  PROVE  SaveInv'
<1> DEFINE o == call[Halt]
<1>1. /\ o.pc \in {"halt", "detach"} /\ UNCHANGED <<row, saved, touched, clean>>
      /\ Halt \in Procs /\ call = [q \in Procs |-> call[q]] /\ Shaped(o)
  BY WhoIs DEF HaltEnd, HaltDetach, HaltBus, HaltSource, At, MixInv, CallsOk, HaltOk
<1>2. o.job \in HaltJob
  BY <1>1 DEF SaveInv, HaltJobOk, Busy
<1>3. CASE HaltEnd
  <2> DEFINE c == [o EXCEPT !.pc = "done"]
  <2>1. Halts(c)
    BY <1>3 DEF HaltEnd, Halts
  <2>2. c.job = o.job
    BY <1>1 DEF Shaped
  <2> QED
    BY <1>1, <1>2, <2>1, <2>2, HaltGoes
<1>4. CASE HaltDetach
  <2> DEFINE c == [o EXCEPT !.pc = "halt", !.snap = NoRow]
  <2>1. Halts(c)
    BY <1>1, <1>4 DEF HaltDetach, Halts
  <2>2. c.job = o.job
    BY <1>1 DEF Shaped
  <2> QED
    BY <1>1, <1>2, <2>1, <2>2, HaltGoes
<1>5. ASSUME NEW b \in BusIds, HaltBus(b) PROVE SaveInv'
  <2> DEFINE j == [o.job EXCEPT !.buses = @ \ {b}]
             c == [o EXCEPT !.job = j]
  <2>1. Halts(c)
    BY <1>5 DEF HaltBus, Halts
  <2>2. j \in HaltJob
    BY <1>2 DEF HaltJob
  <2> HIDE DEF j
  <2>3. c.job = j
    BY <1>1 DEF Shaped
  <2> QED
    BY <1>1, <2>1, <2>2, <2>3, HaltGoes
<1>6. ASSUME NEW s \in Srcs, HaltSource(s) PROVE SaveInv'
  <2> DEFINE j == [o.job EXCEPT !.srcs = @ \ {s}]
             c == [o EXCEPT !.pc = "detach", !.job = j, !.snap = s]
  <2>1. Halts(c)
    BY <1>6, HaltSourceHalts
  <2>2. j \in HaltJob
    BY <1>2 DEF HaltJob
  <2>3. c = [o EXCEPT !.pc = "detach", !.job = j, !.snap = s]
    OBVIOUS
  <2> HIDE DEF j, c, o
  <2>4. c.job = j
    BY <1>1, <2>3 DEF Shaped
  <2> QED
    BY <1>1, <2>1, <2>2, <2>4, HaltGoes DEF o
<1> QED
  BY <1>3, <1>4, <1>5, <1>6

\* A mixing thread moves, or a stream ends: no knob is turned.
Unturned ==
  /\ UNCHANGED <<pool, buses, row, call, saved, touched, clean>>
  /\ \A j \in DOMAIN loop : Settings(loop'[j]) = Settings(loop[j])
                            /\ loop'[j].controls = loop[j].controls

LEMMA UnturnedKeeps ==
  ASSUME MixInv, SaveInv, Unturned
  PROVE  SaveInv'
<1>1. UNCHANGED <<pool, buses, row, call, saved, touched, clean>>
  BY DEF Unturned
<1>2. \A b \in BusIds : buses[b] # 0 => buses[b] \in DOMAIN loop
  BY DEF MixInv, LoopInv, BusesOk
<1>3. Now' = Now
  BY <1>1, <1>2, NowIs, NowIsThen, NowSame DEF Unturned
<1>4. HaltJobOk' /\ AloneOk' /\ SnapOk' /\ UntouchedOk' /\ saved' \in Row
  BY <1>1, <1>3 DEF SaveInv, HaltJobOk, AloneOk, SnapOk, UntouchedOk, Busy, At, Row
<1>5. RowOk'
  BY <1>1, <1>3 DEF SaveInv, RowOk, Creates
<1>6. \A r : Underway(r) => Underway(r)'
  <2> SUFFICES ASSUME NEW r, Underway(r) PROVE Underway(r)'
    OBVIOUS
  <2> DEFINE c == call[Boot]
             x == Now[c.job.bus]
  <2>1. Restores(c, pool, loop[c.loop], x, r)
    BY DEF Underway
  <2>2. c.pc \in {"fill", "list"} => c.loop \in DOMAIN loop
    BY WhoIs DEF MixInv, LoopInv, MakingOk, CallsOk, TaskOk
  <2>3. c.pc \in {"fill", "list"} => /\ Settings(loop'[c.loop]) = Settings(loop[c.loop])
                                     /\ loop'[c.loop].controls = loop[c.loop].controls
    BY <2>2 DEF Unturned
  <2>4. call'[Boot] = c /\ pool' = pool /\ Now'[call'[Boot].job.bus] = x
    BY <1>1, <1>3
  <2> HIDE DEF c, x
  <2>5. Restores(c, pool, loop'[c.loop], x, r)
    BY <2>1, <2>3 DEF Restores
  <2> QED
    BY <2>4, <2>5 DEF Underway, Restores, Settings
<1>7. \A r : Backing(r) => Backing(r)'
  BY <1>1, <1>3, <1>6 DEF Backing, BootOn
<1>8. RestoreOn'
  BY <1>1, <1>7 DEF SaveInv, RestoreOn
<1> QED
  BY <1>4, <1>5, <1>8 DEF SaveInv

LEMMA ThreadSaves ==
  ASSUME MixInv, SaveInv,
         \/ \E k \in DOMAIN source : SourceEnds(k)
         \/ \E k \in DOMAIN loop : MixApply(k) \/ \E s \in Srcs : MixDead(k, s)
         \/ UNCHANGED vars
  PROVE  SaveInv'
<1>1. loop \in Seq(Loop)
  BY DEF MixInv, LoopInv, LoopsOk
<1>2. CASE (\E k \in DOMAIN source : SourceEnds(k)) \/ UNCHANGED vars
  <2>1. UNCHANGED <<pool, loop, buses, row, call, saved, touched, clean>>
    BY <1>2 DEF SourceEnds, vars
  <2>2. Unturned
    BY <2>1 DEF Unturned, Settings
  <2> QED
    BY <2>2, UnturnedKeeps
<1>3. ASSUME NEW k \in DOMAIN loop, NEW m, loop' = [loop EXCEPT ![k] = m],
             m.controls = loop[k].controls, m.knobs = loop[k].knobs,
             UNCHANGED <<pool, buses, row, call, saved, touched, clean>>
      PROVE  SaveInv'
  <2>1. \A j \in DOMAIN loop : /\ loop'[j].controls = loop[j].controls
                               /\ loop'[j].knobs = loop[j].knobs
    BY <1>1, <1>3
  <2>2. \A j \in DOMAIN loop : Settings(loop'[j]) = Settings(loop[j])
    BY <2>1 DEF Settings
  <2>3. Unturned
    BY <1>3, <2>1, <2>2 DEF Unturned
  <2> QED
    BY <2>3, UnturnedKeeps
<1>4. ASSUME NEW k \in DOMAIN loop, MixApply(k) PROVE SaveInv'
  <2> DEFINE m == Flushed(loop[k])
  <2>1. loop' = [loop EXCEPT ![k] = m]
    BY <1>1, <1>4 DEF MixApply, Flushed
  <2>2. loop[k] \in Loop
    BY <1>1
  <2>3. m.controls = loop[k].controls /\ m.knobs = loop[k].knobs
    BY <2>2 DEF Flushed, Loop
  <2>4. UNCHANGED <<pool, buses, row, call, saved, touched, clean>>
    BY <1>4 DEF MixApply
  <2> HIDE DEF m
  <2> QED
    BY <1>3, <2>1, <2>3, <2>4
<1>5. ASSUME NEW k \in DOMAIN loop, NEW s \in Srcs, MixDead(k, s) PROVE SaveInv'
  <2> DEFINE m == Silenced(loop[k], s)
  <2>1. loop' = [loop EXCEPT ![k] = m]
    BY <1>1, <1>5 DEF MixDead, Silenced
  <2>2. loop[k] \in Loop
    BY <1>1
  <2>3. m.controls = loop[k].controls /\ m.knobs = loop[k].knobs
    BY <2>2 DEF Silenced, Loop
  <2>4. UNCHANGED <<pool, buses, row, call, saved, touched, clean>>
    BY <1>5 DEF MixDead
  <2> HIDE DEF m
  <2> QED
    BY <1>3, <2>1, <2>3, <2>4
<1> QED
  BY <1>2, <1>4, <1>5

\* Before the first call.
LEMMA SaveInit ==
  ASSUME Init
  PROVE  SaveInv
<1>1. PICK st \in Starts : row = st.row /\ call = [p \in Procs |-> Idle(IF p = Boot THEN "next"
                                                        ELSE IF p \in st.calls THEN "idle"
                                                        ELSE "done")]
  BY DEF Init
<1>2. buses = [b \in BusIds |-> 0] /\ saved = row /\ ~touched
  BY DEF Init
<1>3. \A p \in Procs : call[p].pc \in Resting /\ call[p].job = None
  BY <1>1 DEF Idle, Resting
<1>4. Now = NoRow
  BY <1>2 DEF Now, NoRow
<1>5. saved \in Row
  BY <1>1, <1>2, MixerAssumption
<1>6. HaltJobOk /\ AloneOk /\ SnapOk /\ UntouchedOk
  <2>1. \A p \in Procs : ~Busy(p) /\ ~At(p, "save")
    BY <1>3 DEF Busy, At, Resting
  <2> QED
    BY <1>3, <2>1, WhoIs DEF HaltJobOk, AloneOk, SnapOk, UntouchedOk
<1>7. RowOk
  BY <1>2, <1>4 DEF RowOk
<1>8. Backing(st.row)
  <2>1. \A b \in BusIds : ~BootOn(b)
    BY <1>3, WhoIs DEF BootOn
  <2>2. \A b \in BusIds : Now[b] = None
    BY <1>4 DEF NoRow
  <2> QED
    BY <1>1, <1>2, <2>1, <2>2 DEF Backing
<1>9. RestoreOn
  BY <1>3, <1>8, WhoIs DEF RestoreOn
<1> QED
  BY <1>5, <1>6, <1>7, <1>9 DEF SaveInv

\* Every step keeps it.
LEMMA SaveStep ==
  ASSUME MixInv, SaveInv, [Next]_vars
  PROVE  SaveInv'
<1>1. ASSUME NEW p \in Tasks, Step(p) PROVE SaveInv'
  BY <1>1, EnsureLookKeeps, EnsureOpenKeeps, EnsureInsertKeeps, StartBusKeeps, FillBusKeeps,
     ListBusKeeps, ChangesKeep, SetMutedKeeps, SnapshotKeeps, SaveKeeps DEF Step
<1>2. CASE \E c \in Calls, r \in Requests : Begin(c, r)
  BY <1>2, BeginKeeps
<1>3. CASE \E b \in BusIds : RestoreNext(b)
  BY <1>3, RestoreKeeps
<1>4. CASE \/ \E b \in BusIds : HaltBus(b)
           \/ HaltBegin \/ HaltDetach \/ HaltEnd \/ \E s \in Srcs : HaltSource(s)
  BY <1>4, HaltBeginKeeps, HaltKeeps
<1>5. CASE \/ \E k \in DOMAIN source : SourceEnds(k)
           \/ \E k \in DOMAIN loop : MixApply(k) \/ \E s \in Srcs : MixDead(k, s)
           \/ UNCHANGED vars
  BY <1>5, ThreadSaves
<1> QED
  BY <1>1, <1>2, <1>3, <1>4, <1>5 DEF Next, Tasks

\* With all at rest the invariant says what SavedAsIs does.
LEMMA SavedFollows ==
  ASSUME MixInv, SaveInv
  PROVE  SavedAsIs
<1> SUFFICES ASSUME clean, saved = NoRow, \A p \in Procs : ~Busy(p)
             PROVE  /\ call[Halt].job = None => row = Now
                    /\ ~touched => \E s \in Starts : row = s.row
  BY DEF SavedAsIs, Now
<1>1. \A p \in Tasks : call[p].pc \in Resting
  BY WhoIs DEF Busy, Resting
<1>2. call[Halt].job = None => row = Now
  BY <1>1, WhoIs DEF SaveInv, RowOk, Creates, Writing, Resting
<1>3. ASSUME ~touched PROVE \E s \in Starts : row = s.row
  <2>1. PICK st \in Starts : IF call[Halt].job = None THEN Backing(st.row) ELSE row = st.row
    BY <1>3 DEF SaveInv, RestoreOn
  <2>2. CASE call[Halt].job # None
    BY <2>1, <2>2
  <2>3. CASE call[Halt].job = None
    <3>1. \A b \in BusIds : Now[b] = st.row[b]
      BY <1>1, <2>1, <2>3, WhoIs DEF Backing, BootOn, NoRow
    <3>2. st.row \in Row
      BY MixerAssumption
    <3> DEFINE N == Now
               R == st.row
    <3>3. N = [b \in BusIds |-> N[b]] /\ R = [b \in BusIds |-> R[b]] /\ \A b \in BusIds : N[b] = R[b]
      BY <3>1, <3>2, NowIs DEF Row
    <3>4. row = N
      BY <1>2, <2>3
    <3> HIDE DEF N, R
    <3>5. N = R
      BY <3>3
    <3> QED
      BY <3>4, <3>5 DEF R
  <2> QED
    BY <2>2, <2>3
<1> QED
  BY <1>2, <1>3

(***************************************************************************)
(* The row is what the buses are, mutes included, when nothing is going    *)
(* on, nothing overlapped and no save failed; and restore_all, which saves *)
(* with every bus it creates and with every mute, ends with the row it     *)
(* began with if no API call came in: for any buses, sources, saved rows,  *)
(* requests and faults.                                                    *)
(***************************************************************************)
THEOREM SavedAsIsAlways == Spec => []SavedAsIs
<1>1. Init => SaveInv
  BY SaveInit
<1>2. MixInv /\ SaveInv /\ [Next]_vars => SaveInv'
  BY SaveStep
<1>3. MixInv /\ SaveInv => SavedAsIs
  BY SavedFollows
<1> QED
  BY <1>1, <1>2, <1>3, MixInvAlways, PTL DEF Spec
=============================================================================
