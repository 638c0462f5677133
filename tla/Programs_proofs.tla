-------------------------- MODULE Programs_proofs --------------------------
(***************************************************************************)
(* The programs of module Programs, for any programs, sources, calls and   *)
(* number of starts: no loop or source is left without an owner, no        *)
(* program is forgotten, and what is saved can be created again.           *)
(***************************************************************************)
EXTENDS Programs, FiniteSetTheorems, WellFoundedInduction, SequenceTheorems, TLAPS

-----------------------------------------------------------------------------
(* The inductive invariant, in named parts. *)

Resting  == {"idle", "next", "done"}
Asked    == {"create", "remove", "switch", "relayout", "add", "drop"}
Holding  == {"insert", "slot", "layout", "adding", "push", "dropping"}
Saving   == {"regions", "sources", "save"}

\* What was asked by the one who is at pc.
OpAt(pc, op) ==
  /\ pc \in Asked => op = pc
  /\ pc \in {"opening", "insert"} => op = "create"
  /\ pc = "slot" => op = "switch"
  /\ pc = "layout" => op = "relayout"
  /\ pc \in {"adding", "push"} => op = "add"
  /\ pc = "dropping" => op = "drop"

\* How far a call is fits what it has.
CallOk(c) ==
  /\ c.pc \notin Resting => c.job \in Request /\ OpAt(c.pc, c.job.op)
  /\ c.pc \notin Resting => (c.job.op = "add" => c.job.src \in Srcs)
  /\ c.pc \in Resting \cup Asked \cup {"opening"} => c.my = 0
  /\ c.pc \in Holding => c.my # 0

\* The entry a call has is one of its program.
HandOk(c, es) == c.my # 0 => c.my \in DOMAIN es /\ es[c.my].id = c.job.id

CallsOk == \A p \in Procs : CallOk(call[p]) /\ HandOk(call[p], entry)

\* restore_all only creates.
BootOk == Busy(Boot) => call[Boot].job.op = "create"

\* Two that are busy with one program have raced.
RaceOk == \A p, q \in Procs : p # q /\ Busy(p) /\ Busy(q) /\ Id(p) = Id(q) => Id(p) \in raced

\* What a call says of the map: a program it creates is not there, and the
\* entry it holds is the one of the map.
Agrees(c, m) ==
  /\ c.pc \in {"opening", "insert"} => m[c.job.id] = 0
  /\ c.my # 0 /\ c.pc # "insert" => m[c.job.id] = c.my

HoldOk == \A p \in Procs : Busy(p) /\ Id(p) \notin raced => Agrees(call[p], live)

\* While persist_all reads, the map does not change.
SnapOk ==
  \A p \in Procs : At(p, "sources") => \A id \in Ids : live[id] # 0 => call[p].snap[id] # None

\* An entry at rest.
Dead(e) == ~e.running /\ \A i \in DOMAIN e.handles : e.handles[i].kind = "off"

OrphanOk == \A e \in DOMAIN entry : entry[e].id \notin raced /\ e \notin Live /\ ~InHand(e) => Dead(entry[e])

HeldInv == TypeOK /\ CallsOk /\ BootOk /\ RaceOk /\ HoldOk /\ SnapOk /\ OrphanOk

-----------------------------------------------------------------------------
(* Requests for programs that are forgotten. *)

BootOn(id) == Busy(Boot) /\ Id(Boot) = id

\* Without an overlap one is busy at most, and nobody once the process stops.
AloneOk ==
  clean => /\ \A p, q \in Procs : Busy(p) /\ Busy(q) => p = q
           /\ process # "up" => saved = NoRow /\ \A p \in Procs : ~Busy(p)

\* What is owed runs, or restore_all has it before it.
OwedOk ==
  clean /\ process = "up" => \A id \in owed : live[id] # 0 \/ saved[id] # None \/ BootOn(id)

\* A program that is being removed is not owed; one that was created runs, and
\* is in what persist_all read.
WorkOk ==
  clean => \A p \in Procs : Busy(p) =>
    /\ call[p].job.op = "remove" => Id(p) \notin owed
    /\ call[p].pc \in Saving /\ call[p].job.op = "create" => live[Id(p)] # 0
    /\ call[p].pc = "save" => \A id \in Ids : live[id] # 0 => call[p].snap[id] # None

KeptInv == AloneOk /\ OwedOk /\ WorkOk /\ NothingForgotten

-----------------------------------------------------------------------------
(* Sequences and records. *)

LEMMA SeqExcept ==
  ASSUME NEW S, NEW s \in Seq(S), NEW k \in DOMAIN s, NEW v \in S
  PROVE  /\ [s EXCEPT ![k] = v] \in Seq(S) /\ DOMAIN [s EXCEPT ![k] = v] = DOMAIN s
         /\ [s EXCEPT ![k] = v][k] = v
         /\ \A e \in DOMAIN s : e # k => [s EXCEPT ![k] = v][e] = s[e]
OBVIOUS

LEMMA SeqAppend ==
  ASSUME NEW S, NEW s \in Seq(S), NEW v \in S
  PROVE  /\ Append(s, v) \in Seq(S) /\ Len(s) \in Nat /\ Len(s) + 1 \notin DOMAIN s /\ Len(s) + 1 # 0
         /\ DOMAIN Append(s, v) = DOMAIN s \cup {Len(s) + 1}
         /\ Append(s, v)[Len(s) + 1] = v
         /\ \A e \in DOMAIN s : Append(s, v)[e] = s[e]
OBVIOUS

\* p moves to c, and the others stay where they are.
Moves(p, c) ==
  /\ c \in Call
  /\ call' = [q \in Procs |-> IF q = p THEN c ELSE call[q]]

LEMMA MovesTo ==
  ASSUME NEW p \in Procs, NEW c, Moves(p, c)
  PROVE  /\ call' \in [Procs -> Call] \/ call \notin [Procs -> Call]
         /\ call'[p] = c
         /\ \A q \in Procs : q # p => call'[q] = call[q]
BY DEF Moves

LEMMA NoRowType == NoRow \in [Ids -> Program \cup {None}]
BY DEF NoRow

LEMMA IdleType ==
  ASSUME NEW x \in Resting
  PROVE  /\ Idle(x) \in Call /\ Idle(x).pc = x /\ Idle(x).my = 0 /\ Idle(x).job = None
BY NoRowType DEF Idle, Call, Pcs, Resting

\* c is o at another pc.
Goes(o, c, x) == c.pc = x /\ c.job = o.job /\ c.my = o.my /\ c.gen = o.gen /\ c.snap = o.snap

LEMMA PcMoves ==
  ASSUME call \in [Procs -> Call], NEW p \in Procs, NEW x \in Pcs,
         call' = [call EXCEPT ![p].pc = x]
  PROVE  \E c : Moves(p, c) /\ Goes(call[p], c, x)
<1> DEFINE c == [call[p] EXCEPT !.pc = x]
<1>1. call[p] \in Call /\ call = [q \in Procs |-> call[q]]
  OBVIOUS
<1>2. c \in Call /\ Goes(call[p], c, x)
  BY <1>1 DEF Call, Goes
<1>3. call' = [q \in Procs |-> IF q = p THEN c ELSE call[q]]
  BY <1>1
<1> QED
  BY <1>2, <1>3 DEF Moves

SetJob(p, x, r) == call' = [call EXCEPT ![p].pc = x, ![p].job = r]
SetMy(p, x, e) == call' = [call EXCEPT ![p].pc = x, ![p].my = e]
SetGen(p, x, e, g) == call' = [call EXCEPT ![p].pc = x, ![p].my = e, ![p].gen = g]
SetSnap(p, x, s) == call' = [call EXCEPT ![p].pc = x, ![p].snap = s]

LEMMA MyMoves ==
  ASSUME call \in [Procs -> Call], NEW p \in Procs, NEW x \in Pcs, NEW e \in Nat,
         SetMy(p, x, e)
  PROVE  \E c : Moves(p, c) /\ c.pc = x /\ c.job = call[p].job /\ c.my = e /\ c.snap = call[p].snap
<1> DEFINE c == [call[p] EXCEPT !.pc = x, !.my = e]
<1>1. call[p] \in Call /\ call = [q \in Procs |-> call[q]]
  OBVIOUS
<1>2. c \in Call /\ c.pc = x /\ c.job = call[p].job /\ c.my = e /\ c.snap = call[p].snap
  BY <1>1 DEF Call
<1>3. call' = [q \in Procs |-> IF q = p THEN c ELSE call[q]]
  BY <1>1 DEF SetMy
<1> QED
  BY <1>2, <1>3 DEF Moves

LEMMA GenMoves ==
  ASSUME call \in [Procs -> Call], NEW p \in Procs, NEW x \in Pcs, NEW e \in Nat, NEW g \in Nat,
         SetGen(p, x, e, g)
  PROVE  \E c : Moves(p, c) /\ c.pc = x /\ c.job = call[p].job /\ c.my = e /\ c.snap = call[p].snap /\ c.gen = g
<1> DEFINE c == [call[p] EXCEPT !.pc = x, !.my = e, !.gen = g]
<1>1. call[p] \in Call /\ call = [q \in Procs |-> call[q]]
  OBVIOUS
<1>2. c \in Call /\ c.pc = x /\ c.job = call[p].job /\ c.my = e /\ c.snap = call[p].snap /\ c.gen = g
  BY <1>1 DEF Call
<1>3. call' = [q \in Procs |-> IF q = p THEN c ELSE call[q]]
  BY <1>1 DEF SetGen
<1> QED
  BY <1>2, <1>3 DEF Moves

LEMMA JobMoves ==
  ASSUME call \in [Procs -> Call], NEW p \in Procs, NEW x \in Pcs, NEW r \in Request,
         SetJob(p, x, r)
  PROVE  \E c : Moves(p, c) /\ c.pc = x /\ c.job = r /\ c.my = call[p].my /\ c.snap = call[p].snap
<1> DEFINE c == [call[p] EXCEPT !.pc = x, !.job = r]
<1>1. call[p] \in Call /\ call = [q \in Procs |-> call[q]]
  OBVIOUS
<1>2. c \in Call /\ c.pc = x /\ c.job = r /\ c.my = call[p].my /\ c.snap = call[p].snap
  BY <1>1 DEF Call
<1>3. call' = [q \in Procs |-> IF q = p THEN c ELSE call[q]]
  BY <1>1 DEF SetJob
<1> QED
  BY <1>2, <1>3 DEF Moves

LEMMA SnapMoves ==
  ASSUME call \in [Procs -> Call], NEW p \in Procs, NEW x \in Pcs, NEW s \in [Ids -> Program \cup {None}],
         SetSnap(p, x, s)
  PROVE  \E c : Moves(p, c) /\ c.pc = x /\ c.job = call[p].job /\ c.my = call[p].my /\ c.snap = s
<1> DEFINE c == [call[p] EXCEPT !.pc = x, !.snap = s]
<1>1. call[p] \in Call /\ call = [q \in Procs |-> call[q]]
  OBVIOUS
<1>2. c \in Call /\ c.pc = x /\ c.job = call[p].job /\ c.my = call[p].my /\ c.snap = s
  BY <1>1 DEF Call
<1>3. call' = [q \in Procs |-> IF q = p THEN c ELSE call[q]]
  BY <1>1 DEF SetSnap
<1> QED
  BY <1>2, <1>3 DEF Moves

LEMMA IdleMoves ==
  ASSUME call \in [Procs -> Call], NEW p \in Procs, NEW x \in Resting,
         call' = [call EXCEPT ![p] = Idle(x)]
  PROVE  Moves(p, Idle(x))
<1>1. call' = [q \in Procs |-> IF q = p THEN Idle(x) ELSE call[q]]
  OBVIOUS
<1> QED
  BY <1>1, IdleType DEF Moves

\* A set of numbers that is not empty has a least one.
LEMMA LeastNat ==
  ASSUME NEW T \in SUBSET Nat, T # {}
  PROVE  \E x \in T : \A y \in T : x <= y
<1> DEFINE I == {0..x : x \in T}
           R == StrictSubsetOrdering(Nat)
<1>1. \A x \in Nat : 0..x \in FiniteSubsetsOf(Nat)
  BY FS_Interval DEF FiniteSubsetsOf
<1>2. I \subseteq FiniteSubsetsOf(Nat) /\ I # {}
  BY <1>1
<1>3. IsWellFoundedOn(R, FiniteSubsetsOf(Nat))
  BY FS_StrictSubsetOrderingWellFounded
<1> HIDE DEF I, R
<1>4. PICK i \in I : \A j \in I : ~ (<<j, i>> \in R)
  BY <1>2, <1>3, WFMin
<1>5. PICK x \in T : i = 0..x
  BY DEF I
<1>6. ASSUME NEW y \in T, y < x PROVE FALSE
  <2>1. /\ 0..y \in I /\ 0..y \subseteq 0..x /\ 0..y # 0..x
        /\ 0..x \in SUBSET Nat /\ 0..y \in SUBSET Nat
    BY <1>6 DEF I
  <2>2. <<0..y, 0..x>> \in R
    BY <2>1 DEF R, StrictSubsetOrdering
  <2>3. QED
    BY <2>1, <2>2, <1>4, <1>5
<1>7. QED
  BY <1>6

\* What removing the first handle of a source leaves.
LEMMA WithoutIs ==
  ASSUME NEW h \in Seq(Handle), NEW s, \E i \in DOMAIN h : h[i].src = s
  PROVE  \E i \in 1..Len(h) :
           /\ h[i].src = s /\ Without(h, s) \in Seq(Handle)
           /\ Len(Without(h, s)) + 1 = Len(h)
           /\ \A k \in 1..Len(Without(h, s)) : Without(h, s)[k] = IF k < i THEN h[k] ELSE h[k + 1]
<1> DEFINE T == {i \in 1..Len(h) : h[i].src = s}
           First(k) == h[k].src = s /\ \A j \in 1..(k - 1) : h[j].src # s
           i == CHOOSE k \in DOMAIN h : First(k)
<1>1. Len(h) \in Nat /\ DOMAIN h = 1..Len(h) /\ T \in SUBSET Nat /\ T # {}
  OBVIOUS
<1>2. PICK x \in T : \A y \in T : x <= y
  BY <1>1, LeastNat
<1>3. x \in DOMAIN h /\ First(x)
  <2>1. ASSUME NEW j \in 1..(x - 1), h[j].src = s PROVE FALSE
    <3>1. j \in 1..Len(h) /\ j < x
      BY <1>1
    <3> QED
      BY <1>2, <2>1, <3>1
  <2> QED
    BY <1>1, <2>1
<1>4. i \in 1..Len(h) /\ h[i].src = s
  <2>1. i \in DOMAIN h /\ First(i)
    BY <1>3, Zenon
  <2> QED
    BY <1>1, <2>1
<1>5. Without(h, s) = SubSeq(h, 1, i - 1) \o SubSeq(h, i + 1, Len(h))
  BY Zenon DEF Without
<1> HIDE DEF i
<1> DEFINE a == SubSeq(h, 1, i - 1)
           b == SubSeq(h, i + 1, Len(h))
<1>6. /\ a \in Seq(Handle) /\ Len(a) = i - 1 /\ \A k \in 1..i - 1 : a[k] = h[k]
  BY <1>1, <1>4
<1>7. /\ b \in Seq(Handle) /\ Len(b) = Len(h) - i /\ \A k \in 1..Len(h) - i : b[k] = h[i + k]
  <2>1. i + 1 \in 1..Len(h) + 1 /\ Len(h) \in i + 1 - 1..Len(h)
    BY <1>1, <1>4
  <2>2. /\ b \in Seq(Handle)
        /\ Len(b) = IF i + 1 <= Len(h) THEN Len(h) - (i + 1) + 1 ELSE 0
        /\ \A k \in 1..Len(h) - (i + 1) + 1 : b[k] = h[i + 1 + k - 1]
    BY <2>1, SubSeqProperties
  <2> HIDE DEF b, T
  <2>3. Len(b) = Len(h) - i /\ Len(h) - (i + 1) + 1 = Len(h) - i
    <3>1. i \in Nat /\ Len(h) \in Nat /\ i <= Len(h)
      BY <1>1, <1>4
    <3>2. Len(b) = IF i + 1 <= Len(h) THEN Len(h) - (i + 1) + 1 ELSE 0
      BY <2>2
    <3> QED
      BY <3>1, <3>2
  <2>4. \A k \in 1..Len(h) - i : i + 1 + k - 1 = i + k
    BY <1>1, <1>4
  <2> QED
    BY <2>2, <2>3, <2>4
<1> HIDE DEF a, b
<1>8. /\ a \o b \in Seq(Handle) /\ Len(a \o b) = Len(h) - 1
      /\ \A k \in 1..Len(h) - 1 : (a \o b)[k] = IF k <= Len(a) THEN a[k] ELSE b[k - Len(a)]
  <2>1. /\ a \o b \in Seq(Handle) /\ Len(a \o b) = Len(a) + Len(b)
        /\ \A k \in 1..Len(a) + Len(b) : (a \o b)[k] = IF k <= Len(a) THEN a[k] ELSE b[k - Len(a)]
    BY <1>6, <1>7, ConcatProperties
  <2>2. Len(a) + Len(b) = Len(h) - 1
    BY <1>1, <1>4, <1>6, <1>7
  <2> QED
    BY <2>1, <2>2
<1>9. ASSUME NEW k \in 1..Len(h) - 1 PROVE (a \o b)[k] = IF k < i THEN h[k] ELSE h[k + 1]
  <2>1. CASE k < i
    BY <1>4, <1>6, <1>8, <2>1
  <2>2. CASE ~(k < i)
    <3>1. k - Len(a) \in 1..Len(h) - i /\ ~(k <= Len(a)) /\ i + (k - Len(a)) = k + 1
      BY <1>1, <1>4, <1>6, <2>2
    <3> QED
      BY <1>7, <1>8, <2>2, <3>1
  <2> QED
    BY <2>1, <2>2
<1>10. Without(h, s) = a \o b
  BY <1>5 DEF a, b
<1>11. Len(Without(h, s)) = Len(h) - 1 /\ (Len(h) - 1) + 1 = Len(h)
  <2> HIDE DEF T
  <2>1. Len(Without(h, s)) = Len(h) - 1
    BY <1>8, <1>10
  <2> QED
    BY <1>1, <2>1
<1> QED
  BY <1>4, <1>8, <1>9, <1>10, <1>11

-----------------------------------------------------------------------------
(* What the steps have in common. *)

\* The variables that are neither the map, nor the entries, nor the calls.
EnvOk ==
  /\ process \in {"up", "stopping", "down"} /\ boots \in 1..MaxBoots
  /\ row \in [Ids -> Program \cup {None}] /\ saved \in [Ids -> Program \cup {None}]
  /\ owed \subseteq Ids /\ raced \subseteq Ids /\ torn \subseteq Ids /\ clean \in BOOLEAN

\* Of the entries, k alone may change (0: none), and stays one of its program.
Touch(k) ==
  /\ entry' \in Seq(Entry) /\ DOMAIN entry' = DOMAIN entry
  /\ \A e \in DOMAIN entry : entry'[e].id = entry[e].id /\ (e # k => entry'[e] = entry[e])

\* What the invariant says of one process.
LEMMA Facts ==
  ASSUME HeldInv, NEW p \in Procs
  PROVE  /\ call \in [Procs -> Call] /\ live \in [Ids -> Nat] /\ entry \in Seq(Entry)
         /\ call[p] \in Call /\ call[p].pc \in Pcs /\ call[p].my \in Nat /\ call[p].snap \in [Ids -> Program \cup {None}]
         /\ CallOk(call[p]) /\ HandOk(call[p], entry)
         /\ Busy(p) => call[p].job \in Request /\ Id(p) \in Ids
<1>1. call[p] \in Call
  BY DEF HeldInv, TypeOK
<1>2. CallOk(call[p]) /\ HandOk(call[p], entry)
  BY DEF HeldInv, CallsOk
<1>3. Busy(p) => call[p].job \in Request
  BY <1>2 DEF CallOk, Busy, Resting
<1>4. Busy(p) => Id(p) \in Ids
  BY <1>3 DEF Request, Id
<1> QED
  BY <1>1, <1>2, <1>3, <1>4 DEF HeldInv, TypeOK, Call

LEMMA NotZero ==
  ASSUME HeldInv, NEW e \in DOMAIN entry
  PROVE  e # 0
BY DEF HeldInv, TypeOK

\* A step of a call that goes on.
WorkStep(p, c, k) ==
  /\ Busy(p) /\ Moves(p, c) /\ Touch(k) /\ live' = live /\ raced' = raced
  /\ c.pc \notin Resting /\ c.pc # "insert" /\ c.job = call[p].job
  /\ OpAt(c.pc, c.job.op)
  /\ c.pc \in Asked \cup {"opening"} => c.my = 0
  /\ c.pc \in Holding => c.my # 0
  /\ k = 0 \/ k = c.my
  /\ c.my = call[p].my \/ (call[p].my = 0 /\ c.my = live[Id(p)])
  /\ call[p].pc # "insert"
  /\ c.pc = "opening" => live[Id(p)] = 0
  /\ c.pc = "sources" => \A id \in Ids : live[id] # 0 => c.snap[id] # None

LEMMA WorkKeeps ==
  ASSUME HeldInv, EnvOk', NEW p \in Procs, NEW c, NEW k, WorkStep(p, c, k)
  PROVE  HeldInv'
<1>1. /\ call' \in [Procs -> Call] /\ call'[p] = c
      /\ \A q \in Procs : q # p => call'[q] = call[q]
  BY MovesTo DEF WorkStep, HeldInv, TypeOK
<1>2. /\ c.job = call[p].job /\ c.pc \notin Resting /\ c.pc # "insert" /\ call[p].pc # "insert" /\ Busy(p)
      /\ live' = live /\ raced' = raced /\ DOMAIN entry' = DOMAIN entry
      /\ \A e \in DOMAIN entry : entry'[e].id = entry[e].id /\ (e # k => entry'[e] = entry[e])
  BY DEF WorkStep, Touch
<1>3. CallOk(call[p]) /\ HandOk(call[p], entry) /\ call[p].job \in Request /\ Id(p) \in Ids
  BY <1>2, Facts
<1>4. \A q \in Procs : Busy(q)' => Busy(q) /\ Id(q)' = Id(q)
  BY <1>1, <1>2 DEF Busy, Id
<1>5. TypeOK'
  <2>1. \A id \in Ids : live'[id] # 0 => live'[id] \in DOMAIN entry' /\ entry'[live'[id]].id = id
    BY <1>2 DEF HeldInv, TypeOK
  <2> QED
    BY <1>1, <1>2, <2>1 DEF HeldInv, TypeOK, EnvOk, WorkStep, Touch
<1>6. CallsOk'
  <2>1. CallOk(c)
    <3>1. c.job \in Request /\ OpAt(c.pc, c.job.op) /\ (c.job.op = "add" => c.job.src \in Srcs)
      BY <1>2, <1>3 DEF CallOk, WorkStep, Busy, Resting
    <3> QED
      BY <1>2, <3>1 DEF CallOk, WorkStep
  <2>2. HandOk(c, entry')
    <3>1. c.my # 0 => c.my \in DOMAIN entry /\ entry[c.my].id = c.job.id
      <4>1. CASE c.my = call[p].my
        BY <1>2, <1>3, <4>1 DEF HandOk
      <4>2. CASE c.my = live[Id(p)]
        BY <1>2, <1>3, <4>2 DEF HeldInv, TypeOK, Id
      <4> QED
        BY <4>1, <4>2 DEF WorkStep
    <3> QED
      BY <1>2, <3>1 DEF HandOk
  <2>3. ASSUME NEW q \in Procs, q # p PROVE CallOk(call[q]) /\ HandOk(call[q], entry')
    BY <1>2, <2>3, Facts DEF HandOk
  <2>4. \A q \in Procs : CallOk(call'[q]) /\ HandOk(call'[q], entry')
    BY <1>1, <2>1, <2>2, <2>3
  <2> QED
    BY <2>4 DEF CallsOk
<1>7. BootOk' /\ RaceOk'
  <2>1. \A q \in Procs : call'[q].job = call[q].job
    BY <1>1, <1>2
  <2>2. BootOk'
    BY <1>4, <2>1 DEF HeldInv, BootOk, Procs
  <2>3. RaceOk'
    BY <1>2, <1>4 DEF HeldInv, RaceOk
  <2> QED
    BY <2>2, <2>3
<1>8. HoldOk'
  <2> SUFFICES ASSUME NEW q \in Procs, Busy(q)', Id(q)' \notin raced' PROVE Agrees(call'[q], live')
    BY DEF HoldOk
  <2>1. Busy(q) /\ Id(q) \notin raced
    BY <1>2, <1>4
  <2>2. Agrees(call[q], live)
    BY <2>1 DEF HeldInv, HoldOk
  <2>3. CASE q # p
    BY <1>1, <1>2, <2>2, <2>3
  <2>4. CASE q = p
    <3>1. c.my # 0 => live[c.job.id] = c.my
      BY <1>2, <2>2, <2>4 DEF Agrees, WorkStep, Id
    <3>2. c.pc = "opening" => live[c.job.id] = 0
      BY <1>2 DEF WorkStep, Id
    <3> QED
      BY <1>1, <1>2, <2>4, <3>1, <3>2 DEF Agrees
  <2> QED
    BY <2>3, <2>4
<1>9. SnapOk'
  <2> SUFFICES ASSUME NEW q \in Procs, call'[q].pc = "sources", NEW id \in Ids, live'[id] # 0
               PROVE  call'[q].snap[id] # None
    BY DEF SnapOk, At
  <2>1. CASE q # p
    BY <1>1, <1>2, <2>1 DEF HeldInv, SnapOk, At
  <2>2. CASE q = p
    BY <1>1, <1>2, <2>2 DEF WorkStep
  <2> QED
    BY <2>1, <2>2
<1>10. OrphanOk'
  <2> SUFFICES ASSUME NEW e \in DOMAIN entry, entry'[e].id \notin raced', e \notin Live', ~InHand(e)'
               PROVE  Dead(entry'[e])
    BY <1>2 DEF OrphanOk
  <2>1. Live' = Live
    BY <1>2 DEF Live
  <2>2. e # 0
    BY NotZero
  <2>3. c.my # e
    BY <1>1 DEF InHand
  <2>4. e # k
    BY <2>2, <2>3 DEF WorkStep
  <2>5. ~InHand(e)
    <3> SUFFICES ASSUME NEW q \in Procs, call[q].my = e PROVE FALSE
      BY DEF InHand
    <3>1. CASE q # p
      BY <1>1, <3>1 DEF InHand
    <3>2. CASE q = p
      BY <2>2, <2>3, <3>2 DEF WorkStep
    <3> QED
      BY <3>1, <3>2
  <2> QED
    BY <1>2, <2>1, <2>4, <2>5 DEF HeldInv, OrphanOk
<1> QED
  BY <1>5, <1>6, <1>7, <1>8, <1>9, <1>10 DEF HeldInv

\* A call that is over.
LeaveStep(p, x) ==
  /\ Busy(p) /\ Moves(p, Idle(x)) /\ x \in Resting /\ live' = live /\ entry' = entry /\ raced \subseteq raced'
  /\ Id(p) \in raced' \/ call[p].my = 0 \/ call[p].pc # "insert"

LEMMA LeaveKeeps ==
  ASSUME HeldInv, EnvOk', NEW p \in Procs, NEW x, LeaveStep(p, x)
  PROVE  HeldInv'
<1> DEFINE c == Idle(x)
<1>1. c.pc \in Resting /\ c.my = 0
  BY IdleType DEF LeaveStep
<1>2. /\ call' \in [Procs -> Call] /\ call'[p] = c
      /\ \A q \in Procs : q # p => call'[q] = call[q]
  BY MovesTo DEF LeaveStep, HeldInv, TypeOK
<1>3. live' = live /\ entry' = entry /\ raced \subseteq raced'
  BY DEF LeaveStep
<1> HIDE DEF c
<1>4. ASSUME NEW q \in Procs, Busy(q)' PROVE q # p /\ Busy(q) /\ call'[q] = call[q] /\ Id(q)' = Id(q)
  BY <1>1, <1>2, <1>4 DEF Busy, Id, Resting
<1>5. TypeOK'
  BY <1>2, <1>3 DEF HeldInv, TypeOK, EnvOk
<1>6. CallsOk'
  <2>1. CallOk(c) /\ HandOk(c, entry)
    BY <1>1 DEF CallOk, HandOk, Resting, Holding
  <2>2. \A q \in Procs : CallOk(call'[q]) /\ HandOk(call'[q], entry')
    BY <1>2, <1>3, <2>1, Facts
  <2> QED
    BY <2>2 DEF CallsOk
<1>7. BootOk' /\ RaceOk'
  <2>1. BootOk'
    BY <1>4 DEF HeldInv, BootOk, Procs
  <2>2. RaceOk'
    BY <1>3, <1>4 DEF HeldInv, RaceOk
  <2> QED
    BY <2>1, <2>2
<1>8. HoldOk'
  <2> SUFFICES ASSUME NEW q \in Procs, Busy(q)', Id(q)' \notin raced' PROVE Agrees(call'[q], live')
    BY DEF HoldOk
  <2> QED
    BY <1>3, <1>4 DEF HeldInv, HoldOk
<1>9. SnapOk'
  <2> SUFFICES ASSUME NEW q \in Procs, call'[q].pc = "sources", NEW id \in Ids, live'[id] # 0
               PROVE  call'[q].snap[id] # None
    BY DEF SnapOk, At
  <2>1. q # p
    BY <1>1, <1>2 DEF Resting
  <2> QED
    BY <1>2, <1>3, <2>1 DEF HeldInv, SnapOk, At
<1>10. OrphanOk'
  <2> SUFFICES ASSUME NEW e \in DOMAIN entry, entry[e].id \notin raced', e \notin Live, ~InHand(e)'
               PROVE  Dead(entry[e])
    <3>1. Live' = Live
      BY <1>3 DEF Live
    <3> QED
      BY <1>3, <3>1 DEF OrphanOk
  <2>1. call[p].my # e
    <3> SUFFICES ASSUME call[p].my = e PROVE FALSE
      OBVIOUS
    <3>1. e # 0 /\ entry[e].id = Id(p) /\ Busy(p) /\ Id(p) \in Ids
      BY NotZero, Facts DEF HandOk, Id, LeaveStep
    <3>2. Id(p) \notin raced /\ call[p].pc # "insert"
      BY <1>3, <3>1 DEF LeaveStep
    <3>3. live[Id(p)] = e
      BY <3>1, <3>2 DEF HeldInv, HoldOk, Agrees, Id
    <3> QED
      BY <3>1, <3>3 DEF Live
  <2>2. ~InHand(e)
    <3> SUFFICES ASSUME NEW q \in Procs, call[q].my = e PROVE FALSE
      BY DEF InHand
    <3> QED
      BY <1>2, <2>1 DEF InHand
  <2> QED
    BY <1>3, <2>2 DEF HeldInv, OrphanOk
<1> QED
  BY <1>5, <1>6, <1>7, <1>8, <1>9, <1>10 DEF HeldInv

\* A call begins.
LEMMA StartKeeps ==
  ASSUME HeldInv, EnvOk', NEW p \in Procs, NEW r \in Request, ~Busy(p), Start(p, r),
         r.op = "add" => r.src \in Srcs, p = Boot => r.op = "create", UNCHANGED <<live, entry>>
  PROVE  HeldInv'
<1>1. r.op \in Asked /\ r.op \in Pcs /\ r.id \in Ids
  BY DEF Request, Asked, Pcs
<1>2. PICK c : Moves(p, c) /\ c.pc = r.op /\ c.job = r /\ c.my = call[p].my /\ c.snap = call[p].snap
  <2>1. SetJob(p, r.op, r) /\ call \in [Procs -> Call]
    BY Facts DEF Start, SetJob
  <2> QED
    BY <1>1, <2>1, JobMoves
<1>3. c.my = 0
  BY <1>2, Facts DEF CallOk, Busy, Resting
<1>4. /\ call' \in [Procs -> Call] /\ call'[p] = c
      /\ \A q \in Procs : q # p => call'[q] = call[q]
  BY <1>2, MovesTo DEF HeldInv, TypeOK
<1>5. live' = live /\ entry' = entry /\ raced \subseteq raced'
  BY DEF Start
<1>6. ASSUME NEW q \in Procs, q # p PROVE (Busy(q)' <=> Busy(q)) /\ Id(q)' = Id(q)
  BY <1>4, <1>6 DEF Busy, Id
<1>7. TypeOK'
  BY <1>4, <1>5 DEF HeldInv, TypeOK, EnvOk
<1>8. CallsOk'
  <2>1. CallOk(c) /\ HandOk(c, entry)
    BY <1>1, <1>2, <1>3 DEF CallOk, HandOk, OpAt, Asked, Resting, Holding
  <2>2. \A q \in Procs : CallOk(call'[q]) /\ HandOk(call'[q], entry')
    BY <1>4, <1>5, <2>1, Facts
  <2> QED
    BY <2>2 DEF CallsOk
<1>9. BootOk'
  <2>1. CASE p = Boot
    BY <1>2, <1>4, <2>1 DEF BootOk
  <2>2. CASE p # Boot
    BY <1>4, <1>6, <2>2 DEF HeldInv, BootOk, Procs
  <2> QED
    BY <2>1, <2>2
<1>10. RaceOk'
  <2> SUFFICES ASSUME NEW a \in Procs, NEW b \in Procs, a # b, Busy(a)', Busy(b)', Id(a)' = Id(b)'
               PROVE  Id(a)' \in raced'
    BY DEF RaceOk
  <2>1. Id(p)' = r.id
    BY <1>2, <1>4 DEF Id
  <2>2. ASSUME NEW q \in Procs, q # p, Busy(q), Id(q) = r.id PROVE r.id \in raced'
    BY <2>2 DEF Start
  <2>3. CASE a = p
    BY <1>6, <2>1, <2>2, <2>3
  <2>4. CASE b = p
    BY <1>6, <2>1, <2>2, <2>4
  <2>5. CASE a # p /\ b # p
    BY <1>5, <1>6, <2>5 DEF HeldInv, RaceOk
  <2> QED
    BY <2>3, <2>4, <2>5
<1>11. HoldOk'
  <2> SUFFICES ASSUME NEW q \in Procs, Busy(q)', Id(q)' \notin raced' PROVE Agrees(call'[q], live')
    BY DEF HoldOk
  <2>1. CASE q = p
    BY <1>1, <1>2, <1>3, <1>4, <2>1 DEF Agrees, Asked
  <2>2. CASE q # p
    BY <1>4, <1>5, <1>6, <2>2 DEF HeldInv, HoldOk
  <2> QED
    BY <2>1, <2>2
<1>12. SnapOk'
  <2> SUFFICES ASSUME NEW q \in Procs, call'[q].pc = "sources", NEW id \in Ids, live'[id] # 0
               PROVE  call'[q].snap[id] # None
    BY DEF SnapOk, At
  <2>1. q # p
    BY <1>1, <1>2, <1>4 DEF Asked
  <2> QED
    BY <1>4, <1>5, <2>1 DEF HeldInv, SnapOk, At
<1>13. OrphanOk'
  <2>1. ASSUME NEW e PROVE InHand(e)' <=> InHand(e)
    BY <1>2, <1>4 DEF InHand
  <2>2. Live' = Live
    BY <1>5 DEF Live
  <2> QED
    BY <1>5, <2>1, <2>2 DEF HeldInv, OrphanOk
<1> QED
  BY <1>7, <1>8, <1>9, <1>10, <1>11, <1>12, <1>13 DEF HeldInv

-----------------------------------------------------------------------------
(* The actions. *)

\* The entries that an operation leaves.
LEMMA EntryTypes ==
  ASSUME NEW e \in Entry
  PROVE  /\ Dropped(e) \in Entry /\ Dropped(e).id = e.id
         /\ Stopped(e) \in Entry /\ Stopped(e).id = e.id /\ Dead(Stopped(e))
<1>1. e.handles \in Seq(Handle) /\ DOMAIN e.handles = 1..Len(e.handles) /\ Len(e.handles) \in Nat
  BY DEF Entry
<1>2. ASSUME NEW i \in DOMAIN e.handles
      PROVE  /\ e.handles[i] \in Handle
             /\ [e.handles[i] EXCEPT !.kind = "off"] \in Handle
             /\ [e.handles[i] EXCEPT !.kind = "off"].kind = "off"
  <2>1. e.handles[i] \in Handle
    BY <1>1
  <2> QED
    BY <2>1 DEF Handle
<1> DEFINE d == [i \in DOMAIN e.handles |->
                   IF e.handles[i].kind = "hot" THEN [e.handles[i] EXCEPT !.kind = "off"] ELSE e.handles[i]]
           o == [i \in DOMAIN e.handles |-> [e.handles[i] EXCEPT !.kind = "off"]]
<1>3. d \in Seq(Handle)
  <2>1. d \in [1..Len(e.handles) -> Handle]
    BY <1>1, <1>2
  <2> HIDE DEF d
  <2> QED
    BY <1>1, <2>1
<1>4. o \in Seq(Handle) /\ \A i \in DOMAIN o : o[i].kind = "off"
  <2>1. o \in [1..Len(e.handles) -> Handle]
    BY <1>1, <1>2
  <2>2. o \in Seq(Handle)
    <3> HIDE DEF o
    <3> QED
      BY <1>1, <2>1
  <2> QED
    BY <1>2, <2>2
<1>5. Dropped(e) = [e EXCEPT !.handles = d] /\ Stopped(e) = [e EXCEPT !.running = FALSE, !.handles = o]
  BY DEF Dropped, Stopped
<1> HIDE DEF d, o
<1>6. Dropped(e) \in Entry /\ Dropped(e).id = e.id
  BY <1>3, <1>5 DEF Entry
<1>7. Stopped(e) \in Entry /\ Stopped(e).id = e.id /\ Stopped(e).running = FALSE /\ Stopped(e).handles = o
  BY <1>4, <1>5 DEF Entry
<1> QED
  BY <1>4, <1>6, <1>7 DEF Dead

LEMMA TouchNone ==
  ASSUME HeldInv, entry' = entry
  PROVE  Touch(0)
BY DEF Touch, HeldInv, TypeOK

LEMMA TouchOne ==
  ASSUME HeldInv, NEW k \in DOMAIN entry, NEW n \in Entry, n.id = entry[k].id,
         entry' = [entry EXCEPT ![k] = n]
  PROVE  Touch(k)
<1>1. entry \in Seq(Entry)
  BY DEF HeldInv, TypeOK
<1>2. /\ entry' \in Seq(Entry) /\ DOMAIN entry' = DOMAIN entry /\ entry'[k] = n
      /\ \A e \in DOMAIN entry : e # k => entry'[e] = entry[e]
  BY <1>1, SeqExcept
<1> QED
  BY <1>2 DEF Touch

\* Who is at a place of his own is busy.
LEMMA BusyAt ==
  ASSUME NEW p, call[p].pc \notin Resting
  PROVE  Busy(p)
BY DEF Busy, Resting

LEMMA FailKeeps ==
  ASSUME HeldInv, EnvOk', NEW p \in Procs, call[p].pc \in Asked \cup {"opening"}, Fail(p),
         UNCHANGED <<live, entry, raced>>
  PROVE  HeldInv'
<1>1. Busy(p) /\ CallOk(call[p]) /\ call \in [Procs -> Call]
  BY BusyAt, Facts DEF Resting, Asked
<1>2. call[p].my = 0 /\ call[p].pc # "insert"
  BY <1>1 DEF CallOk, Asked
<1>3. ASSUME NEW x \in Resting, call' = [call EXCEPT ![p] = Idle(x)] PROVE HeldInv'
  <2>1. LeaveStep(p, x)
    BY <1>1, <1>2, <1>3, IdleMoves DEF LeaveStep
  <2> QED
    BY <2>1, LeaveKeeps
<1>4. CASE p = Boot /\ Goto(p, "create")
  <2>1. PICK c : Moves(p, c) /\ Goes(call[p], c, "create")
    BY <1>1, <1>4, PcMoves DEF Goto, Pcs
  <2>2. call[p].job.op = "create"
    BY <1>1, <1>4 DEF HeldInv, BootOk
  <2>3. Touch(0)
    BY TouchNone
  <2>4. WorkStep(p, c, 0)
    BY <1>1, <1>2, <2>1, <2>2, <2>3 DEF WorkStep, Goes, OpAt, Resting, Asked, Holding
  <2> QED
    BY <2>4, WorkKeeps
<1> QED
  BY <1>3, <1>4 DEF Fail, Resting

LEMMA MissingKeeps ==
  ASSUME HeldInv, EnvOk', NEW p \in Procs, Missing(p)
  PROVE  HeldInv'
BY FailKeeps DEF Missing, obs, Asked

\* A step that only moves the call on.
LEMMA GotoKeeps ==
  ASSUME HeldInv, EnvOk', NEW p \in Procs, NEW x \in Pcs, NEW k, Goto(p, x), Touch(k), UNCHANGED <<live, raced>>,
         call[p].pc \notin Resting \cup {"insert"}, x \notin Resting \cup {"insert", "sources"},
         OpAt(x, call[p].job.op),
         x \in Asked \cup {"opening"} => call[p].my = 0, x \in Holding => call[p].my # 0,
         k = 0 \/ k = call[p].my, x = "opening" => live[Id(p)] = 0
  PROVE  HeldInv'
<1>1. Busy(p) /\ call \in [Procs -> Call]
  BY BusyAt, Facts
<1>2. PICK c : Moves(p, c) /\ Goes(call[p], c, x)
  BY <1>1, PcMoves DEF Goto
<1>3. WorkStep(p, c, k)
  BY <1>1, <1>2 DEF WorkStep, Goes
<1> QED
  BY <1>3, WorkKeeps

\* A step by which a call gets the entry of its program.
LEMMA TakeKeeps ==
  ASSUME HeldInv, EnvOk', NEW p \in Procs, NEW x \in Pcs, NEW c, NEW k, Touch(k), UNCHANGED <<live, raced>>,
         Moves(p, c), c.pc = x, c.job = call[p].job, c.my = Target(p), Target(p) # 0,
         call[p].pc \in Asked, x \in Holding \ {"insert"}, OpAt(x, call[p].job.op), k = 0 \/ k = Target(p)
  PROVE  HeldInv'
<1>1. Busy(p) /\ CallOk(call[p])
  BY BusyAt, Facts DEF Asked, Resting
<1>2. call[p].my = 0
  BY <1>1 DEF CallOk
<1>3. WorkStep(p, c, k)
  BY <1>1, <1>2 DEF WorkStep, Target, Asked, Holding, Resting
<1> QED
  BY <1>3, WorkKeeps

LEMMA CreateCheckKeeps ==
  ASSUME HeldInv, EnvOk', NEW p \in Procs, CreateCheck(p)
  PROVE  HeldInv'
<1>1. call[p].pc = "create" /\ UNCHANGED <<live, entry, raced>>
  BY DEF CreateCheck, At, obs
<1>2. CASE Fail(p)
  BY <1>1, <1>2, FailKeeps DEF Asked
<1>3. CASE Goto(p, "opening") /\ Target(p) = 0
  <2>1. CallOk(call[p]) /\ Touch(0)
    BY <1>1, Facts, TouchNone
  <2>2. call[p].my = 0 /\ call[p].job.op = "create"
    BY <1>1, <2>1 DEF CallOk, OpAt, Asked, Resting
  <2>3. OpAt("opening", call[p].job.op)
    BY <2>2 DEF OpAt, Asked
  <2> QED
    BY <1>1, <1>3, <2>1, <2>2, <2>3, GotoKeeps DEF Pcs, Resting, Asked, Holding, Target
<1> QED
  BY <1>2, <1>3 DEF CreateCheck

LEMMA SwitchKeeps ==
  ASSUME HeldInv, EnvOk', NEW p \in Procs, Switch(p)
  PROVE  HeldInv'
<1>1. call[p].pc = "switch" /\ Target(p) # 0 /\ UNCHANGED <<live, entry, raced>>
  BY DEF Switch, At, obs
<1>2. CASE Fail(p)
  BY <1>1, <1>2, FailKeeps DEF Asked
<1>3. CASE SetGen(p, "slot", Target(p), entry[Target(p)].gen)
  <2>1. CallOk(call[p]) /\ Touch(0) /\ Busy(p) /\ call \in [Procs -> Call]
    BY <1>1, Facts, TouchNone DEF Busy
  <2>2. Id(p) \in Ids /\ call[p].job.op = "switch"
    BY <1>1, <2>1, Facts DEF CallOk, OpAt, Asked, Resting
  <2>3. Target(p) \in Nat /\ entry[Target(p)] \in Entry
    BY <1>1, <2>2 DEF HeldInv, TypeOK, Target
  <2>4. entry[Target(p)].gen \in Nat
    BY <2>3 DEF Entry
  <2>5. PICK c : Moves(p, c) /\ c.pc = "slot" /\ c.job = call[p].job /\ c.my = Target(p)
    BY <1>3, <2>1, <2>3, <2>4, GenMoves DEF Pcs
  <2>6. OpAt("slot", call[p].job.op)
    BY <2>2 DEF OpAt, Asked
  <2> QED
    BY <1>1, <2>1, <2>5, <2>6, TakeKeeps DEF Pcs, Asked, Holding
<1> QED
  BY <1>2, <1>3 DEF Switch, SetGen

\* The entry in a call's hand.
LEMMA MineIs ==
  ASSUME HeldInv, NEW p \in Procs, call[p].pc \in Holding
  PROVE  /\ call[p].my \in DOMAIN entry /\ Mine(p) \in Entry /\ Mine(p) = entry[call[p].my] /\ call[p].my # 0
         /\ call[p].job \in Request /\ OpAt(call[p].pc, call[p].job.op)
         /\ call[p].job.op = "add" => call[p].job.src \in Srcs
<1>1. CallOk(call[p]) /\ HandOk(call[p], entry) /\ entry \in Seq(Entry)
  BY Facts
<1>2. call[p].my # 0 /\ call[p].job \in Request /\ OpAt(call[p].pc, call[p].job.op)
      /\ (call[p].job.op = "add" => call[p].job.src \in Srcs)
  BY <1>1 DEF CallOk, Holding, Resting
<1> QED
  BY <1>1, <1>2 DEF HandOk, Mine

\* A call changes the entry in its hand and goes to persist_all.
LEMMA ChangeKeeps ==
  ASSUME HeldInv, EnvOk', NEW p \in Procs, NEW x \in {"regions", "push"}, NEW n \in Entry, n.id = Mine(p).id,
         call[p].pc \in Holding \ {"insert"}, Goto(p, x), UNCHANGED <<live, raced>>,
         x = "push" => call[p].job.op = "add",
         entry' = [entry EXCEPT ![call[p].my] = n] \/ entry' = entry
  PROVE  HeldInv'
<1>1. call[p].my \in DOMAIN entry /\ Mine(p) = entry[call[p].my] /\ call[p].my # 0
  BY MineIs
<1>2. Touch(call[p].my) \/ Touch(0)
  BY <1>1, TouchOne, TouchNone
<1>3. OpAt(x, call[p].job.op)
  BY DEF OpAt, Asked
<1>4. x \in Pcs /\ x \notin Resting \cup {"insert", "sources"} /\ x \notin Asked \cup {"opening"}
  BY DEF Pcs, Resting, Asked
<1>5. call[p].pc \notin Resting \cup {"insert"}
  BY DEF Holding, Resting
<1> QED
  BY <1>1, <1>2, <1>3, <1>4, <1>5, GotoKeeps

LEMMA SwitchSlotKeeps ==
  ASSUME HeldInv, EnvOk', NEW p \in Procs, SwitchSlot(p)
  PROVE  HeldInv'
<1> DEFINE k == call[p].my
           r == call[p].job
           m == [entry[k].slots EXCEPT ![r.at] = r.src]
           n == [entry[k] EXCEPT !.slots = m]
<1>1. call[p].pc = "slot" /\ UNCHANGED <<live, raced>> /\ Goto(p, "regions")
  BY DEF SwitchSlot, At, obs
<1>2. k \in DOMAIN entry /\ Mine(p) = entry[k] /\ entry[k] \in Entry /\ r \in Request
  BY <1>1, MineIs DEF Holding
<1>3. entry[k].slots \in Seq(Srcs \cup {Blank}) /\ r.src \in Srcs \cup {Blank}
  BY <1>2 DEF Entry, Request
<1>4. m \in Seq(Srcs \cup {Blank})
  <2>1. CASE r.at \in DOMAIN entry[k].slots
    BY <1>3, <2>1, SeqExcept
  <2>2. CASE r.at \notin DOMAIN entry[k].slots
    <3>1. m = entry[k].slots
      BY <1>3, <2>2
    <3> QED
      BY <1>3, <3>1
  <2> QED
    BY <2>1, <2>2
<1>5. entry' = [entry EXCEPT ![k] = n] \/ entry' = entry
  BY DEF SwitchSlot
<1> HIDE DEF m
<1>6. n \in Entry /\ n.id = Mine(p).id
  BY <1>2, <1>4 DEF Entry
<1> HIDE DEF n
<1> QED
  BY <1>1, <1>5, <1>6, ChangeKeeps DEF Holding

\* The entry of the program a call is about.
LEMMA TargetIs ==
  ASSUME HeldInv, NEW p \in Procs, call[p].pc \in Asked
  PROVE  /\ Busy(p) /\ Id(p) \in Ids /\ call[p].job \in Request /\ call[p].job.op = call[p].pc
         /\ live[Id(p)] \in Nat /\ Target(p) = live[Id(p)] /\ entry \in Seq(Entry)
         /\ Target(p) # 0 => Target(p) \in DOMAIN entry /\ entry[Target(p)] \in Entry
<1>1. Busy(p) /\ CallOk(call[p]) /\ entry \in Seq(Entry)
  BY BusyAt, Facts DEF Asked, Resting
<1>2. Id(p) \in Ids /\ call[p].job \in Request /\ call[p].job.op = call[p].pc
  BY <1>1, Facts DEF CallOk, OpAt, Asked, Resting
<1> QED
  BY <1>1, <1>2 DEF HeldInv, TypeOK, Target

LEMMA TakeEntry ==
  ASSUME HeldInv, EnvOk', NEW p \in Procs, NEW x \in Pcs, NEW k, Touch(k), UNCHANGED <<live, raced>>,
         SetMy(p, x, Target(p)), Target(p) # 0,
         call[p].pc \in Asked, x \in Holding \ {"insert"}, OpAt(x, call[p].pc), k = 0 \/ k = Target(p)
  PROVE  HeldInv'
<1>1. call \in [Procs -> Call] /\ Target(p) \in Nat /\ call[p].job.op = call[p].pc
  BY Facts, TargetIs
<1>2. PICK c : Moves(p, c) /\ c.pc = x /\ c.job = call[p].job /\ c.my = Target(p)
  BY <1>1, MyMoves
<1> QED
  BY <1>1, <1>2, TakeKeeps

\* remove_source keeps the lock from its check to the end.
LockOk ==
  \A p \in Procs : At(p, "dropping") =>
    Mine(p).lock = p /\ \E i \in DOMAIN Mine(p).handles : Mine(p).handles[i].src = call[p].job.src

LEMMA BlankedIs ==
  ASSUME NEW sl \in Seq(Srcs \cup {Blank}), NEW s
  PROVE  Blanked(sl, s) \in Seq(Srcs \cup {Blank})
<1> DEFINE b == Blanked(sl, s)
<1>1. DOMAIN sl = 1..Len(sl) /\ Len(sl) \in Nat
  OBVIOUS
<1>2. b \in [1..Len(sl) -> Srcs \cup {Blank}]
  BY <1>1 DEF Blanked
<1> HIDE DEF b
<1>3. b \in Seq(Srcs \cup {Blank})
  BY <1>1, <1>2
<1> QED
  BY <1>3 DEF b

LEMMA RelayoutKeeps ==
  ASSUME HeldInv, EnvOk', NEW p \in Procs, Relayout(p)
  PROVE  HeldInv'
<1>1. call[p].pc = "relayout" /\ Target(p) # 0 /\ UNCHANGED <<live, entry, raced>>
  BY DEF Relayout, At, obs
<1>2. CASE Fail(p)
  BY <1>1, <1>2, FailKeeps DEF Asked
<1>3. CASE SetMy(p, "layout", Target(p))
  BY <1>1, <1>3, TakeEntry, TouchNone DEF Asked, Holding, OpAt, Pcs
<1> QED
  BY <1>2, <1>3 DEF Relayout, GotoWith, SetMy

LEMMA AddSourceKeeps ==
  ASSUME HeldInv, EnvOk', NEW p \in Procs, AddSource(p)
  PROVE  HeldInv'
<1>1. call[p].pc = "add" /\ Target(p) # 0 /\ UNCHANGED <<live, entry, raced>>
  BY DEF AddSource, At, obs
<1>2. CASE Fail(p)
  BY <1>1, <1>2, FailKeeps DEF Asked
<1>3. CASE SetMy(p, "adding", Target(p))
  BY <1>1, <1>3, TakeEntry, TouchNone DEF Asked, Holding, OpAt, Pcs
<1> QED
  BY <1>2, <1>3 DEF AddSource, GotoWith, SetMy

LEMMA RemoveSourceKeeps ==
  ASSUME HeldInv, EnvOk', NEW p \in Procs, RemoveSource(p)
  PROVE  HeldInv'
<1> DEFINE e == Target(p)
           r == call[p].job
           n == [entry[e] EXCEPT !.lock = p, !.pool = @ \ {r.src}]
<1>1. call[p].pc = "drop" /\ Target(p) # 0 /\ UNCHANGED <<live, raced>>
  BY DEF RemoveSource, At, obs
<1>2. CASE Fail(p) /\ UNCHANGED entry
  BY <1>1, <1>2, FailKeeps DEF Asked
<1>3. CASE SetMy(p, "dropping", Target(p)) /\ entry' = [entry EXCEPT ![e].lock = p, ![e].pool = @ \ {r.src}]
  <2>1. e \in DOMAIN entry /\ entry[e] \in Entry /\ entry \in Seq(Entry)
    BY <1>1, TargetIs DEF Asked
  <2>2. n \in Entry /\ n.id = entry[e].id
    BY <2>1 DEF Entry
  <2>3. entry' = [entry EXCEPT ![e] = n]
    BY <1>3, <2>1
  <2> HIDE DEF n
  <2>4. Touch(e)
    BY <2>1, <2>2, <2>3, TouchOne
  <2> QED
    BY <1>1, <1>3, <2>4, TakeEntry DEF Asked, Holding, OpAt, Pcs
<1> QED
  BY <1>2, <1>3 DEF RemoveSource, GotoWith, SetMy

LEMMA RelayoutApplyKeeps ==
  ASSUME HeldInv, EnvOk', NEW p \in Procs, RelayoutApply(p)
  PROVE  HeldInv'
<1> DEFINE k == call[p].my
           rs == call[p].job.prog.regions
           g == entry[k].gen + 1
           n == [entry[k] EXCEPT !.slots = rs, !.gen = g]
<1>1. call[p].pc = "layout" /\ UNCHANGED <<live, raced>> /\ Goto(p, "regions")
  BY DEF RelayoutApply, At, obs
<1>2. k \in DOMAIN entry /\ Mine(p) = entry[k] /\ entry[k] \in Entry /\ call[p].job \in Request /\ entry \in Seq(Entry)
  BY <1>1, MineIs, Facts DEF Holding
<1>3. rs \in Seq(Srcs \cup {Blank}) /\ g \in Nat
  <2>1. call[p].job.prog \in Program /\ entry[k].gen \in Nat
    BY <1>2 DEF Request, Entry
  <2> QED
    BY <2>1 DEF Program
<1>4. entry' = [entry EXCEPT ![k] = n]
  BY <1>2 DEF RelayoutApply, Entry
<1> HIDE DEF rs, g
<1>5. n \in Entry /\ n.id = Mine(p).id
  BY <1>2, <1>3 DEF Entry
<1> HIDE DEF n
<1> QED
  BY <1>1, <1>4, <1>5, ChangeKeeps DEF Holding

LEMMA AddPoolKeeps ==
  ASSUME HeldInv, EnvOk', NEW p \in Procs, AddPool(p)
  PROVE  HeldInv'
<1> DEFINE k == call[p].my
           s == call[p].job.src
           n == [entry[k] EXCEPT !.pool = @ \cup {s}]
<1>1. call[p].pc = "adding" /\ UNCHANGED <<live, raced>> /\ Goto(p, "push")
  BY DEF AddPool, At, obs
<1>2. /\ k \in DOMAIN entry /\ Mine(p) = entry[k] /\ entry[k] \in Entry
      /\ call[p].job.op = "add" /\ s \in Srcs
  BY <1>1, MineIs DEF Holding, OpAt
<1>3. entry' = [entry EXCEPT ![k] = n]
  BY DEF AddPool
<1> HIDE DEF s
<1>4. n \in Entry /\ n.id = Mine(p).id
  BY <1>2 DEF Entry
<1> HIDE DEF n
<1> QED
  BY <1>1, <1>2, <1>3, <1>4, ChangeKeeps DEF Holding

LEMMA AddPushKeeps ==
  ASSUME HeldInv, EnvOk', NEW p \in Procs, NEW kind \in {"hot", "retry"}, AddPush(p, kind)
  PROVE  HeldInv'
<1> DEFINE k == call[p].my
           h == [src |-> call[p].job.src, kind |-> kind]
           hs == Append(entry[k].handles, h)
           n == [entry[k] EXCEPT !.handles = hs]
<1>1. call[p].pc = "push" /\ UNCHANGED <<live, raced>> /\ Goto(p, "regions")
  BY DEF AddPush, At, obs
<1>2. /\ k \in DOMAIN entry /\ Mine(p) = entry[k] /\ entry[k] \in Entry
      /\ call[p].job.op = "add" /\ call[p].job.src \in Srcs
  BY <1>1, MineIs DEF Holding, OpAt
<1>3. entry' = [entry EXCEPT ![k] = n]
  BY DEF AddPush
<1>4. h \in Handle /\ entry[k].handles \in Seq(Handle)
  BY <1>2 DEF Handle, Entry
<1> HIDE DEF h
<1>5. hs \in Seq(Handle)
  BY <1>4
<1> HIDE DEF hs
<1>6. n \in Entry /\ n.id = Mine(p).id
  BY <1>2, <1>5 DEF Entry
<1> HIDE DEF n
<1> QED
  BY <1>1, <1>3, <1>6, ChangeKeeps DEF Holding

LEMMA RemoveSourceSlotsKeeps ==
  ASSUME HeldInv, LockOk, EnvOk', NEW p \in Procs, RemoveSourceSlots(p)
  PROVE  HeldInv'
<1> DEFINE k == call[p].my
           s == call[p].job.src
           sl == Blanked(entry[k].slots, s)
           hs == Without(entry[k].handles, s)
           n == [entry[k] EXCEPT !.slots = sl, !.handles = hs, !.lock = None]
<1>1. call[p].pc = "dropping" /\ UNCHANGED <<live, raced>> /\ Goto(p, "regions")
  BY DEF RemoveSourceSlots, At
<1>2. /\ k \in DOMAIN entry /\ Mine(p) = entry[k] /\ entry[k] \in Entry
  BY <1>1, MineIs DEF Holding
<1>3. entry' = [entry EXCEPT ![k] = n]
  BY <1>2, Facts DEF RemoveSourceSlots, Entry
<1>4. entry[k].slots \in Seq(Srcs \cup {Blank}) /\ entry[k].handles \in Seq(Handle)
  BY <1>2 DEF Entry
<1>5. sl \in Seq(Srcs \cup {Blank})
  BY <1>4, BlankedIs
<1>6. hs \in Seq(Handle)
  BY <1>1, <1>2, <1>4, WithoutIs DEF LockOk, At
<1> HIDE DEF sl, hs
<1>7. n \in Entry /\ n.id = Mine(p).id
  BY <1>2, <1>5, <1>6 DEF Entry
<1> HIDE DEF n
<1> QED
  BY <1>1, <1>3, <1>7, ChangeKeeps DEF Holding

\* What persist_all has read after it has read the regions.
LEMMA RegionsType ==
  ASSUME HeldInv
  PROVE  LET s == [id \in Ids |-> IF live[id] = 0 THEN None
                                  ELSE [sources |-> <<>>, regions |-> entry[live[id]].slots]]
         IN s \in [Ids -> Program \cup {None}] /\ \A id \in Ids : live[id] # 0 => s[id] # None
<1>1. ASSUME NEW id \in Ids, live[id] # 0
      PROVE  [sources |-> <<>>, regions |-> entry[live[id]].slots] \in Program
  <2>1. entry[live[id]] \in Entry
    BY <1>1 DEF HeldInv, TypeOK
  <2>2. entry[live[id]].slots \in Seq(Srcs \cup {Blank}) /\ <<>> \in Seq(Srcs)
    BY <2>1 DEF Entry
  <2> QED
    BY <2>2 DEF Program
<1> QED
  BY <1>1, ProgramsAssumption

LEMMA ReadRegionsKeeps ==
  ASSUME HeldInv, EnvOk', NEW p \in Procs, ReadRegions(p)
  PROVE  HeldInv'
<1> DEFINE s == [id \in Ids |-> IF live[id] = 0 THEN None
                                ELSE [sources |-> <<>>, regions |-> entry[live[id]].slots]]
<1>1. call[p].pc = "regions" /\ UNCHANGED <<live, entry, raced>> /\ SetSnap(p, "sources", s)
  BY DEF ReadRegions, At, obs, SetSnap
<1>2. Busy(p) /\ call \in [Procs -> Call] /\ Touch(0)
  BY <1>1, BusyAt, Facts, TouchNone DEF Resting
<1>3. s \in [Ids -> Program \cup {None}] /\ \A id \in Ids : live[id] # 0 => s[id] # None
  BY RegionsType
<1> HIDE DEF s
<1>4. PICK c : Moves(p, c) /\ c.pc = "sources" /\ c.job = call[p].job /\ c.my = call[p].my /\ c.snap = s
  BY <1>1, <1>2, <1>3, SnapMoves DEF Pcs
<1>5. WorkStep(p, c, 0)
  BY <1>1, <1>2, <1>3, <1>4 DEF WorkStep, OpAt, Resting, Asked, Holding
<1> QED
  BY <1>5, WorkKeeps

\* What persist_all has read after it has read the sources.
LEMMA SnapIs ==
  ASSUME HeldInv, NEW p \in Procs, ReadSources(p)
  PROVE  \E s \in [Ids -> Program \cup {None}] :
           SetSnap(p, "save", s) /\ \A id \in Ids : live[id] # 0 => s[id] # None
<1> DEFINE s == [id \in Ids |-> IF live[id] = 0 THEN None
                                ELSE [call[p].snap[id] EXCEPT !.sources = SourceIds(live[id])]]
<1>1. At(p, "sources") /\ SetSnap(p, "save", s)
  BY DEF ReadSources, SetSnap
<1>2. call[p].snap \in [Ids -> Program \cup {None}]
  BY Facts
<1>3. ASSUME NEW id \in Ids, live[id] # 0
      PROVE  [call[p].snap[id] EXCEPT !.sources = SourceIds(live[id])] \in Program
  <2>1. call[p].snap[id] \in Program
    BY <1>1, <1>2, <1>3 DEF HeldInv, SnapOk
  <2>2. entry[live[id]] \in Entry
    BY <1>3 DEF HeldInv, TypeOK
  <2> DEFINE h == entry[live[id]].handles
             t == SourceIds(live[id])
  <2>3. h \in Seq(Handle)
    BY <2>2 DEF Entry
  <2> HIDE DEF h
  <2>4. DOMAIN h = 1..Len(h) /\ Len(h) \in Nat /\ \A i \in DOMAIN h : h[i].src \in Srcs
    <3>1. DOMAIN h = 1..Len(h) /\ Len(h) \in Nat /\ \A i \in DOMAIN h : h[i] \in Handle
      BY <2>3
    <3>2. \A v \in Handle : v.src \in Srcs
      BY DEF Handle
    <3> QED
      BY <3>1, <3>2
  <2>5. t \in [1..Len(h) -> Srcs]
    BY <2>4 DEF SourceIds, h
  <2> HIDE DEF t
  <2>6. t \in Seq(Srcs)
    BY <2>4, <2>5
  <2>7. [call[p].snap[id] EXCEPT !.sources = t] \in Program
    BY <2>1, <2>6 DEF Program
  <2> QED
    BY <2>7 DEF t
<1>4. s \in [Ids -> Program \cup {None}] /\ \A id \in Ids : live[id] # 0 => s[id] # None
  BY <1>3, ProgramsAssumption
<1> HIDE DEF s
<1> QED
  BY <1>1, <1>4

LEMMA ReadSourcesKeeps ==
  ASSUME HeldInv, EnvOk', NEW p \in Procs, ReadSources(p)
  PROVE  HeldInv'
<1>1. call[p].pc = "sources" /\ UNCHANGED <<live, entry, raced>>
  BY DEF ReadSources, At, obs
<1>2. Busy(p) /\ call \in [Procs -> Call] /\ Touch(0)
  BY <1>1, BusyAt, Facts, TouchNone DEF Resting
<1>3. PICK s \in [Ids -> Program \cup {None}] : SetSnap(p, "save", s)
  BY SnapIs
<1>4. PICK c : Moves(p, c) /\ c.pc = "save" /\ c.job = call[p].job /\ c.my = call[p].my /\ c.snap = s
  BY <1>2, <1>3, SnapMoves DEF Pcs
<1>5. WorkStep(p, c, 0)
  BY <1>1, <1>2, <1>4 DEF WorkStep, OpAt, Resting, Asked, Holding
<1> QED
  BY <1>5, WorkKeeps

LEMMA SaveKeeps ==
  ASSUME HeldInv, EnvOk', NEW p \in Procs, NEW ok \in BOOLEAN, Save(p, ok)
  PROVE  HeldInv'
<1>1. call[p].pc = "save" /\ UNCHANGED <<live, entry, raced>>
  BY DEF Save, At
<1>2. PICK x \in Resting : call' = [call EXCEPT ![p] = Idle(x)]
  BY DEF Save, Resting
<1>3. Busy(p) /\ call \in [Procs -> Call]
  BY <1>1, BusyAt, Facts DEF Resting
<1>4. LeaveStep(p, x)
  BY <1>1, <1>2, <1>3, IdleMoves DEF LeaveStep
<1> QED
  BY <1>4, LeaveKeeps

LEMMA AbandonKeeps ==
  ASSUME HeldInv, EnvOk', NEW c \in Calls, Abandon(c)
  PROVE  HeldInv'
<1>1. /\ call[c].pc \notin Resting /\ live' = live /\ entry' = entry /\ raced' = raced \cup {Id(c)}
      /\ call' = [call EXCEPT ![c] = Idle("done")] /\ c \in Procs
  BY DEF Abandon, Resting, Procs
<1>2. Busy(c) /\ call \in [Procs -> Call]
  BY <1>1, BusyAt, Facts
<1>3. LeaveStep(c, "done")
  BY <1>1, <1>2, IdleMoves DEF LeaveStep, Resting
<1> QED
  BY <1>1, <1>3, LeaveKeeps

LEMMA BeginKeeps ==
  ASSUME HeldInv, EnvOk', NEW c \in Calls, NEW r \in Requests, Begin(c, r)
  PROVE  HeldInv'
<1>1. c \in Procs /\ c # Boot /\ r \in Request /\ (r.op = "add" => r.src \in Srcs)
  BY ProgramsAssumption DEF Procs
<1>2. ~Busy(c) /\ Start(c, r) /\ UNCHANGED <<live, entry>>
  BY DEF Begin, At, Busy
<1> QED
  BY <1>1, <1>2, StartKeeps

\* What restore_all asks.
Again(id) == [op |-> "create", id |-> id, prog |-> saved[id], src |-> Blank, at |-> 1]

LEMMA AgainIs ==
  ASSUME HeldInv, NEW id \in Ids, saved[id] # None
  PROVE  Again(id) \in Request /\ Again(id).op = "create" /\ Again(id).id = id
<1>1. saved[id] \in Program
  BY DEF HeldInv, TypeOK
<1> QED
  BY <1>1 DEF Again, Request

LEMMA RestoreNextKeeps ==
  ASSUME HeldInv, EnvOk', NEW id \in Ids, RestoreNext(id)
  PROVE  HeldInv'
<1>1. Boot \in Procs /\ ~Busy(Boot) /\ UNCHANGED <<live, entry>> /\ saved[id] # None
  BY DEF RestoreNext, At, Busy, Procs
<1>2. Start(Boot, Again(id))
  BY DEF RestoreNext, Again
<1>3. Again(id) \in Request /\ Again(id).op = "create"
  BY <1>1, AgainIs
<1> QED
  BY <1>1, <1>2, <1>3, StartKeeps

LEMMA NewEntryType ==
  ASSUME NEW r \in Request, NEW online
  PROVE  NewEntry(r, online) \in Entry /\ NewEntry(r, online).id = r.id
<1> DEFINE ss == r.prog.sources
           h == [i \in DOMAIN ss |-> [src |-> ss[i], kind |-> IF ss[i] \in online THEN "hot" ELSE "retry"]]
<1>1. r.id \in Ids /\ ss \in Seq(Srcs) /\ r.prog.regions \in Seq(Srcs \cup {Blank})
  BY DEF Request, Program
<1>2. NewEntry(r, online) = [id |-> r.id, handles |-> h, pool |-> Elems(ss), slots |-> Regions(r.prog),
                             gen |-> 0, running |-> TRUE, lock |-> None]
  BY DEF NewEntry
<1>3. ss \in Seq(Srcs \cup {Blank}) /\ Elems(ss) \in SUBSET Srcs
  BY <1>1 DEF Elems
<1>4. Regions(r.prog) \in Seq(Srcs \cup {Blank})
  BY <1>1, <1>3 DEF Regions
<1>5. h \in Seq(Handle)
  <2> HIDE DEF ss
  <2>1. DOMAIN ss = 1..Len(ss) /\ Len(ss) \in Nat /\ \A i \in DOMAIN ss : ss[i] \in Srcs
    BY <1>1
  <2>2. \A i \in DOMAIN ss : [src |-> ss[i], kind |-> IF ss[i] \in online THEN "hot" ELSE "retry"] \in Handle
    BY <2>1 DEF Handle
  <2>3. h \in [1..Len(ss) -> Handle]
    BY <2>1, <2>2
  <2> HIDE DEF h
  <2> QED
    BY <2>1, <2>3
<1> HIDE DEF ss, h
<1> QED
  BY <1>1, <1>2, <1>3, <1>4, <1>5 DEF Entry

LEMMA CreateOpenKeeps ==
  ASSUME HeldInv, EnvOk', NEW p \in Procs, NEW online, CreateOpen(p, online)
  PROVE  HeldInv'
<1>1. call[p].pc = "opening" /\ live' = live /\ raced' = raced
  BY DEF CreateOpen, At, obs
<1>2. CASE Fail(p) /\ UNCHANGED entry
  BY <1>1, <1>2, FailKeeps
<1>3. CASE SetMy(p, "insert", Len(entry) + 1) /\ entry' = Append(entry, NewEntry(call[p].job, online))
  <2> DEFINE n == NewEntry(call[p].job, online)
             m == Len(entry) + 1
  <2>1. /\ Busy(p) /\ call \in [Procs -> Call] /\ entry \in Seq(Entry) /\ call[p].job \in Request
        /\ Id(p) \in Ids /\ CallOk(call[p])
    BY <1>1, BusyAt, Facts DEF Resting
  <2>2. n \in Entry /\ n.id = Id(p)
    BY <2>1, NewEntryType DEF Id
  <2> HIDE DEF n
  <2>3. entry' = Append(entry, n)
    BY <1>3 DEF n
  <2>4. /\ entry' \in Seq(Entry) /\ Len(entry) \in Nat /\ m \notin DOMAIN entry /\ m # 0 /\ m \in Nat
        /\ DOMAIN entry' = DOMAIN entry \cup {m} /\ entry'[m] = n
        /\ \A e \in DOMAIN entry : entry'[e] = entry[e]
    BY <2>1, <2>2, <2>3, SeqAppend
  <2> HIDE DEF m
  <2>5. PICK c : Moves(p, c) /\ c.pc = "insert" /\ c.job = call[p].job /\ c.my = m
    BY <1>3, <2>1, <2>4, MyMoves DEF Pcs, m
  <2>6. /\ call' \in [Procs -> Call] /\ call'[p] = c /\ \A q \in Procs : q # p => call'[q] = call[q]
    BY <2>1, <2>5, MovesTo
  <2>7. call[p].my = 0 /\ call[p].job.op = "create"
    BY <1>1, <2>1 DEF CallOk, OpAt, Resting
  <2>8. \A q \in Procs : (Busy(q)' <=> Busy(q)) /\ Id(q)' = Id(q) /\ call'[q].job = call[q].job
    BY <1>1, <2>5, <2>6 DEF Busy, Id
  <2>9. TypeOK'
    <3>1. \A id \in Ids : live'[id] # 0 => live'[id] \in DOMAIN entry' /\ entry'[live'[id]].id = id
      BY <1>1, <2>4 DEF HeldInv, TypeOK
    <3> QED
      BY <1>1, <2>4, <2>6, <3>1 DEF HeldInv, TypeOK, EnvOk
  <2>10. CallsOk'
    <3>1. CallOk(c) /\ HandOk(c, entry')
      BY <2>1, <2>2, <2>4, <2>5, <2>7 DEF CallOk, HandOk, OpAt, Resting, Asked, Holding, Id
    <3>2. ASSUME NEW q \in Procs, q # p PROVE CallOk(call[q]) /\ HandOk(call[q], entry')
      BY <2>4, Facts DEF HandOk
    <3>3. \A q \in Procs : CallOk(call'[q]) /\ HandOk(call'[q], entry')
      BY <2>6, <3>1, <3>2
    <3> QED
      BY <3>3 DEF CallsOk
  <2>11. BootOk'
    BY <2>8 DEF HeldInv, BootOk, Procs
  <2>12. RaceOk'
    BY <1>1, <2>8 DEF HeldInv, RaceOk
  <2>13. HoldOk'
    <3> SUFFICES ASSUME NEW q \in Procs, Busy(q)', Id(q)' \notin raced' PROVE Agrees(call'[q], live')
      BY DEF HoldOk
    <3>1. Agrees(call[q], live)
      BY <1>1, <2>8 DEF HeldInv, HoldOk
    <3>2. CASE q # p
      BY <1>1, <2>6, <3>1, <3>2
    <3>3. CASE q = p
      BY <1>1, <2>5, <2>6, <3>1, <3>3 DEF Agrees
    <3> QED
      BY <3>2, <3>3
  <2>14. SnapOk'
    <3> SUFFICES ASSUME NEW q \in Procs, call'[q].pc = "sources", NEW id \in Ids, live'[id] # 0
                 PROVE  call'[q].snap[id] # None
      BY DEF SnapOk, At
    <3>1. q # p
      BY <2>5, <2>6
    <3> QED
      BY <1>1, <2>6, <3>1 DEF HeldInv, SnapOk, At
  <2>15. OrphanOk'
    <3> SUFFICES ASSUME NEW e \in DOMAIN entry', entry'[e].id \notin raced', e \notin Live', ~InHand(e)'
                 PROVE  Dead(entry'[e])
      BY DEF OrphanOk
    <3>1. e # m /\ e \in DOMAIN entry
      BY <2>4, <2>5, <2>6 DEF InHand
    <3>2. Live' = Live
      BY <1>1 DEF Live
    <3>3. ~InHand(e)
      <4> SUFFICES ASSUME NEW q \in Procs, call[q].my = e PROVE FALSE
        BY DEF InHand
      <4>1. q # p
        BY <2>7, <3>1, NotZero
      <4> QED
        BY <2>6, <4>1 DEF InHand
    <3> QED
      BY <1>1, <2>4, <3>1, <3>2, <3>3 DEF HeldInv, OrphanOk
  <2> QED
    BY <2>9, <2>10, <2>11, <2>12, <2>13, <2>14, <2>15 DEF HeldInv
<1> QED
  BY <1>2, <1>3 DEF CreateOpen, GotoWith, SetMy

\* The map changes for one program, whose call goes to persist_all; of the
\* entries only the one that was in the map for it changes.
MapStep(p, v) ==
  /\ Busy(p) /\ Goto(p, "regions") /\ Unread /\ Touch(live[Id(p)]) /\ raced' = raced
  /\ live' = [live EXCEPT ![Id(p)] = v]
  /\ v = call[p].my
  /\ v = 0 => Dead(entry'[live[Id(p)]]) \/ live[Id(p)] = 0
  /\ v # 0 => call[p].pc = "insert"

LEMMA MapKeeps ==
  ASSUME HeldInv, EnvOk', NEW p \in Procs, NEW v, MapStep(p, v)
  PROVE  HeldInv'
<1> DEFINE id == Id(p)
           k == live[Id(p)]
<1>1. /\ Busy(p) /\ v = call[p].my /\ raced' = raced /\ (v # 0 => call[p].pc = "insert")
      /\ (v = 0 => Dead(entry'[k]) \/ k = 0)
  BY DEF MapStep
<1>2. /\ CallOk(call[p]) /\ HandOk(call[p], entry) /\ call[p].job \in Request /\ id \in Ids /\ v \in Nat
      /\ call \in [Procs -> Call] /\ live \in [Ids -> Nat]
  BY <1>1, Facts
<1>3. live' \in [Ids -> Nat] /\ live'[id] = v /\ \A i \in Ids : i # id => live'[i] = live[i]
  BY <1>2 DEF MapStep
<1>4. PICK c : Moves(p, c) /\ Goes(call[p], c, "regions")
  BY <1>2, PcMoves DEF MapStep, Goto, Pcs
<1>5. /\ call' \in [Procs -> Call] /\ call'[p] = c /\ \A q \in Procs : q # p => call'[q] = call[q]
  BY <1>2, <1>4, MovesTo
<1>6. c.pc = "regions" /\ c.job = call[p].job /\ c.my = v
  BY <1>1, <1>4 DEF Goes
<1>7. \A q \in Procs : (Busy(q)' <=> Busy(q)) /\ Id(q)' = Id(q) /\ call'[q].job = call[q].job /\ call'[q].my = call[q].my
  BY <1>1, <1>5, <1>6 DEF Busy, Id
<1>8. /\ entry' \in Seq(Entry) /\ DOMAIN entry' = DOMAIN entry
      /\ \A e \in DOMAIN entry : entry'[e].id = entry[e].id /\ (e # k => entry'[e] = entry[e])
  BY DEF MapStep, Touch
<1>9. v # 0 => v \in DOMAIN entry /\ entry[v].id = id
  BY <1>1, <1>2 DEF HandOk, Id
<1> HIDE DEF id, k
<1>10. TypeOK'
  <2>1. ASSUME NEW i \in Ids, live'[i] # 0 PROVE live'[i] \in DOMAIN entry' /\ entry'[live'[i]].id = i
    <3>1. CASE i = id
      BY <1>3, <1>8, <1>9, <2>1, <3>1
    <3>2. CASE i # id
      BY <1>3, <1>8, <2>1, <3>2 DEF HeldInv, TypeOK
    <3> QED
      BY <3>1, <3>2
  <2> QED
    BY <1>3, <1>5, <1>8, <2>1 DEF HeldInv, TypeOK, EnvOk
<1>11. CallsOk'
  <2>1. CallOk(c) /\ HandOk(c, entry')
    <3>1. CallOk(c)
      BY <1>2, <1>6, <1>1 DEF CallOk, OpAt, Resting, Asked, Holding, Busy
    <3> QED
      BY <1>6, <1>8, <1>9, <3>1 DEF HandOk, id, Id
  <2>2. ASSUME NEW q \in Procs, q # p PROVE CallOk(call[q]) /\ HandOk(call[q], entry')
    BY <1>8, Facts DEF HandOk
  <2>3. \A q \in Procs : CallOk(call'[q]) /\ HandOk(call'[q], entry')
    BY <1>5, <2>1, <2>2
  <2> QED
    BY <2>3 DEF CallsOk
<1>12. BootOk'
  BY <1>7 DEF HeldInv, BootOk, Procs
<1>13. RaceOk'
  BY <1>1, <1>7 DEF HeldInv, RaceOk
<1>14. HoldOk'
  <2> SUFFICES ASSUME NEW q \in Procs, Busy(q)', Id(q)' \notin raced' PROVE Agrees(call'[q], live')
    BY DEF HoldOk
  <2>1. Busy(q) /\ Id(q) \notin raced /\ Id(q) \in Ids
    BY <1>1, <1>7, Facts
  <2>2. CASE q # p
    <3>1. Id(q) # id
      BY <1>1, <2>1, <2>2 DEF HeldInv, RaceOk, id
    <3>2. live'[call[q].job.id] = live[call[q].job.id]
      BY <1>3, <2>1, <3>1 DEF Id
    <3>3. Agrees(call[q], live)
      BY <2>1 DEF HeldInv, HoldOk
    <3> QED
      BY <1>5, <2>2, <3>2, <3>3 DEF Agrees
  <2>3. CASE q = p
    BY <1>3, <1>5, <1>6, <2>3 DEF Agrees, id, Id
  <2> QED
    BY <2>2, <2>3
<1>15. SnapOk'
  <2>1. \A q \in Procs : call'[q].pc # "sources"
    BY <1>5, <1>6 DEF MapStep, Unread, At
  <2> QED
    BY <2>1 DEF SnapOk, At
<1>16. OrphanOk'
  <2> SUFFICES ASSUME NEW e \in DOMAIN entry, entry'[e].id \notin raced', e \notin Live', ~InHand(e)'
               PROVE  Dead(entry'[e])
    BY <1>8 DEF OrphanOk
  <2>1. ~InHand(e)
    BY <1>7 DEF InHand
  <2>2. e # 0 /\ entry[e].id \notin raced
    BY <1>1, <1>8, NotZero
  <2>3. CASE e = k
    <3>1. id \notin raced
      BY <1>2, <2>2, <2>3 DEF HeldInv, TypeOK, k, id
    <3>2. v = 0
      <4> SUFFICES ASSUME v # 0 PROVE FALSE
        OBVIOUS
      <4>1. Agrees(call[p], live) /\ call[p].pc = "insert"
        BY <1>1, <3>1 DEF HeldInv, HoldOk, id
      <4> QED
        BY <2>2, <2>3, <4>1 DEF Agrees, k, Id
    <3> QED
      BY <1>1, <2>2, <2>3, <3>2
  <2>4. CASE e # k
    <3>1. e \notin Live
      <4> SUFFICES ASSUME NEW i \in Ids, live[i] = e PROVE FALSE
        BY DEF Live
      <4>1. i # id
        BY <2>4 DEF k, id
      <4>2. live'[i] = e
        BY <1>3, <4>1
      <4> QED
        BY <2>2, <4>2 DEF Live
    <3> QED
      BY <1>8, <2>1, <2>2, <2>4, <3>1 DEF HeldInv, OrphanOk
  <2> QED
    BY <2>3, <2>4
<1> QED
  BY <1>10, <1>11, <1>12, <1>13, <1>14, <1>15, <1>16 DEF HeldInv

LEMMA CreateInsertKeeps ==
  ASSUME HeldInv, EnvOk', NEW p \in Procs, CreateInsert(p)
  PROVE  HeldInv'
<1> DEFINE k == live[Id(p)]
<1>1. /\ call[p].pc = "insert" /\ Unread /\ Goto(p, "regions") /\ raced' = raced
      /\ live' = [live EXCEPT ![Id(p)] = call[p].my]
      /\ entry' = IF k = 0 THEN entry ELSE [entry EXCEPT ![k] = Dropped(entry[k])]
  BY DEF CreateInsert, At, obs
<1>2. Busy(p) /\ Id(p) \in Ids /\ entry \in Seq(Entry) /\ CallOk(call[p])
  BY <1>1, BusyAt, Facts DEF Resting
<1>3. Touch(k)
  <2>1. CASE k = 0
    BY <1>1, <2>1, TouchNone
  <2>2. CASE k # 0
    <3>1. k \in DOMAIN entry
      BY <1>2, <2>2 DEF HeldInv, TypeOK
    <3>2. entry[k] \in Entry
      BY <1>2, <3>1
    <3>3. Dropped(entry[k]) \in Entry /\ Dropped(entry[k]).id = entry[k].id
      BY <3>2, EntryTypes
    <3> QED
      BY <1>1, <2>2, <3>1, <3>3, TouchOne
  <2> QED
    BY <2>1, <2>2
<1>4. call[p].my # 0
  BY <1>1, <1>2 DEF CallOk, Holding
<1>5. MapStep(p, call[p].my)
  BY <1>1, <1>2, <1>3, <1>4 DEF MapStep
<1> QED
  BY <1>5, MapKeeps

LEMMA RemoveKeeps ==
  ASSUME HeldInv, EnvOk', NEW p \in Procs, Remove(p)
  PROVE  HeldInv'
<1> DEFINE k == live[Id(p)]
<1>1. /\ call[p].pc = "remove" /\ Unread /\ Goto(p, "regions") /\ raced' = raced /\ Target(p) # 0
      /\ live' = [live EXCEPT ![Id(p)] = 0]
      /\ entry' = [entry EXCEPT ![k] = Stopped(entry[k])]
  BY DEF Remove, At, obs, Target
<1>2. Busy(p) /\ Target(p) = k /\ k \in DOMAIN entry /\ entry[k] \in Entry /\ entry \in Seq(Entry)
  BY <1>1, TargetIs DEF Asked
<1>3. CallOk(call[p]) /\ call[p].my = 0
  BY <1>1, Facts DEF CallOk, Asked
<1> DEFINE n == Stopped(entry[k])
<1>4. n \in Entry /\ n.id = entry[k].id /\ Dead(n)
  BY <1>2, EntryTypes
<1> HIDE DEF n
<1>5. entry' = [entry EXCEPT ![k] = n]
  BY <1>1 DEF n
<1>6. Touch(k) /\ entry'[k] = n
  BY <1>2, <1>4, <1>5, TouchOne, SeqExcept
<1>7. MapStep(p, 0)
  BY <1>1, <1>2, <1>3, <1>4, <1>6 DEF MapStep
<1> QED
  BY <1>7, MapKeeps

LEMMA ShutdownKeeps ==
  ASSUME HeldInv, EnvOk', Shutdown
  PROVE  HeldInv'
<1>1. /\ live' = [id \in Ids |-> 0] /\ call' = call
      /\ entry' = [e \in DOMAIN entry |->
                     IF \E id \in Ids : live[id] = e THEN Stopped(entry[e]) ELSE entry[e]]
      /\ raced' = raced \cup {Id(p) : p \in {q \in Procs : Busy(q)}}
  BY DEF Shutdown
<1>2. entry \in Seq(Entry) /\ call \in [Procs -> Call]
  BY DEF HeldInv, TypeOK
<1>3. ASSUME NEW e \in DOMAIN entry
      PROVE  /\ entry'[e] \in Entry /\ entry'[e].id = entry[e].id
             /\ e \in Live => Dead(entry'[e])
             /\ e \notin Live => entry'[e] = entry[e]
  <2>1. entry[e] \in Entry /\ e # 0
    BY <1>2, NotZero
  <2>2. e \in Live <=> \E id \in Ids : live[id] = e
    BY <2>1 DEF Live
  <2>3. entry'[e] = IF e \in Live THEN Stopped(entry[e]) ELSE entry[e]
    BY <1>1, <2>2
  <2> QED
    BY <2>1, <2>3, EntryTypes
<1>4. DOMAIN entry' = DOMAIN entry /\ entry' \in Seq(Entry)
  <2>1. DOMAIN entry = 1..Len(entry) /\ Len(entry) \in Nat
    BY <1>2
  <2>2. entry' \in [1..Len(entry) -> Entry]
    BY <1>1, <1>3, <2>1
  <2> QED
    BY <1>1, <2>1, <2>2
<1>5. \A p \in Procs : Busy(p)' => Id(p)' \in raced'
  BY <1>1 DEF Busy, Id
<1>6. TypeOK'
  BY <1>1, <1>2, <1>4 DEF TypeOK, EnvOk
<1>7. CallsOk'
  <2>1. \A p \in Procs : CallOk(call'[p]) /\ HandOk(call'[p], entry')
    BY <1>1, <1>3, <1>4, Facts DEF HandOk
  <2> QED
    BY <2>1 DEF CallsOk
<1>8. BootOk'
  BY <1>1 DEF HeldInv, BootOk, Busy
<1>9. RaceOk' /\ HoldOk'
  BY <1>5 DEF RaceOk, HoldOk
<1>10. SnapOk'
  BY <1>1 DEF SnapOk
<1>11. OrphanOk'
  <2> SUFFICES ASSUME NEW e \in DOMAIN entry, entry'[e].id \notin raced', ~InHand(e)' PROVE Dead(entry'[e])
    BY <1>4 DEF OrphanOk
  <2>1. ~InHand(e) /\ entry[e].id \notin raced
    BY <1>1, <1>3 DEF InHand
  <2> QED
    BY <1>3, <2>1 DEF HeldInv, OrphanOk
<1> QED
  BY <1>6, <1>7, <1>8, <1>9, <1>10, <1>11 DEF HeldInv

\* Nobody is in a call.
LEMMA RestingOk ==
  ASSUME EnvOk, live \in [Ids -> Nat], \A id \in Ids : live[id] = 0, entry = <<>>,
         call \in [Procs -> Call], \A p \in Procs : call[p].pc \in Resting /\ call[p].my = 0
  PROVE  HeldInv
<1>1. \A p \in Procs : ~Busy(p) /\ ~At(p, "sources")
  BY DEF Busy, At, Resting
<1>2. entry \in Seq(Entry) /\ DOMAIN entry = {}
  OBVIOUS
<1>3. TypeOK
  BY <1>2 DEF TypeOK, EnvOk
<1>4. CallsOk
  BY DEF CallsOk, CallOk, HandOk, Holding, Resting
<1>5. BootOk /\ RaceOk /\ HoldOk /\ SnapOk
  BY <1>1 DEF BootOk, RaceOk, HoldOk, SnapOk, Procs
<1>6. OrphanOk
  BY <1>2 DEF OrphanOk
<1> QED
  BY <1>3, <1>4, <1>5, <1>6 DEF HeldInv

LEMMA RestingOkNext ==
  ASSUME EnvOk', live' \in [Ids -> Nat], \A id \in Ids : live'[id] = 0, entry' = <<>>,
         call' \in [Procs -> Call], \A p \in Procs : call'[p].pc \in Resting /\ call'[p].my = 0
  PROVE  HeldInv'
<1>1. \A p \in Procs : ~Busy(p)' /\ ~At(p, "sources")'
  BY DEF Busy, At, Resting
<1>2. entry' \in Seq(Entry) /\ DOMAIN entry' = {}
  OBVIOUS
<1>3. TypeOK'
  BY <1>2 DEF TypeOK, EnvOk
<1>4. CallsOk'
  BY DEF CallsOk, CallOk, HandOk, Holding, Resting
<1>5. BootOk' /\ RaceOk' /\ HoldOk' /\ SnapOk'
  BY <1>1 DEF BootOk, RaceOk, HoldOk, SnapOk, Procs
<1>6. OrphanOk'
  BY <1>2 DEF OrphanOk
<1> QED
  BY <1>3, <1>4, <1>5, <1>6 DEF HeldInv

LEMMA DownKeeps ==
  ASSUME EnvOk', Down
  PROVE  HeldInv'
<1> DEFINE x(p) == IF p # Boot /\ At(p, "idle") THEN "idle" ELSE "done"
<1>1. /\ live' = [id \in Ids |-> 0] /\ entry' = <<>> /\ call' = [p \in Procs |-> Idle(x(p))]
  BY DEF Down
<1>2. \A p : x(p) \in Resting
  BY DEF Resting
<1> HIDE DEF x
<1>3. \A p : Idle(x(p)) \in Call /\ Idle(x(p)).pc \in Resting /\ Idle(x(p)).my = 0
  BY <1>2, IdleType
<1> QED
  BY <1>1, <1>3, RestingOkNext

\* While the process is down there are no entries, and nobody is in a call.
DownOk == process = "down" => entry = <<>> /\ \A p \in Procs : call[p].pc \in Resting

LEMMA UpKeeps ==
  ASSUME HeldInv, DownOk, EnvOk', Up
  PROVE  HeldInv'
<1>1. /\ entry = <<>> /\ UNCHANGED <<live, entry>> /\ call' = [call EXCEPT ![Boot].pc = "next"]
      /\ Boot \in Procs /\ \A p \in Procs : call[p].pc \in Resting
  BY DEF Up, DownOk, Procs
<1>2. call \in [Procs -> Call] /\ live \in [Ids -> Nat]
  BY DEF HeldInv, TypeOK
<1>3. \A p \in Procs : call[p].my = 0
  BY <1>1, Facts DEF CallOk
<1>4. PICK c : Moves(Boot, c) /\ Goes(call[Boot], c, "next")
  BY <1>1, <1>2, PcMoves DEF Pcs
<1>5. /\ call' \in [Procs -> Call] /\ call'[Boot] = c /\ \A q \in Procs : q # Boot => call'[q] = call[q]
  BY <1>1, <1>2, <1>4, MovesTo
<1>6. \A p \in Procs : call'[p].pc \in Resting /\ call'[p].my = 0
  BY <1>1, <1>3, <1>4, <1>5 DEF Goes, Resting
<1>7. \A id \in Ids : live[id] = 0
  BY <1>1 DEF HeldInv, TypeOK
<1> QED
  BY <1>1, <1>2, <1>5, <1>6, <1>7, RestingOkNext

-----------------------------------------------------------------------------
(* A step of a call: what it does to the rest, and to the lock. *)

Quiet(p) ==
  /\ Busy(p) /\ call' \in [Procs -> Call] /\ \A q \in Procs : q # p => call'[q] = call[q]
  /\ UNCHANGED <<process, boots, row, saved, owed, raced>> /\ torn' \subseteq Ids
  /\ clean' = clean \/ clean' = FALSE
  /\ Busy(p)' => call'[p].job = call[p].job
  /\ Busy(p)' \/ p # Boot \/ clean' = FALSE
  /\ \A id \in Ids : live[id] # 0 /\ live'[id] = 0 => id = Id(p) /\ call[p].job.op = "remove"
  /\ call'[p].pc \in Saving /\ call[p].job.op = "create" => call[p].pc \in Saving \/ live'[Id(p)] # 0
  /\ call'[p].pc = "save" => \A id \in Ids : live'[id] # 0 => call'[p].snap[id] # None

\* What a step that leaves the map alone has to do with the variables.
Plain == UNCHANGED <<process, boots, row, saved, owed, raced, torn, live, clean>>

LEMMA MovedQuiet ==
  ASSUME HeldInv, NEW p \in Procs, NEW c, Moves(p, c), call[p].pc \notin Resting, c.job = call[p].job,
         c.pc \notin Resting \cup {"save"}, Plain,
         c.pc \in Saving => call[p].pc \in Saving \/ call[p].job.op # "create"
  PROVE  Quiet(p) /\ call'[p] = c
<1>1. call' \in [Procs -> Call] /\ call'[p] = c /\ \A q \in Procs : q # p => call'[q] = call[q]
  BY MovesTo DEF HeldInv, TypeOK
<1>2. Busy(p) /\ Busy(p)'
  BY <1>1 DEF Busy, Resting
<1>3. torn' \subseteq Ids
  BY DEF Plain, HeldInv, TypeOK
<1> QED
  BY <1>1, <1>2, <1>3 DEF Quiet, Plain

LEMMA GotoQuiet ==
  ASSUME HeldInv, NEW p \in Procs, NEW x \in Pcs, Goto(p, x), call[p].pc \notin Resting,
         x \notin Resting \cup {"save"}, Plain, x \in Saving => call[p].pc \in Saving \/ call[p].job.op # "create"
  PROVE  Quiet(p) /\ call'[p].pc = x
<1>1. PICK c : Moves(p, c) /\ Goes(call[p], c, x)
  BY Facts, PcMoves DEF Goto
<1> QED
  BY <1>1, MovedQuiet DEF Goes

LEMMA FailQuiet ==
  ASSUME HeldInv, NEW p \in Procs, Fail(p), call[p].pc \notin Resting,
         UNCHANGED <<process, boots, row, saved, owed, raced, torn, live>>
  PROVE  Quiet(p) /\ call'[p].pc # "dropping" /\ (Busy(p)' => call'[p].pc = "create")
<1>1. call \in [Procs -> Call] /\ Busy(p) /\ torn \subseteq Ids
  BY Facts, BusyAt DEF HeldInv, TypeOK
<1>2. ASSUME NEW x \in Resting, call' = [call EXCEPT ![p] = Idle(x)], p # Boot \/ clean' = FALSE,
             clean' = clean \/ clean' = FALSE
      PROVE  Quiet(p) /\ call'[p].pc # "dropping" /\ (Busy(p)' => call'[p].pc = "create")
  <2>1. Moves(p, Idle(x))
    BY <1>1, <1>2, IdleMoves
  <2>2. call' \in [Procs -> Call] /\ call'[p] = Idle(x) /\ \A q \in Procs : q # p => call'[q] = call[q]
    BY <1>1, <2>1, MovesTo
  <2>3. call'[p].pc = x
    BY <2>2, IdleType
  <2>4. x \notin Saving \cup {"save", "dropping"}
    BY DEF Resting, Saving
  <2>5. ~Busy(p)'
    BY <2>3 DEF Busy, Resting
  <2> QED
    BY <1>1, <1>2, <2>2, <2>3, <2>4, <2>5 DEF Quiet
<1>3. CASE p # Boot /\ call' = [call EXCEPT ![p] = Idle("done")] /\ UNCHANGED clean
  BY <1>2, <1>3 DEF Resting
<1>4. CASE p = Boot /\ Goto(p, "create")
  BY <1>4, GotoQuiet DEF Goto, Plain, Pcs, Resting, Saving
<1>5. CASE p = Boot /\ call' = [call EXCEPT ![p] = Idle("next")] /\ clean' = FALSE
  BY <1>2, <1>5 DEF Resting
<1> QED
  BY <1>3, <1>4, <1>5 DEF Fail

\* An entry that someone else has locked keeps its lock and its sources.
Same(a, b) ==
  /\ b.lock = a.lock /\ DOMAIN b.handles = DOMAIN a.handles
  /\ \A i \in DOMAIN a.handles : b.handles[i].src = a.handles[i].src

LocksLeft(p) == \A e \in DOMAIN entry : entry[e].lock \notin {None, p} => Same(entry[e], entry'[e])

LEMMA OthersLocked ==
  ASSUME HeldInv, LockOk, NEW p \in Procs, NEW q \in Procs, q # p, call'[q] = call[q], LocksLeft(p),
         call[q].pc = "dropping"
  PROVE  Mine(q)'.lock = q /\ \E i \in DOMAIN Mine(q)'.handles : Mine(q)'.handles[i].src = call'[q].job.src
<1>1. call[q].my \in DOMAIN entry /\ Mine(q) = entry[call[q].my]
  BY MineIs DEF Holding
<1>2. /\ entry[call[q].my].lock = q
      /\ \E i \in DOMAIN entry[call[q].my].handles : entry[call[q].my].handles[i].src = call[q].job.src
  BY <1>1 DEF LockOk, At
<1>3. q # None
  BY ProgramsAssumption
<1>4. Same(entry[call[q].my], entry'[call[q].my])
  BY <1>1, <1>2, <1>3 DEF LocksLeft
<1>5. Mine(q)' = entry'[call[q].my]
  BY DEF Mine
<1> QED
  BY <1>2, <1>4, <1>5 DEF Same

LEMMA LockFrame ==
  ASSUME HeldInv, LockOk, NEW p \in Procs, \A q \in Procs : q # p => call'[q] = call[q],
         call'[p].pc # "dropping", LocksLeft(p)
  PROVE  LockOk'
<1> SUFFICES ASSUME NEW q \in Procs, call'[q].pc = "dropping"
             PROVE  /\ Mine(q)'.lock = q
                    /\ \E i \in DOMAIN Mine(q)'.handles : Mine(q)'.handles[i].src = call'[q].job.src
  BY DEF LockOk, At
<1> QED
  BY OthersLocked

LEMMA NoLocks ==
  ASSUME HeldInv, LockOk, NEW p \in Procs, entry' = entry
  PROVE  LocksLeft(p)
BY DEF LocksLeft, Same

LEMMA MissingSteps ==
  ASSUME HeldInv, LockOk, NEW p \in Procs, Missing(p)
  PROVE  Quiet(p) /\ LockOk'
<1>1. Quiet(p) /\ call'[p].pc # "dropping"
  BY FailQuiet DEF Missing, obs, Resting
<1>2. LocksLeft(p)
  BY NoLocks DEF Missing
<1> QED
  BY <1>1, <1>2, LockFrame DEF Quiet

LEMMA CreateCheckSteps ==
  ASSUME HeldInv, LockOk, NEW p \in Procs, CreateCheck(p)
  PROVE  Quiet(p) /\ LockOk'
<1>1. /\ UNCHANGED <<process, boots, row, saved, owed, raced, torn, live>> /\ entry' = entry
      /\ call[p].pc = "create" /\ (Goto(p, "opening") \/ Fail(p))
  BY DEF CreateCheck, obs, At
<1>2. Quiet(p) /\ call'[p].pc # "dropping"
  <2>1. CASE Fail(p)
    BY <1>1, <2>1, FailQuiet DEF Resting
  <2>2. CASE Goto(p, "opening")
    BY <1>1, <2>2, GotoQuiet DEF Goto, Plain, Pcs, Resting, Saving
  <2> QED
    BY <1>1, <2>1, <2>2
<1> QED
  BY <1>1, <1>2, LockFrame, NoLocks DEF Quiet

LEMMA SetMyQuiet ==
  ASSUME HeldInv, NEW p \in Procs, NEW x \in Holding, NEW e \in Nat, SetMy(p, x, e), call[p].pc \notin Resting, Plain
  PROVE  Quiet(p) /\ call'[p].pc = x /\ call'[p].my = e /\ call'[p].job = call[p].job
<1>1. x \in Pcs /\ x \notin Resting \cup Saving
  BY DEF Holding, Pcs, Resting, Saving
<1>2. PICK c : Moves(p, c) /\ c.pc = x /\ c.job = call[p].job /\ c.my = e
  BY <1>1, Facts, MyMoves
<1> QED
  BY <1>1, <1>2, MovedQuiet DEF Saving

LEMMA CreateOpenSteps ==
  ASSUME HeldInv, LockOk, NEW p \in Procs, NEW online, CreateOpen(p, online)
  PROVE  Quiet(p) /\ LockOk'
<1>1. /\ UNCHANGED <<process, boots, row, saved, owed, raced, torn, live>> /\ call[p].pc = "opening"
  BY DEF CreateOpen, obs, At
<1>2. CASE Fail(p) /\ entry' = entry
  <2>1. Quiet(p) /\ call'[p].pc # "dropping"
    BY <1>1, <1>2, FailQuiet DEF Resting
  <2> QED
    BY <1>2, <2>1, LockFrame, NoLocks DEF Quiet
<1>3. CASE SetMy(p, "insert", Len(entry) + 1) /\ clean' = clean /\ entry' = Append(entry, NewEntry(call[p].job, online))
  <2>1. entry \in Seq(Entry) /\ Len(entry) + 1 \in Nat
    BY Facts
  <2>2. Quiet(p) /\ call'[p].pc = "insert"
    BY <1>1, <1>3, <2>1, SetMyQuiet DEF Plain, Holding, Resting
  <2>3. \A e \in DOMAIN entry : entry'[e] = entry[e]
    BY <1>3, <2>1
  <2>4. LocksLeft(p)
    BY <2>3 DEF LocksLeft, Same
  <2> QED
    BY <2>2, <2>4, LockFrame DEF Quiet
<1> QED
  BY <1>2, <1>3 DEF CreateOpen, GotoWith, SetMy

LEMMA SwitchSteps ==
  ASSUME HeldInv, LockOk, NEW p \in Procs, Switch(p)
  PROVE  Quiet(p) /\ LockOk'
<1>1. /\ UNCHANGED <<process, boots, row, saved, owed, raced, torn, live>> /\ entry' = entry
      /\ call[p].pc = "switch" /\ Target(p) # 0
  BY DEF Switch, obs, At
<1>2. Quiet(p) /\ call'[p].pc # "dropping"
  <2>1. CASE Fail(p)
    BY <1>1, <2>1, FailQuiet DEF Resting
  <2>2. CASE SetGen(p, "slot", Target(p), entry[Target(p)].gen) /\ clean' = clean
    <3>1. Target(p) \in Nat /\ entry[Target(p)] \in Entry /\ call \in [Procs -> Call]
      BY <1>1, TargetIs, Facts DEF Asked
    <3>2. entry[Target(p)].gen \in Nat
      BY <3>1 DEF Entry
    <3>3. PICK c : Moves(p, c) /\ c.pc = "slot" /\ c.job = call[p].job
      BY <2>2, <3>1, <3>2, GenMoves DEF Pcs
    <3> QED
      BY <1>1, <2>2, <3>3, MovedQuiet DEF Plain, Resting, Saving
  <2> QED
    BY <2>1, <2>2 DEF Switch, SetGen
<1> QED
  BY <1>1, <1>2, LockFrame, NoLocks DEF Quiet

LEMMA TakeSteps ==
  ASSUME HeldInv, LockOk, NEW p \in Procs, NEW x \in Holding, x # "dropping", call[p].pc \in Asked,
         UNCHANGED <<process, boots, row, saved, owed, raced, torn, live, entry>>,
         GotoWith(p, x, Target(p)) \/ Fail(p)
  PROVE  Quiet(p) /\ LockOk'
<1>1. Target(p) \in Nat /\ call[p].pc \notin Resting
  BY TargetIs DEF Asked, Resting
<1>2. Quiet(p) /\ call'[p].pc # "dropping"
  <2>1. CASE Fail(p)
    BY <1>1, <2>1, FailQuiet
  <2>2. CASE SetMy(p, x, Target(p)) /\ clean' = clean
    BY <1>1, <2>2, SetMyQuiet DEF Plain
  <2> QED
    BY <2>1, <2>2 DEF GotoWith, SetMy
<1> QED
  BY <1>2, LockFrame, NoLocks DEF Quiet

LEMMA RelayoutSteps ==
  ASSUME HeldInv, LockOk, NEW p \in Procs, Relayout(p)
  PROVE  Quiet(p) /\ LockOk'
<1>1. call[p].pc \in Asked
  BY DEF Relayout, At, Asked
<1> QED
  BY <1>1, TakeSteps DEF Relayout, obs, Holding

LEMMA AddSourceSteps ==
  ASSUME HeldInv, LockOk, NEW p \in Procs, AddSource(p)
  PROVE  Quiet(p) /\ LockOk'
<1>1. call[p].pc \in Asked
  BY DEF AddSource, At, Asked
<1> QED
  BY <1>1, TakeSteps DEF AddSource, obs, Holding

\* A step that ends at persist_all, or at push, for an operation on a program
\* that runs.
LEMMA ChangeSteps ==
  ASSUME HeldInv, LockOk, NEW p \in Procs, NEW x \in {"regions", "push"}, Goto(p, x),
         call[p].pc \in Holding \ {"insert"},
         UNCHANGED <<process, boots, row, saved, owed, raced, torn, live>>, LocksLeft(p)
  PROVE  Quiet(p) /\ LockOk'
<1>1. call[p].pc \notin Resting /\ call[p].job.op # "create"
  BY MineIs DEF OpAt, Holding, Resting
<1>2. Quiet(p) /\ call'[p].pc = x
  BY <1>1, GotoQuiet DEF Goto, Plain, Pcs, Resting
<1> QED
  BY <1>2, LockFrame DEF Quiet

LEMMA SwitchSlotSteps ==
  ASSUME HeldInv, LockOk, NEW p \in Procs, SwitchSlot(p)
  PROVE  Quiet(p) /\ LockOk'
<1>1. /\ UNCHANGED <<process, boots, row, saved, owed, raced, torn, live>> /\ call[p].pc = "slot" /\ Goto(p, "regions")
  BY DEF SwitchSlot, obs, At
<1>2. entry \in Seq(Entry) /\ \A e \in DOMAIN entry : entry[e] \in Entry
  BY Facts
<1>3. \A e \in DOMAIN entry : entry'[e].lock = entry[e].lock /\ entry'[e].handles = entry[e].handles
  BY <1>2 DEF SwitchSlot, Entry
<1>4. LocksLeft(p)
  BY <1>3 DEF LocksLeft, Same
<1> QED
  BY <1>1, <1>4, ChangeSteps DEF Holding

LEMMA RelayoutApplySteps ==
  ASSUME HeldInv, LockOk, NEW p \in Procs, RelayoutApply(p)
  PROVE  Quiet(p) /\ LockOk'
<1>1. /\ UNCHANGED <<process, boots, row, saved, owed, raced, torn, live>> /\ call[p].pc = "layout" /\ Goto(p, "regions")
  BY DEF RelayoutApply, obs, At
<1>2. entry \in Seq(Entry) /\ \A e \in DOMAIN entry : entry[e] \in Entry
  BY Facts
<1>3. \A e \in DOMAIN entry : entry'[e].lock = entry[e].lock /\ entry'[e].handles = entry[e].handles
  BY <1>2 DEF RelayoutApply, Entry
<1>4. LocksLeft(p)
  BY <1>3 DEF LocksLeft, Same
<1> QED
  BY <1>1, <1>4, ChangeSteps DEF Holding

LEMMA AddPoolSteps ==
  ASSUME HeldInv, LockOk, NEW p \in Procs, AddPool(p)
  PROVE  Quiet(p) /\ LockOk'
<1>1. /\ UNCHANGED <<process, boots, row, saved, owed, raced, torn, live>> /\ call[p].pc = "adding" /\ Goto(p, "push")
  BY DEF AddPool, obs, At
<1>2. entry \in Seq(Entry) /\ \A e \in DOMAIN entry : entry[e] \in Entry
  BY Facts
<1>3. \A e \in DOMAIN entry : entry'[e].lock = entry[e].lock /\ entry'[e].handles = entry[e].handles
  BY <1>2 DEF AddPool, Entry
<1>4. LocksLeft(p)
  BY <1>3 DEF LocksLeft, Same
<1> QED
  BY <1>1, <1>4, ChangeSteps DEF Holding

LEMMA AddPushSteps ==
  ASSUME HeldInv, LockOk, NEW p \in Procs, NEW kind, AddPush(p, kind)
  PROVE  Quiet(p) /\ LockOk'
<1>1. /\ UNCHANGED <<process, boots, row, saved, owed, raced, torn, live>> /\ call[p].pc = "push" /\ Goto(p, "regions")
      /\ entry[call[p].my].lock = None
  BY DEF AddPush, obs, At, Mine
<1>2. entry \in Seq(Entry)
  BY Facts
<1>3. \A e \in DOMAIN entry : e # call[p].my => entry'[e] = entry[e]
  BY <1>2 DEF AddPush
<1>4. LocksLeft(p)
  BY <1>1, <1>3 DEF LocksLeft, Same
<1> QED
  BY <1>1, <1>4, ChangeSteps DEF Holding

LEMMA RemoveSourceSteps ==
  ASSUME HeldInv, LockOk, NEW p \in Procs, RemoveSource(p)
  PROVE  Quiet(p) /\ LockOk'
<1> DEFINE e == Target(p)
           s == call[p].job.src
<1>1. /\ UNCHANGED <<process, boots, row, saved, owed, raced, torn, live>> /\ call[p].pc = "drop"
      /\ e # 0 /\ entry[e].lock = None
  BY DEF RemoveSource, obs, At
<1>2. CASE Fail(p) /\ entry' = entry
  <2>1. Quiet(p) /\ call'[p].pc # "dropping"
    BY <1>1, <1>2, FailQuiet DEF Resting
  <2> QED
    BY <1>2, <2>1, LockFrame, NoLocks DEF Quiet
<1>3. CASE /\ s \in Elems(SourceIds(e)) /\ SetMy(p, "dropping", e) /\ clean' = clean
           /\ entry' = [entry EXCEPT ![e].lock = p, ![e].pool = @ \ {s}]
  <2>1. e \in DOMAIN entry /\ e \in Nat /\ entry[e] \in Entry /\ entry \in Seq(Entry)
    BY <1>1, TargetIs DEF Asked
  <2>2. Quiet(p) /\ call'[p].pc = "dropping" /\ call'[p].my = e /\ call'[p].job = call[p].job
    BY <1>1, <1>3, <2>1, SetMyQuiet DEF Plain, Holding, Resting
  <2>3. entry'[e].lock = p /\ entry'[e].handles = entry[e].handles
    BY <1>3, <2>1 DEF Entry
  <2>4. \A d \in DOMAIN entry : d # e => entry'[d] = entry[d]
    BY <1>3, <2>1
  <2>5. LocksLeft(p)
    BY <1>1, <2>4 DEF LocksLeft, Same
  <2>6. \E i \in DOMAIN entry[e].handles : entry[e].handles[i].src = s
    BY <1>3 DEF Elems, SourceIds
  <2>7. Mine(p)' = entry'[e]
    BY <2>2 DEF Mine
  <2> SUFFICES ASSUME NEW q \in Procs, call'[q].pc = "dropping"
               PROVE  /\ Mine(q)'.lock = q
                      /\ \E i \in DOMAIN Mine(q)'.handles : Mine(q)'.handles[i].src = call'[q].job.src
    BY <2>2 DEF LockOk, At
  <2>8. CASE q = p
    BY <2>2, <2>3, <2>6, <2>7, <2>8
  <2>9. CASE q # p
    BY <2>2, <2>5, <2>9, OthersLocked DEF Quiet
  <2> QED
    BY <2>8, <2>9
<1> QED
  BY <1>2, <1>3 DEF RemoveSource, GotoWith, SetMy

LEMMA RemoveSourceSlotsSteps ==
  ASSUME HeldInv, LockOk, NEW p \in Procs, RemoveSourceSlots(p)
  PROVE  Quiet(p) /\ LockOk'
<1>1. /\ UNCHANGED <<process, boots, row, saved, owed, raced, live, clean>> /\ call[p].pc = "dropping"
      /\ Goto(p, "regions")
  BY DEF RemoveSourceSlots, At, Goto
<1>2. /\ entry \in Seq(Entry) /\ entry[call[p].my].lock = p /\ call \in [Procs -> Call] /\ Busy(p)
      /\ Id(p) \in Ids /\ torn \subseteq Ids
  BY <1>1, BusyAt, Facts DEF LockOk, At, Mine, Resting, HeldInv, TypeOK
<1>3. \A e \in DOMAIN entry : e # call[p].my => entry'[e] = entry[e]
  BY <1>2 DEF RemoveSourceSlots
<1>4. LocksLeft(p)
  BY <1>2, <1>3 DEF LocksLeft, Same
<1>5. torn' \subseteq Ids
  BY <1>2 DEF RemoveSourceSlots
<1>6. PICK c : Moves(p, c) /\ Goes(call[p], c, "regions")
  BY <1>1, <1>2, PcMoves DEF Goto, Pcs
<1>7. call' \in [Procs -> Call] /\ call'[p] = c /\ \A q \in Procs : q # p => call'[q] = call[q]
  BY <1>2, <1>6, MovesTo
<1>8. c.pc = "regions" /\ c.job = call[p].job
  BY <1>6 DEF Goes
<1>9. call[p].job.op # "create"
  BY <1>1, MineIs DEF OpAt, Holding
<1>10. Quiet(p)
  BY <1>1, <1>2, <1>5, <1>7, <1>8, <1>9 DEF Quiet, Busy
<1> QED
  BY <1>4, <1>7, <1>8, <1>10, LockFrame

LEMMA ReadRegionsSteps ==
  ASSUME HeldInv, LockOk, NEW p \in Procs, ReadRegions(p)
  PROVE  Quiet(p) /\ LockOk'
<1>1. Plain /\ entry' = entry /\ call[p].pc = "regions"
  BY DEF ReadRegions, obs, At, Plain
<1>2. /\ call' \in [Procs -> Call] /\ call'[p].pc = "sources" /\ call'[p].job = call[p].job
      /\ \A q \in Procs : q # p => call'[q] = call[q]
  <2> DEFINE s == [id \in Ids |-> IF live[id] = 0 THEN None
                                  ELSE [sources |-> <<>>, regions |-> entry[live[id]].slots]]
  <2>1. SetSnap(p, "sources", s)
    BY DEF ReadRegions, SetSnap
  <2>2. s \in [Ids -> Program \cup {None}]
    BY RegionsType
  <2> HIDE DEF s
  <2>3. PICK c : Moves(p, c) /\ c.pc = "sources" /\ c.job = call[p].job
    BY <2>1, <2>2, Facts, SnapMoves DEF Pcs
  <2> QED
    BY <2>3, Facts, MovesTo
<1>3. Busy(p) /\ Busy(p)' /\ torn' \subseteq Ids
  BY <1>1, <1>2 DEF Busy, Plain, HeldInv, TypeOK
<1>4. Quiet(p)
  BY <1>1, <1>2, <1>3 DEF Quiet, Plain, Saving
<1> QED
  BY <1>1, <1>2, <1>4, LockFrame, NoLocks

LEMMA ReadSourcesSteps ==
  ASSUME HeldInv, LockOk, NEW p \in Procs, ReadSources(p)
  PROVE  Quiet(p) /\ LockOk'
<1>1. Plain /\ entry' = entry /\ call[p].pc = "sources"
  BY DEF ReadSources, obs, At, Plain
<1>2. PICK s \in [Ids -> Program \cup {None}] :
         SetSnap(p, "save", s) /\ \A id \in Ids : live[id] # 0 => s[id] # None
  BY SnapIs
<1>3. PICK c : Moves(p, c) /\ c.pc = "save" /\ c.job = call[p].job /\ c.snap = s
  BY <1>2, Facts, SnapMoves DEF Pcs
<1>4. call' \in [Procs -> Call] /\ call'[p] = c /\ \A q \in Procs : q # p => call'[q] = call[q]
  BY <1>3, Facts, MovesTo
<1>5. Busy(p) /\ Busy(p)' /\ torn' \subseteq Ids
  BY <1>1, <1>3, <1>4 DEF Busy, Plain, HeldInv, TypeOK
<1>6. Quiet(p)
  BY <1>1, <1>2, <1>3, <1>4, <1>5 DEF Quiet, Plain, Saving
<1> QED
  BY <1>1, <1>3, <1>4, <1>6, LockFrame, NoLocks

LEMMA DroppedSame ==
  ASSUME NEW e \in Entry
  PROVE  Same(e, Dropped(e))
<1>1. e.handles \in Seq(Handle) /\ \A i \in DOMAIN e.handles : e.handles[i] \in Handle
  BY DEF Entry
<1>2. \A h \in Handle : [h EXCEPT !.kind = "off"].src = h.src
  BY DEF Handle
<1> DEFINE d == [i \in DOMAIN e.handles |->
                   IF e.handles[i].kind = "hot" THEN [e.handles[i] EXCEPT !.kind = "off"] ELSE e.handles[i]]
<1>3. DOMAIN d = DOMAIN e.handles /\ \A i \in DOMAIN e.handles : d[i].src = e.handles[i].src
  BY <1>1, <1>2
<1>4. Dropped(e) = [e EXCEPT !.handles = d]
  BY DEF Dropped
<1> HIDE DEF d
<1>5. Dropped(e).lock = e.lock /\ Dropped(e).handles = d
  BY <1>4 DEF Entry
<1> QED
  BY <1>3, <1>5 DEF Same

LEMMA CreateInsertSteps ==
  ASSUME HeldInv, LockOk, NEW p \in Procs, CreateInsert(p)
  PROVE  Quiet(p) /\ LockOk'
<1> DEFINE k == live[Id(p)]
<1>1. /\ call[p].pc = "insert" /\ Goto(p, "regions") /\ UNCHANGED <<process, boots, row, saved, owed, raced, torn, clean>>
      /\ live' = [live EXCEPT ![Id(p)] = call[p].my]
      /\ entry' = IF k = 0 THEN entry ELSE [entry EXCEPT ![k] = Dropped(entry[k])]
  BY DEF CreateInsert, At, obs, Goto
<1>2. /\ Busy(p) /\ Id(p) \in Ids /\ entry \in Seq(Entry) /\ CallOk(call[p]) /\ live \in [Ids -> Nat]
      /\ call \in [Procs -> Call] /\ torn \subseteq Ids
  BY <1>1, BusyAt, Facts DEF Resting, HeldInv, TypeOK
<1>3. call[p].my # 0 /\ call[p].job.op = "create"
  BY <1>1, <1>2 DEF CallOk, Holding, OpAt, Resting
<1>4. PICK c : Moves(p, c) /\ Goes(call[p], c, "regions")
  BY <1>1, <1>2, PcMoves DEF Goto, Pcs
<1>5. call' \in [Procs -> Call] /\ call'[p] = c /\ \A q \in Procs : q # p => call'[q] = call[q]
  BY <1>2, <1>4, MovesTo
<1>6. c.pc = "regions" /\ c.job = call[p].job
  BY <1>4 DEF Goes
<1>7. \A id \in Ids : live'[id] # live[id] => id = Id(p) /\ live'[id] = call[p].my
  BY <1>1, <1>2
<1>8. live'[Id(p)] # 0
  BY <1>1, <1>2, <1>3
<1>9. Busy(p)' /\ torn' \subseteq Ids
  BY <1>1, <1>2, <1>5, <1>6 DEF Busy
<1>10. Quiet(p)
  BY <1>1, <1>2, <1>3, <1>5, <1>6, <1>7, <1>8, <1>9 DEF Quiet
<1>11. LocksLeft(p)
  <2>1. ASSUME NEW e \in DOMAIN entry PROVE Same(entry[e], entry'[e])
    <3>1. CASE k = 0 \/ e # k
      <4>1. entry'[e] = entry[e]
        BY <1>1, <1>2, <3>1
      <4> QED
        BY <4>1 DEF Same
    <3>2. CASE k # 0 /\ e = k
      <4>1. entry'[e] = Dropped(entry[e]) /\ entry[e] \in Entry
        BY <1>1, <1>2, <3>2
      <4> QED
        BY <4>1, DroppedSame
    <3> QED
      BY <3>1, <3>2
  <2> QED
    BY <2>1 DEF LocksLeft
<1> QED
  BY <1>5, <1>6, <1>10, <1>11, LockFrame

LEMMA RemoveSteps ==
  ASSUME HeldInv, LockOk, NEW p \in Procs, Remove(p)
  PROVE  Quiet(p) /\ LockOk'
<1> DEFINE k == Target(p)
<1>1. /\ call[p].pc = "remove" /\ Goto(p, "regions") /\ UNCHANGED <<process, boots, row, saved, owed, raced, torn, clean>>
      /\ live' = [live EXCEPT ![Id(p)] = 0] /\ k # 0 /\ entry[k].lock = None
      /\ entry' = [entry EXCEPT ![k] = Stopped(entry[k])]
  BY DEF Remove, At, obs, Goto
<1>2. /\ Busy(p) /\ Id(p) \in Ids /\ entry \in Seq(Entry) /\ CallOk(call[p]) /\ live \in [Ids -> Nat]
      /\ call \in [Procs -> Call] /\ torn \subseteq Ids
  BY <1>1, BusyAt, Facts DEF Resting, HeldInv, TypeOK
<1>3. call[p].job.op = "remove"
  BY <1>1, <1>2 DEF CallOk, Asked, OpAt, Resting
<1>4. PICK c : Moves(p, c) /\ Goes(call[p], c, "regions")
  BY <1>1, <1>2, PcMoves DEF Goto, Pcs
<1>5. call' \in [Procs -> Call] /\ call'[p] = c /\ \A q \in Procs : q # p => call'[q] = call[q]
  BY <1>2, <1>4, MovesTo
<1>6. c.pc = "regions" /\ c.job = call[p].job
  BY <1>4 DEF Goes
<1>7. \A id \in Ids : live'[id] # live[id] => id = Id(p)
  BY <1>1, <1>2
<1>8. Busy(p)' /\ torn' \subseteq Ids
  BY <1>1, <1>2, <1>5, <1>6 DEF Busy
<1>9. Quiet(p)
  BY <1>1, <1>2, <1>3, <1>5, <1>6, <1>7, <1>8 DEF Quiet
<1>10. \A e \in DOMAIN entry : e # k => entry'[e] = entry[e]
  BY <1>1, <1>2
<1>11. LocksLeft(p)
  BY <1>1, <1>10 DEF LocksLeft, Same
<1> QED
  BY <1>5, <1>6, <1>9, <1>11, LockFrame

-----------------------------------------------------------------------------
(* The first invariant is inductive. *)

SafeInv == HeldInv /\ LockOk /\ DownOk

LEMMA QuietEnv ==
  ASSUME HeldInv, NEW p \in Procs, Quiet(p)
  PROVE  EnvOk'
<1>1. UNCHANGED <<process, boots, row, saved, owed, raced>> /\ torn' \subseteq Ids /\ (clean' = clean \/ clean' = FALSE)
  BY DEF Quiet
<1>2. clean' \in BOOLEAN
  BY <1>1 DEF HeldInv, TypeOK
<1> QED
  BY <1>1, <1>2 DEF EnvOk, HeldInv, TypeOK

LEMMA QuietKeeps ==
  ASSUME SafeInv, NEW p \in Procs, Quiet(p), HeldInv', LockOk'
  PROVE  SafeInv'
<1>1. call[p].pc \notin Resting /\ process' = process
  BY DEF Quiet, Busy, Resting
<1>2. DownOk'
  BY <1>1 DEF SafeInv, DownOk
<1> QED
  BY <1>2 DEF SafeInv

\* A step of a call, without persist_all's last.
Works(p) ==
  \/ Missing(p) \/ CreateCheck(p) \/ (\E on \in SUBSET Srcs : CreateOpen(p, on))
  \/ CreateInsert(p) \/ Remove(p) \/ Switch(p) \/ SwitchSlot(p)
  \/ Relayout(p) \/ RelayoutApply(p)
  \/ AddSource(p) \/ AddPool(p) \/ (\E k \in {"hot", "retry"} : AddPush(p, k))
  \/ RemoveSource(p) \/ RemoveSourceSlots(p) \/ ReadRegions(p) \/ ReadSources(p)

LEMMA WorksQuiet ==
  ASSUME HeldInv, LockOk, NEW p \in Procs, Works(p)
  PROVE  Quiet(p) /\ LockOk'
BY MissingSteps, CreateCheckSteps, CreateOpenSteps, CreateInsertSteps, RemoveSteps, SwitchSteps, SwitchSlotSteps,
   RelayoutSteps, RelayoutApplySteps, AddSourceSteps, AddPoolSteps, AddPushSteps, RemoveSourceSteps,
   RemoveSourceSlotsSteps, ReadRegionsSteps, ReadSourcesSteps DEF Works

LEMMA WorksKeep ==
  ASSUME SafeInv, NEW p \in Procs, Works(p)
  PROVE  SafeInv'
<1>1. HeldInv /\ LockOk /\ Quiet(p) /\ LockOk'
  BY WorksQuiet DEF SafeInv
<1>2. EnvOk'
  BY <1>1, QuietEnv
<1>3. HeldInv'
  BY <1>1, <1>2, MissingKeeps, CreateCheckKeeps, CreateOpenKeeps, CreateInsertKeeps, RemoveKeeps, SwitchKeeps,
     SwitchSlotKeeps, RelayoutKeeps, RelayoutApplyKeeps, AddSourceKeeps, AddPoolKeeps, AddPushKeeps,
     RemoveSourceKeeps, RemoveSourceSlotsKeeps, ReadRegionsKeeps, ReadSourcesKeeps DEF Works
<1> QED
  BY <1>1, <1>3, QuietKeeps

\* What a call that is over leaves of the others.
LEMMA LeaveShape ==
  ASSUME HeldInv, NEW p \in Procs, NEW x \in Resting, call' = [call EXCEPT ![p] = Idle(x)]
  PROVE  /\ call' \in [Procs -> Call] /\ call'[p].pc = x /\ ~Busy(p)'
         /\ \A q \in Procs : q # p => call'[q] = call[q]
<1>1. Moves(p, Idle(x)) /\ call \in [Procs -> Call]
  BY IdleMoves, Facts
<1>2. call' \in [Procs -> Call] /\ call'[p] = Idle(x) /\ \A q \in Procs : q # p => call'[q] = call[q]
  BY <1>1, MovesTo
<1>3. call'[p].pc = x
  BY <1>2, IdleType
<1> QED
  BY <1>2, <1>3 DEF Busy, Resting

LEMMA SaveSteps ==
  ASSUME SafeInv, NEW p \in Procs, NEW ok \in BOOLEAN, Save(p, ok)
  PROVE  SafeInv'
<1>1. /\ call[p].pc = "save" /\ entry' = entry /\ UNCHANGED <<process, boots, saved, raced, torn>>
      /\ row' = (IF ok THEN call[p].snap ELSE row) /\ clean' = (clean /\ ok)
      /\ owed' = (IF call[p].job.op = "create" THEN owed \cup {Id(p)} ELSE owed)
  BY DEF Save, At
<1>2. HeldInv /\ LockOk /\ Busy(p) /\ Id(p) \in Ids /\ call[p].snap \in [Ids -> Program \cup {None}]
  BY <1>1, Facts DEF SafeInv, Busy
<1>3. row' \in [Ids -> Program \cup {None}] /\ owed' \subseteq Ids
  BY <1>1, <1>2 DEF HeldInv, TypeOK
<1>4. clean' \in BOOLEAN
  BY <1>1
<1>5. EnvOk'
  BY <1>1, <1>2, <1>3, <1>4 DEF EnvOk, HeldInv, TypeOK
<1>6. HeldInv'
  BY <1>2, <1>5, SaveKeeps
<1>7. PICK x \in Resting : call' = [call EXCEPT ![p] = Idle(x)]
  BY DEF Save, Resting
<1>8. call'[p].pc # "dropping" /\ \A q \in Procs : q # p => call'[q] = call[q]
  BY <1>2, <1>7, LeaveShape DEF Resting
<1>9. LockOk'
  BY <1>1, <1>2, <1>8, LockFrame, NoLocks
<1>10. DownOk'
  BY <1>1 DEF SafeInv, DownOk, Resting
<1> QED
  BY <1>6, <1>9, <1>10 DEF SafeInv

LEMMA AbandonSteps ==
  ASSUME SafeInv, NEW c \in Calls, Abandon(c)
  PROVE  SafeInv'
<1>1. /\ call[c].pc \notin Resting /\ entry' = entry /\ UNCHANGED <<process, boots, row, saved, owed, torn>>
      /\ raced' = raced \cup {Id(c)} /\ clean' = FALSE /\ call' = [call EXCEPT ![c] = Idle("done")]
      /\ c \in Procs
  BY DEF Abandon, Resting, Procs
<1>2. HeldInv /\ LockOk /\ Busy(c) /\ Id(c) \in Ids
  BY <1>1, BusyAt, Facts DEF SafeInv
<1>3. EnvOk'
  BY <1>1, <1>2 DEF EnvOk, HeldInv, TypeOK
<1>4. HeldInv'
  BY <1>2, <1>3, AbandonKeeps
<1>5. call'[c].pc # "dropping" /\ \A q \in Procs : q # c => call'[q] = call[q]
  BY <1>1, <1>2, LeaveShape DEF Resting
<1>6. LockOk'
  BY <1>1, <1>2, <1>5, LockFrame, NoLocks
<1>7. DownOk'
  BY <1>1 DEF SafeInv, DownOk
<1> QED
  BY <1>4, <1>6, <1>7 DEF SafeInv

\* What a call that begins leaves of the others.
LEMMA StartShape ==
  ASSUME HeldInv, NEW p \in Procs, NEW r \in Request, Start(p, r)
  PROVE  /\ call' \in [Procs -> Call] /\ call'[p].pc = r.op /\ call'[p].job = r /\ r.op \in Asked
         /\ \A q \in Procs : q # p => call'[q] = call[q]
<1>1. r.op \in Asked /\ r.op \in Pcs
  BY DEF Request, Asked, Pcs
<1>2. SetJob(p, r.op, r) /\ call \in [Procs -> Call]
  BY Facts DEF Start, SetJob
<1>3. PICK c : Moves(p, c) /\ c.pc = r.op /\ c.job = r
  BY <1>1, <1>2, JobMoves
<1> QED
  BY <1>1, <1>2, <1>3, MovesTo

LEMMA StartSteps ==
  ASSUME HeldInv, LockOk, NEW p \in Procs, NEW r \in Request, Start(p, r), entry' = entry
  PROVE  LockOk' /\ raced' \subseteq Ids /\ clean' \in BOOLEAN
<1>1. call'[p].pc # "dropping" /\ \A q \in Procs : q # p => call'[q] = call[q]
  BY StartShape DEF Asked
<1>2. LockOk'
  BY <1>1, LockFrame, NoLocks
<1>3. r.id \in Ids /\ raced \subseteq Ids
  BY DEF Request, HeldInv, TypeOK
<1>4. raced' \subseteq Ids
  BY <1>3 DEF Start
<1>5. clean' \in BOOLEAN
  BY DEF Start
<1> QED
  BY <1>2, <1>4, <1>5

LEMMA BeginSteps ==
  ASSUME SafeInv, NEW c \in Calls, NEW r \in Requests, Begin(c, r)
  PROVE  SafeInv'
<1>1. /\ process = "up" /\ entry' = entry /\ UNCHANGED <<process, boots, row, saved, torn>> /\ Start(c, r)
      /\ owed' \subseteq owed /\ c \in Procs /\ r \in Request
  BY ProgramsAssumption DEF Begin, Procs
<1>2. HeldInv /\ LockOk
  BY DEF SafeInv
<1>3. LockOk' /\ raced' \subseteq Ids /\ clean' \in BOOLEAN
  BY <1>1, <1>2, StartSteps
<1>4. EnvOk'
  BY <1>1, <1>2, <1>3 DEF EnvOk, HeldInv, TypeOK
<1>5. HeldInv'
  BY <1>2, <1>4, BeginKeeps
<1>6. DownOk'
  BY <1>1 DEF DownOk
<1> QED
  BY <1>3, <1>5, <1>6 DEF SafeInv

LEMMA RestoreNextSteps ==
  ASSUME SafeInv, NEW id \in Ids, RestoreNext(id)
  PROVE  SafeInv'
<1>1. /\ process # "down" /\ entry' = entry /\ UNCHANGED <<process, boots, row, owed, torn>> /\ Start(Boot, Again(id))
      /\ saved' = [saved EXCEPT ![id] = None] /\ saved[id] # None /\ Boot \in Procs
  BY DEF RestoreNext, Again, Procs
<1>2. HeldInv /\ LockOk
  BY DEF SafeInv
<1>3. Again(id) \in Request
  BY <1>1, <1>2, AgainIs
<1>4. LockOk' /\ raced' \subseteq Ids /\ clean' \in BOOLEAN
  BY <1>1, <1>2, <1>3, StartSteps
<1>5. saved' \in [Ids -> Program \cup {None}]
  BY <1>1, <1>2 DEF HeldInv, TypeOK
<1>6. EnvOk'
  BY <1>1, <1>2, <1>4, <1>5 DEF EnvOk, HeldInv, TypeOK
<1>7. HeldInv'
  BY <1>2, <1>6, RestoreNextKeeps
<1>8. DownOk'
  BY <1>1 DEF DownOk
<1> QED
  BY <1>4, <1>7, <1>8 DEF SafeInv

LEMMA ShutdownSteps ==
  ASSUME SafeInv, Shutdown
  PROVE  SafeInv'
<1>1. /\ process' = "stopping" /\ call' = call /\ UNCHANGED <<boots, row, saved, owed, torn>> /\ Unlocked
      /\ raced' = raced \cup {Id(p) : p \in {q \in Procs : Busy(q)}}
      /\ entry' = [e \in DOMAIN entry |->
                     IF \E id \in Ids : live[id] = e THEN Stopped(entry[e]) ELSE entry[e]]
  BY DEF Shutdown
<1>2. HeldInv /\ LockOk
  BY DEF SafeInv
<1>3. raced' \subseteq Ids
  <2>1. \A p \in Procs : Busy(p) => Id(p) \in Ids
    BY <1>2, Facts
  <2> QED
    BY <1>1, <1>2, <2>1 DEF HeldInv, TypeOK
<1>4. clean' \in BOOLEAN
  BY DEF Shutdown
<1>5. EnvOk'
  BY <1>1, <1>2, <1>3, <1>4 DEF EnvOk, HeldInv, TypeOK
<1>6. HeldInv'
  BY <1>2, <1>5, ShutdownKeeps
<1>7. LockOk'
  <2> SUFFICES ASSUME NEW q \in Procs, call[q].pc = "dropping" PROVE Mine(q)' = Mine(q)
    BY <1>1, <1>2 DEF LockOk, At
  <2>1. call[q].my \in DOMAIN entry /\ Mine(q) = entry[call[q].my] /\ Mine(q).lock = q /\ q # None /\ call[q].my # 0
    BY <1>2, MineIs, ProgramsAssumption DEF Holding, LockOk, At
  <2>2. ~\E id \in Ids : live[id] = call[q].my
    BY <1>1, <2>1 DEF Unlocked
  <2> QED
    BY <1>1, <2>1, <2>2 DEF Mine
<1>8. DownOk'
  BY <1>1 DEF DownOk
<1> QED
  BY <1>6, <1>7, <1>8 DEF SafeInv

LEMMA NobodyLocks ==
  ASSUME \A p \in Procs : call'[p].pc \in Resting
  PROVE  LockOk'
BY DEF LockOk, At, Resting

LEMMA DownSteps ==
  ASSUME SafeInv, Down
  PROVE  SafeInv'
<1> DEFINE x(p) == IF p # Boot /\ At(p, "idle") THEN "idle" ELSE "done"
<1>1. /\ process' = "down" /\ entry' = <<>> /\ call' = [p \in Procs |-> Idle(x(p))] /\ saved' = NoRow
      /\ UNCHANGED <<boots, row, owed, raced, torn>>
  BY DEF Down, obs
<1>2. clean' \in BOOLEAN
  BY DEF Down
<1>3. EnvOk'
  BY <1>1, <1>2, NoRowType DEF EnvOk, SafeInv, HeldInv, TypeOK
<1>4. HeldInv'
  BY <1>3, DownKeeps
<1>5. \A p \in Procs : x(p) \in Resting
  BY DEF Resting
<1> HIDE DEF x
<1>6. \A p \in Procs : call'[p].pc \in Resting
  BY <1>1, <1>5, IdleType
<1> QED
  BY <1>1, <1>4, <1>6, NobodyLocks DEF SafeInv, DownOk

LEMMA UpSteps ==
  ASSUME SafeInv, Up
  PROVE  SafeInv'
<1>1. /\ process = "down" /\ process' = "up" /\ boots < MaxBoots /\ boots' = boots + 1 /\ saved' = row
      /\ UNCHANGED <<entry, row, owed, raced, torn, clean>> /\ call' = [call EXCEPT ![Boot].pc = "next"]
      /\ \A p \in Procs : call[p].pc \in Resting
  BY DEF Up, obs, SafeInv, DownOk
<1>2. boots' \in 1..MaxBoots
  BY <1>1, ProgramsAssumption DEF SafeInv, HeldInv, TypeOK
<1>3. EnvOk'
  BY <1>1, <1>2 DEF EnvOk, SafeInv, HeldInv, TypeOK
<1>4. HeldInv'
  BY <1>3, UpKeeps DEF SafeInv
<1>5. call \in [Procs -> Call]
  BY DEF SafeInv, HeldInv, TypeOK
<1>6. \A p \in Procs : call'[p].pc \in Resting
  BY <1>1, <1>5 DEF Resting, Call
<1> QED
  BY <1>1, <1>4, <1>6, NobodyLocks DEF SafeInv, DownOk

LEMMA SafeInit ==
  ASSUME Init
  PROVE  SafeInv
<1>1. PICK s \in Starts : row = s.row /\ call = [p \in Procs |-> Idle(IF p = Boot THEN "next"
                                       ELSE IF p \in s.calls THEN "idle" ELSE "done")]
  BY DEF Init
<1> DEFINE x(p) == IF p = Boot THEN "next" ELSE IF p \in s.calls THEN "idle" ELSE "done"
<1>2. \A p \in Procs : x(p) \in Resting
  BY DEF Resting
<1>3. call = [p \in Procs |-> Idle(x(p))]
  BY <1>1
<1> HIDE DEF x
<1>4. \A p \in Procs : Idle(x(p)) \in Call /\ Idle(x(p)).pc \in Resting /\ Idle(x(p)).my = 0
  BY <1>2, IdleType
<1>5. call \in [Procs -> Call] /\ \A p \in Procs : call[p].pc \in Resting /\ call[p].my = 0
  BY <1>3, <1>4
<1>6. row \in [Ids -> Program \cup {None}]
  BY <1>1, ProgramsAssumption
<1>7. EnvOk
  <2>1. process = "up" /\ boots = 1 /\ saved = row /\ owed \subseteq Ids /\ raced = {} /\ torn = {} /\ clean = TRUE
    BY DEF Init
  <2>2. boots \in 1..MaxBoots
    BY <2>1, ProgramsAssumption
  <2> QED
    BY <1>6, <2>1, <2>2 DEF EnvOk
<1>8. live = [id \in Ids |-> 0] /\ entry = <<>> /\ process = "up"
  BY DEF Init
<1>9. HeldInv
  BY <1>5, <1>7, <1>8, RestingOk
<1>10. LockOk
  BY <1>5 DEF LockOk, At, Resting
<1> QED
  BY <1>8, <1>9, <1>10 DEF SafeInv, DownOk

LEMMA SafeStutters ==
  ASSUME SafeInv, UNCHANGED vars
  PROVE  SafeInv'
BY DEF SafeInv, HeldInv, TypeOK, CallsOk, BootOk, RaceOk, HoldOk, SnapOk, OrphanOk, LockOk, DownOk,
       Busy, Id, At, Mine, Live, InHand, vars

\* One step per action of Next.
LEMMA SafeStep ==
  ASSUME SafeInv, [Next]_vars
  PROVE  SafeInv'
<1>1. CASE \E p \in Procs : Works(p)
  BY <1>1, WorksKeep
<1>2. CASE \E p \in Procs : \E ok \in BOOLEAN : Save(p, ok)
  BY <1>2, SaveSteps
<1>3. CASE \E c \in Calls : Abandon(c)
  BY <1>3, AbandonSteps
<1>4. CASE \E c \in Calls : \E r \in Requests : Begin(c, r)
  BY <1>4, BeginSteps
<1>5. CASE \E id \in Ids : RestoreNext(id)
  BY <1>5, RestoreNextSteps
<1>6. CASE Shutdown
  BY <1>6, ShutdownSteps
<1>7. CASE Down
  BY <1>7, DownSteps
<1>8. CASE Up
  BY <1>8, UpSteps
<1>9. CASE UNCHANGED vars
  BY <1>9, SafeStutters
<1> QED
  BY <1>1, <1>2, <1>3, <1>4, <1>5, <1>6, <1>7, <1>8, <1>9 DEF Next, Progress, Works

(***************************************************************************)
(* The invariant holds for ever.                                           *)
(***************************************************************************)
THEOREM SafeAlways == Spec => []SafeInv
BY SafeInit, SafeStep, PTL DEF Spec

(***************************************************************************)
(* The variables of the program keep their types, and the map points to    *)
(* entries of the program it lists.                                        *)
(***************************************************************************)
THEOREM ProgramsTyped == Spec => []TypeOK
<1>1. SafeInv => TypeOK
  BY DEF SafeInv, HeldInv
<1> QED
  BY <1>1, SafeAlways, PTL

(***************************************************************************)
(* Nothing is orphaned: whatever a compositing loop or a decoding or       *)
(* reconnecting source belongs to is in the map or in the hand of a call,  *)
(* however create, remove and the changes of a program, restore_all,       *)
(* shutdown and crashes interleave, unless two calls on that program       *)
(* overlapped or one was dropped.                                          *)
(***************************************************************************)
THEOREM NothingOrphanedAlways == Spec => []NothingOrphaned
<1>1. SafeInv => NothingOrphaned
  BY DEF SafeInv, HeldInv, OrphanOk, NothingOrphaned, Dead
<1> QED
  BY <1>1, SafeAlways, PTL

-----------------------------------------------------------------------------
(* Nothing is forgotten.  A step of a call without persist_all's last:      *)

LEMMA QuietForgetsNothing ==
  ASSUME HeldInv, KeptInv, NEW p \in Procs, Quiet(p)
  PROVE  KeptInv'
<1> SUFFICES ASSUME clean' PROVE KeptInv'
  BY DEF KeptInv, AloneOk, OwedOk, WorkOk, NothingForgotten
<1>1. /\ clean /\ Busy(p) /\ UNCHANGED <<process, row, saved, owed>>
      /\ \A q \in Procs : q # p => call'[q] = call[q]
      /\ Busy(p)' => call'[p].job = call[p].job
      /\ Busy(p)' \/ p # Boot
  BY DEF Quiet
<1>2. \A q \in Procs : Busy(q)' => Busy(q) /\ call'[q].job = call[q].job
  BY <1>1 DEF Busy
<1>3. process = "up" /\ \A q \in Procs : Busy(q) => q = p
  BY <1>1 DEF KeptInv, AloneOk
<1>4. \A q \in Procs : Busy(q)' => q = p
  BY <1>2, <1>3
<1>5. \A id : BootOn(id) => BootOn(id)'
  <2>1. Busy(Boot) => Boot = p
    BY <1>3 DEF Procs
  <2> QED
    BY <1>1, <2>1 DEF BootOn, Id
<1>6. owed \subseteq Ids /\ Id(p) \in Ids
  BY <1>1, Facts DEF HeldInv, TypeOK
<1>7. /\ call[p].job.op = "remove" => Id(p) \notin owed
      /\ call[p].pc \in Saving /\ call[p].job.op = "create" => live[Id(p)] # 0
  BY <1>1 DEF KeptInv, WorkOk
<1>8. AloneOk'
  BY <1>1, <1>3, <1>4 DEF AloneOk
<1>9. OwedOk'
  <2> SUFFICES ASSUME NEW id \in owed, live'[id] = 0, saved[id] = None PROVE BootOn(id)'
    BY <1>1 DEF OwedOk
  <2>1. live[id] = 0
    BY <1>6, <1>7 DEF Quiet
  <2> QED
    BY <1>1, <1>3, <1>5, <2>1 DEF KeptInv, OwedOk
<1>10. WorkOk'
  <2> SUFFICES ASSUME Busy(p)'
               PROVE  /\ call'[p].job.op = "remove" => Id(p)' \notin owed'
                      /\ call'[p].pc \in Saving /\ call'[p].job.op = "create" => live'[Id(p)'] # 0
                      /\ call'[p].pc = "save" => \A id \in Ids : live'[id] # 0 => call'[p].snap[id] # None
    BY <1>4 DEF WorkOk
  <2>1. call'[p].job = call[p].job /\ Id(p)' = Id(p)
    BY <1>1 DEF Id
  <2>2. call'[p].pc \in Saving /\ call[p].job.op = "create" => live'[Id(p)] # 0
    <3>1. call[p].pc \in Saving /\ call[p].job.op = "create" => live'[Id(p)] # 0
      BY <1>6, <1>7 DEF Quiet
    <3> QED
      BY <3>1 DEF Quiet
  <2>3. call'[p].pc = "save" => \A id \in Ids : live'[id] # 0 => call'[p].snap[id] # None
    BY DEF Quiet
  <2> QED
    BY <1>1, <1>7, <2>1, <2>2, <2>3
<1>11. NothingForgotten'
  <2> SUFFICES ASSUME NEW id \in owed PROVE row[id] # None \/ saved[id] # None \/ BootOn(id)'
    BY <1>1 DEF NothingForgotten, BootOn
  <2> QED
    BY <1>1, <1>5 DEF KeptInv, NothingForgotten, BootOn
<1> QED
  BY <1>8, <1>9, <1>10, <1>11 DEF KeptInv

\* What one alone writes to the row has every program that is owed.
LEMMA SaveForgetsNothing ==
  ASSUME HeldInv, KeptInv, NEW p \in Procs, NEW ok \in BOOLEAN, Save(p, ok)
  PROVE  KeptInv'
<1> SUFFICES ASSUME clean' PROVE KeptInv'
  BY DEF KeptInv, AloneOk, OwedOk, WorkOk, NothingForgotten
<1>1. /\ clean /\ ok /\ call[p].pc = "save" /\ UNCHANGED <<process, saved, live>> /\ row' = call[p].snap
      /\ owed' = (IF call[p].job.op = "create" THEN owed \cup {Id(p)} ELSE owed)
  BY DEF Save, At
<1>2. Busy(p) /\ Id(p) \in Ids /\ owed \subseteq Ids
  BY <1>1, Facts DEF Busy, HeldInv, TypeOK
<1>3. process = "up" /\ \A q \in Procs : Busy(q) => q = p
  BY <1>1, <1>2 DEF KeptInv, AloneOk
<1>4. PICK x \in Resting : call' = [call EXCEPT ![p] = Idle(x)]
  BY DEF Save, Resting
<1>5. ~Busy(p)' /\ \A q \in Procs : q # p => call'[q] = call[q]
  BY <1>4, LeaveShape
<1>6. \A q \in Procs : ~Busy(q)'
  BY <1>3, <1>5 DEF Busy
<1>7. /\ call[p].job.op = "create" => live[Id(p)] # 0
      /\ \A id \in Ids : live[id] # 0 => call[p].snap[id] # None
  BY <1>1, <1>2 DEF KeptInv, WorkOk, Saving
<1>8. \A id \in owed' : live[id] # 0 \/ saved[id] # None
  <2> SUFFICES ASSUME NEW id \in owed, BootOn(id) PROVE live[id] # 0
    BY <1>1, <1>3, <1>7 DEF KeptInv, OwedOk
  <2>1. Boot = p /\ Id(p) = id
    BY <1>3 DEF BootOn, Procs
  <2>2. call[p].job.op = "create"
    BY <1>2, <2>1 DEF HeldInv, BootOk
  <2> QED
    BY <1>7, <2>1, <2>2
<1>9. AloneOk' /\ WorkOk'
  BY <1>1, <1>3, <1>6 DEF AloneOk, WorkOk
<1>10. OwedOk'
  BY <1>1, <1>8 DEF OwedOk
<1>11. NothingForgotten'
  BY <1>1, <1>2, <1>7, <1>8 DEF NothingForgotten
<1> QED
  BY <1>9, <1>10, <1>11 DEF KeptInv

\* Who begins alone is alone.
LEMMA StartAlone ==
  ASSUME HeldInv, KeptInv, NEW p \in Procs, NEW r \in Request, ~Busy(p), Start(p, r), clean'
  PROVE  /\ clean /\ \A q \in Procs : ~Busy(q)
         /\ Busy(p)' /\ Id(p)' = r.id /\ call'[p].pc = r.op /\ call'[p].job = r /\ r.op \in Asked
         /\ \A q \in Procs : Busy(q)' => q = p
<1>1. clean /\ \A q \in Procs : q # p => ~Busy(q)
  BY DEF Start
<1>2. /\ call'[p].pc = r.op /\ call'[p].job = r /\ r.op \in Asked
      /\ \A q \in Procs : q # p => call'[q] = call[q]
  BY StartShape
<1>3. Busy(p)' /\ Id(p)' = r.id
  BY <1>2 DEF Busy, Id, Asked
<1>4. \A q \in Procs : q # p => ~Busy(q)'
  BY <1>1, <1>2 DEF Busy
<1> QED
  BY <1>1, <1>2, <1>3, <1>4

LEMMA BeginForgetsNothing ==
  ASSUME HeldInv, KeptInv, NEW c \in Calls, NEW r \in Requests, Begin(c, r)
  PROVE  KeptInv'
<1> SUFFICES ASSUME clean' PROVE KeptInv'
  BY DEF KeptInv, AloneOk, OwedOk, WorkOk, NothingForgotten
<1>1. /\ process = "up" /\ UNCHANGED <<process, row, saved, live>> /\ ~Busy(c) /\ Start(c, r)
      /\ owed' = (IF r.op = "remove" THEN owed \ {r.id} ELSE owed) /\ c \in Procs /\ r \in Request
  BY ProgramsAssumption DEF Begin, At, Busy, Procs
<1>2. /\ clean /\ \A q \in Procs : ~Busy(q)
      /\ Id(c)' = r.id /\ call'[c].pc = r.op /\ call'[c].job = r /\ r.op \in Asked
      /\ \A q \in Procs : Busy(q)' => q = c
  BY <1>1, StartAlone
<1>3. \A id : ~BootOn(id)
  BY <1>2 DEF BootOn, Procs
<1>4. AloneOk'
  BY <1>1, <1>2 DEF AloneOk
<1>5. OwedOk'
  BY <1>1, <1>2, <1>3 DEF KeptInv, OwedOk
<1>6. WorkOk'
  BY <1>1, <1>2 DEF WorkOk, Asked, Saving
<1>7. NothingForgotten'
  BY <1>1, <1>2, <1>3 DEF KeptInv, NothingForgotten, BootOn
<1> QED
  BY <1>4, <1>5, <1>6, <1>7 DEF KeptInv

LEMMA RestoreNextForgetsNothing ==
  ASSUME HeldInv, KeptInv, NEW id \in Ids, RestoreNext(id)
  PROVE  KeptInv'
<1> SUFFICES ASSUME clean' PROVE KeptInv'
  BY DEF KeptInv, AloneOk, OwedOk, WorkOk, NothingForgotten
<1>1. /\ process # "down" /\ UNCHANGED <<process, row, owed, live>> /\ ~Busy(Boot) /\ Start(Boot, Again(id))
      /\ saved' = [saved EXCEPT ![id] = None] /\ saved[id] # None /\ Boot \in Procs
      /\ saved \in [Ids -> Program \cup {None}] /\ owed \subseteq Ids
  BY DEF RestoreNext, Again, At, Busy, Procs, HeldInv, TypeOK
<1>2. Again(id) \in Request /\ Again(id).op = "create" /\ Again(id).id = id
  BY <1>1, AgainIs
<1>3. /\ clean /\ \A q \in Procs : ~Busy(q)
      /\ Busy(Boot)' /\ Id(Boot)' = id /\ call'[Boot].pc = "create" /\ call'[Boot].job.op = "create"
      /\ \A q \in Procs : Busy(q)' => q = Boot
  BY <1>1, <1>2, StartAlone
<1>4. process = "up"
  <2>1. saved # NoRow
    BY <1>1 DEF NoRow
  <2> QED
    BY <1>3, <2>1 DEF KeptInv, AloneOk
<1>5. BootOn(id)' /\ \A i : ~BootOn(i)
  BY <1>1, <1>3 DEF BootOn
<1>6. \A i \in Ids : i # id => saved'[i] = saved[i]
  BY <1>1
<1>7. AloneOk'
  BY <1>1, <1>3, <1>4 DEF AloneOk
<1>8. OwedOk'
  BY <1>1, <1>3, <1>4, <1>5, <1>6 DEF KeptInv, OwedOk
<1>9. WorkOk'
  BY <1>3 DEF WorkOk, Saving
<1>10. NothingForgotten'
  BY <1>1, <1>3, <1>5, <1>6 DEF KeptInv, NothingForgotten, BootOn
<1> QED
  BY <1>7, <1>8, <1>9, <1>10 DEF KeptInv

\* Shutdown and exit: what is left is the row.
LEMMA EndForgetsNothing ==
  ASSUME HeldInv, KeptInv, Shutdown \/ Down
  PROVE  KeptInv'
<1> SUFFICES ASSUME clean' PROVE KeptInv'
  BY DEF KeptInv, AloneOk, OwedOk, WorkOk, NothingForgotten
<1>1. /\ clean /\ saved = NoRow /\ (\A q \in Procs : ~Busy(q)) /\ saved' = NoRow
      /\ process' # "up" /\ UNCHANGED <<row, owed>> /\ owed \subseteq Ids
  BY DEF Shutdown, Down, obs, HeldInv, TypeOK
<1>2. \A q \in Procs : ~Busy(q)'
  <2>1. CASE Shutdown
    BY <1>1, <2>1 DEF Shutdown, Busy
  <2>2. CASE Down
    <3> DEFINE x(p) == IF p # Boot /\ At(p, "idle") THEN "idle" ELSE "done"
    <3>1. call' = [p \in Procs |-> Idle(x(p))] /\ \A p \in Procs : x(p) \in Resting
      BY <2>2 DEF Down, Resting
    <3> HIDE DEF x
    <3>2. \A p \in Procs : call'[p].pc \in Resting
      BY <3>1, IdleType
    <3> QED
      BY <3>2 DEF Busy, Resting
  <2> QED
    BY <2>1, <2>2
<1>3. \A id \in Ids : saved[id] = None
  BY <1>1 DEF NoRow
<1>4. AloneOk' /\ OwedOk' /\ WorkOk'
  BY <1>1, <1>2 DEF AloneOk, OwedOk, WorkOk
<1>5. NothingForgotten'
  BY <1>1, <1>3 DEF KeptInv, NothingForgotten, Procs
<1> QED
  BY <1>4, <1>5 DEF KeptInv

LEMMA UpForgetsNothing ==
  ASSUME SafeInv, KeptInv, Up
  PROVE  KeptInv'
<1> SUFFICES ASSUME clean' PROVE KeptInv'
  BY DEF KeptInv, AloneOk, OwedOk, WorkOk, NothingForgotten
<1>1. /\ clean /\ process = "down" /\ process' = "up" /\ saved' = row /\ UNCHANGED <<row, owed>>
      /\ call' = [call EXCEPT ![Boot].pc = "next"] /\ (\A q \in Procs : call[q].pc \in Resting)
      /\ call \in [Procs -> Call] /\ owed \subseteq Ids
  BY DEF Up, obs, SafeInv, HeldInv, TypeOK, DownOk
<1>2. \A q \in Procs : call'[q].pc \in Resting
  BY <1>1 DEF Resting, Call
<1>3. \A q \in Procs : ~Busy(q) /\ ~Busy(q)'
  BY <1>1, <1>2 DEF Busy, Resting
<1>4. \A id \in Ids : saved[id] = None
  BY <1>1 DEF KeptInv, AloneOk, NoRow
<1>5. \A id \in owed : row[id] # None
  BY <1>1, <1>3, <1>4 DEF KeptInv, NothingForgotten, Procs
<1>6. AloneOk' /\ WorkOk'
  BY <1>1, <1>3 DEF AloneOk, WorkOk
<1>7. OwedOk' /\ NothingForgotten'
  BY <1>1, <1>5 DEF OwedOk, NothingForgotten
<1> QED
  BY <1>6, <1>7 DEF KeptInv

LEMMA KeptInit ==
  ASSUME Init
  PROVE  KeptInv
<1>1. SafeInv /\ process = "up" /\ saved = row /\ owed = {id \in Ids : row[id] # None}
  BY SafeInit DEF Init
<1>2. \A p \in Procs : ~Busy(p)
  <2>1. PICK s \in Starts : call = [p \in Procs |-> Idle(IF p = Boot THEN "next"
                                       ELSE IF p \in s.calls THEN "idle" ELSE "done")]
    BY DEF Init
  <2> DEFINE x(p) == IF p = Boot THEN "next" ELSE IF p \in s.calls THEN "idle" ELSE "done"
  <2>2. call = [p \in Procs |-> Idle(x(p))] /\ \A p \in Procs : x(p) \in Resting
    BY <2>1 DEF Resting
  <2> HIDE DEF x
  <2>3. \A p \in Procs : call[p].pc \in Resting
    BY <2>2, IdleType
  <2> QED
    BY <2>3 DEF Busy, Resting
<1>3. AloneOk /\ WorkOk
  BY <1>1, <1>2 DEF AloneOk, WorkOk
<1>4. OwedOk /\ NothingForgotten
  BY <1>1 DEF OwedOk, NothingForgotten
<1> QED
  BY <1>3, <1>4 DEF KeptInv

LEMMA KeptStep ==
  ASSUME SafeInv, KeptInv, [Next]_vars
  PROVE  KeptInv'
<1>1. HeldInv /\ LockOk
  BY DEF SafeInv
<1>2. CASE \E p \in Procs : Works(p)
  BY <1>1, <1>2, WorksQuiet, QuietForgetsNothing
<1>3. CASE \E p \in Procs : \E ok \in BOOLEAN : Save(p, ok)
  BY <1>1, <1>3, SaveForgetsNothing
<1>4. CASE \E c \in Calls : Abandon(c)
  <2>1. clean' = FALSE
    BY <1>4 DEF Abandon
  <2> QED
    BY <2>1 DEF KeptInv, AloneOk, OwedOk, WorkOk, NothingForgotten
<1>5. CASE \E c \in Calls : \E r \in Requests : Begin(c, r)
  BY <1>1, <1>5, BeginForgetsNothing
<1>6. CASE \E id \in Ids : RestoreNext(id)
  BY <1>1, <1>6, RestoreNextForgetsNothing
<1>7. CASE Shutdown \/ Down
  BY <1>1, <1>7, EndForgetsNothing
<1>8. CASE Up
  BY <1>8, UpForgetsNothing
<1>9. CASE UNCHANGED vars
  BY <1>9 DEF KeptInv, AloneOk, OwedOk, WorkOk, NothingForgotten, BootOn, Busy, Id, vars
<1> QED
  BY <1>2, <1>3, <1>4, <1>5, <1>6, <1>7, <1>8, <1>9 DEF Next, Progress, Works

(***************************************************************************)
(* Nothing is forgotten: through any number of shutdowns, crashes and      *)
(* restarts, a program whose create was answered and that nobody asked to  *)
(* remove is in the row of persist_all, or restore_all has it before it,   *)
(* if calls did not overlap, none was dropped, every save worked and       *)
(* restore_all was not cut short.                                          *)
(***************************************************************************)
THEOREM NothingForgottenAlways == Spec => []NothingForgotten
<1>1. Init => KeptInv
  BY KeptInit
<1>2. SafeInv /\ KeptInv /\ [Next]_vars => KeptInv'
  BY KeptStep
<1>3. KeptInv => NothingForgotten
  BY DEF KeptInv
<1> QED
  BY <1>1, <1>2, <1>3, SafeAlways, PTL DEF Spec

-----------------------------------------------------------------------------
(* What is saved can be restored. *)

Listed(n) == {n.handles[i].src : i \in DOMAIN n.handles}
OnceIn(n) == \A i, j \in DOMAIN n.handles : n.handles[i].src = n.handles[j].src => i = j
Distinct(s) == \A i, j \in DOMAIN s : s[i] = s[j] => i = j

\* An entry always has sources, and shows only those.
Based(n) ==
  /\ n.handles # <<>> /\ Valid(n.slots, Listed(n))
  /\ ListedOnce(n.id) => OnceIn(n)

\* Its pool is what is listed, but for a source that is added or removed.
Settled(n) == n.pool \subseteq Listed(n) /\ (ListedOnce(n.id) => Listed(n) \subseteq n.pool)
InWork(e) == \E p \in Procs : call[p].my = e /\ call[p].pc \in {"push", "dropping"}

WholeOk ==
  \A e \in DOMAIN entry : entry[e].id \notin raced =>
    Based(entry[e]) /\ (InWork(e) \/ Settled(entry[e]))

\* What a call has found out about entry n still holds when it acts on it.
Ready(c, n) ==
  LET s == c.job.src  once == ListedOnce(c.job.id) IN
  /\ c.job.op = "create" /\ once => Distinct(c.job.prog.sources)
  /\ c.pc = "opening" => /\ c.job.prog.sources # <<>>
                         /\ Valid(Regions(c.job.prog), Elems(c.job.prog.sources))
  /\ c.pc = "slot" => s \in Listed(n) \cup {Blank}
  /\ c.pc = "layout" => Valid(c.job.prog.regions, Listed(n))
  /\ c.pc \in {"adding", "push"} => s \notin Listed(n)
  /\ c.pc = "push" => n.pool \subseteq Listed(n) \cup {s} /\ s \in n.pool /\ (once => Listed(n) \subseteq n.pool)
  /\ c.pc = "dropping" => /\ Len(n.handles) > 1 /\ n.pool \subseteq Listed(n) \ {s}
                          /\ once => Listed(n) \ {s} \subseteq n.pool

ReadyOk == \A p \in Procs : Busy(p) /\ Id(p) \notin raced => Ready(call[p], Mine(p))

\* What is written, and what is about to be.
WrittenOk(id, r, lost) ==
  r # None => (id \notin lost => Restorable(r)) /\ (ListedOnce(id) => Distinct(r.sources))

RowOk ==
  \A id \in Ids \ raced :
    /\ WrittenOk(id, row[id], torn) /\ (saved[id] # None /\ ListedOnce(id) => Distinct(saved[id].sources))
    /\ \A p \in Procs :
         /\ At(p, "sources") /\ id \notin torn /\ live[id] # 0 => Valid(call[p].snap[id].regions, Listed(entry[live[id]]))
         /\ At(p, "save") => WrittenOk(id, call[p].snap[id], torn)

RowInv == WholeOk /\ ReadyOk /\ RowOk

\* Two entries that differ in their kinds, lock and generation at most.
Alike(a, b) ==
  /\ b.id = a.id /\ b.slots = a.slots /\ b.pool = a.pool
  /\ DOMAIN b.handles = DOMAIN a.handles /\ Len(b.handles) = Len(a.handles)
  /\ (b.handles = <<>> => a.handles = <<>>)
  /\ \A i \in DOMAIN a.handles : b.handles[i].src = a.handles[i].src

LEMMA AlikeKeeps ==
  ASSUME NEW a, NEW b, Alike(a, b)
  PROVE  /\ Listed(b) = Listed(a) /\ (Based(a) => Based(b)) /\ (Settled(a) => Settled(b))
         /\ \A c : Ready(c, a) => Ready(c, b)
<1>1. Listed(b) = Listed(a) /\ (OnceIn(a) => OnceIn(b))
  BY DEF Alike, Listed, OnceIn
<1>2. /\ b.id = a.id /\ b.slots = a.slots /\ b.pool = a.pool /\ Len(b.handles) = Len(a.handles)
      /\ (b.handles = <<>> => a.handles = <<>>)
  BY DEF Alike
<1>3. Based(a) => Based(b)
  BY <1>1, <1>2 DEF Based
<1>4. Settled(a) => Settled(b)
  BY <1>1, <1>2 DEF Settled
<1>5. ASSUME NEW c, Ready(c, a) PROVE Ready(c, b)
  BY <1>1, <1>2, <1>5 DEF Ready
<1> QED
  BY <1>1, <1>3, <1>4, <1>5

LEMMA AlikeSelf ==
  ASSUME NEW a
  PROVE  Alike(a, a)
BY DEF Alike

Acting == {"opening", "slot", "layout", "adding", "push", "dropping"}

\* A call that does not act on its entry.
LEMMA ReadyCalm ==
  ASSUME NEW c, NEW n, NEW d, NEW m, Ready(c, n), d.job = c.job, d.pc \notin Acting
  PROVE  Ready(d, m)
BY DEF Ready, Acting

LEMMA ReadyAny ==
  ASSUME NEW c, NEW n, NEW m, Ready(c, n), c.pc \notin Holding
  PROVE  Ready(c, m)
BY DEF Ready, Holding

LEMMA ListedIs ==
  ASSUME NEW e
  PROVE  Elems(SourceIds(e)) = Listed(entry[e])
BY DEF Elems, SourceIds, Listed

\* The entry of a call that nobody else races is at rest, unless the call itself
\* adds or removes a source.
LEMMA SettledIs ==
  ASSUME HeldInv, RowInv, NEW p \in Procs, Busy(p), Id(p) \notin raced, call[p].pc \notin {"push", "dropping"},
         NEW e \in DOMAIN entry, entry[e].id = Id(p)
  PROVE  Based(entry[e]) /\ Settled(entry[e])
<1>1. Based(entry[e]) /\ (InWork(e) \/ Settled(entry[e]))
  BY DEF RowInv, WholeOk
<1>2. ASSUME NEW q \in Procs, call[q].my = e, call[q].pc \in {"push", "dropping"} PROVE FALSE
  <2>1. Busy(q) /\ HandOk(call[q], entry) /\ e # 0 /\ q # p
    BY <1>2, Facts, NotZero DEF Busy
  <2>2. Id(q) = Id(p)
    BY <1>2, <2>1 DEF HandOk, Id
  <2> QED
    BY <2>1, <2>2 DEF HeldInv, RaceOk
<1> QED
  BY <1>1, <1>2 DEF InWork

\* A step of p that changes, of the entries, at most k, of p's program.
LEMMA WholeFrame ==
  ASSUME HeldInv, RowInv, NEW p \in Procs, Quiet(p), NEW k,
         DOMAIN entry \subseteq DOMAIN entry',
         \A e \in DOMAIN entry' : e # k => e \in DOMAIN entry /\ Alike(entry[e], entry'[e]),
         k # 0 => entry'[k].id = Id(p) /\ (k \in DOMAIN entry => entry[k].id = Id(p)),
         0 \notin DOMAIN entry',
         call[p].pc \in {"push", "dropping"} => k = call[p].my,
         Id(p) \notin raced /\ k # 0 => Based(entry'[k]) /\ (InWork(k)' \/ Settled(entry'[k])),
         Id(p) \notin raced /\ Busy(p)' => Ready(call'[p], entry'[call'[p].my])
  PROVE  WholeOk' /\ ReadyOk'
<1>1. /\ \A q \in Procs : q # p => call'[q] = call[q]
      /\ raced' = raced /\ Busy(p) /\ (Busy(p)' => call'[p].job = call[p].job)
  BY DEF Quiet
<1>2. WholeOk'
  <2> SUFFICES ASSUME NEW e \in DOMAIN entry', entry'[e].id \notin raced
               PROVE  Based(entry'[e]) /\ (InWork(e)' \/ Settled(entry'[e]))
    BY <1>1 DEF WholeOk
  <2>1. CASE e = k
    BY <2>1
  <2>2. CASE e # k
    <3>1. e \in DOMAIN entry /\ Alike(entry[e], entry'[e])
      BY <2>2
    <3>2. Based(entry[e]) /\ (InWork(e) \/ Settled(entry[e]))
      BY <3>1 DEF RowInv, WholeOk, Alike
    <3>3. InWork(e) => InWork(e)'
      BY <1>1, <2>2 DEF InWork
    <3> QED
      BY <3>1, <3>2, <3>3, AlikeKeeps
  <2> QED
    BY <2>1, <2>2
<1>3. ReadyOk'
  <2> SUFFICES ASSUME NEW q \in Procs, Busy(q)', Id(q)' \notin raced PROVE Ready(call'[q], entry'[call'[q].my])
    BY <1>1 DEF ReadyOk, Mine
  <2>1. CASE q = p
    BY <1>1, <2>1 DEF Id
  <2>2. CASE q # p
    <3>1. call'[q] = call[q] /\ Busy(q) /\ Id(q) \notin raced
      BY <1>1, <2>2 DEF Busy, Id
    <3>2. Ready(call[q], entry[call[q].my])
      BY <3>1 DEF RowInv, ReadyOk, Mine
    <3>3. CASE call[q].pc \notin Holding
      BY <3>1, <3>2, <3>3, ReadyAny
    <3>4. CASE call[q].pc \in Holding
      <4>1. call[q].my \in DOMAIN entry /\ call[q].my # 0
        BY <3>4, MineIs
      <4>2. entry[call[q].my].id = Id(q) /\ Id(q) # Id(p)
        BY <1>1, <2>2, <3>1, <4>1, Facts DEF HandOk, Id, HeldInv, RaceOk
      <4>3. call[q].my # k
        BY <4>1, <4>2
      <4>4. Alike(entry[call[q].my], entry'[call[q].my])
        BY <4>1, <4>3
      <4> QED
        BY <3>1, <3>2, <4>4, AlikeKeeps
    <3> QED
      BY <3>3, <3>4
  <2> QED
    BY <2>1, <2>2
<1> QED
  BY <1>2, <1>3

LEMMA WrittenStays ==
  ASSUME NEW id, NEW r, NEW T, NEW U, T \subseteq U, WrittenOk(id, r, T)
  PROVE  WrittenOk(id, r, U)
BY DEF WrittenOk

\* What persist_all reads stays true, or is marked as torn.
LEMMA RowFrame ==
  ASSUME HeldInv, RowInv, NEW p \in Procs, Quiet(p), torn \subseteq torn',
         \/ Unread
         \/ /\ live' = live
            /\ \A id \in Ids \ raced : live[id] # 0 /\ id \notin torn' => Listed(entry[live[id]]) \subseteq Listed(entry'[live[id]]),
         call'[p].pc = "sources" =>
           \A id \in Ids \ raced : live'[id] # 0 => Valid(call'[p].snap[id].regions, Listed(entry'[live'[id]])),
         call'[p].pc = "save" => \A id \in Ids \ raced : WrittenOk(id, call'[p].snap[id], torn')
  PROVE  RowOk'
<1>1. /\ \A q \in Procs : q # p => call'[q] = call[q]
      /\ raced' = raced /\ row' = row /\ saved' = saved
  BY DEF Quiet
<1> SUFFICES ASSUME NEW id \in Ids \ raced
             PROVE  /\ WrittenOk(id, row[id], torn') /\ (saved[id] # None /\ ListedOnce(id) => Distinct(saved[id].sources))
                    /\ \A q \in Procs :
                        /\ call'[q].pc = "sources" /\ id \notin torn' /\ live'[id] # 0
                             => Valid(call'[q].snap[id].regions, Listed(entry'[live'[id]]))
                        /\ call'[q].pc = "save" => WrittenOk(id, call'[q].snap[id], torn')
  BY <1>1 DEF RowOk, At
<1>2. WrittenOk(id, row[id], torn') /\ (saved[id] # None /\ ListedOnce(id) => Distinct(saved[id].sources))
  BY WrittenStays DEF RowInv, RowOk
<1>3. ASSUME NEW q \in Procs, call'[q].pc = "sources", id \notin torn', live'[id] # 0
      PROVE  Valid(call'[q].snap[id].regions, Listed(entry'[live'[id]]))
  <2>1. CASE q = p
    BY <1>3, <2>1
  <2>2. CASE q # p
    <3>1. call'[q] = call[q] /\ ~Unread
      BY <1>1, <1>3, <2>2 DEF Unread, At
    <3>2. live' = live /\ Listed(entry[live[id]]) \subseteq Listed(entry'[live[id]])
      BY <1>3, <3>1
    <3>3. Valid(call[q].snap[id].regions, Listed(entry[live[id]]))
      BY <1>3, <3>1, <3>2 DEF RowInv, RowOk, At
    <3> QED
      BY <3>1, <3>2, <3>3 DEF Valid
  <2> QED
    BY <2>1, <2>2
<1>4. ASSUME NEW q \in Procs, call'[q].pc = "save" PROVE WrittenOk(id, call'[q].snap[id], torn')
  <2>1. CASE q = p
    BY <1>4, <2>1
  <2>2. CASE q # p
    BY <1>1, <1>4, <2>2, WrittenStays DEF RowInv, RowOk, At
  <2> QED
    BY <2>1, <2>2
<1> QED
  BY <1>2, <1>3, <1>4

\* A step that leaves the entries and the map alone.
LEMMA PlainRow ==
  ASSUME HeldInv, RowInv, NEW p \in Procs, Quiet(p), entry' = entry, live' = live, torn' = torn,
         call[p].pc \notin {"push", "dropping"}, call'[p].pc \notin {"sources", "save"},
         Id(p) \notin raced /\ Busy(p)' => Ready(call'[p], entry[call'[p].my])
  PROVE  RowInv'
<1>1. 0 \notin DOMAIN entry
  BY DEF HeldInv, TypeOK
<1>2. WholeOk' /\ ReadyOk'
  BY <1>1, AlikeSelf, WholeFrame
<1>3. RowOk'
  BY RowFrame
<1> QED
  BY <1>2, <1>3 DEF RowInv

\* The call gives up, or goes on to where it does not act on an entry.
LEMMA CalmRow ==
  ASSUME HeldInv, RowInv, NEW p \in Procs, Quiet(p), entry' = entry, live' = live, torn' = torn,
         call[p].pc \notin {"push", "dropping"}, call'[p].pc \notin {"sources", "save"},
         Busy(p)' => call'[p].pc \notin Acting
  PROVE  RowInv'
<1>1. Busy(p) /\ (Busy(p)' => call'[p].job = call[p].job)
  BY DEF Quiet
<1>2. Id(p) \notin raced => Ready(call[p], Mine(p))
  BY <1>1 DEF RowInv, ReadyOk
<1>3. Id(p) \notin raced /\ Busy(p)' => Ready(call'[p], entry[call'[p].my])
  BY <1>1, <1>2, ReadyCalm
<1> QED
  BY <1>3, PlainRow

LEMMA FailRow ==
  ASSUME HeldInv, RowInv, NEW p \in Procs, Fail(p), call[p].pc \in Asked \cup {"opening"},
         UNCHANGED <<process, boots, row, saved, owed, raced, torn, live, entry>>
  PROVE  RowInv'
<1>1. Quiet(p) /\ (Busy(p)' => call'[p].pc = "create")
  BY FailQuiet DEF Asked, Resting
<1>2. call'[p].pc \notin {"sources", "save"}
  BY <1>1 DEF Busy
<1> QED
  BY <1>1, <1>2, CalmRow DEF Acting, Asked

LEMMA MissingRow ==
  ASSUME HeldInv, RowInv, NEW p \in Procs, Missing(p)
  PROVE  RowInv'
BY FailRow DEF Missing, obs, Asked

LEMMA CreateCheckRow ==
  ASSUME HeldInv, RowInv, NEW p \in Procs, CreateCheck(p)
  PROVE  RowInv'
<1>1. /\ UNCHANGED <<process, boots, row, saved, owed, raced, torn, live, entry>> /\ call[p].pc = "create"
  BY DEF CreateCheck, obs, At
<1>2. CASE Fail(p)
  BY <1>1, <1>2, FailRow DEF Asked
<1>3. CASE /\ Goto(p, "opening") /\ call[p].job.prog.sources # <<>>
           /\ Valid(Regions(call[p].job.prog), Elems(call[p].job.prog.sources))
  <2>1. Quiet(p) /\ call'[p].pc = "opening"
    BY <1>1, <1>3, GotoQuiet DEF Goto, Plain, Pcs, Resting, Saving
  <2>2. Busy(p) /\ call'[p].job = call[p].job
    BY <2>1 DEF Quiet, Busy
  <2>3. Id(p) \notin raced => Ready(call[p], Mine(p))
    BY <2>2 DEF RowInv, ReadyOk
  <2>4. Id(p) \notin raced => Ready(call'[p], entry[call'[p].my])
    BY <1>3, <2>1, <2>2, <2>3 DEF Ready
  <2> QED
    BY <1>1, <2>1, <2>4, PlainRow
<1> QED
  BY <1>2, <1>3 DEF CreateCheck

\* The entry of the program a call is about, when nobody races it.
LEMMA TargetWhole ==
  ASSUME HeldInv, RowInv, NEW p \in Procs, call[p].pc \in Asked, Target(p) # 0, Id(p) \notin raced
  PROVE  /\ Based(entry[Target(p)]) /\ Settled(entry[Target(p)]) /\ entry[Target(p)].id = Id(p)
         /\ Ready(call[p], Mine(p))
<1>1. Busy(p) /\ Target(p) \in DOMAIN entry /\ Id(p) \in Ids /\ Target(p) = live[Id(p)]
  BY TargetIs
<1>2. entry[Target(p)].id = Id(p)
  BY <1>1 DEF HeldInv, TypeOK
<1>3. Ready(call[p], Mine(p))
  BY <1>1 DEF RowInv, ReadyOk
<1> QED
  BY <1>1, <1>2, <1>3, SettledIs DEF Asked

LEMMA SwitchRow ==
  ASSUME HeldInv, RowInv, NEW p \in Procs, Switch(p)
  PROVE  RowInv'
<1> DEFINE e == Target(p)
<1>1. /\ UNCHANGED <<process, boots, row, saved, owed, raced, torn, live, entry>> /\ call[p].pc = "switch" /\ e # 0
  BY DEF Switch, obs, At
<1>2. CASE Fail(p)
  BY <1>1, <1>2, FailRow DEF Asked
<1>3. CASE SetGen(p, "slot", e, entry[e].gen) /\ clean' = clean /\ call[p].job.src \in entry[e].pool \cup {Blank}
  <2>1. e \in Nat /\ entry[e] \in Entry /\ call \in [Procs -> Call]
    BY <1>1, TargetIs, Facts DEF Asked
  <2>2. entry[e].gen \in Nat
    BY <2>1 DEF Entry
  <2>3. PICK c : Moves(p, c) /\ c.pc = "slot" /\ c.job = call[p].job /\ c.my = e
    BY <1>3, <2>1, <2>2, GenMoves DEF Pcs
  <2>4. Quiet(p) /\ call'[p] = c
    BY <1>1, <1>3, <2>3, MovedQuiet DEF Plain, Resting, Saving
  <2>5. ASSUME Id(p) \notin raced PROVE Ready(c, entry[e])
    <3>1. Settled(entry[e]) /\ Ready(call[p], Mine(p))
      BY <1>1, <2>5, TargetWhole DEF Asked
    <3>2. call[p].job.src \in Listed(entry[e]) \cup {Blank}
      BY <1>3, <3>1 DEF Settled
    <3> QED
      BY <2>3, <3>1, <3>2 DEF Ready
  <2> QED
    BY <1>1, <2>3, <2>4, <2>5, PlainRow
<1> QED
  BY <1>2, <1>3 DEF Switch, SetGen

LEMMA RelayoutRow ==
  ASSUME HeldInv, RowInv, NEW p \in Procs, Relayout(p)
  PROVE  RowInv'
<1> DEFINE e == Target(p)
<1>1. /\ UNCHANGED <<process, boots, row, saved, owed, raced, torn, live, entry>> /\ call[p].pc = "relayout" /\ e # 0
  BY DEF Relayout, obs, At
<1>2. CASE Fail(p)
  BY <1>1, <1>2, FailRow DEF Asked
<1>3. CASE SetMy(p, "layout", e) /\ clean' = clean /\ Valid(call[p].job.prog.regions, Elems(SourceIds(e)))
  <2>1. e \in Nat
    BY <1>1, TargetIs DEF Asked
  <2>2. Quiet(p) /\ call'[p].pc = "layout" /\ call'[p].my = e /\ call'[p].job = call[p].job
    BY <1>1, <1>3, <2>1, SetMyQuiet DEF Plain, Holding, Resting
  <2>3. ASSUME Id(p) \notin raced PROVE Ready(call'[p], entry[e])
    <3>1. Ready(call[p], Mine(p))
      BY <1>1, <2>3, TargetWhole DEF Asked
    <3> QED
      BY <1>3, <2>2, <3>1, ListedIs DEF Ready
  <2> QED
    BY <1>1, <2>2, <2>3, PlainRow
<1> QED
  BY <1>2, <1>3 DEF Relayout, GotoWith, SetMy

LEMMA AddSourceRow ==
  ASSUME HeldInv, RowInv, NEW p \in Procs, AddSource(p)
  PROVE  RowInv'
<1> DEFINE e == Target(p)
<1>1. /\ UNCHANGED <<process, boots, row, saved, owed, raced, torn, live, entry>> /\ call[p].pc = "add" /\ e # 0
  BY DEF AddSource, obs, At
<1>2. CASE Fail(p)
  BY <1>1, <1>2, FailRow DEF Asked
<1>3. CASE SetMy(p, "adding", e) /\ clean' = clean /\ call[p].job.src \notin Elems(SourceIds(e))
  <2>1. e \in Nat
    BY <1>1, TargetIs DEF Asked
  <2>2. Quiet(p) /\ call'[p].pc = "adding" /\ call'[p].my = e /\ call'[p].job = call[p].job
    BY <1>1, <1>3, <2>1, SetMyQuiet DEF Plain, Holding, Resting
  <2>3. ASSUME Id(p) \notin raced PROVE Ready(call'[p], entry[e])
    <3>1. Ready(call[p], Mine(p))
      BY <1>1, <2>3, TargetWhole DEF Asked
    <3> QED
      BY <1>3, <2>2, <3>1, ListedIs DEF Ready
  <2> QED
    BY <1>1, <2>2, <2>3, PlainRow
<1> QED
  BY <1>2, <1>3 DEF AddSource, GotoWith, SetMy

LEMMA NewEntryWhole ==
  ASSUME NEW r \in Request, NEW online, r.prog.sources # <<>>,
         Valid(Regions(r.prog), Elems(r.prog.sources)), ListedOnce(r.id) => Distinct(r.prog.sources)
  PROVE  Based(NewEntry(r, online)) /\ Settled(NewEntry(r, online))
<1> DEFINE n == NewEntry(r, online)
           ss == r.prog.sources
           h == [i \in DOMAIN ss |-> [src |-> ss[i], kind |-> IF ss[i] \in online THEN "hot" ELSE "retry"]]
<1>1. ss \in Seq(Srcs)
  BY DEF Request, Program
<1>2. n.id = r.id /\ n.handles = h /\ n.pool = Elems(ss) /\ n.slots = Regions(r.prog)
  BY DEF NewEntry
<1>3. DOMAIN h = DOMAIN ss /\ \A i \in DOMAIN ss : h[i].src = ss[i]
  OBVIOUS
<1>4. DOMAIN ss # {}
  <2> HIDE DEF ss
  <2>1. ss # <<>>
    BY DEF ss
  <2>2. Len(ss) \in Nat /\ Len(ss) # 0 /\ DOMAIN ss = 1..Len(ss)
    BY <1>1, <2>1, EmptySeq
  <2>3. 1 \in DOMAIN ss
    BY <2>2
  <2> QED
    BY <2>3
<1> HIDE DEF n, h
<1>5. Listed(n) = Elems(ss) /\ (Distinct(ss) => OnceIn(n)) /\ n.handles # <<>>
  <2>1. Listed(n) = Elems(ss)
    BY <1>2, <1>3 DEF Listed, Elems
  <2>2. Distinct(ss) => OnceIn(n)
    BY <1>2, <1>3 DEF Distinct, OnceIn
  <2>3. n.handles # <<>>
    BY <1>2, <1>3, <1>4
  <2> QED
    BY <2>1, <2>2, <2>3
<1>6. Based(n) /\ Settled(n)
  BY <1>2, <1>5 DEF Based, Settled
<1> QED
  BY <1>6 DEF n

LEMMA CreateOpenRow ==
  ASSUME HeldInv, RowInv, NEW p \in Procs, NEW online, CreateOpen(p, online)
  PROVE  RowInv'
<1>1. /\ UNCHANGED <<process, boots, row, saved, owed, raced, torn, live>> /\ call[p].pc = "opening"
  BY DEF CreateOpen, obs, At
<1>2. CASE Fail(p) /\ entry' = entry
  BY <1>1, <1>2, FailRow
<1>3. CASE SetMy(p, "insert", Len(entry) + 1) /\ clean' = clean /\ entry' = Append(entry, NewEntry(call[p].job, online))
  <2> DEFINE k == Len(entry) + 1
             n == NewEntry(call[p].job, online)
  <2>1. entry \in Seq(Entry) /\ k \in Nat /\ Busy(p) /\ call[p].job \in Request /\ CallOk(call[p])
    BY <1>1, BusyAt, Facts DEF Resting
  <2>2. Quiet(p) /\ call'[p].pc = "insert" /\ call'[p].job = call[p].job
    BY <1>1, <1>3, <2>1, SetMyQuiet DEF Plain, Holding, Resting
  <2>3. n \in Entry /\ n.id = Id(p)
    BY <2>1, NewEntryType DEF Id
  <2>4. call[p].job.op = "create"
    BY <1>1, <2>1 DEF CallOk, OpAt, Resting
  <2>5. ASSUME Id(p) \notin raced PROVE Based(n) /\ Settled(n) /\ Ready(call[p], Mine(p))
    <3>1. Ready(call[p], Mine(p))
      BY <2>1, <2>5 DEF RowInv, ReadyOk
    <3>2. /\ call[p].job.prog.sources # <<>> /\ Valid(Regions(call[p].job.prog), Elems(call[p].job.prog.sources))
          /\ ListedOnce(call[p].job.id) => Distinct(call[p].job.prog.sources)
      BY <1>1, <2>4, <3>1 DEF Ready
    <3> QED
      BY <2>1, <3>1, <3>2, NewEntryWhole
  <2> HIDE DEF n
  <2>6. entry' = Append(entry, n)
    BY <1>3 DEF n
  <2>7. /\ k \notin DOMAIN entry /\ k # 0 /\ DOMAIN entry' = DOMAIN entry \cup {k} /\ entry'[k] = n
        /\ \A e \in DOMAIN entry : entry'[e] = entry[e]
    BY <2>1, <2>3, <2>6, SeqAppend
  <2>8. 0 \notin DOMAIN entry'
    BY <2>7, NotZero
  <2> HIDE DEF k
  <2>9. \A e \in DOMAIN entry' : e # k => e \in DOMAIN entry /\ Alike(entry[e], entry'[e])
    BY <2>7, AlikeSelf
  <2>10. Id(p) \notin raced => Ready(call'[p], entry'[call'[p].my])
    BY <2>2, <2>5, ReadyCalm DEF Acting
  <2>11. WholeOk' /\ ReadyOk'
    BY <1>1, <2>2, <2>3, <2>5, <2>7, <2>8, <2>9, <2>10, WholeFrame
  <2>12. \A id \in Ids : live[id] # 0 => entry'[live[id]] = entry[live[id]]
    BY <2>7 DEF HeldInv, TypeOK
  <2>13. RowOk'
    BY <1>1, <2>2, <2>12, RowFrame
  <2> QED
    BY <2>11, <2>13 DEF RowInv
<1> QED
  BY <1>2, <1>3 DEF CreateOpen, GotoWith, SetMy

LEMMA EndedAlike ==
  ASSUME NEW n \in Entry
  PROVE  Alike(n, Dropped(n)) /\ Alike(n, Stopped(n))
<1> DEFINE h == n.handles
           d == [i \in DOMAIN h |-> IF h[i].kind = "hot" THEN [h[i] EXCEPT !.kind = "off"] ELSE h[i]]
           o == [i \in DOMAIN h |-> [h[i] EXCEPT !.kind = "off"]]
<1>1. h \in Seq(Handle)
  BY DEF Entry
<1>2. Dropped(n) = [n EXCEPT !.handles = d] /\ Stopped(n) = [n EXCEPT !.running = FALSE, !.handles = o]
  BY DEF Dropped, Stopped
<1>3. \A i \in DOMAIN h : h[i] \in Handle
  BY <1>1
<1>4. \A v \in Handle : [v EXCEPT !.kind = "off"].src = v.src /\ [v EXCEPT !.kind = "off"] \in Handle
  BY DEF Handle
<1>5. DOMAIN d = DOMAIN h /\ DOMAIN o = DOMAIN h /\ \A i \in DOMAIN h : d[i].src = h[i].src /\ o[i].src = h[i].src
  BY <1>3, <1>4
<1>6. d \in Seq(Handle) /\ o \in Seq(Handle) /\ Len(d) = Len(h) /\ Len(o) = Len(h)
  <2>1. DOMAIN h = 1..Len(h) /\ Len(h) \in Nat
    BY <1>1
  <2>2. d \in [1..Len(h) -> Handle] /\ o \in [1..Len(h) -> Handle]
    BY <1>3, <1>4, <2>1
  <2> HIDE DEF d, o
  <2> QED
    BY <2>1, <2>2
<1> HIDE DEF d, o
<1>7. (d = <<>> => h = <<>>) /\ (o = <<>> => h = <<>>)
  BY <1>1, <1>6
<1>8. /\ Dropped(n).id = n.id /\ Dropped(n).slots = n.slots /\ Dropped(n).pool = n.pool /\ Dropped(n).handles = d
      /\ Stopped(n).id = n.id /\ Stopped(n).slots = n.slots /\ Stopped(n).pool = n.pool /\ Stopped(n).handles = o
  BY <1>2 DEF Entry
<1> QED
  BY <1>5, <1>6, <1>7, <1>8 DEF Alike

\* The map changes, and an entry that was in it ends.
LEMMA MapRow ==
  ASSUME HeldInv, RowInv, NEW p \in Procs, Quiet(p), Unread, torn' = torn, call'[p].pc = "regions",
         call[p].pc \notin {"push", "dropping"}, DOMAIN entry' = DOMAIN entry,
         \A e \in DOMAIN entry : Alike(entry[e], entry'[e])
  PROVE  RowInv'
<1>1. 0 \notin DOMAIN entry'
  BY NotZero
<1>2. Busy(p) /\ Busy(p)' /\ call'[p].job = call[p].job
  BY DEF Quiet, Busy
<1>3. Id(p) \notin raced => Ready(call'[p], entry'[call'[p].my])
  BY <1>2, ReadyCalm DEF Acting, RowInv, ReadyOk
<1>4. WholeOk' /\ ReadyOk'
  BY <1>1, <1>3, WholeFrame
<1>5. RowOk'
  BY RowFrame
<1> QED
  BY <1>4, <1>5 DEF RowInv

LEMMA CreateInsertRow ==
  ASSUME HeldInv, LockOk, RowInv, NEW p \in Procs, CreateInsert(p)
  PROVE  RowInv'
<1> DEFINE k == live[Id(p)]
<1>1. /\ call[p].pc = "insert" /\ Unread /\ Goto(p, "regions") /\ torn' = torn
      /\ entry' = IF k = 0 THEN entry ELSE [entry EXCEPT ![k] = Dropped(entry[k])]
  BY DEF CreateInsert, At, obs
<1>2. Quiet(p) /\ entry \in Seq(Entry) /\ call \in [Procs -> Call]
  BY CreateInsertSteps, Facts
<1>3. call'[p].pc = "regions"
  BY <1>1, <1>2 DEF Goto, Call
<1>4. DOMAIN entry' = DOMAIN entry
  BY <1>1
<1>5. ASSUME NEW e \in DOMAIN entry PROVE Alike(entry[e], entry'[e])
  <2>1. entry[e] \in Entry
    BY <1>2
  <2>2. entry'[e] = entry[e] \/ entry'[e] = Dropped(entry[e])
    BY <1>1
  <2> QED
    BY <2>1, <2>2, AlikeSelf, EndedAlike
<1> QED
  BY <1>1, <1>2, <1>3, <1>4, <1>5, MapRow

LEMMA RemoveRow ==
  ASSUME HeldInv, LockOk, RowInv, NEW p \in Procs, Remove(p)
  PROVE  RowInv'
<1> DEFINE k == Target(p)
<1>1. /\ call[p].pc = "remove" /\ Unread /\ Goto(p, "regions") /\ torn' = torn
      /\ entry' = [entry EXCEPT ![k] = Stopped(entry[k])]
  BY DEF Remove, At, obs
<1>2. Quiet(p) /\ entry \in Seq(Entry) /\ call \in [Procs -> Call]
  BY RemoveSteps, Facts
<1>3. call'[p].pc = "regions"
  BY <1>1, <1>2 DEF Goto, Call
<1>4. DOMAIN entry' = DOMAIN entry
  BY <1>1
<1>5. ASSUME NEW e \in DOMAIN entry PROVE Alike(entry[e], entry'[e])
  <2>1. entry[e] \in Entry
    BY <1>2
  <2>2. entry'[e] = entry[e] \/ entry'[e] = Stopped(entry[e])
    BY <1>1
  <2> QED
    BY <2>1, <2>2, AlikeSelf, EndedAlike
<1> QED
  BY <1>1, <1>2, <1>3, <1>4, <1>5, MapRow

\* A step that changes one entry, of p's program.
LEMMA OneRow ==
  ASSUME HeldInv, RowInv, NEW p \in Procs, Quiet(p), NEW k \in DOMAIN entry, NEW n \in Entry,
         entry' = [entry EXCEPT ![k] = n], n.id = Id(p), entry[k].id = Id(p), live' = live, torn \subseteq torn',
         call[p].pc \in {"push", "dropping"} => k = call[p].my,
         call'[p].pc \notin {"sources", "save"},
         Id(p) \notin raced => Based(n) /\ (InWork(k)' \/ Settled(n)),
         Id(p) \notin raced /\ Busy(p)' => Ready(call'[p], entry'[call'[p].my]),
         Unread \/ Id(p) \in torn' \/ Id(p) \in raced \/ Listed(entry[k]) \subseteq Listed(n)
  PROVE  RowInv'
<1>1. entry \in Seq(Entry) /\ 0 \notin DOMAIN entry
  BY NotZero, Facts
<1>2. /\ DOMAIN entry' = DOMAIN entry /\ entry'[k] = n
      /\ \A e \in DOMAIN entry : e # k => entry'[e] = entry[e]
  BY <1>1, SeqExcept
<1>3. \A e \in DOMAIN entry' : e # k => e \in DOMAIN entry /\ Alike(entry[e], entry'[e])
  BY <1>2, AlikeSelf
<1>4. WholeOk' /\ ReadyOk'
  BY <1>1, <1>2, <1>3, WholeFrame
<1>5. \A id \in Ids : live[id] # 0 => live[id] \in DOMAIN entry /\ entry[live[id]].id = id
  BY DEF HeldInv, TypeOK
<1>6. Unread \/ \A id \in Ids \ raced : live[id] # 0 /\ id \notin torn' => Listed(entry[live[id]]) \subseteq Listed(entry'[live[id]])
  BY <1>2, <1>5
<1>7. RowOk'
  BY <1>6, RowFrame
<1> QED
  BY <1>4, <1>7 DEF RowInv

\* The entry in the hand of a call that nobody races.
LEMMA MineWhole ==
  ASSUME HeldInv, RowInv, NEW p \in Procs, call[p].pc \in Holding
  PROVE  /\ call[p].my \in DOMAIN entry /\ entry[call[p].my] \in Entry /\ entry[call[p].my].id = Id(p) /\ Busy(p)
         /\ Id(p) \notin raced => /\ Ready(call[p], entry[call[p].my]) /\ Based(entry[call[p].my])
                                  /\ call[p].pc \notin {"push", "dropping"} => Settled(entry[call[p].my])
<1>1. call[p].my \in DOMAIN entry /\ entry[call[p].my] \in Entry /\ call[p].my # 0 /\ Mine(p) = entry[call[p].my]
  BY MineIs
<1>2. Busy(p) /\ HandOk(call[p], entry)
  BY Facts DEF Busy, Holding
<1>3. entry[call[p].my].id = Id(p)
  BY <1>1, <1>2 DEF HandOk, Id
<1>4. ASSUME Id(p) \notin raced PROVE Ready(call[p], entry[call[p].my])
  BY <1>1, <1>2, <1>4 DEF RowInv, ReadyOk
<1>5. ASSUME Id(p) \notin raced PROVE Based(entry[call[p].my])
  BY <1>1, <1>3, <1>5 DEF RowInv, WholeOk
<1>6. ASSUME Id(p) \notin raced, call[p].pc \notin {"push", "dropping"} PROVE Settled(entry[call[p].my])
  BY <1>1, <1>2, <1>3, <1>6, SettledIs
<1> QED
  BY <1>1, <1>2, <1>3, <1>4, <1>5, <1>6

\* ... which changes it and goes to persist_all.
LEMMA ChangeRow ==
  ASSUME HeldInv, RowInv, NEW p \in Procs, Quiet(p), call[p].pc \in Holding, NEW n \in Entry, n.id = Id(p),
         entry' = [entry EXCEPT ![call[p].my] = n], Goto(p, "regions"), live' = live, torn \subseteq torn',
         Id(p) \notin raced => Based(n) /\ Settled(n),
         Unread \/ Id(p) \in torn' \/ Id(p) \in raced \/ Listed(entry[call[p].my]) \subseteq Listed(n)
  PROVE  RowInv'
<1>1. /\ call[p].my \in DOMAIN entry /\ entry[call[p].my].id = Id(p) /\ Busy(p)
      /\ Id(p) \notin raced => Ready(call[p], entry[call[p].my])
  BY MineWhole
<1>2. call'[p].pc = "regions"
  BY Facts DEF Goto, Call
<1>3. call'[p].job = call[p].job
  BY <1>2 DEF Quiet, Busy
<1>4. Id(p) \notin raced => Ready(call'[p], entry'[call'[p].my])
  BY <1>1, <1>2, <1>3, ReadyCalm DEF Acting
<1> QED
  BY <1>1, <1>2, <1>4, OneRow

LEMMA SwitchSlotRow ==
  ASSUME HeldInv, LockOk, RowInv, NEW p \in Procs, SwitchSlot(p)
  PROVE  RowInv'
<1> DEFINE k == call[p].my
           r == call[p].job
           m == [entry[k].slots EXCEPT ![r.at] = r.src]
           n == [entry[k] EXCEPT !.slots = m]
<1>1. /\ call[p].pc = "slot" /\ UNCHANGED <<live, raced, torn>> /\ Goto(p, "regions")
      /\ entry' = [entry EXCEPT ![k] = n] \/ entry' = entry
  BY DEF SwitchSlot, At, obs
<1>2. /\ k \in DOMAIN entry /\ entry[k] \in Entry /\ entry[k].id = Id(p) /\ call[p].job \in Request
      /\ Id(p) \notin raced => Ready(call[p], entry[k]) /\ Based(entry[k]) /\ Settled(entry[k])
  BY <1>1, MineWhole, MineIs DEF Holding
<1>3. Quiet(p) /\ entry \in Seq(Entry)
  BY SwitchSlotSteps, Facts
<1>4. entry[k].slots \in Seq(Srcs \cup {Blank}) /\ r.src \in Srcs \cup {Blank}
  BY <1>2 DEF Entry, Request
<1>5. m \in Seq(Srcs \cup {Blank}) /\ Elems(m) \subseteq Elems(entry[k].slots) \cup {r.src}
  <2>1. CASE r.at \in DOMAIN entry[k].slots
    <3>1. m \in Seq(Srcs \cup {Blank})
      BY <1>4, <2>1, SeqExcept
    <3> QED
      BY <3>1 DEF Elems
  <2>2. CASE r.at \notin DOMAIN entry[k].slots
    <3>1. m = entry[k].slots
      BY <1>4, <2>2
    <3> QED
      BY <1>4, <3>1
  <2> QED
    BY <2>1, <2>2
<1> HIDE DEF m
<1>6. n \in Entry /\ n.id = Id(p) /\ n.slots = m /\ n.handles = entry[k].handles /\ n.pool = entry[k].pool
  BY <1>2, <1>5 DEF Entry
<1> HIDE DEF n
<1>7. Listed(n) = Listed(entry[k]) /\ (OnceIn(entry[k]) => OnceIn(n))
  BY <1>6 DEF Listed, OnceIn
<1>8. ASSUME Id(p) \notin raced PROVE Based(n) /\ Settled(n)
  <2>1. r.src \in Listed(n) \cup {Blank}
    BY <1>1, <1>2, <1>7, <1>8 DEF Ready
  <2>2. Valid(m, Listed(n))
    BY <1>2, <1>5, <1>7, <1>8, <2>1 DEF Based, Valid
  <2> QED
    BY <1>2, <1>6, <1>7, <1>8, <2>2 DEF Based, Settled
<1>9. CASE entry' = [entry EXCEPT ![k] = n]
  BY <1>1, <1>3, <1>6, <1>7, <1>8, <1>9, ChangeRow DEF Holding
<1>10. CASE entry' = entry
  <2>1. call'[p].pc = "regions"
    BY <1>1, Facts DEF Goto, Call
  <2> QED
    BY <1>1, <1>3, <1>10, <2>1, CalmRow DEF Acting
<1> QED
  BY <1>1, <1>9, <1>10

LEMMA RelayoutApplyRow ==
  ASSUME HeldInv, LockOk, RowInv, NEW p \in Procs, RelayoutApply(p)
  PROVE  RowInv'
<1> DEFINE k == call[p].my
           rs == call[p].job.prog.regions
           g == entry[k].gen + 1
           n == [entry[k] EXCEPT !.slots = rs, !.gen = g]
<1>1. call[p].pc = "layout" /\ UNCHANGED <<live, raced, torn>> /\ Goto(p, "regions")
  BY DEF RelayoutApply, At, obs
<1>2. /\ k \in DOMAIN entry /\ entry[k] \in Entry /\ entry[k].id = Id(p) /\ call[p].job \in Request
      /\ Id(p) \notin raced => Ready(call[p], entry[k]) /\ Based(entry[k]) /\ Settled(entry[k])
  BY <1>1, MineWhole, MineIs DEF Holding
<1>3. Quiet(p) /\ entry \in Seq(Entry)
  BY RelayoutApplySteps, Facts
<1>4. rs \in Seq(Srcs \cup {Blank}) /\ g \in Nat
  <2>1. call[p].job.prog \in Program /\ entry[k].gen \in Nat
    BY <1>2 DEF Request, Entry
  <2> QED
    BY <2>1 DEF Program
<1>5. entry' = [entry EXCEPT ![k] = n]
  BY <1>2, <1>3 DEF RelayoutApply, Entry
<1>6. Id(p) \notin raced => Valid(rs, Listed(entry[k]))
  BY <1>1, <1>2 DEF Ready
<1> HIDE DEF rs, g
<1>7. n \in Entry /\ n.id = Id(p) /\ n.slots = rs /\ n.handles = entry[k].handles /\ n.pool = entry[k].pool
  BY <1>2, <1>4 DEF Entry
<1> HIDE DEF n
<1>8. Listed(n) = Listed(entry[k]) /\ (OnceIn(entry[k]) => OnceIn(n))
  BY <1>7 DEF Listed, OnceIn
<1>9. Id(p) \notin raced => Based(n) /\ Settled(n)
  BY <1>2, <1>6, <1>7, <1>8 DEF Based, Settled
<1> QED
  BY <1>1, <1>3, <1>5, <1>7, <1>8, <1>9, ChangeRow DEF Holding

LEMMA AddPoolRow ==
  ASSUME HeldInv, LockOk, RowInv, NEW p \in Procs, AddPool(p)
  PROVE  RowInv'
<1> DEFINE k == call[p].my
           s == call[p].job.src
           n == [entry[k] EXCEPT !.pool = @ \cup {s}]
<1>1. call[p].pc = "adding" /\ UNCHANGED <<live, raced, torn>> /\ Goto(p, "push")
  BY DEF AddPool, At, obs
<1>2. /\ k \in DOMAIN entry /\ entry[k] \in Entry /\ entry[k].id = Id(p) /\ k # 0
      /\ call[p].job.op = "add" /\ s \in Srcs
      /\ Id(p) \notin raced => Ready(call[p], entry[k]) /\ Based(entry[k]) /\ Settled(entry[k])
  BY <1>1, MineWhole, MineIs DEF Holding, OpAt
<1>3. Quiet(p) /\ entry \in Seq(Entry) /\ call \in [Procs -> Call]
  BY AddPoolSteps, Facts
<1>4. entry' = [entry EXCEPT ![k] = n]
  BY DEF AddPool
<1>5. n \in Entry /\ n.id = Id(p) /\ n.slots = entry[k].slots /\ n.handles = entry[k].handles /\ n.pool = entry[k].pool \cup {s}
  BY <1>2 DEF Entry
<1> HIDE DEF n
<1>6. Listed(n) = Listed(entry[k]) /\ (OnceIn(entry[k]) => OnceIn(n))
  BY <1>5 DEF Listed, OnceIn
<1>7. PICK c : Moves(p, c) /\ Goes(call[p], c, "push")
  BY <1>1, <1>3, PcMoves DEF Goto, Pcs
<1>8. call'[p].pc = "push" /\ call'[p].my = k /\ call'[p].job = call[p].job
  BY <1>3, <1>7, MovesTo DEF Goes
<1>9. InWork(k)'
  BY <1>8 DEF InWork
<1>10. Id(p) \notin raced => Based(n)
  BY <1>2, <1>5, <1>6 DEF Based
<1>11. entry'[k] = n
  BY <1>2, <1>3, <1>4
<1>12. ASSUME Id(p) \notin raced PROVE Ready(call'[p], entry'[call'[p].my])
  <2>1. n.pool \subseteq Listed(n) \cup {s} /\ s \in n.pool /\ (ListedOnce(Id(p)) => Listed(n) \subseteq n.pool)
    BY <1>2, <1>5, <1>6, <1>12 DEF Settled
  <2>2. s \notin Listed(n) /\ Ready(call[p], entry[k])
    BY <1>1, <1>2, <1>6, <1>12 DEF Ready
  <2> QED
    BY <1>2, <1>8, <1>11, <2>1, <2>2 DEF Ready, Id
<1> QED
  BY <1>1, <1>2, <1>3, <1>4, <1>5, <1>6, <1>8, <1>9, <1>10, <1>12, OneRow

LEMMA AddPushRow ==
  ASSUME HeldInv, LockOk, RowInv, NEW p \in Procs, NEW kind \in {"hot", "retry"}, AddPush(p, kind)
  PROVE  RowInv'
<1> DEFINE k == call[p].my
           s == call[p].job.src
           h == [src |-> s, kind |-> kind]
           hs == Append(entry[k].handles, h)
           n == [entry[k] EXCEPT !.handles = hs]
<1>1. call[p].pc = "push" /\ UNCHANGED <<live, raced, torn>> /\ Goto(p, "regions")
  BY DEF AddPush, At, obs
<1>2. /\ k \in DOMAIN entry /\ entry[k] \in Entry /\ entry[k].id = Id(p) /\ k # 0
      /\ call[p].job.op = "add" /\ s \in Srcs
      /\ Id(p) \notin raced => Ready(call[p], entry[k]) /\ Based(entry[k])
  BY <1>1, MineWhole, MineIs DEF Holding, OpAt
<1>3. Quiet(p) /\ entry \in Seq(Entry)
  BY AddPushSteps, Facts
<1>4. entry' = [entry EXCEPT ![k] = n]
  BY DEF AddPush
<1>5. h \in Handle /\ h.src = s /\ entry[k].handles \in Seq(Handle)
  BY <1>2 DEF Handle, Entry
<1> DEFINE l == Len(entry[k].handles) + 1
<1> HIDE DEF h
<1>6. /\ hs \in Seq(Handle) /\ l \notin DOMAIN entry[k].handles /\ DOMAIN hs = DOMAIN entry[k].handles \cup {l}
      /\ hs[l] = h /\ \A i \in DOMAIN entry[k].handles : hs[i] = entry[k].handles[i]
  <2> DEFINE hh == entry[k].handles
  <2>1. h \in Handle /\ hh \in Seq(Handle)
    BY <1>5
  <2> HIDE DEF hh
  <2>2. /\ Append(hh, h) \in Seq(Handle) /\ Len(hh) + 1 \notin DOMAIN hh
        /\ DOMAIN Append(hh, h) = DOMAIN hh \cup {Len(hh) + 1}
        /\ Append(hh, h)[Len(hh) + 1] = h
        /\ \A i \in DOMAIN hh : Append(hh, h)[i] = hh[i]
    BY <2>1, SeqAppend
  <2> QED
    BY <2>2, Zenon DEF hh
<1> HIDE DEF hs, l
<1>7. n \in Entry /\ n.id = Id(p) /\ n.slots = entry[k].slots /\ n.handles = hs /\ n.pool = entry[k].pool
  BY <1>2, <1>6 DEF Entry
<1> HIDE DEF n
<1>8. Listed(n) = Listed(entry[k]) \cup {s}
  BY <1>5, <1>6, <1>7 DEF Listed
<1>9. OnceIn(entry[k]) /\ s \notin Listed(entry[k]) => OnceIn(n)
  <2> SUFFICES ASSUME OnceIn(entry[k]), s \notin Listed(entry[k]), NEW i \in DOMAIN hs, NEW j \in DOMAIN hs,
                      hs[i].src = hs[j].src
               PROVE  i = j
    BY <1>7 DEF OnceIn
  <2>1. \A x \in DOMAIN entry[k].handles : hs[x].src # s
    BY <1>6 DEF Listed
  <2> QED
    BY <1>5, <1>6, <2>1 DEF OnceIn
<1>10. ASSUME Id(p) \notin raced PROVE Based(n) /\ Settled(n)
  <2>1. /\ s \notin Listed(entry[k]) /\ entry[k].pool \subseteq Listed(entry[k]) \cup {s} /\ s \in entry[k].pool
        /\ ListedOnce(Id(p)) => Listed(entry[k]) \subseteq entry[k].pool
    BY <1>1, <1>2, <1>10 DEF Ready, Id
  <2>2. n.handles # <<>>
    <3>1. DOMAIN hs # {}
      BY <1>6
    <3> QED
      BY <1>7, <3>1
  <2>3. Valid(n.slots, Listed(n))
    BY <1>2, <1>7, <1>8, <1>10 DEF Based, Valid
  <2>4. ListedOnce(Id(p)) => OnceIn(n)
    BY <1>2, <1>9, <1>10, <2>1 DEF Based
  <2> QED
    BY <1>7, <1>8, <2>1, <2>2, <2>3, <2>4 DEF Based, Settled
<1> QED
  BY <1>1, <1>3, <1>4, <1>7, <1>8, <1>10, ChangeRow DEF Holding

LEMMA RemoveSourceRow ==
  ASSUME HeldInv, LockOk, RowInv, NEW p \in Procs, RemoveSource(p)
  PROVE  RowInv'
<1>0. PICK k : k = Target(p)
  OBVIOUS
<1> DEFINE s == call[p].job.src
           n == [entry[k] EXCEPT !.lock = p, !.pool = @ \ {s}]
<1>1. UNCHANGED <<process, boots, row, saved, owed, live, raced, torn>> /\ call[p].pc = "drop" /\ k # 0
  BY <1>0 DEF RemoveSource, At, obs
<1>2. CASE Fail(p) /\ entry' = entry
  BY <1>1, <1>2, FailRow DEF Asked
<1>3. CASE /\ Len(entry[k].handles) > 1 /\ SetMy(p, "dropping", k) /\ clean' = clean
           /\ entry' = [entry EXCEPT ![k].lock = p, ![k].pool = @ \ {s}]
  <2>1. k \in DOMAIN entry /\ k \in Nat /\ entry[k] \in Entry /\ entry \in Seq(Entry) /\ Id(p) \in Ids /\ k = live[Id(p)]
    BY <1>0, <1>1, TargetIs DEF Asked
  <2>2. Quiet(p) /\ call'[p].pc = "dropping" /\ call'[p].my = k /\ call'[p].job = call[p].job
    BY <1>1, <1>3, <2>1, SetMyQuiet DEF Plain, Holding, Resting
  <2>3. entry[k].id = Id(p)
    BY <1>1, <2>1 DEF HeldInv, TypeOK
  <2>4. Id(p) \notin raced => Based(entry[k]) /\ Settled(entry[k]) /\ Ready(call[p], Mine(p))
    BY <1>0, <1>1, TargetWhole DEF Asked
  <2>5. entry' = [entry EXCEPT ![k] = n]
    BY <1>3, <2>1
  <2>6. /\ n \in Entry /\ n.id = entry[k].id /\ n.slots = entry[k].slots /\ n.handles = entry[k].handles
        /\ n.pool = entry[k].pool \ {s}
    BY <2>1 DEF Entry
  <2> HIDE DEF n
  <2>7. Listed(n) = Listed(entry[k]) /\ (OnceIn(entry[k]) => OnceIn(n)) /\ Len(n.handles) > 1
    BY <1>3, <2>6 DEF Listed, OnceIn
  <2>8. InWork(k)'
    BY <2>2 DEF InWork
  <2>9. Id(p) \notin raced => Based(n)
    BY <2>4, <2>6, <2>7 DEF Based
  <2>10. entry'[k] = n
    BY <2>1, <2>5
  <2>11. ASSUME Id(p) \notin raced PROVE Ready(call'[p], entry'[call'[p].my])
    <3>1. n.pool \subseteq Listed(n) \ {s} /\ (ListedOnce(Id(p)) => Listed(n) \ {s} \subseteq n.pool)
      BY <2>3, <2>4, <2>6, <2>7, <2>11 DEF Settled
    <3>2. call[p].job.op # "create"
      BY <1>1, TargetIs DEF Asked
    <3> QED
      BY <2>2, <2>7, <2>10, <3>1, <3>2 DEF Ready, Id
  <2> QED
    BY <1>1, <2>1, <2>2, <2>3, <2>5, <2>6, <2>7, <2>8, <2>9, <2>11, OneRow
<1> QED
  BY <1>0, <1>2, <1>3 DEF RemoveSource, GotoWith, SetMy

\* What is listed once a source has lost its first handle.
LEMMA WithoutListed ==
  ASSUME NEW a \in Entry, NEW b \in Entry, NEW s, s \in Listed(a), b.handles = Without(a.handles, s)
  PROVE  /\ Listed(b) \subseteq Listed(a) /\ Listed(a) \ {s} \subseteq Listed(b)
         /\ OnceIn(a) => OnceIn(b) /\ s \notin Listed(b)
         /\ Len(a.handles) > 1 => b.handles # <<>>
<1> DEFINE h == a.handles
           w == b.handles
<1>1. h \in Seq(Handle) /\ w \in Seq(Handle) /\ \E i \in DOMAIN h : h[i].src = s
  BY DEF Entry, Listed
<1>2. PICK i \in 1..Len(h) :
        /\ h[i].src = s /\ Len(w) + 1 = Len(h)
        /\ \A k \in 1..Len(w) : w[k] = IF k < i THEN h[k] ELSE h[k + 1]
  <2>1. w = Without(h, s)
    OBVIOUS
  <2> HIDE DEF h, w
  <2>2. \E i \in 1..Len(h) :
          /\ h[i].src = s /\ Len(Without(h, s)) + 1 = Len(h)
          /\ \A k \in 1..Len(Without(h, s)) : Without(h, s)[k] = IF k < i THEN h[k] ELSE h[k + 1]
    BY <1>1, WithoutIs
  <2> QED
    BY <2>1, <2>2
<1>3. Len(h) \in Nat /\ Len(w) \in Nat /\ DOMAIN h = 1..Len(h) /\ DOMAIN w = 1..Len(w)
  BY <1>1
<1>4. Listed(a) = {h[x].src : x \in DOMAIN h} /\ Listed(b) = {w[x].src : x \in DOMAIN w}
  BY DEF Listed
<1>5. (OnceIn(a) <=> \A x, y \in DOMAIN h : h[x].src = h[y].src => x = y)
      /\ (OnceIn(b) <=> \A x, y \in DOMAIN w : w[x].src = w[y].src => x = y)
  BY DEF OnceIn
<1> HIDE DEF h, w
<1> DEFINE o(x) == IF x < i THEN x ELSE x + 1
<1>6. ASSUME NEW x \in DOMAIN w PROVE o(x) \in DOMAIN h /\ o(x) # i /\ w[x] = h[o(x)]
  <2>1. x \in Nat /\ 1 <= x /\ x + 1 <= Len(h) /\ i \in Nat /\ i <= Len(h)
    BY <1>2, <1>3
  <2>2. o(x) \in 1..Len(h) /\ o(x) # i
    BY <1>3, <2>1
  <2>3. w[x] = h[o(x)]
    BY <1>2, <1>3
  <2> QED
    BY <1>3, <2>2, <2>3
<1>7. ASSUME NEW y \in DOMAIN h, y # i PROVE \E x \in DOMAIN w : o(x) = y
  <2>1. y \in Nat /\ 1 <= y /\ y <= Len(h) /\ i \in Nat /\ 1 <= i /\ i <= Len(h)
    BY <1>3
  <2>2. CASE y < i
    <3>1. y \in 1..Len(w)
      BY <1>2, <1>3, <2>1, <2>2
    <3> QED
      BY <1>3, <2>2, <3>1
  <2>3. CASE ~(y < i)
    <3>1. y - 1 \in 1..Len(w) /\ ~(y - 1 < i) /\ y - 1 + 1 = y
      BY <1>2, <1>3, <1>7, <2>1, <2>3
    <3>2. o(y - 1) = y
      BY <3>1
    <3> QED
      BY <1>3, <3>1, <3>2
  <2> QED
    BY <2>2, <2>3
<1>8. ASSUME NEW x \in DOMAIN w, NEW y \in DOMAIN w, o(x) = o(y) PROVE x = y
  <2>1. x \in Nat /\ y \in Nat /\ i \in Nat
    BY <1>3
  <2> QED
    BY <1>8, <2>1
<1> HIDE DEF o
<1>9. Listed(b) \subseteq Listed(a)
  BY <1>4, <1>6
<1>10. Listed(a) \ {s} \subseteq Listed(b)
  <2> SUFFICES ASSUME NEW y \in DOMAIN h, h[y].src # s PROVE h[y].src \in Listed(b)
    BY <1>4
  <2>1. y # i
    BY <1>2
  <2>2. PICK x \in DOMAIN w : o(x) = y
    BY <1>7, <2>1
  <2>3. w[x] = h[y]
    BY <1>6, <2>2
  <2> QED
    BY <1>4, <2>3
<1>11. ASSUME OnceIn(a) PROVE OnceIn(b) /\ s \notin Listed(b)
  <2>1. OnceIn(b)
    <3> SUFFICES ASSUME NEW x \in DOMAIN w, NEW y \in DOMAIN w, w[x].src = w[y].src PROVE x = y
      BY <1>5
    <3>1. o(x) = o(y)
      BY <1>5, <1>6, <1>11
    <3> QED
      BY <1>8, <3>1
  <2>2. ASSUME NEW x \in DOMAIN w, w[x].src = s PROVE FALSE
    <3>1. o(x) \in DOMAIN h /\ o(x) # i /\ h[o(x)].src = h[i].src /\ i \in DOMAIN h
      BY <1>2, <1>3, <1>6, <2>2
    <3> QED
      BY <1>5, <1>11, <3>1
  <2> QED
    BY <1>4, <2>1, <2>2
<1>12. Len(h) > 1 => w # <<>>
  <2>1. Len(h) > 1 => Len(w) # 0
    BY <1>2, <1>3
  <2> QED
    BY <2>1, EmptySeq
<1> QED
  BY <1>9, <1>10, <1>11, <1>12 DEF h, w

LEMMA RemoveSourceSlotsRow ==
  ASSUME HeldInv, LockOk, RowInv, NEW p \in Procs, RemoveSourceSlots(p)
  PROVE  RowInv'
<1> DEFINE k == call[p].my
           s == call[p].job.src
           sl == Blanked(entry[k].slots, s)
           hs == Without(entry[k].handles, s)
           n == [entry[k] EXCEPT !.slots = sl, !.handles = hs, !.lock = None]
<1>1. /\ call[p].pc = "dropping" /\ UNCHANGED <<live, raced>> /\ Goto(p, "regions")
      /\ torn' = IF Unread THEN torn ELSE torn \cup {Id(p)}
  BY DEF RemoveSourceSlots, At
<1>2. /\ k \in DOMAIN entry /\ entry[k] \in Entry /\ entry[k].id = Id(p)
      /\ Id(p) \notin raced => Ready(call[p], entry[k]) /\ Based(entry[k])
  BY <1>1, MineWhole DEF Holding
<1>3. Quiet(p) /\ entry \in Seq(Entry)
  BY RemoveSourceSlotsSteps, Facts
<1>4. entry' = [entry EXCEPT ![k] = n]
  BY <1>2, <1>3 DEF RemoveSourceSlots, Entry
<1>5. entry[k].slots \in Seq(Srcs \cup {Blank}) /\ entry[k].handles \in Seq(Handle)
  BY <1>2 DEF Entry
<1>6. s \in Listed(entry[k])
  BY <1>1 DEF LockOk, At, Mine, Listed
<1>7. hs \in Seq(Handle)
  BY <1>5, <1>6, WithoutIs DEF Listed
<1>8. /\ sl \in Seq(Srcs \cup {Blank})
      /\ Elems(sl) \subseteq (Elems(entry[k].slots) \ {s}) \cup {Blank}
  <2>1. sl \in Seq(Srcs \cup {Blank})
    BY <1>5, BlankedIs
  <2>2. DOMAIN sl = DOMAIN entry[k].slots
        /\ \A i \in DOMAIN sl : sl[i] = IF entry[k].slots[i] = s THEN Blank ELSE entry[k].slots[i]
    BY DEF Blanked
  <2> HIDE DEF sl
  <2> QED
    BY <2>1, <2>2 DEF Elems
<1> HIDE DEF sl, hs
<1>9. n \in Entry /\ n.id = Id(p) /\ n.slots = sl /\ n.handles = hs /\ n.pool = entry[k].pool
  BY <1>2, <1>7, <1>8 DEF Entry
<1> HIDE DEF n
<1>10. /\ Listed(n) \subseteq Listed(entry[k]) /\ Listed(entry[k]) \ {s} \subseteq Listed(n)
       /\ OnceIn(entry[k]) => OnceIn(n) /\ s \notin Listed(n)
       /\ Len(entry[k].handles) > 1 => n.handles # <<>>
  BY <1>2, <1>6, <1>9, WithoutListed DEF hs
<1>11. ASSUME Id(p) \notin raced PROVE Based(n) /\ Settled(n)
  <2>1. /\ Len(entry[k].handles) > 1 /\ entry[k].pool \subseteq Listed(entry[k]) \ {s}
        /\ ListedOnce(Id(p)) => Listed(entry[k]) \ {s} \subseteq entry[k].pool
    BY <1>1, <1>2, <1>11 DEF Ready, Id
  <2>2. Valid(sl, Listed(n))
    BY <1>2, <1>8, <1>10, <1>11 DEF Based, Valid
  <2>3. ListedOnce(Id(p)) => OnceIn(n) /\ s \notin Listed(n)
    BY <1>2, <1>10, <1>11 DEF Based
  <2>4. Based(n)
    BY <1>9, <1>10, <2>1, <2>2, <2>3 DEF Based
  <2>5. n.pool \subseteq Listed(n) /\ (ListedOnce(n.id) => Listed(n) \subseteq n.pool)
    BY <1>9, <1>10, <2>1, <2>3
  <2> QED
    BY <2>4, <2>5 DEF Settled
<1>12. torn \subseteq torn' /\ (Unread \/ Id(p) \in torn')
  BY <1>1
<1> QED
  BY <1>1, <1>3, <1>4, <1>9, <1>11, <1>12, ChangeRow DEF Holding

\* A program of the map that nobody races.
LEMMA LiveBased ==
  ASSUME HeldInv, RowInv, NEW id \in Ids \ raced, live[id] # 0
  PROVE  Based(entry[live[id]]) /\ entry[live[id]].id = id /\ entry[live[id]] \in Entry /\ live[id] \in DOMAIN entry
<1>1. live[id] \in DOMAIN entry /\ entry[live[id]].id = id /\ entry \in Seq(Entry)
  BY DEF HeldInv, TypeOK
<1> QED
  BY <1>1 DEF RowInv, WholeOk

\* A step of persist_all that reads.
LEMMA ReadRow ==
  ASSUME HeldInv, RowInv, NEW p \in Procs, Quiet(p), entry' = entry, live' = live, torn' = torn,
         call[p].pc \in {"regions", "sources"}, call'[p].pc \in {"sources", "save"},
         call'[p].pc = "sources" =>
           \A id \in Ids \ raced : live[id] # 0 => Valid(call'[p].snap[id].regions, Listed(entry[live[id]])),
         call'[p].pc = "save" => \A id \in Ids \ raced : WrittenOk(id, call'[p].snap[id], torn)
  PROVE  RowInv'
<1>1. 0 \notin DOMAIN entry
  BY NotZero
<1>2. Busy(p) /\ call'[p].job = call[p].job
  BY DEF Quiet, Busy
<1>3. Id(p) \notin raced => Ready(call'[p], entry[call'[p].my])
  BY <1>2, ReadyCalm DEF Acting, RowInv, ReadyOk
<1>4. WholeOk' /\ ReadyOk'
  BY <1>1, <1>3, AlikeSelf, WholeFrame
<1>5. RowOk'
  BY RowFrame
<1> QED
  BY <1>4, <1>5 DEF RowInv

LEMMA ReadRegionsRow ==
  ASSUME HeldInv, LockOk, RowInv, NEW p \in Procs, ReadRegions(p)
  PROVE  RowInv'
<1> DEFINE s == [id \in Ids |-> IF live[id] = 0 THEN None
                                ELSE [sources |-> <<>>, regions |-> entry[live[id]].slots]]
<1>1. /\ call[p].pc = "regions" /\ entry' = entry /\ live' = live /\ torn' = torn
      /\ call' = [call EXCEPT ![p].pc = "sources", ![p].snap = s]
  BY DEF ReadRegions, obs, At
<1>2. Quiet(p) /\ call \in [Procs -> Call]
  BY ReadRegionsSteps, Facts
<1>3. call'[p].pc = "sources" /\ call'[p].snap = s
  <2> HIDE DEF s
  <2> QED
    BY <1>1, <1>2 DEF Call
<1>4. ASSUME NEW id \in Ids \ raced, live[id] # 0 PROVE Valid(s[id].regions, Listed(entry[live[id]]))
  <2>1. s[id].regions = entry[live[id]].slots
    BY <1>4
  <2> QED
    BY <1>4, <2>1, LiveBased DEF Based
<1> HIDE DEF s
<1> QED
  BY <1>1, <1>2, <1>3, <1>4, ReadRow

LEMMA ReadSourcesRow ==
  ASSUME HeldInv, LockOk, RowInv, NEW p \in Procs, ReadSources(p)
  PROVE  RowInv'
<1> DEFINE s == [id \in Ids |-> IF live[id] = 0 THEN None
                                ELSE [call[p].snap[id] EXCEPT !.sources = SourceIds(live[id])]]
<1>1. /\ call[p].pc = "sources" /\ entry' = entry /\ live' = live /\ torn' = torn
      /\ call' = [call EXCEPT ![p].pc = "save", ![p].snap = s]
  BY DEF ReadSources, obs, At
<1>2. Quiet(p) /\ call \in [Procs -> Call] /\ call[p].snap \in [Ids -> Program \cup {None}]
  BY ReadSourcesSteps, Facts
<1>3. call'[p].pc = "save" /\ call'[p].snap = s
  <2> HIDE DEF s
  <2> QED
    BY <1>1, <1>2 DEF Call
<1>4. ASSUME NEW id \in Ids \ raced PROVE WrittenOk(id, s[id], torn)
  <2>1. CASE live[id] = 0
    BY <2>1 DEF WrittenOk
  <2>2. CASE live[id] # 0
    <3> DEFINE n == entry[live[id]]
               t == SourceIds(live[id])
    <3>1. Based(n) /\ n.id = id /\ n \in Entry
      BY <2>2, LiveBased
    <3>2. call[p].snap[id] \in Program
      BY <1>1, <1>2, <2>2 DEF HeldInv, SnapOk, At
    <3>3. DOMAIN t = DOMAIN n.handles /\ \A i \in DOMAIN t : t[i] = n.handles[i].src
      BY DEF SourceIds
    <3>4. Elems(t) = Listed(n)
      BY ListedIs
    <3> HIDE DEF t
    <3>5. s[id] = [call[p].snap[id] EXCEPT !.sources = t]
      BY <2>2 DEF t
    <3>6. s[id].sources = t /\ s[id].regions = call[p].snap[id].regions
      BY <3>2, <3>5 DEF Program
    <3>7. t # <<>>
      <4>1. n.handles \in Seq(Handle) /\ n.handles # <<>>
        BY <3>1 DEF Entry, Based
      <4> HIDE DEF n
      <4>2. Len(n.handles) \in Nat /\ Len(n.handles) # 0 /\ DOMAIN n.handles = 1..Len(n.handles)
        BY <4>1, EmptySeq
      <4>3. 1 \in DOMAIN t
        BY <3>3, <4>2
      <4> QED
        BY <4>3
    <3>8. id \notin torn => Valid(call[p].snap[id].regions, Listed(n))
      BY <1>1, <2>2 DEF RowInv, RowOk, At
    <3>9. ListedOnce(id) => Distinct(t)
      BY <3>1, <3>3 DEF Based, OnceIn, Distinct
    <3> QED
      BY <3>4, <3>6, <3>7, <3>8, <3>9 DEF WrittenOk, Restorable
  <2> QED
    BY <2>1, <2>2
<1> HIDE DEF s
<1> QED
  BY <1>1, <1>2, <1>3, <1>4, ReadRow

\* The call is over.
LEMMA LeaveRow ==
  ASSUME HeldInv, RowInv, NEW p \in Procs, NEW x \in Resting, call' = [call EXCEPT ![p] = Idle(x)],
         UNCHANGED <<live, entry, saved, torn>>, raced \subseteq raced', call[p].pc \notin {"push", "dropping"},
         \A id \in Ids \ raced : WrittenOk(id, row'[id], torn)
  PROVE  RowInv'
<1>1. ~Busy(p)' /\ call'[p].pc = x /\ \A q \in Procs : q # p => call'[q] = call[q]
  BY LeaveShape
<1>2. WholeOk'
  <2> SUFFICES ASSUME NEW e \in DOMAIN entry, entry[e].id \notin raced'
               PROVE  Based(entry[e]) /\ (InWork(e)' \/ Settled(entry[e]))
    BY DEF WholeOk
  <2>1. InWork(e) => InWork(e)'
    BY <1>1 DEF InWork
  <2> QED
    BY <2>1 DEF RowInv, WholeOk
<1>3. ReadyOk'
  <2> SUFFICES ASSUME NEW q \in Procs, Busy(q)', Id(q)' \notin raced' PROVE Ready(call'[q], entry[call'[q].my])
    BY DEF ReadyOk, Mine
  <2>1. call'[q] = call[q] /\ Busy(q) /\ Id(q) \notin raced
    BY <1>1 DEF Busy, Id
  <2> QED
    BY <2>1 DEF RowInv, ReadyOk, Mine
<1>4. RowOk'
  <2>1. \A q \in Procs : call'[q].pc \in {"sources", "save"} => call'[q] = call[q]
    BY <1>1 DEF Resting
  <2> QED
    BY <2>1 DEF RowInv, RowOk, At
<1> QED
  BY <1>2, <1>3, <1>4 DEF RowInv

LEMMA SaveRow ==
  ASSUME HeldInv, RowInv, NEW p \in Procs, NEW ok \in BOOLEAN, Save(p, ok)
  PROVE  RowInv'
<1>1. /\ call[p].pc = "save" /\ UNCHANGED <<live, entry, saved, torn, raced>>
      /\ row' = IF ok THEN call[p].snap ELSE row
  BY DEF Save, At
<1>2. PICK x \in Resting : call' = [call EXCEPT ![p] = Idle(x)]
  BY DEF Save, Resting
<1>3. \A id \in Ids \ raced : WrittenOk(id, row'[id], torn)
  BY <1>1 DEF RowInv, RowOk, At
<1> QED
  BY <1>1, <1>2, <1>3, LeaveRow

LEMMA AbandonRow ==
  ASSUME HeldInv, RowInv, NEW c \in Calls, Abandon(c)
  PROVE  RowInv'
<1>1. /\ c \in Procs /\ call' = [call EXCEPT ![c] = Idle("done")] /\ UNCHANGED <<live, entry, saved, torn, row>>
      /\ raced \subseteq raced' /\ call[c].pc \notin {"push", "dropping"}
  BY DEF Abandon, Procs
<1>2. \A id \in Ids \ raced : WrittenOk(id, row'[id], torn)
  BY <1>1 DEF RowInv, RowOk
<1> QED
  BY <1>1, <1>2, LeaveRow DEF Resting

\* A call begins.
LEMMA StartRow ==
  ASSUME HeldInv, RowInv, NEW p \in Procs, NEW r \in Request, ~Busy(p), Start(p, r),
         UNCHANGED <<live, entry, row, torn>>, \A id \in Ids : saved'[id] = saved[id] \/ saved'[id] = None,
         r.id \notin raced /\ r.op = "create" /\ ListedOnce(r.id) => Distinct(r.prog.sources)
  PROVE  RowInv'
<1>1. /\ call'[p].pc = r.op /\ call'[p].job = r /\ r.op \in Asked
      /\ \A q \in Procs : q # p => call'[q] = call[q]
  BY StartShape
<1>2. raced \subseteq raced'
  BY DEF Start
<1>3. WholeOk'
  <2> SUFFICES ASSUME NEW e \in DOMAIN entry, entry[e].id \notin raced'
               PROVE  Based(entry[e]) /\ (InWork(e)' \/ Settled(entry[e]))
    BY DEF WholeOk
  <2>1. call[p].pc \notin {"push", "dropping"}
    BY DEF Busy
  <2>2. InWork(e) => InWork(e)'
    BY <1>1, <2>1 DEF InWork
  <2> QED
    BY <1>2, <2>2 DEF RowInv, WholeOk
<1>4. ReadyOk'
  <2> SUFFICES ASSUME NEW q \in Procs, Busy(q)', Id(q)' \notin raced' PROVE Ready(call'[q], entry[call'[q].my])
    BY DEF ReadyOk, Mine
  <2>1. CASE q # p
    <3>1. call'[q] = call[q] /\ Busy(q) /\ Id(q) \notin raced
      BY <1>1, <1>2, <2>1 DEF Busy, Id
    <3> QED
      BY <3>1 DEF RowInv, ReadyOk, Mine
  <2>2. CASE q = p
    <3>1. r.id \notin raced
      BY <1>1, <1>2, <2>2 DEF Id
    <3> QED
      BY <1>1, <2>2, <3>1 DEF Ready, Asked
  <2> QED
    BY <2>1, <2>2
<1>5. RowOk'
  <2>1. \A q \in Procs : call'[q].pc \in {"sources", "save"} => call'[q] = call[q]
    BY <1>1 DEF Asked
  <2> QED
    BY <1>2, <2>1 DEF RowInv, RowOk, At
<1> QED
  BY <1>3, <1>4, <1>5 DEF RowInv

LEMMA BeginRow ==
  ASSUME HeldInv, RowInv, NEW c \in Calls, NEW r \in Requests, Begin(c, r)
  PROVE  RowInv'
<1>1. /\ c \in Procs /\ r \in Request /\ ~Busy(c) /\ Start(c, r) /\ UNCHANGED <<live, entry, row, torn, saved>>
  BY ProgramsAssumption DEF Begin, At, Busy, Procs
<1>2. r.prog # None
  BY <1>1, ProgramsAssumption DEF Request
<1>3. ListedOnce(r.id) => Distinct(r.prog.sources)
  BY <1>2 DEF ListedOnce, Distinct
<1> QED
  BY <1>1, <1>3, StartRow

LEMMA RestoreNextRow ==
  ASSUME HeldInv, RowInv, NEW id \in Ids, RestoreNext(id)
  PROVE  RowInv'
<1>1. /\ Boot \in Procs /\ ~Busy(Boot) /\ Start(Boot, Again(id)) /\ UNCHANGED <<live, entry, row, torn>>
      /\ saved' = [saved EXCEPT ![id] = None] /\ saved[id] # None /\ saved \in [Ids -> Program \cup {None}]
  BY DEF RestoreNext, Again, At, Busy, Procs, HeldInv, TypeOK
<1>2. Again(id) \in Request /\ Again(id).id = id
  BY <1>1, AgainIs
<1>3. Again(id).prog = saved[id]
  BY DEF Again
<1>4. id \notin raced /\ ListedOnce(id) => Distinct(saved[id].sources)
  BY <1>1 DEF RowInv, RowOk
<1>5. \A i \in Ids : saved'[i] = saved[i] \/ saved'[i] = None
  BY <1>1
<1> QED
  BY <1>1, <1>2, <1>3, <1>4, <1>5, StartRow

LEMMA ShutdownRow ==
  ASSUME HeldInv, RowInv, Shutdown
  PROVE  RowInv'
<1>1. /\ live' = [id \in Ids |-> 0] /\ call' = call /\ UNCHANGED <<row, saved, torn>> /\ Unread
      /\ entry' = [e \in DOMAIN entry |->
                     IF \E id \in Ids : live[id] = e THEN Stopped(entry[e]) ELSE entry[e]]
      /\ raced' = raced \cup {Id(p) : p \in {q \in Procs : Busy(q)}}
  BY DEF Shutdown
<1>2. \A p \in Procs : Busy(p)' => Id(p)' \in raced'
  BY <1>1 DEF Busy, Id
<1>3. ReadyOk'
  BY <1>2 DEF ReadyOk
<1>4. \A e \in DOMAIN entry : Alike(entry[e], entry'[e])
  <2> SUFFICES ASSUME NEW e \in DOMAIN entry PROVE Alike(entry[e], entry'[e])
    OBVIOUS
  <2>1. entry[e] \in Entry
    BY DEF HeldInv, TypeOK
  <2>2. entry'[e] = entry[e] \/ entry'[e] = Stopped(entry[e])
    BY <1>1
  <2> QED
    BY <2>1, <2>2, AlikeSelf, EndedAlike
<1>5. WholeOk'
  <2> SUFFICES ASSUME NEW e \in DOMAIN entry', entry'[e].id \notin raced'
               PROVE  Based(entry'[e]) /\ (InWork(e)' \/ Settled(entry'[e]))
    BY DEF WholeOk
  <2>1. e \in DOMAIN entry /\ Alike(entry[e], entry'[e])
    BY <1>1, <1>4
  <2>2. Based(entry[e]) /\ (InWork(e) \/ Settled(entry[e]))
    BY <1>1, <2>1 DEF RowInv, WholeOk, Alike
  <2>3. InWork(e) => InWork(e)'
    BY <1>1 DEF InWork
  <2> QED
    BY <2>1, <2>2, <2>3, AlikeKeeps
<1>6. RowOk'
  BY <1>1 DEF RowInv, RowOk, At, Unread
<1> QED
  BY <1>3, <1>5, <1>6 DEF RowInv

\* Nothing runs and nobody is in a call.
LEMMA RestingRow ==
  ASSUME entry' = <<>>, \A p \in Procs : call'[p].pc \in Resting,
         \A id \in Ids \ raced' :
           WrittenOk(id, row'[id], torn') /\ (saved'[id] # None /\ ListedOnce(id) => Distinct(saved'[id].sources))
  PROVE  RowInv'
<1>1. \A p \in Procs : ~Busy(p)' /\ call'[p].pc \notin {"sources", "save"}
  BY DEF Busy, Resting
<1>2. DOMAIN entry' = {}
  OBVIOUS
<1>3. WholeOk' /\ ReadyOk'
  BY <1>1, <1>2 DEF WholeOk, ReadyOk
<1>4. RowOk'
  BY <1>1 DEF RowOk, At
<1> QED
  BY <1>3, <1>4 DEF RowInv

LEMMA DownRow ==
  ASSUME HeldInv, RowInv, Down
  PROVE  RowInv'
<1> DEFINE x(p) == IF p # Boot /\ At(p, "idle") THEN "idle" ELSE "done"
<1>1. /\ entry' = <<>> /\ call' = [p \in Procs |-> Idle(x(p))] /\ UNCHANGED <<row, raced, torn>> /\ saved' = NoRow
      /\ \A p \in Procs : x(p) \in Resting
  BY DEF Down, obs, Resting
<1> HIDE DEF x
<1>2. \A p \in Procs : call'[p].pc \in Resting
  BY <1>1, IdleType
<1>3. \A id \in Ids : saved'[id] = None
  BY <1>1 DEF NoRow
<1>4. \A id \in Ids \ raced : WrittenOk(id, row[id], torn)
  BY DEF RowInv, RowOk
<1> QED
  BY <1>1, <1>2, <1>3, <1>4, RestingRow

LEMMA UpRow ==
  ASSUME SafeInv, RowInv, Up
  PROVE  RowInv'
<1>1. /\ entry' = <<>> /\ UNCHANGED <<row, raced, torn>> /\ saved' = row
      /\ call' = [call EXCEPT ![Boot].pc = "next"] /\ (\A q \in Procs : call[q].pc \in Resting)
      /\ call \in [Procs -> Call]
  BY DEF Up, obs, SafeInv, HeldInv, TypeOK, DownOk
<1>2. \A q \in Procs : call'[q].pc \in Resting
  BY <1>1 DEF Resting, Call
<1>3. \A id \in Ids \ raced : WrittenOk(id, row[id], torn)
  BY DEF RowInv, RowOk
<1> QED
  BY <1>1, <1>2, <1>3, RestingRow DEF WrittenOk

LEMMA RowInit ==
  ASSUME Init
  PROVE  RowInv
<1>1. entry = <<>> /\ saved = row /\ \A p \in Procs : call[p].pc \in Resting
  <2>1. PICK s \in Starts : call = [p \in Procs |-> Idle(IF p = Boot THEN "next"
                                       ELSE IF p \in s.calls THEN "idle" ELSE "done")]
    BY DEF Init
  <2> DEFINE x(p) == IF p = Boot THEN "next" ELSE IF p \in s.calls THEN "idle" ELSE "done"
  <2>2. call = [p \in Procs |-> Idle(x(p))] /\ \A p \in Procs : x(p) \in Resting
    BY <2>1 DEF Resting
  <2> HIDE DEF x
  <2> QED
    BY <2>2, IdleType DEF Init
<1>2. PICK s \in Starts : row = s.row
  BY DEF Init
<1>3. ASSUME NEW id \in Ids, row[id] # None PROVE Restorable(row[id]) /\ (ListedOnce(id) => Distinct(row[id].sources))
  <2>1. Restorable(row[id])
    BY <1>2, <1>3, StartsAssumption
  <2>2. ListedOnce(id) => Distinct(row[id].sources)
    BY <1>2, <1>3 DEF ListedOnce, Distinct
  <2> QED
    BY <2>1, <2>2
<1>4. \A p \in Procs : ~Busy(p) /\ call[p].pc \notin {"sources", "save"}
  BY <1>1 DEF Busy, Resting
<1>5. DOMAIN entry = {}
  BY <1>1
<1>6. WholeOk /\ ReadyOk
  BY <1>4, <1>5 DEF WholeOk, ReadyOk
<1>7. RowOk
  BY <1>1, <1>3, <1>4 DEF RowOk, At, WrittenOk
<1> QED
  BY <1>6, <1>7 DEF RowInv

LEMMA WorksRow ==
  ASSUME HeldInv, LockOk, RowInv, NEW p \in Procs, Works(p)
  PROVE  RowInv'
BY MissingRow, CreateCheckRow, CreateOpenRow, CreateInsertRow, RemoveRow, SwitchRow, SwitchSlotRow, RelayoutRow,
   RelayoutApplyRow, AddSourceRow, AddPoolRow, AddPushRow, RemoveSourceRow, RemoveSourceSlotsRow, ReadRegionsRow,
   ReadSourcesRow DEF Works

LEMMA RowStep ==
  ASSUME SafeInv, RowInv, [Next]_vars
  PROVE  RowInv'
<1>1. HeldInv /\ LockOk
  BY DEF SafeInv
<1>2. CASE \E p \in Procs : Works(p)
  BY <1>1, <1>2, WorksRow
<1>3. CASE \E p \in Procs : \E ok \in BOOLEAN : Save(p, ok)
  BY <1>1, <1>3, SaveRow
<1>4. CASE \E c \in Calls : Abandon(c)
  BY <1>1, <1>4, AbandonRow
<1>5. CASE \E c \in Calls : \E r \in Requests : Begin(c, r)
  BY <1>1, <1>5, BeginRow
<1>6. CASE \E id \in Ids : RestoreNext(id)
  BY <1>1, <1>6, RestoreNextRow
<1>7. CASE Shutdown
  BY <1>1, <1>7, ShutdownRow
<1>8. CASE Down
  BY <1>1, <1>8, DownRow
<1>9. CASE Up
  BY <1>9, UpRow
<1>10. CASE UNCHANGED vars
  BY <1>10 DEF RowInv, WholeOk, ReadyOk, RowOk, InWork, Mine, Busy, Id, At, vars
<1> QED
  BY <1>2, <1>3, <1>4, <1>5, <1>6, <1>7, <1>8, <1>9, <1>10 DEF Next, Progress, Works

(***************************************************************************)
(* What is saved can be restored: unless calls on a program overlapped or  *)
(* it lost a source between persist_all's two reads, the row never holds a *)
(* program that create would refuse for ever; and a program that runs with *)
(* no call in progress shows listed sources only, and its pool is its list *)
(* of sources.                                                             *)
(***************************************************************************)
THEOREM RowRestorableAlways == Spec => []RowRestorable
<1>1. Init => RowInv
  BY RowInit
<1>2. SafeInv /\ RowInv /\ [Next]_vars => RowInv'
  BY RowStep
<1>3. SafeInv /\ RowInv => RowRestorable
  <2> SUFFICES ASSUME SafeInv, RowInv, NEW id \in Ids \ raced
               PROVE  /\ (row[id] # None /\ id \notin torn) => Restorable(row[id])
                      /\ (live[id] # 0 /\ ~\E p \in Procs : Busy(p) /\ Id(p) = id) =>
                           LET e == entry[live[id]]
                               listed == Elems(SourceIds(live[id]))
                           IN /\ Valid(e.slots, listed) /\ e.pool \subseteq listed
                              /\ ListedOnce(id) => e.pool = listed
    BY DEF RowRestorable
  <2>1. (row[id] # None /\ id \notin torn) => Restorable(row[id])
    BY DEF RowInv, RowOk, WrittenOk
  <2>2. ASSUME live[id] # 0, ~\E p \in Procs : Busy(p) /\ Id(p) = id
        PROVE  /\ Valid(entry[live[id]].slots, Listed(entry[live[id]]))
               /\ entry[live[id]].pool \subseteq Listed(entry[live[id]])
               /\ ListedOnce(id) => entry[live[id]].pool = Listed(entry[live[id]])
    <3>1. /\ Based(entry[live[id]]) /\ entry[live[id]].id = id /\ live[id] \in DOMAIN entry /\ HeldInv
      BY <2>2, LiveBased DEF SafeInv
    <3>2. ASSUME NEW q \in Procs, call[q].my = live[id], call[q].pc \in {"push", "dropping"} PROVE FALSE
      <4>1. Busy(q) /\ HandOk(call[q], entry)
        BY <3>1, <3>2, Facts DEF Busy
      <4>2. Id(q) = id
        BY <2>2, <3>1, <3>2, <4>1 DEF HandOk, Id
      <4> QED
        BY <2>2, <4>1, <4>2
    <3>3. Settled(entry[live[id]])
      BY <3>1, <3>2 DEF RowInv, WholeOk, InWork
    <3> QED
      BY <3>1, <3>3 DEF Based, Settled
  <2> QED
    BY <2>1, <2>2, ListedIs
<1> QED
  BY <1>1, <1>2, <1>3, SafeAlways, PTL DEF Spec
====
