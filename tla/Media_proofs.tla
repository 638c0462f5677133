---------------------------- MODULE Media_proofs ----------------------------
(***************************************************************************)
(* Proofs about what pulls a camera and about what is transcoded of it:    *)
(* module Feeds (the switcher's program, the taps and the recorder, which  *)
(* share nothing, so that each has an invariant of its own, kept by its    *)
(* own steps and by those of the others) and module Transcode (a stream of *)
(* an output, for any capacities of the channels and the queues and any    *)
(* number of packets).  The two are specifications of their own.           *)
(***************************************************************************)
EXTENDS Feeds, Transcode, WellFoundedInduction, FiniteSetTheorems, TLAPS

-----------------------------------------------------------------------------
(* The switcher *)

(***************************************************************************)
(* The loop holds a frame of a source that is not active only when it was  *)
(* overtaken by a switch, and a source that is active and not yet on air   *)
(* has its keyframe asked for, unless a switch is between its two steps or *)
(* the loop was overtaken.                                                 *)
(***************************************************************************)
KeyframeAsked ==
  /\ loop.at = "swap" /\ loop.src # active => raced
  /\ air # active /\ ~HalfDone /\ ~raced => idr

SwitcherInv ==
  /\ sw \in [SwitchCalls -> [at : {"none", "active", "flag"}, to : Ids \cup {"none"}]]
  /\ raced \in BOOLEAN /\ idr \in BOOLEAN
  /\ KeyframeAsked /\ OnAirKeyed

\* The invariant holds before the program is created.
LEMMA SwitcherStarts ==
  ASSUME NEW on \in BOOLEAN, SwInit(on)
  PROVE  SwitcherInv
BY DEF SwInit, SwitcherInv, KeyframeAsked, OnAirKeyed, NoSwitch, HalfDone

\* Every step of the program, its sources and its clients keeps it.
LEMMA SwitcherSteps ==
  ASSUME SwitcherInv, SwNext
  PROVE  SwitcherInv'
<1> USE DEF SwitcherInv, KeyframeAsked, OnAirKeyed
<1>0. ASSUME UNCHANGED sw PROVE HalfDone' = HalfDone
  BY <1>0 DEF HalfDone
<1>1. CASE CreateCheck \/ Insert \/ RemoveProgram \/ DropSources
  BY <1>0, <1>1 DEF CreateCheck, Insert, RemoveProgram, DropSources
<1>2. CASE Start
  <2>1. CASE prog' = "started" /\ idr' = TRUE /\ loop' = Opening /\ raced' = FALSE
    BY <1>2, <2>1 DEF Start, Opening
  <2>2. CASE UNCHANGED <<active, idr, loop, air, raced, sw, bare>>
    BY <1>0, <1>2, <2>2 DEF Start
  <2>3. QED
    BY <1>2, <2>1, <2>2 DEF Start
<1>3. CASE OpenSink \/ LoopFinishes \/ EncodeError \/ Flushed
  BY <1>0, <1>3 DEF OpenSink, LoopFinishes, EncodeError, Flushed, Idle
<1>4. CASE Test
  BY <1>0, <1>4 DEF Test, Idle
<1>5. CASE EncodeFrame
  <2>1. ~bare'
    BY <1>5 DEF EncodeFrame
  <2>2. QED
    BY <1>0, <1>5, <2>1 DEF EncodeFrame, Idle
<1>6. ASSUME NEW c \in SwitchCalls, SwitchActive(c)
      PROVE  SwitcherInv'
  <2>1. sw' \in [SwitchCalls -> [at : {"none", "active", "flag"}, to : Ids \cup {"none"}]]
    BY <1>6 DEF SwitchActive
  <2>2. HalfDone'
    BY <1>6 DEF SwitchActive, HalfDone
  <2>3. QED
    BY <1>6, <2>1, <2>2 DEF SwitchActive
<1>7. ASSUME NEW c \in SwitchCalls, SwitchFlag(c)
      PROVE  SwitcherInv'
  <2>1. sw' \in [SwitchCalls -> [at : {"none", "active", "flag"}, to : Ids \cup {"none"}]]
    BY <1>7 DEF SwitchFlag, NoSwitch
  <2>2. QED
    BY <1>7, <2>1 DEF SwitchFlag
<1>8. ASSUME NEW c \in SwitchCalls, NEW s \in Ids, SwitchBegin(c, s)
      PROVE  SwitcherInv'
  <2>1. sw' \in [SwitchCalls -> [at : {"none", "active", "flag"}, to : Ids \cup {"none"}]]
    BY <1>8 DEF SwitchBegin
  <2>2. HalfDone => HalfDone'
    BY <1>8 DEF SwitchBegin, HalfDone, NoSwitch
  <2>3. HalfDone' => HalfDone
    BY <1>8 DEF SwitchBegin, HalfDone, NoSwitch
  <2>4. QED
    BY <1>8, <2>1, <2>2, <2>3 DEF SwitchBegin
<1>9. ASSUME NEW s \in Ids, Offer(s) \/ SourceEnds(s)
      PROVE  SwitcherInv'
  BY <1>0, <1>9 DEF Offer, SourceEnds
<1>10. QED
  BY <1>1, <1>2, <1>3, <1>4, <1>5, <1>6, <1>7, <1>8, <1>9 DEF SwNext, ProgramStep, SinkStep

\* The steps of the other pullers do not touch it.
LEMMA SwitcherUntouched ==
  ASSUME SwitcherInv, UNCHANGED swvars
  PROVE  SwitcherInv'
BY DEF SwitcherInv, KeyframeAsked, OnAirKeyed, HalfDone, swvars

(***************************************************************************)
(* For any sources and any capacity of the channel: a source that goes on  *)
(* air begins with a keyframe, unless the switch fell between the loop's   *)
(* test of the source and its reading of the flag (nvr-switcher).          *)
(***************************************************************************)
THEOREM OnAirKeyedAlways == FeedsSpec => []OnAirKeyed
<1>1. FeedsInit => SwitcherInv
  BY SwitcherStarts DEF FeedsInit
<1>2. SwitcherInv /\ [FeedsNext]_feedvars => SwitcherInv'
  BY SwitcherSteps, SwitcherUntouched DEF FeedsNext, feedvars
<1>3. SwitcherInv => OnAirKeyed
  BY DEF SwitcherInv
<1>4. QED
  BY <1>1, <1>2, <1>3, PTL DEF FeedsSpec

-----------------------------------------------------------------------------
(* The taps *)

StartPcs == {"idle", "pipe", "subscribe", "models", "load", "register", "done"}

TapsType ==
  /\ running \in TapCalls \cup {"none"}
  /\ models = [loaded |-> models.loaded, lock |-> models.lock]
  /\ models.lock \in TapCalls \cup {"none"}
  /\ start \in [TapCalls -> [pc : StartPcs, src : Nat]]
  /\ tap \in [TapCalls -> [st : {"none", "spawned", "recv", "work", "flush", "ended"},
                           src : Nat, cancelled : BOOLEAN]]
  /\ pipe \in Nat /\ pipes \in Nat

\* Only the holder of the lock loads the models.
LoaderLocks == \A c \in TapCalls : start[c].pc = "load" => models.lock = c

TapsInv == TapsType /\ LoaderLocks /\ TapsOwned

\* The invariant holds when nothing was started.
LEMMA TapsStart ==
  ASSUME NEW who, TapsInit(who)
  PROVE  TapsInv
BY TapsAssumption DEF TapsInit, TapsInv, TapsType, LoaderLocks, TapsOwned, NoTap, StartPcs

\* A start request moves, and no other does.
LEMMA StartMoves ==
  ASSUME TapsType, NEW c \in TapCalls, NEW pc \in StartPcs, StartTo(c, pc)
  PROVE  /\ start' \in [TapCalls -> [pc : StartPcs, src : Nat]]
         /\ start'[c].pc = pc
         /\ \A d \in TapCalls \ {c} : start'[d] = start[d]
BY DEF TapsType, StartTo

\* A move outside the loading of the models keeps what is about them.
LEMMA MoveKeepsLock ==
  ASSUME TapsInv, UNCHANGED models, NEW c \in TapCalls,
         start[c].pc # "load", start'[c].pc # "load",
         \A d \in TapCalls \ {c} : start'[d] = start[d]
  PROVE  LoaderLocks' /\ (models'.lock # "none" => ~models'.loaded /\ start'[models'.lock].pc = "load")
BY DEF TapsInv, TapsType, LoaderLocks, TapsOwned

\* A step of a start request keeps it.
LEMMA StartKeepsTaps ==
  ASSUME TapsInv, NEW c \in TapCalls, StartStep(c)
  PROVE  TapsInv'
<1>a. TapsType /\ LoaderLocks /\ TapsOwned
  BY DEF TapsInv
<1>1. ASSUME NEW pc \in StartPcs, StartTo(c, pc), pc # "load", start[c].pc # "load",
             UNCHANGED <<pipe, pipes, running, models, tap>>
      PROVE  TapsInv'
  <2>1. TapsType'
    BY <1>1, <1>a, StartMoves DEF TapsType
  <2>2. QED
    BY <1>1, <1>a, <2>1, StartMoves, MoveKeepsLock DEF TapsInv, TapsOwned
<1>2. CASE IsRunning(c)
  BY <1>1, <1>2 DEF IsRunning, StartAt, StartPcs
<1>3. CASE GetPipe(c)
  <2>1. CASE pipe = 0
    BY <1>1, <1>3, <2>1 DEF GetPipe, StartAt, StartPcs
  <2>2. CASE pipe # 0
    <3>1. TapsType'
      BY <1>3, <1>a, <2>2 DEF GetPipe, TapsType, StartPcs
    <3>2. /\ start[c].pc = "pipe" /\ start'[c].pc = "subscribe"
          /\ \A d \in TapCalls \ {c} : start'[d] = start[d]
      BY <1>3, <1>a, <2>2 DEF GetPipe, StartAt, TapsType
    <3>3. QED
      BY <1>3, <1>a, <3>1, <3>2, MoveKeepsLock DEF GetPipe, TapsInv, TapsOwned
  <2>3. QED
    BY <2>1, <2>2
<1>4. CASE Subscribe(c)
  BY <1>1, <1>4 DEF Subscribe, StartAt, StartPcs
<1>5. CASE LockModels(c)
  <2>1. CASE models.loaded
    BY <1>1, <1>5, <2>1 DEF LockModels, StartAt, StartPcs
  <2>2. CASE ~models.loaded
    <3>1. StartTo(c, "load") /\ models.lock = "none" /\ models' = [models EXCEPT !.lock = c]
      BY <1>5, <2>2 DEF LockModels
    <3>2. /\ models' = [loaded |-> models.loaded, lock |-> c]
          /\ models'.lock = c /\ models'.loaded = models.loaded
      BY <3>1, <1>a DEF TapsType
    <3>3. TapsType'
      BY <1>5, <1>a, <3>1, <3>2, StartMoves DEF LockModels, TapsType, StartPcs
    <3>4. LoaderLocks'
      BY <1>a, <3>1, <3>2, StartMoves, TapsAssumption DEF LoaderLocks, StartPcs
    <3>5. TapsOwned'
      BY <1>5, <1>a, <2>2, <3>1, <3>2, StartMoves DEF LockModels, TapsOwned, StartPcs
    <3>6. QED
      BY <3>3, <3>4, <3>5 DEF TapsInv
  <2>3. QED
    BY <2>1, <2>2
<1>6. ASSUME NEW ok \in BOOLEAN, LoadModels(c, ok)
      PROVE  TapsInv'
  <2>1. PICK pc \in StartPcs \ {"load"} : StartTo(c, pc)
    BY <1>6 DEF LoadModels, StartPcs
  <2>2. models.lock = c /\ models' = [loaded |-> ok, lock |-> "none"]
    BY <1>6, <1>a DEF LoadModels, StartAt, LoaderLocks
  <2>3. TapsType'
    BY <1>6, <1>a, <2>1, <2>2, StartMoves DEF LoadModels, TapsType
  <2>4. LoaderLocks'
    BY <1>a, <2>1, <2>2, StartMoves DEF LoaderLocks
  <2>5. TapsOwned'
    BY <1>6, <1>a, <2>2 DEF LoadModels, TapsOwned
  <2>6. QED
    BY <2>3, <2>4, <2>5 DEF TapsInv
<1>7. CASE TapRegister(c)
  <2>1. StartTo(c, "done") /\ start[c].pc = "register" /\ UNCHANGED models
    BY <1>7 DEF TapRegister, StartAt
  <2>2. CASE UNCHANGED <<running, tap>>
    BY <1>1, <1>7, <2>1, <2>2 DEF TapRegister, StartPcs
  <2>3. CASE /\ running = "none" /\ running' = c
             /\ tap' = [tap EXCEPT ![c] = [st |-> "spawned", src |-> start[c].src, cancelled |-> FALSE]]
    <3>1. TapsType'
      BY <1>7, <1>a, <2>1, <2>3, StartMoves DEF TapRegister, TapsType, StartPcs
    <3>2. TapsOwned'
      BY <1>a, <2>1, <2>3, StartMoves, MoveKeepsLock, TapsAssumption
      DEF TapsInv, TapsType, TapsOwned, StartPcs
    <3>3. LoaderLocks'
      BY <1>a, <2>1, StartMoves, MoveKeepsLock DEF StartPcs
    <3>4. QED
      BY <3>1, <3>2, <3>3 DEF TapsInv
  <2>4. QED
    BY <1>7, <2>2, <2>3 DEF TapRegister
<1>8. CASE DropStart(c)
  <2>1. StartTo(c, "done") /\ start'[c].pc = "done"
        /\ \A d \in TapCalls \ {c} : start'[d] = start[d]
    BY <1>8, <1>a, StartMoves DEF DropStart, StartPcs
  <2>2. /\ models' = [loaded |-> models.loaded, lock |-> models'.lock]
        /\ models'.loaded = models.loaded
        /\ models'.lock = IF models.lock = c THEN "none" ELSE models.lock
    BY <1>8, <1>a DEF DropStart, TapsType
  <2>3. TapsType'
    BY <1>8, <1>a, <2>1, <2>2, StartMoves DEF DropStart, TapsType, StartPcs
  <2>4. LoaderLocks'
    BY <1>a, <2>1, <2>2 DEF LoaderLocks
  <2>5. TapsOwned'
    BY <1>8, <1>a, <2>1, <2>2 DEF DropStart, TapsOwned, TapsType
  <2>6. QED
    BY <2>3, <2>4, <2>5 DEF TapsInv
<1>9. QED
  BY <1>2, <1>3, <1>4, <1>5, <1>6, <1>7, <1>8 DEF StartStep

\* A step of a tap keeps it.
LEMMA TapKeepsTaps ==
  ASSUME TapsInv, NEW c \in TapCalls,
         TapBegins(c) \/ TapFrame(c) \/ TapStores(c) \/ TapBreaks(c) \/ TapFlushes(c)
  PROVE  TapsInv'
<1>1. PICK st \in {"recv", "work", "flush", "ended"} :
        TapTo(c, st) /\ tap[c].st \notin {"none", "ended"}
  BY DEF TapBegins, TapFrame, TapStores, TapBreaks, TapFlushes
<1>2. QED
  BY <1>1 DEF TapTo, TapsInv, TapsType, LoaderLocks, TapsOwned

\* stop, and the pipes coming and going, keep it.
LEMMA StopKeepsTaps ==
  ASSUME TapsInv, StopTap \/ PipeGone \/ PipeAdded
  PROVE  TapsInv'
<1> USE TapsAssumption DEF TapsInv, TapsType, LoaderLocks, TapsOwned
<1>1. CASE StopTap
  BY <1>1 DEF StopTap
<1>2. CASE PipeGone \/ PipeAdded
  BY <1>2 DEF PipeGone, PipeAdded
<1>3. QED
  BY <1>1, <1>2

\* The steps of the other pullers do not touch it.
LEMMA TapsUntouched ==
  ASSUME TapsInv, UNCHANGED tapvars
  PROVE  TapsInv'
BY DEF TapsInv, TapsType, LoaderLocks, TapsOwned, tapvars

(***************************************************************************)
(* For any number of start requests, any pipes and whatever is dropped or  *)
(* stopped meanwhile: a tap that was not told to stop is the registered    *)
(* one, and whoever holds the models' lock is loading them (hub.rs).       *)
(***************************************************************************)
THEOREM TapsOwnedAlways == FeedsSpec => []TapsOwned
<1>1. FeedsInit => TapsInv
  BY TapsStart DEF FeedsInit
<1>2. TapsInv /\ [FeedsNext]_feedvars => TapsInv'
  <2>1. ASSUME TapsInv, TapsNext PROVE TapsInv'
    BY <2>1, StartKeepsTaps, TapKeepsTaps, StopKeepsTaps DEF TapsNext
  <2>2. QED
    BY <2>1, TapsUntouched DEF FeedsNext, feedvars
<1>3. TapsInv => TapsOwned
  BY DEF TapsInv
<1>4. QED
  BY <1>1, <1>2, <1>3, PTL DEF FeedsSpec

-----------------------------------------------------------------------------
(* Induction over the natural numbers, from the well-foundedness of the       *)
(* finite sets, and what the flattening of a sequence of files computes.      *)

\* A set of natural numbers that is not empty has a least element.
LEMMA LeastNat ==
  ASSUME NEW T \in SUBSET Nat, T # {}
  PROVE  \E x \in T : \A y \in T : x <= y
<1> DEFINE I == {0..x : x \in T}
           R == StrictSubsetOrdering(Nat)
<1>1. \A x \in Nat : 0..x \in FiniteSubsetsOf(Nat)
  BY FS_Interval DEF FiniteSubsetsOf
<1>2. I \subseteq FiniteSubsetsOf(Nat) /\ I # {}
  BY <1>1
<1>3. IsWellFoundedOn(R, FiniteSubsetsOf(Nat))
  BY FS_StrictSubsetOrderingWellFounded
<1> HIDE DEF I, R
<1>4. PICK i \in I : \A j \in I : ~ (<<j, i>> \in R)
  BY <1>2, <1>3, WFMin
<1>5. PICK x \in T : i = 0..x
  BY DEF I
<1>6. ASSUME NEW y \in T, y < x PROVE FALSE
  <2>1. /\ 0..y \in I /\ 0..y \subseteq 0..x /\ 0..y # 0..x
        /\ 0..x \in SUBSET Nat /\ 0..y \in SUBSET Nat
    BY <1>6 DEF I
  <2>2. <<0..y, 0..x>> \in R
    BY <2>1 DEF R, StrictSubsetOrdering
  <2>3. QED
    BY <2>1, <2>2, <1>4, <1>5
<1>7. QED
  BY <1>6

\* The function that FlattenSeq defines over the first n members of s.
Flattens(f, s, n) ==
  f = [i \in 1..n |-> IF i = 1 THEN s[i] ELSE f[i - 1] \o s[i]]

\* What it computes for the i-th member.
LEMMA FlattensAt ==
  ASSUME NEW f, NEW s, NEW n \in Nat, Flattens(f, s, n), NEW i \in 1..n
  PROVE  f[i] = IF i = 1 THEN s[i] ELSE f[i - 1] \o s[i]
<1> DEFINE F(g, j) == IF j = 1 THEN s[j] ELSE g[j - 1] \o s[j]
<1>1. f = [j \in 1..n |-> F(f, j)]
  BY DEF Flattens
<1> HIDE DEF F
<1>2. f[i] = F(f, i)
  BY <1>1
<1>3. QED
  BY <1>2 DEF F

\* It exists.
LEMMA FlattensExists ==
  ASSUME NEW s, NEW n \in Nat
  PROVE  \E f : Flattens(f, s, n)
<1> DEFINE T == {m \in Nat : ~ \E f : Flattens(f, s, m)}
<1>1. ASSUME T # {} PROVE FALSE
  <2>1. PICK m \in T : \A k \in T : m <= k
    BY <1>1, LeastNat
  <2>2. CASE m = 0
    <3>1. Flattens([i \in 1..0 |-> 0], s, 0)
      BY DEF Flattens
    <3>2. QED
      BY <2>1, <2>2, <3>1
  <2>3. CASE m > 0
    <3>1. m - 1 \in Nat /\ m - 1 \notin T
      BY <2>1, <2>3
    <3>2. PICK g : Flattens(g, s, m - 1)
      BY <3>1
    <3> DEFINE f == [i \in 1..m |-> IF i < m THEN g[i]
                                    ELSE IF i = 1 THEN s[i] ELSE g[i - 1] \o s[i]]
    <3>3. ASSUME NEW i \in 1..m
          PROVE  f[i] = IF i = 1 THEN s[i] ELSE f[i - 1] \o s[i]
      <4>1. CASE i < m
        <5>1. i \in 1..(m - 1) /\ f[i] = g[i]
          BY <4>1, <3>1
        <5>2. g[i] = IF i = 1 THEN s[i] ELSE g[i - 1] \o s[i]
          BY <5>1, <3>2, FlattensAt
        <5>3. i # 1 => i - 1 \in 1..m /\ i - 1 < m
          BY <4>1, <3>1
        <5>4. i # 1 => f[i - 1] = g[i - 1]
          BY <5>3
        <5>5. QED
          BY <5>1, <5>2, <5>4
      <4>2. CASE i = m
        <5>1. i # 1 => i - 1 \in 1..m /\ i - 1 < m
          BY <4>2, <3>1
        <5>2. i # 1 => f[i - 1] = g[i - 1]
          BY <5>1
        <5>3. QED
          BY <4>2, <5>2
      <4>3. QED
        BY <4>1, <4>2, <3>1
    <3>4. f = [i \in 1..m |-> f[i]]
      OBVIOUS
    <3> HIDE DEF f
    <3>5. Flattens(f, s, m)
      BY <3>3, <3>4 DEF Flattens
    <3>6. QED
      BY <2>1, <3>5
  <2>4. QED
    BY <2>1, <2>2, <2>3
<1>2. QED
  BY <1>1

SameUpTo(s, t, n) == \A i \in 1..n : s[i] = t[i]

\* What it computes does not depend on the members after n.
LEMMA FlattensAgree ==
  ASSUME NEW s, NEW t, NEW n \in Nat, NEW m \in Nat, n <= m, SameUpTo(s, t, n),
         NEW f, NEW g, Flattens(f, s, n), Flattens(g, t, m)
  PROVE  SameUpTo(f, g, n)
<1> USE DEF SameUpTo
<1> DEFINE T == {i \in 1..n : f[i] # g[i]}
<1>1. ASSUME T # {} PROVE FALSE
  <2>0. T \in SUBSET Nat
    OBVIOUS
  <2>1. PICK k \in T : \A j \in T : k <= j
    <3> HIDE DEF T
    <3>1. QED
      BY <1>1, <2>0, LeastNat
  <2>2. f[k] = IF k = 1 THEN s[k] ELSE f[k - 1] \o s[k]
    BY <2>1, FlattensAt
  <2>3. g[k] = IF k = 1 THEN t[k] ELSE g[k - 1] \o t[k]
    <3>1. k \in 1..m
      BY <2>1
    <3>2. QED
      BY <3>1, FlattensAt
  <2>4. k # 1 => k - 1 \in 1..n /\ k - 1 \notin T
    BY <2>1
  <2>5. QED
    BY <2>1, <2>2, <2>3, <2>4
<1>2. QED
  BY <1>1

\* It computes sequences of the members' members.
LEMMA FlattensType ==
  ASSUME NEW X, NEW s \in Seq(Seq(X)), NEW f, Flattens(f, s, Len(s))
  PROVE  \A i \in 1..Len(s) : f[i] \in Seq(X)
<1> DEFINE T == {i \in 1..Len(s) : f[i] \notin Seq(X)}
<1>1. ASSUME T # {} PROVE FALSE
  <2>0. T \in SUBSET Nat
    OBVIOUS
  <2>1. PICK k \in T : \A j \in T : k <= j
    <3> HIDE DEF T
    <3>1. QED
      BY <1>1, <2>0, LeastNat
  <2>2. f[k] = IF k = 1 THEN s[k] ELSE f[k - 1] \o s[k]
    BY <2>1, FlattensAt
  <2>3. k # 1 => k - 1 \in 1..Len(s) /\ k - 1 \notin T
    BY <2>1
  <2>4. s[k] \in Seq(X) /\ f[k] \notin Seq(X)
    BY <2>1
  <2>5. k # 1 => f[k - 1] \in Seq(X)
    BY <2>3
  <2>6. k # 1 => f[k - 1] \o s[k] \in Seq(X)
    BY <2>4, <2>5
  <2>7. QED
    BY <2>2, <2>4, <2>6
<1>2. QED
  BY <1>1

\* FlattenSeq is its value at the end.
LEMMA FlattenSeqIs ==
  ASSUME NEW s, Len(s) \in Nat \ {0}
  PROVE  \E f : Flattens(f, s, Len(s)) /\ FlattenSeq(s) = f[Len(s)]
<1> DEFINE f == CHOOSE g : Flattens(g, s, Len(s))
<1>1. Flattens(f, s, Len(s))
  BY FlattensExists
<1>2. FlattenSeq(s) = f[Len(s)]
  BY Zenon DEF FlattenSeq, Flattens
<1>3. QED
  BY <1>1, <1>2

\* Flattening yields a sequence, and a file more comes at its end.
LEMMA FlattenAppend ==
  ASSUME NEW X, NEW s \in Seq(Seq(X)), NEW x \in Seq(X)
  PROVE  /\ FlattenSeq(s) \in Seq(X)
         /\ FlattenSeq(Append(s, x)) = FlattenSeq(s) \o x
<1> DEFINE t == Append(s, x)
           n == Len(s)
<1>1. /\ n \in Nat /\ t \in Seq(Seq(X)) /\ Len(t) = n + 1 /\ t[n + 1] = x
      /\ \A i \in 1..n : t[i] = s[i]
  OBVIOUS
<1> HIDE DEF t, n
<1>2. PICK g : Flattens(g, t, n + 1) /\ FlattenSeq(t) = g[n + 1]
  <2>1. Len(t) \in Nat \ {0}
    BY <1>1
  <2>2. QED
    BY <1>1, <2>1, FlattenSeqIs
<1>3. g[n + 1] = IF n + 1 = 1 THEN t[n + 1] ELSE g[(n + 1) - 1] \o t[n + 1]
  <2>1. n + 1 \in Nat /\ n + 1 \in 1..(n + 1)
    BY <1>1
  <2>2. QED
    BY <1>2, <2>1, FlattensAt
<1>4. CASE n = 0
  <2>1. s = <<>> /\ FlattenSeq(s) = s
    BY <1>4 DEF FlattenSeq, n
  <2>2. g[n + 1] = x
    BY <1>1, <1>3, <1>4
  <2>3. <<>> \o x = x /\ <<>> \in Seq(X)
    OBVIOUS
  <2>4. QED
    BY <1>2, <2>1, <2>2, <2>3 DEF t
<1>5. CASE n # 0
  <2>1. PICK f : Flattens(f, s, n) /\ FlattenSeq(s) = f[n]
    BY <1>1, <1>5, FlattenSeqIs DEF n
  <2>2. SameUpTo(f, g, n)
    <3> DEFINE m == n + 1
    <3>1. m \in Nat /\ n <= m /\ Flattens(g, t, m)
      BY <1>1, <1>2
    <3>2. SameUpTo(s, t, n)
      BY <1>1 DEF SameUpTo
    <3> HIDE DEF m
    <3>3. n \in Nat /\ Flattens(f, s, n)
      BY <1>1, <2>1
    <3>4. QED
      BY <3>1, <3>2, <3>3, FlattensAgree
  <2>3. f[n] = g[n]
    BY <1>1, <1>5, <2>2 DEF SameUpTo
  <2>4. f[n] \in Seq(X)
    BY <1>1, <1>5, <2>1, FlattensType DEF n
  <2>5. g[n + 1] = g[n] \o x
    BY <1>1, <1>3, <1>5
  <2>6. QED
    BY <1>2, <2>1, <2>3, <2>4, <2>5 DEF t
<1>6. QED
  BY <1>4, <1>5

-----------------------------------------------------------------------------
(* The recorder *)

Packet == [s : Nat, i : Nat]

\* The last packet taken from the demuxer's channel, if none was lost.
Taken == pos - Len(inbox)

IsSegment(w) ==
  /\ w = [open |-> w.open, base |-> w.base, start |-> w.start, packets |-> w.packets]
  /\ w.open \in BOOLEAN /\ w.packets \in Seq(Packet)
  /\ ~w.open => w.packets = <<>>

RecType ==
  /\ rpc \in {"off", "check", "open", "loop", "send", "failed", "done"}
  /\ sess \in Nat /\ pos \in 0..(Len(Script) + 1)
  /\ inbox \in Seq(Nat) /\ Len(inbox) <= pos
  /\ lagged \in BOOLEAN /\ intact \in BOOLEAN
  /\ IsSegment(writer)
  /\ files \in Seq(Seq(Packet)) /\ kept \in Seq(Packet)

\* Unless some were lost, the channel holds the packets after the last one
\* taken, the end of the stream after the last of the script.
InboxOk ==
  rpc \in {"loop", "send"} /\ ~lagged =>
    \A k \in 1..Len(inbox) :
      inbox[k] = IF Taken + k = Len(Script) + 1 THEN 0 ELSE Taken + k

\* A file that a player can begin with, and without a hole.
Piece(f) ==
  /\ f # <<>>
  /\ HasVideo => Script[f[1].i] = "key"
  /\ \A m \in 1..(Len(f) - 1) : Follows(f[m], f[m + 1])

\* Nothing wanted was taken after packet p.
NothingSince(p) == p.i <= Taken /\ \A j \in (p.i + 1)..Taken : ~Wanted(Script[j])

LastWritten == Last(Last(files))

\* The open segment is such a file up to the last packet taken, and adjoins the
\* file before it if that one is of the same session.
WriterOk ==
  writer.open =>
    /\ rpc = "loop" /\ Piece(writer.packets)
    /\ writer.packets[1].s = sess /\ Last(writer.packets).s = sess
    /\ ~lagged => NothingSince(Last(writer.packets))
    /\ intact /\ files # <<>> /\ LastWritten.s = sess => Follows(LastWritten, writer.packets[1])

\* A rotation that waits for room in the announcements has the packet at hand
\* that follows the finished file.
RotationOk ==
  rpc = "send" /\ pend.then = "loop" =>
    /\ pend.packet \in 1..Len(Script) /\ IsSplitPoint(Script[pend.packet])
    /\ files # <<>> /\ Follows(LastWritten, [s |-> sess, i |-> pend.packet])
    /\ ~lagged => Taken = pend.packet

\* After any other announcement the session is over.
PendOk == rpc = "send" => pend.then \in {"loop", "done", "failed"}

\* A session without an open segment has finished none so far, unless the disk
\* failed.
SessionOk ==
  files # <<>> =>
    /\ LastWritten.s <= sess
    /\ rpc = "loop" /\ ~writer.open /\ intact => LastWritten.s < sess

RecorderInv ==
  /\ RecType /\ InboxOk /\ WriterOk /\ RotationOk /\ PendOk /\ SessionOk
  /\ SegmentsSeamless /\ WrittenIsFinished

\* The configuration never changes, and what is wanted with it.
LEMMA ConfFixed ==
  ASSUME conf' = conf
  PROVE  /\ HasVideo' <=> HasVideo
         /\ \A k : Wanted(k)' <=> Wanted(k)
         /\ \A k : IsSplitPoint(k)' <=> IsSplitPoint(k)
         /\ \A p, q : Follows(p, q)' <=> Follows(p, q)
         /\ \A f : Piece(f)' <=> Piece(f)
BY DEF HasVideo, Wanted, IsSplitPoint, Follows, Piece

\* SegmentsSeamless in terms of Piece.
LEMMA SeamlessIs ==
  SegmentsSeamless <=>
    \A n \in 1..Len(files) :
      /\ Piece(files[n])
      /\ n > 1 /\ intact /\ Last(files[n - 1]).s = files[n][1].s
           => Follows(Last(files[n - 1]), files[n][1])
BY DEF SegmentsSeamless, Piece

\* The script is a sequence.
LEMMA ScriptLength == Len(Script) \in Nat
BY RecorderAssumption

\* Nothing is in a segment that is not open.
LEMMA NoSegmentIs ==
  IsSegment(NoSegment) /\ ~NoSegment.open /\ NoSegment.packets = <<>>
BY DEF IsSegment, NoSegment

\* The last packet of the last file is one.
LEMMA LastWrittenIs ==
  ASSUME RecorderInv, files # <<>>
  PROVE  LastWritten \in Packet
<1>1. files \in Seq(Seq(Packet)) /\ Len(files) \in 1..Len(files)
  BY DEF RecorderInv, RecType
<1>2. files[Len(files)] \in Seq(Packet) /\ files[Len(files)] # <<>>
  BY <1>1, SeamlessIs DEF RecorderInv, Piece
<1>3. QED
  BY <1>2 DEF LastWritten, Last

\* The invariant holds before the recorder runs.
LEMMA RecorderStarts ==
  ASSUME NEW on \in BOOLEAN, RecInit(on)
  PROVE  RecorderInv
<1>1. RecType
  <2>1. IsSegment(writer)
    BY NoSegmentIs DEF RecInit
  <2>2. files \in Seq(Seq(Packet)) /\ kept \in Seq(Packet) /\ inbox \in Seq(Nat)
    BY DEF RecInit
  <2>3. rpc \in {"off", "check"} /\ Len(inbox) = 0 /\ pos = 0 /\ sess = 0
    BY DEF RecInit
  <2>4. pos \in 0..(Len(Script) + 1) /\ Len(inbox) <= pos /\ sess \in Nat
    BY <2>3, ScriptLength
  <2>5. lagged \in BOOLEAN /\ intact \in BOOLEAN
    BY DEF RecInit
  <2>6. QED
    BY <2>1, <2>2, <2>3, <2>4, <2>5 DEF RecType
<1>2. FlattenSeq(<<>>) = <<>>
  BY DEF FlattenSeq
<1>3. WrittenIsFinished
  BY <1>2 DEF RecInit, WrittenIsFinished, NoSegment
<1>4. QED
  BY <1>1, <1>3
  DEF RecInit, RecorderInv, InboxOk, WriterOk, RotationOk, PendOk, SessionOk, SegmentsSeamless, NoSegment

\* What is finished does not depend on where the reader is.
LEMMA FinishedStays ==
  ASSUME RecorderInv, UNCHANGED <<conf, writer, files, kept>>,
         intact' \in BOOLEAN, intact' => intact
  PROVE  SegmentsSeamless' /\ WrittenIsFinished'
<1>1. SegmentsSeamless /\ WrittenIsFinished
  BY DEF RecorderInv
<1>2. SegmentsSeamless'
  BY <1>1, ConfFixed, SeamlessIs DEF SegmentsSeamless, Piece
<1>3. WrittenIsFinished'
  BY <1>1 DEF WrittenIsFinished
<1>4. QED
  BY <1>2, <1>3

\* Steps outside the loop, and those that touch nothing the invariant is about.
LEMMA QuietKeepsRecorder ==
  ASSUME RecorderInv,
         UNCHANGED <<conf, sess, pos, inbox, lagged, writer, pend, files, kept, intact>>,
         rpc' = rpc \/ (~writer.open /\ rpc' \in {"check", "open", "failed", "done"})
  PROVE  RecorderInv'
<1> USE DEF RecorderInv
<1>1. RecType'
  BY DEF RecType, IsSegment
<1>2. InboxOk'
  BY DEF InboxOk, Taken
<1>3. WriterOk'
  BY ConfFixed DEF WriterOk, NothingSince, LastWritten, Taken, RecType, IsSegment
<1>4. RotationOk' /\ PendOk'
  BY ConfFixed DEF RotationOk, PendOk, LastWritten, Taken
<1>5. SessionOk'
  BY DEF SessionOk, LastWritten
<1>6. QED
  BY <1>1, <1>2, <1>3, <1>4, <1>5, FinishedStays DEF RecType

\* A session begins with nothing open.
LEMMA OpenKeepsRecorder ==
  ASSUME RecorderInv, OpenSource(MaxSessions)
  PROVE  RecorderInv'
<1>1. RecType /\ ~writer.open /\ conf' = conf
  BY DEF RecorderInv, OpenSource, WriterOk, RecType, IsSegment
<1>2. CASE rpc' = "failed" /\ UNCHANGED <<sess, pos, inbox, lagged, writer>>
  BY <1>1, <1>2, QuietKeepsRecorder DEF stored, OpenSource
<1>3. CASE /\ rpc' = "loop" /\ sess' = sess + 1 /\ pos' = 0
           /\ inbox' = <<>> /\ lagged' = FALSE /\ writer' = NoSegment
  <2>1. RecType'
    <3>1. IsSegment(writer)'
      BY <1>3, NoSegmentIs DEF IsSegment
    <3>2. inbox' \in Seq(Nat) /\ Len(inbox') = 0
      BY <1>3
    <3>3. UNCHANGED <<files, kept, intact>>
      BY DEF stored, OpenSource
    <3>4. pos' \in 0..(Len(Script) + 1) /\ Len(inbox') <= pos' /\ sess' \in Nat
      BY <1>1, <1>3, <3>2, ScriptLength DEF RecType
    <3>5. QED
      BY <1>1, <1>3, <3>1, <3>2, <3>3, <3>4 DEF RecType
  <2>2. InboxOk' /\ WriterOk' /\ RotationOk' /\ PendOk'
    BY <1>3, NoSegmentIs DEF InboxOk, WriterOk, RotationOk, PendOk
  <2>3. SessionOk'
    <3>1. files # <<>> => LastWritten \in Packet
      BY LastWrittenIs
    <3>2. QED
      BY <1>1, <1>3, <3>1 DEF stored, OpenSource, RecorderInv, RecType, SessionOk, LastWritten, Packet
  <2>4. SegmentsSeamless'
    BY <1>1, ConfFixed, SeamlessIs DEF stored, OpenSource, RecorderInv, SegmentsSeamless
  <2>5. WrittenIsFinished'
    BY <1>1, <1>3, NoSegmentIs DEF stored, OpenSource, RecorderInv, RecType, IsSegment, WrittenIsFinished
  <2>6. QED
    BY <2>1, <2>2, <2>3, <2>4, <2>5 DEF RecorderInv
<1>4. QED
  BY <1>2, <1>3 DEF stored, OpenSource

\* The demuxer publishes behind what was taken; when a packet is lost, lagged
\* says so.
LEMMA PublishKeepsRecorder ==
  ASSUME RecorderInv, Publish
  PROVE  RecorderInv'
<1>1. /\ RecType /\ InboxOk /\ WriterOk /\ RotationOk /\ PendOk /\ SessionOk
      /\ UNCHANGED <<conf, rpc, sess, writer, pend, files, kept, intact>>
      /\ pos' = pos + 1 /\ pos \in 0..Len(Script)
      /\ Len(Script) \in Nat /\ InboxCap \in Nat \ {0}
  BY RecorderAssumption DEF RecorderInv, RecType, Publish, stored
<1>2. CASE Len(inbox) = InboxCap
  <2> DEFINE cmd == IF pos = Len(Script) THEN 0 ELSE pos + 1
             all == Append(inbox, cmd)
  <2>1. inbox' = Tail(all) /\ lagged' = TRUE
    BY <1>2 DEF Publish
  <2>2. all \in Seq(Nat) /\ Len(all) = Len(inbox) + 1
    BY <1>1 DEF RecType
  <2>3. inbox' \in Seq(Nat) /\ Len(inbox') = Len(inbox)
    BY <2>1, <2>2
  <2>4. RecType'
    <3>1. IsSegment(writer)'
      BY <1>1 DEF RecType, IsSegment
    <3>2. QED
      BY <1>1, <2>1, <2>3, <3>1 DEF RecType
  <2>5. InboxOk' /\ WriterOk' /\ RotationOk' /\ PendOk' /\ SessionOk'
    BY <1>1, <2>1, ConfFixed DEF InboxOk, WriterOk, RotationOk, PendOk, SessionOk, LastWritten
  <2>6. QED
    BY <1>1, <2>4, <2>5, FinishedStays DEF RecorderInv, RecType
<1>3. CASE Len(inbox) # InboxCap
  <2> DEFINE cmd == IF pos = Len(Script) THEN 0 ELSE pos + 1
  <2>1. inbox' = Append(inbox, cmd) /\ (lagged' <=> lagged) /\ lagged' \in BOOLEAN
    BY <1>1, <1>3 DEF Publish, RecType
  <2>2. cmd \in Nat
    BY <1>1
  <2>3. /\ inbox' \in Seq(Nat) /\ Len(inbox') = Len(inbox) + 1 /\ inbox'[Len(inbox) + 1] = cmd
        /\ \A k \in 1..Len(inbox) : inbox'[k] = inbox[k]
    BY <1>1, <2>1, <2>2 DEF RecType
  <2>4. RecType'
    BY <1>1, <2>1, <2>3 DEF RecType, IsSegment
  <2>5. Taken' = Taken /\ Taken + Len(inbox) + 1 = pos + 1
    BY <1>1, <2>3 DEF Taken, RecType
  <2>6. InboxOk'
    <3>1. SUFFICES ASSUME rpc \in {"loop", "send"}, ~lagged, NEW k \in 1..Len(inbox')
                   PROVE  inbox'[k] = IF Taken + k = Len(Script) + 1 THEN 0 ELSE Taken + k
      BY <1>1, <2>1, <2>5 DEF InboxOk
    <3>2. CASE k \in 1..Len(inbox)
      BY <1>1, <2>3, <3>1, <3>2 DEF InboxOk
    <3>3. CASE k = Len(inbox) + 1
      <4>1. Taken + k = pos + 1 /\ inbox'[k] = cmd
        BY <1>1, <2>3, <2>5, <3>3 DEF Taken, RecType
      <4>2. QED
        BY <1>1, <4>1
    <3>4. QED
      BY <1>1, <2>3, <3>2, <3>3 DEF RecType
  <2>7. WriterOk' /\ RotationOk' /\ PendOk' /\ SessionOk'
    BY <1>1, <2>1, <2>5, ConfFixed DEF WriterOk, RotationOk, PendOk, SessionOk, LastWritten, NothingSince
  <2>8. QED
    BY <1>1, <2>4, <2>6, <2>7, FinishedStays DEF RecorderInv, RecType
<1>4. QED
  BY <1>2, <1>3

\* A file more, which is in order and adjoins the one before it.
LEMMA FileKeepsSeams ==
  ASSUME RecorderInv, writer.open, UNCHANGED <<conf, intact>>,
         files' = Append(files, writer.packets)
  PROVE  /\ files' \in Seq(Seq(Packet)) /\ files' # <<>>
         /\ LastWritten' = Last(writer.packets)
         /\ SegmentsSeamless'
         /\ FlattenSeq(files') = FlattenSeq(files) \o writer.packets
<1>1. /\ files \in Seq(Seq(Packet)) /\ writer.packets \in Seq(Packet)
      /\ Piece(writer.packets) /\ writer.packets[1].s = sess
      /\ intact /\ files # <<>> /\ LastWritten.s = sess => Follows(LastWritten, writer.packets[1])
  BY DEF RecorderInv, RecType, IsSegment, WriterOk
<1>2. /\ files' \in Seq(Seq(Packet)) /\ Len(files') = Len(files) + 1
      /\ files'[Len(files) + 1] = writer.packets
      /\ \A n \in 1..Len(files) : files'[n] = files[n]
  BY <1>1
<1>3. LastWritten' = Last(writer.packets)
  BY <1>2 DEF LastWritten, Last
<1>4. SegmentsSeamless'
  <2>1. SUFFICES ASSUME NEW n \in 1..Len(files')
                 PROVE  /\ Piece(files'[n])
                        /\ n > 1 /\ intact /\ Last(files'[n - 1]).s = files'[n][1].s
                             => Follows(Last(files'[n - 1]), files'[n][1])
    BY ConfFixed DEF SegmentsSeamless, Piece
  <2>2. CASE n \in 1..Len(files)
    <3>1. n > 1 => n - 1 \in 1..Len(files)
      BY <1>1, <2>2
    <3>2. files'[n] = files[n] /\ (n > 1 => files'[n - 1] = files[n - 1])
      BY <1>2, <2>2, <3>1
    <3>3. QED
      BY <2>2, <3>2, SeamlessIs DEF RecorderInv
  <2>3. CASE n = Len(files) + 1
    <3>1. n > 1 => files # <<>> /\ files'[n - 1] = files[Len(files)]
      BY <1>1, <1>2, <2>3
    <3>2. QED
      BY <1>1, <1>2, <2>3, <3>1 DEF LastWritten, Last
  <2>4. QED
    BY <1>1, <1>2, <2>2, <2>3
<1>5. FlattenSeq(files') = FlattenSeq(files) \o writer.packets
  BY <1>1, FlattenAppend
<1>6. files' # <<>>
  <2>1. Len(files') # 0
    BY <1>1, <1>2
  <2>2. QED
    BY <2>1
<1>7. QED
  BY <1>2, <1>3, <1>4, <1>5, <1>6

\* The open segment is finished: on a stop, on a drop, and at a rotation.
LEMMA CloseKeepsRecorder ==
  ASSUME RecorderInv, rpc = "loop", NEW next \in {"done", "failed"}, CloseWriter(next),
         UNCHANGED <<conf, sess, pos, inbox, lagged, kept, intact>>
  PROVE  RecorderInv'
<1>1. RecType /\ SessionOk /\ WriterOk
  BY DEF RecorderInv
<1>2. IsSegment(writer)' /\ writer'.open = FALSE /\ writer'.packets = <<>>
  <2>1. CASE writer.open
    BY <2>1, NoSegmentIs DEF CloseWriter, Finish, IsSegment
  <2>2. CASE ~writer.open
    BY <1>1, <2>2 DEF CloseWriter, RecType, IsSegment
  <2>3. QED
    BY <2>1, <2>2
<1>3. CASE writer.open
  <2>1. /\ files' = Append(files, writer.packets)
        /\ pend' = [NoPend EXCEPT !.then = next] /\ rpc' = "send"
    BY <1>3 DEF CloseWriter, Finish
  <2>2. pend'.then = next
    BY <2>1 DEF NoPend
  <2>3. RecType'
    BY <1>1, <1>2, <1>3, <2>1, FileKeepsSeams DEF RecType
  <2>4. InboxOk'
    BY <2>1 DEF RecorderInv, InboxOk, Taken
  <2>5. WriterOk' /\ RotationOk' /\ PendOk'
    BY <1>2, <2>2 DEF WriterOk, RotationOk, PendOk
  <2>6. SessionOk'
    BY <1>1, <1>3, <2>1, FileKeepsSeams DEF RecType, SessionOk, WriterOk
  <2>7. WrittenIsFinished'
    <3>1. FlattenSeq(files) \o writer.packets \in Seq(Packet)
      BY <1>1, FlattenAppend DEF RecType, IsSegment
    <3>2. (FlattenSeq(files) \o writer.packets) \o <<>> = FlattenSeq(files) \o writer.packets
      BY <3>1
    <3>3. QED
      BY <1>2, <1>3, <2>1, <3>2, FileKeepsSeams DEF RecorderInv, WrittenIsFinished
  <2>8. QED
    BY <1>3, <2>1, <2>3, <2>4, <2>5, <2>6, <2>7, FileKeepsSeams DEF RecorderInv
<1>4. CASE ~writer.open
  <2>1. rpc' = next /\ UNCHANGED <<pend, files>>
    BY <1>4 DEF CloseWriter
  <2>2. RecType'
    BY <1>1, <1>2, <2>1 DEF RecType
  <2>3. InboxOk' /\ WriterOk' /\ RotationOk' /\ PendOk'
    BY <1>2, <2>1 DEF InboxOk, WriterOk, RotationOk, PendOk
  <2>4. SessionOk'
    BY <1>1, <2>1 DEF SessionOk, LastWritten
  <2>5. SegmentsSeamless'
    BY <2>1, ConfFixed, SeamlessIs DEF RecorderInv, SegmentsSeamless, Piece
  <2>6. WrittenIsFinished'
    BY <1>1, <1>2, <1>4, <2>1 DEF RecorderInv, WrittenIsFinished, RecType, IsSegment
  <2>7. QED
    BY <2>2, <2>3, <2>4, <2>5, <2>6 DEF RecorderInv
<1>5. QED
  BY <1>3, <1>4 DEF RecType

\* A disk error gives up what is not finished.
LEMMA DiskKeepsRecorder ==
  ASSUME RecorderInv, DiskError
  PROVE  RecorderInv'
<1>1. IsSegment(writer)' /\ writer'.open = FALSE
  BY NoSegmentIs DEF DiskError, IsSegment
<1>2. RecType'
  BY <1>1 DEF RecorderInv, stored, DiskError, RecType
<1>3. InboxOk' /\ WriterOk' /\ RotationOk' /\ PendOk' /\ SessionOk'
  BY <1>1 DEF RecorderInv, stored, DiskError, InboxOk, WriterOk, RotationOk, PendOk, SessionOk, LastWritten
<1>4. SegmentsSeamless'
  BY ConfFixed, SeamlessIs DEF RecorderInv, stored, DiskError, SegmentsSeamless, Piece
<1>5. WrittenIsFinished'
  BY DEF stored, DiskError, WrittenIsFinished
<1>6. QED
  BY <1>2, <1>3, <1>4, <1>5 DEF RecorderInv

\* A packet put into a segment.
LEMMA PutIs ==
  ASSUME NEW w, IsSegment(w), w.open = TRUE, NEW i \in Nat, sess \in Nat
  PROVE  /\ IsSegment(Put(w, i)) /\ Put(w, i).open = TRUE /\ Put(w, i).start = w.start
         /\ Put(w, i).packets = Append(w.packets, [s |-> sess, i |-> i])
<1> DEFINE p == [s |-> sess, i |-> i]
           v == [open |-> w.open, base |-> w.base, start |-> w.start,
                 packets |-> Append(w.packets, p)]
<1>1. Put(w, i) = v
  <2>1. \A a, b, c, d, e :
          [[open |-> a, base |-> b, start |-> c, packets |-> d] EXCEPT !.packets = e] =
            [open |-> a, base |-> b, start |-> c, packets |-> e]
    OBVIOUS
  <2>2. w = [open |-> w.open, base |-> w.base, start |-> w.start, packets |-> w.packets]
    BY DEF IsSegment
  <2>3. Put(w, i) = [w EXCEPT !.packets = Append(w.packets, p)]
    BY DEF Put
  <2>4. QED
    BY <2>1, <2>2, <2>3
<1>2. Append(w.packets, p) \in Seq(Packet)
  BY DEF IsSegment, Packet
<1>3. /\ v.open = TRUE /\ v.packets = Append(w.packets, p) /\ v.start = w.start
      /\ v = [open |-> v.open, base |-> v.base, start |-> v.start, packets |-> v.packets]
  OBVIOUS
<1> HIDE DEF v, p
<1>4. IsSegment(v)
  BY <1>2, <1>3 DEF IsSegment
<1>5. QED
  BY <1>1, <1>3, <1>4 DEF p

\* A new segment with its first packet.
LEMMA FirstPutIs ==
  ASSUME NEW i \in Nat, NEW now, sess \in Nat
  PROVE  /\ IsSegment(Put(OpenSegment(i, now), i))
         /\ Put(OpenSegment(i, now), i).open = TRUE
         /\ Put(OpenSegment(i, now), i).start = now
         /\ Put(OpenSegment(i, now), i).packets = <<[s |-> sess, i |-> i]>>
<1> DEFINE o == OpenSegment(i, now)
           p == [s |-> sess, i |-> i]
<1>1. IsSegment(o) /\ o.open = TRUE /\ o.packets = <<>> /\ o.start = now
  BY DEF IsSegment, OpenSegment
<1>2. Append(<<>>, p) = <<p>>
  OBVIOUS
<1> HIDE DEF o
<1>3. QED
  BY <1>1, <1>2, PutIs DEF o

\* The packet at hand is the one after the last one taken.
LEMMA TakeIs ==
  ASSUME RecorderInv, rpc = "loop", ~SessionEnds, inbox # <<>>, inbox' = Tail(inbox), pos' = pos
  PROVE  /\ ~lagged /\ Taken \in Nat /\ Taken' = Taken + 1
         /\ Head(inbox) = Taken + 1 /\ Head(inbox) \in 1..Len(Script)
         /\ inbox' \in Seq(Nat) /\ Len(inbox') <= pos
         /\ \A k \in 1..Len(inbox') :
              inbox'[k] = IF Taken' + k = Len(Script) + 1 THEN 0 ELSE Taken' + k
<1>1. /\ ~lagged /\ Head(inbox) # 0 /\ inbox \in Seq(Nat) /\ Len(inbox) <= pos
      /\ pos \in 0..(Len(Script) + 1) /\ Len(Script) \in Nat
  BY ScriptLength DEF SessionEnds, RecorderInv, RecType
<1>2. /\ Len(inbox) \in Nat \ {0} /\ Head(inbox) = inbox[1]
      /\ inbox' \in Seq(Nat) /\ Len(inbox') = Len(inbox) - 1
      /\ \A k \in 1..Len(inbox') : inbox'[k] = inbox[k + 1]
  BY <1>1
<1>3. Taken \in Nat /\ Taken' = Taken + 1 /\ Taken + Len(inbox) = pos
  BY <1>1, <1>2 DEF Taken
<1>4. \A k \in 1..Len(inbox) : inbox[k] = IF Taken + k = Len(Script) + 1 THEN 0 ELSE Taken + k
  BY <1>1 DEF RecorderInv, InboxOk
<1>5. inbox[1] = IF Taken + 1 = Len(Script) + 1 THEN 0 ELSE Taken + 1
  BY <1>2, <1>4
<1>6. Head(inbox) = Taken + 1 /\ Head(inbox) \in 1..Len(Script)
  BY <1>1, <1>2, <1>3, <1>5
<1>7. ASSUME NEW k \in 1..Len(inbox')
      PROVE  inbox'[k] = IF Taken' + k = Len(Script) + 1 THEN 0 ELSE Taken' + k
  <2>1. k + 1 \in 1..Len(inbox) /\ Taken' + k = Taken + (k + 1)
    BY <1>2, <1>3
  <2>2. QED
    BY <1>2, <1>4, <2>1
<1>8. QED
  BY <1>1, <1>2, <1>3, <1>6, <1>7

\* A file of one packet.
LEMMA PieceOne ==
  ASSUME NEW p \in Packet, IsSplitPoint(Script[p.i])
  PROVE  Piece(<<p>>) /\ Last(<<p>>) = p /\ <<p>>[1] = p
BY DEF Piece, Last, IsSplitPoint

\* A file with the packet that follows.
LEMMA PieceAppend ==
  ASSUME NEW f \in Seq(Packet), Piece(f), NEW p \in Packet, Follows(Last(f), p)
  PROVE  Piece(Append(f, p)) /\ Last(Append(f, p)) = p /\ Append(f, p)[1] = f[1]
<1> DEFINE g == Append(f, p)
<1>1. /\ Len(f) \in Nat \ {0} /\ Len(g) = Len(f) + 1 /\ g[Len(f) + 1] = p
      /\ \A m \in 1..Len(f) : g[m] = f[m]
  BY DEF Piece
<1>2. g # <<>> /\ g[1] = f[1] /\ Last(g) = p
  BY <1>1 DEF Last
<1> HIDE DEF g
<1>3. ASSUME NEW m \in 1..(Len(g) - 1)
      PROVE  Follows(g[m], g[m + 1])
  <2>1. CASE m = Len(f)
    BY <1>1, <2>1 DEF Last
  <2>2. CASE m \in 1..(Len(f) - 1)
    <3>1. g[m] = f[m] /\ g[m + 1] = f[m + 1]
      BY <1>1, <2>2
    <3>2. QED
      BY <2>2, <3>1 DEF Piece
  <2>3. QED
    BY <1>1, <2>1, <2>2
<1>4. Piece(g)
  BY <1>2, <1>3 DEF Piece
<1>5. QED
  BY <1>2, <1>4 DEF g

\* The packet at hand follows the last one written if none was wanted since.
LEMMA NextFollows ==
  ASSUME NEW q \in Packet, q.s = sess, NothingSince(q), Taken \in Nat
  PROVE  Follows(q, [s |-> sess, i |-> Taken + 1])
BY DEF Follows, NothingSince, Packet

\* What is appended to the second of two sequences is appended to both.
LEMMA AppendConcat ==
  ASSUME NEW a \in Seq(Packet), NEW b \in Seq(Packet), NEW p \in Packet
  PROVE  Append(a \o b, p) = a \o Append(b, p)
<1> DEFINE l == Append(a \o b, p)
           r == a \o Append(b, p)
           k == Len(a) + Len(b)
<1>1. /\ l \in Seq(Packet) /\ r \in Seq(Packet) /\ Len(l) = k + 1 /\ Len(r) = k + 1
      /\ Len(a) \in Nat /\ Len(b) \in Nat
  OBVIOUS
<1>2. ASSUME NEW n \in 1..Len(a) PROVE l[n] = r[n]
  <2>1. (a \o b)[n] = a[n] /\ r[n] = a[n] /\ n \in 1..k
    BY <1>1
  <2>2. l[n] = (a \o b)[n]
    BY <2>1
  <2>3. QED
    BY <2>1, <2>2
<1>3. ASSUME NEW n \in Len(a) + 1..k PROVE l[n] = r[n]
  <2>1. n - Len(a) \in 1..Len(b) /\ n \in 1..k
    BY <1>1
  <2>2. (a \o b)[n] = b[n - Len(a)] /\ l[n] = (a \o b)[n]
    BY <1>1, <2>1
  <2>3. r[n] = Append(b, p)[n - Len(a)] /\ Append(b, p)[n - Len(a)] = b[n - Len(a)]
    BY <1>1, <2>1
  <2>4. QED
    BY <2>2, <2>3
<1>4. l[k + 1] = p /\ r[k + 1] = p
  <2>1. l[k + 1] = p
    BY <1>1
  <2>2. r[k + 1] = Append(b, p)[Len(b) + 1]
    BY <1>1
  <2>3. QED
    BY <2>1, <2>2
<1>5. \A n \in 1..Len(l) : l[n] = r[n]
  <2> SUFFICES ASSUME NEW n \in 1..Len(l) PROVE l[n] = r[n]
    OBVIOUS
  <2>1. n \in 1..Len(a) \/ n \in Len(a) + 1..k \/ n = k + 1
    BY <1>1
  <2>2. QED
    BY <2>1, <1>2, <1>3, <1>4
<1> HIDE DEF l, r, k
<1>6. l = r
  BY <1>1, <1>5
<1>7. QED
  BY <1>6 DEF l, r

\* A packet written to the open segment is the next one kept.
LEMMA KeptGrows ==
  ASSUME RecorderInv, NEW p \in Packet, UNCHANGED <<files, intact>>,
         writer'.packets = Append(writer.packets, p), kept' = Append(kept, p)
  PROVE  WrittenIsFinished'
<1>1. /\ FlattenSeq(files) \in Seq(Packet) /\ writer.packets \in Seq(Packet)
      /\ kept \in Seq(Packet) /\ files \in Seq(Seq(Packet))
  BY FlattenAppend DEF RecorderInv, RecType, IsSegment
<1>2. Append(FlattenSeq(files) \o writer.packets, p) = FlattenSeq(files) \o Append(writer.packets, p)
  BY <1>1, AppendConcat
<1>3. QED
  BY <1>1, <1>2 DEF RecorderInv, WrittenIsFinished

\* The loop takes a packet.
LEMMA PacketKeepsRecorder ==
  ASSUME RecorderInv, LoopPacket
  PROVE  RecorderInv'
<1> DEFINE i == Head(inbox)
           k == Script[i]
           p == [s |-> sess, i |-> i]
<1>1. /\ RecType /\ InboxOk /\ WriterOk /\ SessionOk
      /\ rpc = "loop" /\ ~SessionEnds /\ inbox # <<>> /\ inbox' = Tail(inbox)
      /\ UNCHANGED <<conf, sess, pos, lagged, intact>>
  BY DEF RecorderInv, LoopPacket
<1>2. /\ ~lagged /\ Taken \in Nat /\ Taken' = Taken + 1
      /\ i = Taken + 1 /\ i \in 1..Len(Script)
      /\ inbox' \in Seq(Nat) /\ Len(inbox') <= pos
      /\ \A n \in 1..Len(inbox') :
           inbox'[n] = IF Taken' + n = Len(Script) + 1 THEN 0 ELSE Taken' + n
  BY <1>1, TakeIs
<1>3. InboxOk'
  BY <1>1, <1>2 DEF InboxOk
<1>4. p \in Packet /\ p.s = sess /\ p.i = i
  BY <1>1, <1>2, ScriptLength DEF RecType, Packet
<1>5. ASSUME writer.open PROVE Last(writer.packets) \in Packet
  BY <1>1, <1>5 DEF WriterOk, Piece, RecType, IsSegment, Last
<1> HIDE DEF i, p
<1>6. CASE (~Wanted(k) \/ (~writer.open /\ ~IsSplitPoint(k)))
           /\ UNCHANGED <<rpc, writer, pend, files, kept>>
  <2>1. RecType'
    <3>1. IsSegment(writer)'
      BY <1>1, <1>6 DEF RecType, IsSegment
    <3>2. QED
      BY <1>1, <1>2, <1>6, <3>1 DEF RecType
  <2>2. WriterOk'
    <3>1. ASSUME writer.open PROVE NothingSince(Last(writer.packets))'
      <4>1. ~Wanted(Script[Taken + 1]) /\ NothingSince(Last(writer.packets))
        BY <1>1, <1>2, <1>6, <3>1 DEF WriterOk, i
      <4>2. Last(writer.packets).i \in Nat
        BY <1>5, <3>1 DEF Packet
      <4>3. writer' = writer
        BY <1>6
      <4>4. QED
        BY <1>1, <1>2, <4>1, <4>2, <4>3, ConfFixed DEF NothingSince
    <3>2. QED
      BY <1>1, <1>6, <3>1, ConfFixed DEF WriterOk, LastWritten
  <2>3. RotationOk' /\ PendOk' /\ SessionOk'
    BY <1>1, <1>6 DEF RotationOk, PendOk, SessionOk, LastWritten
  <2>4. QED
    BY <1>1, <1>3, <1>6, <2>1, <2>2, <2>3, FinishedStays DEF RecorderInv, RecType
<1>7. CASE /\ Wanted(k) /\ ~writer.open /\ IsSplitPoint(k)
           /\ writer' = Put(OpenSegment(i, clock), i)
           /\ kept' = Append(kept, p)
           /\ UNCHANGED <<rpc, pend, files>>
  <2>1. IsSegment(writer') /\ writer'.open = TRUE /\ writer'.packets = <<p>>
    <3>1. i \in Nat /\ sess \in Nat
      BY <1>1, <1>2, ScriptLength DEF RecType
    <3>2. QED
      BY <1>7, <3>1, FirstPutIs DEF p
  <2>2. RecType'
    <3>1. IsSegment(writer)'
      BY <2>1 DEF IsSegment
    <3>2. kept' \in Seq(Packet)
      BY <1>1, <1>4, <1>7 DEF RecType
    <3>3. QED
      BY <1>1, <1>2, <1>7, <3>1, <3>2 DEF RecType
  <2>3. Piece(<<p>>) /\ Last(<<p>>) = p /\ <<p>>[1] = p
    BY <1>4, <1>7, PieceOne
  <2>4. NothingSince(Last(writer.packets))'
    BY <1>2, <1>4, <2>1, <2>3 DEF NothingSince
  <2>5. files # <<>> /\ intact => LastWritten.s # sess
    BY <1>1, <1>7, LastWrittenIs DEF SessionOk, RecType, Packet
  <2>6. WriterOk'
    BY <1>1, <1>4, <1>7, <2>1, <2>3, <2>4, <2>5, ConfFixed DEF WriterOk, LastWritten
  <2>7. RotationOk' /\ PendOk' /\ SessionOk'
    BY <1>1, <1>7, <2>1 DEF RotationOk, PendOk, SessionOk, LastWritten
  <2>8. SegmentsSeamless'
    BY <1>1, <1>7, ConfFixed, SeamlessIs DEF RecorderInv, SegmentsSeamless, Piece
  <2>9. WrittenIsFinished'
    <3>0. writer.packets = <<>>
      BY <1>1, <1>7 DEF RecType, IsSegment
    <3>1. writer'.packets = Append(writer.packets, p)
      BY <2>1, <3>0
    <3>2. QED
      BY <1>1, <1>4, <1>7, <3>1, KeptGrows
  <2>10. QED
    BY <1>3, <2>2, <2>6, <2>7, <2>8, <2>9 DEF RecorderInv
<1>8. CASE /\ Wanted(k) /\ writer.open
           /\ writer' = Put(writer, i)
           /\ kept' = Append(kept, p)
           /\ UNCHANGED <<rpc, pend, files>>
  <2>1. /\ IsSegment(writer') /\ writer'.open = TRUE
        /\ writer'.packets = Append(writer.packets, p)
    <3>1. i \in Nat /\ sess \in Nat /\ IsSegment(writer) /\ writer.open = TRUE
      BY <1>1, <1>2, <1>8, ScriptLength DEF RecType, IsSegment
    <3>2. QED
      BY <1>8, <3>1, PutIs DEF p
  <2>2. RecType'
    <3>1. IsSegment(writer)'
      BY <2>1 DEF IsSegment
    <3>2. kept' \in Seq(Packet)
      BY <1>1, <1>4, <1>8 DEF RecType
    <3>3. QED
      BY <1>1, <1>2, <1>8, <3>1, <3>2 DEF RecType
  <2>3. Follows(Last(writer.packets), p)
    BY <1>1, <1>2, <1>5, <1>8, NextFollows DEF WriterOk, p
  <2>4. /\ Piece(writer'.packets) /\ Last(writer'.packets) = p
        /\ writer'.packets[1] = writer.packets[1]
    BY <1>1, <1>4, <1>8, <2>1, <2>3, PieceAppend DEF WriterOk, RecType, IsSegment
  <2>5. NothingSince(Last(writer.packets))'
    BY <1>2, <1>4, <2>4 DEF NothingSince
  <2>6. WriterOk'
    BY <1>1, <1>4, <1>8, <2>1, <2>4, <2>5, ConfFixed DEF WriterOk, LastWritten
  <2>7. RotationOk' /\ PendOk' /\ SessionOk'
    BY <1>1, <1>8, <2>1 DEF RotationOk, PendOk, SessionOk, LastWritten
  <2>8. SegmentsSeamless'
    BY <1>1, <1>8, ConfFixed, SeamlessIs DEF RecorderInv, SegmentsSeamless, Piece
  <2>9. WrittenIsFinished'
    BY <1>1, <1>4, <1>8, <2>1, KeptGrows
  <2>10. QED
    BY <1>3, <2>2, <2>6, <2>7, <2>8, <2>9 DEF RecorderInv
<1>9. CASE /\ Wanted(k) /\ writer.open /\ IsSplitPoint(k)
           /\ files' = Append(files, writer.packets)
           /\ writer' = NoSegment
           /\ pend' = [then |-> "loop", packet |-> i, now |-> clock] /\ rpc' = "send"
           /\ UNCHANGED kept
  <2>1. IsSegment(writer)' /\ writer'.open = FALSE /\ writer'.packets = <<>>
    BY <1>9, NoSegmentIs DEF IsSegment
  <2>2. /\ files' \in Seq(Seq(Packet)) /\ files' # <<>>
        /\ LastWritten' = Last(writer.packets) /\ SegmentsSeamless'
        /\ FlattenSeq(files') = FlattenSeq(files) \o writer.packets
    BY <1>1, <1>9, FileKeepsSeams
  <2>3. RecType'
    BY <1>1, <1>2, <1>9, <2>1, <2>2 DEF RecType
  <2>4. Follows(LastWritten', p)
    BY <1>1, <1>2, <1>5, <1>9, <2>2, NextFollows DEF WriterOk, p
  <2>5. RotationOk' /\ PendOk'
    <3>1. pend'.packet = i /\ pend'.then = "loop"
      BY <1>9
    <3>2. QED
      BY <1>1, <1>2, <1>9, <2>2, <2>4, <3>1, ConfFixed DEF RotationOk, PendOk, p
  <2>6. WriterOk'
    BY <2>1 DEF WriterOk
  <2>7. SessionOk'
    <3>1. LastWritten'.s = sess /\ sess \in Nat
      BY <1>1, <1>9, <2>2 DEF RecType, WriterOk
    <3>2. QED
      BY <1>1, <1>9, <3>1 DEF SessionOk
  <2>8. WrittenIsFinished'
    <3>1. FlattenSeq(files) \o writer.packets \in Seq(Packet)
      BY <1>1, FlattenAppend DEF RecType, IsSegment
    <3>2. (FlattenSeq(files) \o writer.packets) \o <<>> = FlattenSeq(files) \o writer.packets
      BY <3>1
    <3>3. QED
      BY <1>1, <1>9, <2>1, <2>2, <3>2 DEF RecorderInv, WrittenIsFinished
  <2>9. QED
    BY <1>3, <2>2, <2>3, <2>5, <2>6, <2>7, <2>8 DEF RecorderInv
<1>10. QED
  BY <1>6, <1>7, <1>8, <1>9 DEF LoopPacket, Write, Finish, stored, i, p

\* The announcement has found room; after a rotation the packet at hand begins
\* the next file.
LEMMA AnnounceKeepsRecorder ==
  ASSUME RecorderInv, Announce
  PROVE  RecorderInv'
<1>1. /\ RecType /\ InboxOk /\ RotationOk /\ SessionOk /\ rpc = "send" /\ rpc' = pend.then
      /\ ~writer.open /\ writer.packets = <<>>
      /\ UNCHANGED <<conf, sess, pos, inbox, lagged, files, intact>>
  BY DEF RecorderInv, Announce, WriterOk, RecType, IsSegment
<1>2. Taken' = Taken
  BY <1>1 DEF Taken
<1>3. CASE pend.then = "loop"
  <2> DEFINE i == pend.packet
             p == [s |-> sess, i |-> i]
  <2>1. /\ i \in 1..Len(Script) /\ IsSplitPoint(Script[i])
        /\ files # <<>> /\ Follows(LastWritten, p)
        /\ ~lagged => Taken = i
    BY <1>1, <1>3 DEF RotationOk, PendOk
  <2>2. /\ writer' = Put(OpenSegment(i, pend.now), i) /\ kept' = Append(kept, p)
    BY <1>3 DEF Announce, Write
  <2>3. i \in Nat /\ sess \in Nat /\ p \in Packet /\ p.s = sess /\ p.i = i
    BY <1>1, <2>1, ScriptLength DEF RecType, Packet
  <2> HIDE DEF i
  <2>4. IsSegment(writer') /\ writer'.open = TRUE /\ writer'.packets = <<p>>
    BY <2>2, <2>3, FirstPutIs
  <2> HIDE DEF p
  <2>5. RecType'
    <3>1. IsSegment(writer)'
      BY <2>4 DEF IsSegment
    <3>2. kept' \in Seq(Packet)
      BY <1>1, <2>2, <2>3 DEF RecType
    <3>3. QED
      BY <1>1, <1>3, <3>1, <3>2 DEF RecType
  <2>6. InboxOk'
    BY <1>1, <1>2, <1>3 DEF InboxOk
  <2>7. Piece(<<p>>) /\ Last(<<p>>) = p /\ <<p>>[1] = p
    BY <2>1, <2>3, PieceOne
  <2>8. ~lagged => NothingSince(Last(writer.packets))'
    BY <1>2, <2>1, <2>3, <2>4, <2>7 DEF NothingSince
  <2>9. WriterOk'
    BY <1>1, <1>3, <2>1, <2>3, <2>4, <2>7, <2>8, ConfFixed DEF WriterOk, LastWritten
  <2>10. RotationOk' /\ PendOk' /\ SessionOk'
    BY <1>1, <1>3, <2>4 DEF RotationOk, PendOk, SessionOk, LastWritten
  <2>11. SegmentsSeamless'
    BY <1>1, ConfFixed, SeamlessIs DEF RecorderInv, SegmentsSeamless, Piece
  <2>12. WrittenIsFinished'
    <3>1. writer'.packets = Append(writer.packets, p)
      BY <1>1, <2>4
    <3>2. QED
      BY <1>1, <2>2, <2>3, <3>1, KeptGrows
  <2>13. QED
    BY <2>5, <2>6, <2>9, <2>10, <2>11, <2>12 DEF RecorderInv
<1>4. CASE pend.then # "loop"
  <2>1. UNCHANGED <<writer, kept>> /\ pend'.then = "none"
    BY <1>4 DEF Announce, NoPend
  <2>2. PendOk
    BY DEF RecorderInv
  <2>3. rpc' \in {"done", "failed"}
    BY <1>1, <1>4, <2>2 DEF PendOk
  <2>4. RecType'
    <3>1. IsSegment(writer)'
      BY <1>1, <2>1 DEF RecType, IsSegment
    <3>2. QED
      BY <1>1, <2>1, <2>3, <3>1 DEF RecType
  <2>5. InboxOk' /\ WriterOk' /\ RotationOk' /\ PendOk' /\ SessionOk'
    BY <1>1, <2>1, <2>3 DEF InboxOk, WriterOk, RotationOk, PendOk, SessionOk, LastWritten
  <2>6. QED
    BY <1>1, <2>3, <2>4, <2>5, <2>1, FinishedStays DEF RecorderInv, RecType
<1>5. QED
  BY <1>3, <1>4

\* Every step of the recorder, the demuxer and the listener keeps it.
LEMMA RecorderSteps ==
  ASSUME RecorderInv, RecNext(MaxSessions)
  PROVE  RecorderInv'
<1>1. CASE RunCheck \/ Retry \/ Hear \/ Tick \/ Quit
  <2>1. rpc \in {"check", "failed"} => ~writer.open
    BY DEF RecorderInv, WriterOk, RecType, IsSegment
  <2>2. CASE RunCheck
    BY <2>1, <2>2, QuietKeepsRecorder DEF RunCheck, stored
  <2>3. CASE Retry
    BY <2>1, <2>3, QuietKeepsRecorder DEF Retry, stored
  <2>4. CASE Hear \/ Tick \/ Quit
    BY <2>4, QuietKeepsRecorder DEF Hear, Tick, Quit, stored
  <2>5. QED
    BY <1>1, <2>2, <2>3, <2>4
<1>2. CASE LoopEnds
  BY <1>2, CloseKeepsRecorder DEF LoopEnds
<1>3. QED
  BY <1>1, <1>2, OpenKeepsRecorder, PublishKeepsRecorder, PacketKeepsRecorder,
     AnnounceKeepsRecorder, DiskKeepsRecorder DEF RecNext, RecorderStep

\* The steps of the other pullers do not touch it.
LEMMA RecorderUntouched ==
  ASSUME RecorderInv, UNCHANGED recvars
  PROVE  RecorderInv'
BY QuietKeepsRecorder DEF recvars, stored

-----------------------------------------------------------------------------
(* The recorder's files: a name is a second, and a file holds what was written *)
(* to it last.                                                                *)

Seconds == 0..MaxClock

\* Every segment, open, finished or about to be begun, has its second.
StampsOk ==
  /\ clock \in Seconds /\ DOMAIN disk = Seconds
  /\ names \in Seq(Seconds) /\ Len(names) = Len(files)
  /\ writer.open => writer.start \in Seconds /\ writer.start <= clock
  /\ rpc = "send" /\ pend.then = "loop" => pend.now \in Seconds /\ pend.now <= clock

\* The open segment is in its file.
OpenStands == writer.open => disk[writer.start] = writer.packets

\* What a session finished so far is older, by the name of its file, than what
\* it has open or is about to, if it goes by the wall clock.
OlderThan(t) ==
  \A n \in 1..Len(files) : Last(files[n]).s = sess => names[n] < t

ClockedOk ==
  conf.align /\ intact =>
    /\ writer.open => OlderThan(writer.start)
    /\ rpc = "send" /\ pend.then = "loop" => OlderThan(pend.now)

\* No session is later than the one at hand, which has no file without having
\* begun a segment.
SessionsOk ==
  intact => \A n \in 1..Len(files) :
    /\ Last(files[n]).s <= sess
    /\ rpc = "loop" /\ ~writer.open => Last(files[n]).s # sess

FilesInv == StampsOk /\ OpenStands /\ ClockedOk /\ SessionsOk /\ FilesStand

\* Steps that write nothing.
LEMMA QuietKeepsFiles ==
  ASSUME FilesInv, UNCHANGED <<conf, sess, writer, stored>>,
         intact' => intact, clock' \in Seconds, clock <= clock',
         rpc' = "loop" => rpc = "loop",
         rpc' = "send" => rpc = "send" /\ UNCHANGED pend
  PROVE  FilesInv'
<1>1. UNCHANGED <<files, names, disk>>
  BY DEF stored
<1>2. StampsOk'
  BY <1>1 DEF FilesInv, StampsOk, Seconds
<1>3. OpenStands' /\ ClockedOk' /\ SessionsOk'
  BY <1>1 DEF FilesInv, OpenStands, ClockedOk, OlderThan, SessionsOk
<1>4. FilesStand'
  BY <1>1 DEF FilesInv, FilesStand, RotatedByClock
<1> QED
  BY <1>2, <1>3, <1>4 DEF FilesInv

\* A session begins, later than all before.
LEMMA OpenKeepsFiles ==
  ASSUME RecorderInv, FilesInv, OpenSource(MaxSessions)
  PROVE  FilesInv'
<1>1. ~writer.open /\ sess \in Nat /\ UNCHANGED <<conf, files, names, disk, intact, clock>>
  BY DEF OpenSource, stored, RecorderInv, WriterOk, RecType
<1>2. clock \in Seconds /\ clock \in Nat
  BY <1>1, RecorderAssumption DEF FilesInv, StampsOk, Seconds
<1>3. CASE rpc' = "failed" /\ UNCHANGED <<sess, pos, inbox, lagged, writer>>
  BY <1>1, <1>2, <1>3, QuietKeepsFiles DEF OpenSource, stored
<1>4. CASE rpc' = "loop" /\ sess' = sess + 1 /\ writer' = NoSegment
  <2>1. ~writer'.open
    BY <1>4, NoSegmentIs
  <2>2. StampsOk' /\ OpenStands' /\ ClockedOk'
    BY <1>1, <1>4, <2>1 DEF FilesInv, StampsOk, OpenStands, ClockedOk
  <2>3. ASSUME intact, NEW n \in 1..Len(files)
        PROVE  Last(files[n]).s < sess + 1
    <3>1. files \in Seq(Seq(Packet)) /\ files[n] # <<>>
      BY <2>3, SeamlessIs DEF RecorderInv, RecType, Piece
    <3>2. Last(files[n]) \in Packet
      BY <3>1 DEF Last
    <3>3. Last(files[n]).s <= sess /\ Last(files[n]).s \in Nat
      BY <2>3, <3>2 DEF FilesInv, SessionsOk, Packet
    <3>4. QED
      BY <1>1, <3>3
  <2>4. SessionsOk'
    <3>1. SUFFICES ASSUME intact, NEW n \in 1..Len(files)
                   PROVE  Last(files[n]).s <= sess + 1 /\ Last(files[n]).s # sess + 1
      BY <1>1, <1>4 DEF SessionsOk
    <3>2. files \in Seq(Seq(Packet)) /\ files[n] # <<>>
      BY <3>1, SeamlessIs DEF RecorderInv, RecType, Piece
    <3>3. Last(files[n]) \in Packet
      BY <3>2 DEF Last
    <3>4. Last(files[n]).s \in Nat
      BY <3>3 DEF Packet
    <3>5. QED
      BY <1>1, <2>3, <3>1, <3>4
  <2>5. FilesStand'
    BY <1>1, <2>1 DEF FilesInv, FilesStand, RotatedByClock
  <2>6. QED
    BY <2>2, <2>4, <2>5 DEF FilesInv
<1>5. QED
  BY <1>3, <1>4 DEF OpenSource

\* A packet goes to the file of second t, the open segment's or a new one's.
LEMMA WriteKeepsFiles ==
  ASSUME RecorderInv, RecorderInv', FilesInv, NEW t \in Seconds,
         UNCHANGED <<conf, sess, files, names, intact, clock>>, t <= clock,
         writer'.open, writer'.start = t, disk' = [disk EXCEPT ![t] = writer'.packets],
         rpc' = "loop", writer.open => writer.start = t /\ writer.packets[1].s = sess,
         conf.align /\ intact => OlderThan(t)
  PROVE  FilesInv'
<1>1. /\ DOMAIN disk' = Seconds /\ disk'[t] = writer'.packets
      /\ \A u \in Seconds : u # t => disk'[u] = disk[u]
  BY DEF FilesInv, StampsOk
<1>2. StampsOk' /\ OpenStands'
  BY <1>1 DEF FilesInv, StampsOk, OpenStands
<1>3. ClockedOk' /\ SessionsOk'
  BY DEF FilesInv, ClockedOk, OlderThan, SessionsOk
<1>4. FilesStand'
  <2>1. SUFFICES ASSUME intact, NEW n \in 1..Len(files)
                 PROVE  \/ disk'[names[n]] = files[n]
                        \/ \E m \in (n + 1)..Len(files) :
                              names[m] = names[n] /\ ~RotatedByClock(files[n], files[m])'
                        \/ names[n] = t /\ ~RotatedByClock(files[n], writer.packets)'
    BY DEF FilesStand, RotatedByClock
  <2>2. names[n] \in Seconds /\ t \in Nat
    BY RecorderAssumption DEF FilesInv, StampsOk, Seconds
  <2>3. CASE names[n] = t
    <3>1. writer'.packets[1].s = sess
      BY DEF RecorderInv, WriterOk
    <3>2. conf.align => Last(files[n]).s # sess
      <4>1. ASSUME conf.align, Last(files[n]).s = sess PROVE names[n] < t
        BY <2>1, <4>1 DEF OlderThan
      <4>2. QED
        BY <2>2, <2>3, <4>1
    <3>3. QED
      BY <2>3, <3>1, <3>2 DEF RotatedByClock
  <2>4. CASE names[n] # t
    BY <1>1, <2>1, <2>2, <2>4 DEF FilesInv, FilesStand, RotatedByClock
  <2>5. QED
    BY <2>3, <2>4
<1> QED
  BY <1>2, <1>3, <1>4 DEF FilesInv

\* The boundary is after the start.
LEMMA BoundaryLater ==
  ASSUME NEW t \in Nat
  PROVE  NextBoundary(t) > t
<1>1. SegTime \in Nat /\ SegTime > 0
  BY RecorderAssumption
<1>2. PICK q \in Int : q = t \div SegTime
  BY <1>1
<1>3. t < (q + 1) * SegTime
  BY <1>1, <1>2
<1>4. QED
  BY <1>2, <1>3 DEF NextBoundary

\* The open segment is finished; by the wall clock the next one is later.
LEMMA FinishKeepsFiles ==
  ASSUME RecorderInv, FilesInv, rpc = "loop", writer.open, Finish,
         UNCHANGED <<conf, sess, disk, intact, clock>>, rpc' = "send",
         pend'.then = "loop" => pend'.now = clock /\ (conf.align => clock >= NextBoundary(writer.start))
  PROVE  FilesInv'
<1>1. /\ ~writer'.open /\ files' = Append(files, writer.packets)
      /\ names' = Append(names, writer.start)
  BY NoSegmentIs DEF Finish
<1>2. /\ writer.start \in Seconds /\ clock \in Seconds /\ writer.start \in Nat /\ clock \in Nat
      /\ writer.start <= clock /\ names \in Seq(Seconds)
      /\ files \in Seq(Seq(Packet)) /\ writer.packets \in Seq(Packet) /\ Len(names) = Len(files)
      /\ writer.packets[1].s = sess /\ Last(writer.packets).s = sess /\ sess \in Nat
  BY RecorderAssumption
  DEF FilesInv, StampsOk, Seconds, RecorderInv, RecType, IsSegment, WriterOk
<1>3. /\ Len(files') = Len(files) + 1 /\ Len(names') = Len(files) + 1 /\ names' \in Seq(Seconds)
      /\ files'[Len(files) + 1] = writer.packets /\ names'[Len(files) + 1] = writer.start
      /\ \A n \in 1..Len(files) : files'[n] = files[n] /\ names'[n] = names[n]
      /\ Len(files) \in Nat
  BY <1>1, <1>2
<1>4. StampsOk' /\ OpenStands'
  BY <1>1, <1>2, <1>3 DEF FilesInv, StampsOk, OpenStands
<1>5. SessionsOk'
  <2>1. SUFFICES ASSUME intact, NEW n \in 1..(Len(files) + 1)
                 PROVE  Last(files'[n]).s <= sess
    BY <1>3 DEF SessionsOk
  <2>2. CASE n = Len(files) + 1
    BY <1>2, <1>3, <2>2
  <2>3. CASE n \in 1..Len(files)
    BY <1>3, <2>1, <2>3 DEF FilesInv, SessionsOk
  <2>4. QED
    BY <1>3, <2>2, <2>3
<1>6. ClockedOk'
  <2>1. SUFFICES ASSUME conf.align, intact, pend'.then = "loop",
                        NEW n \in 1..(Len(files) + 1), Last(files'[n]).s = sess
                 PROVE  names'[n] < clock
    BY <1>1, <1>3 DEF ClockedOk, OlderThan
  <2>2. writer.start < clock
    <3>1. NextBoundary(writer.start) \in Int
      <4>1. PICK q \in Int : q = writer.start \div SegTime
        BY <1>2, RecorderAssumption
      <4>2. QED
        BY <4>1, RecorderAssumption DEF NextBoundary
    <3>2. QED
      BY <1>2, <2>1, <3>1, BoundaryLater
  <2>3. CASE n = Len(files) + 1
    BY <1>3, <2>2, <2>3
  <2>4. CASE n \in 1..Len(files)
    <3>1. names[n] < writer.start /\ names[n] \in Seconds
      BY <1>2, <1>3, <2>1, <2>4 DEF FilesInv, ClockedOk, OlderThan
    <3>2. names[n] \in Nat
      BY <3>1, RecorderAssumption DEF Seconds
    <3>3. QED
      BY <1>2, <1>3, <2>2, <2>4, <3>1, <3>2
  <2>5. QED
    BY <1>3, <2>3, <2>4
<1>7. FilesStand'
  <2>1. SUFFICES ASSUME intact, NEW n \in 1..(Len(files) + 1)
                 PROVE  \/ disk[names'[n]] = files'[n]
                        \/ \E m \in (n + 1)..(Len(files) + 1) :
                              names'[m] = names'[n] /\ ~RotatedByClock(files'[n], files'[m])
    BY <1>1, <1>3 DEF FilesStand, RotatedByClock
  <2>2. CASE n = Len(files) + 1
    BY <1>3, <2>2 DEF FilesInv, OpenStands
  <2>3. CASE n \in 1..Len(files)
    <3>1. CASE disk[names[n]] = files[n]
      BY <1>3, <2>3, <3>1
    <3>2. CASE \E m \in (n + 1)..Len(files) :
                 names[m] = names[n] /\ ~RotatedByClock(files[n], files[m])
      <4>1. PICK m \in (n + 1)..Len(files) :
                 names[m] = names[n] /\ ~RotatedByClock(files[n], files[m])
        BY <3>2
      <4>2. m \in 1..Len(files) /\ m \in (n + 1)..(Len(files) + 1)
        BY <1>3, <2>3, <4>1
      <4>3. QED
        BY <1>3, <2>3, <4>1, <4>2
    <3>3. CASE writer.start = names[n] /\ ~RotatedByClock(files[n], writer.packets)
      <4>1. Len(files) + 1 \in (n + 1)..(Len(files) + 1)
        BY <1>3, <2>3
      <4>2. QED
        BY <1>3, <2>3, <3>3, <4>1
    <3>4. QED
      BY <2>1, <2>3, <3>1, <3>2, <3>3 DEF FilesInv, FilesStand
  <2>4. QED
    BY <1>3, <2>2, <2>3
<1> QED
  BY <1>4, <1>5, <1>6, <1>7 DEF FilesInv

\* The loop takes a packet.
LEMMA PacketKeepsFiles ==
  ASSUME RecorderInv, RecorderInv', FilesInv, LoopPacket
  PROVE  FilesInv'
<1> DEFINE i == Head(inbox)
           k == Script[i]
<1>1. /\ rpc = "loop" /\ ~SessionEnds /\ inbox # <<>> /\ inbox' = Tail(inbox) /\ pos' = pos
      /\ UNCHANGED <<conf, sess, intact, clock>> /\ sess \in Nat
  BY DEF LoopPacket, RecorderInv, RecType
<1>2. i \in Nat
  BY <1>1, TakeIs, ScriptLength
<1>3. clock \in Seconds /\ clock \in Nat
  BY RecorderAssumption DEF FilesInv, StampsOk, Seconds
<1> HIDE DEF i
<1>4. CASE UNCHANGED <<rpc, writer, pend, stored, kept>>
  BY <1>1, <1>3, <1>4, QuietKeepsFiles
<1>5. CASE ~writer.open /\ Write(OpenSegment(i, clock), i) /\ UNCHANGED <<rpc, pend, files, names>>
  <2>1. /\ writer' = Put(OpenSegment(i, clock), i) /\ OpenSegment(i, clock).start = clock
        /\ disk' = [disk EXCEPT ![clock] = Put(OpenSegment(i, clock), i).packets]
    BY <1>5 DEF Write, OpenSegment
  <2>2. writer'.open /\ writer'.start = clock
    BY <1>1, <1>2, <2>1, FirstPutIs
  <2>3. intact => OlderThan(clock)
    BY <1>1, <1>5 DEF FilesInv, SessionsOk, OlderThan
  <2>4. /\ UNCHANGED <<conf, sess, files, names, intact, clock>> /\ clock <= clock
        /\ disk' = [disk EXCEPT ![clock] = writer'.packets]
        /\ rpc' = "loop" /\ ~writer.open
    BY <1>1, <1>3, <1>5, <2>1
  <2>5. QED
    BY <1>1, <1>3, <2>2, <2>3, <2>4, WriteKeepsFiles
<1>6. CASE writer.open /\ Write(writer, i) /\ UNCHANGED <<rpc, pend, files, names>>
  <2>1. /\ writer' = Put(writer, i) /\ disk' = [disk EXCEPT ![writer.start] = Put(writer, i).packets]
    BY <1>6 DEF Write
  <2>2. IsSegment(writer) /\ writer.open = TRUE
    BY <1>6 DEF RecorderInv, RecType, IsSegment
  <2>3. writer'.open /\ writer'.start = writer.start
    BY <1>1, <1>2, <2>1, <2>2, PutIs
  <2>4. writer.start \in Seconds /\ writer.start <= clock /\ writer.packets[1].s = sess
    BY <1>6 DEF FilesInv, StampsOk, RecorderInv, WriterOk
  <2>5. conf.align /\ intact => OlderThan(writer.start)
    BY <1>6 DEF FilesInv, ClockedOk
  <2>6. QED
    BY <1>1, <1>6, <2>1, <2>3, <2>4, <2>5, WriteKeepsFiles
<1>7. CASE /\ writer.open /\ ShouldRotate(i) /\ Finish
           /\ pend' = [then |-> "loop", packet |-> i, now |-> clock] /\ rpc' = "send"
           /\ UNCHANGED <<disk, kept>>
  <2>1. pend'.now = clock /\ (conf.align => clock >= NextBoundary(writer.start))
    BY <1>7 DEF ShouldRotate
  <2>2. QED
    BY <1>1, <1>7, <2>1, FinishKeepsFiles
<1> QED
  BY <1>4, <1>5, <1>6, <1>7 DEF LoopPacket, i

\* After a rotation the packet at hand begins the next file.
LEMMA AnnounceKeepsFiles ==
  ASSUME RecorderInv, RecorderInv', FilesInv, Announce
  PROVE  FilesInv'
<1>1. /\ rpc = "send" /\ rpc' = pend.then /\ ~writer.open /\ sess \in Nat
      /\ UNCHANGED <<conf, sess, files, names, intact, clock>>
      /\ pend.then \in {"loop", "done", "failed"}
  BY DEF Announce, RecorderInv, WriterOk, PendOk, RecType
<1>2. clock \in Seconds /\ clock \in Nat
  BY RecorderAssumption DEF FilesInv, StampsOk, Seconds
<1>3. CASE pend.then = "loop"
  <2> DEFINE i == pend.packet
             t == pend.now
  <2>1. i \in Nat
    BY <1>1, <1>3, ScriptLength DEF RecorderInv, RotationOk
  <2>2. /\ writer' = Put(OpenSegment(i, t), i) /\ OpenSegment(i, t).start = t
        /\ disk' = [disk EXCEPT ![t] = Put(OpenSegment(i, t), i).packets]
    BY <1>3 DEF Announce, Write, OpenSegment
  <2>3. writer'.open /\ writer'.start = t
    BY <1>1, <2>1, <2>2, FirstPutIs
  <2>4. t \in Seconds /\ t <= clock /\ (conf.align /\ intact => OlderThan(t))
    BY <1>1, <1>3 DEF FilesInv, StampsOk, ClockedOk
  <2>5. QED
    BY <1>1, <1>3, <2>2, <2>3, <2>4, WriteKeepsFiles
<1>4. CASE pend.then # "loop"
  BY <1>1, <1>2, <1>4, QuietKeepsFiles DEF Announce, stored
<1> QED
  BY <1>3, <1>4

\* Every step of the recorder, the demuxer and the listener keeps it.
LEMMA FilesSteps ==
  ASSUME RecorderInv, RecorderInv', FilesInv, RecNext(MaxSessions)
  PROVE  FilesInv'
<1>1. clock \in Seconds /\ clock \in Nat /\ MaxClock \in Nat
  BY RecorderAssumption DEF FilesInv, StampsOk, Seconds
<1>2. CASE RunCheck
  BY <1>1, <1>2, QuietKeepsFiles DEF RunCheck
<1>3. CASE Retry
  BY <1>1, <1>3, QuietKeepsFiles DEF Retry
<1>4. CASE Publish \/ Hear \/ Quit
  BY <1>1, <1>4, QuietKeepsFiles DEF Publish, Hear, Quit
<1>5. CASE Tick
  BY <1>1, <1>5, QuietKeepsFiles DEF Tick, Seconds
<1>6. CASE DiskError
  <2>1. /\ intact' = FALSE /\ ~writer'.open /\ rpc' = "failed" /\ UNCHANGED <<files, names, disk, clock>>
    BY <1>6, NoSegmentIs DEF DiskError, stored
  <2>2. QED
    BY <1>1, <2>1 DEF FilesInv, StampsOk, OpenStands, ClockedOk, SessionsOk, FilesStand
<1>7. ASSUME rpc = "loop", NEW next \in {"done", "failed"}, CloseWriter(next),
             UNCHANGED <<conf, sess, intact, clock>>
      PROVE  FilesInv'
  <2>1. CASE writer.open
    <3>1. Finish /\ pend'.then = next /\ rpc' = "send" /\ UNCHANGED disk
      BY <1>7, <2>1 DEF CloseWriter, NoPend
    <3>2. QED
      BY <1>7, <2>1, <3>1, FinishKeepsFiles
  <2>2. CASE ~writer.open
    BY <1>1, <1>7, <2>2, QuietKeepsFiles DEF CloseWriter, stored
  <2>3. QED
    BY <2>1, <2>2
<1>8. CASE LoopEnds
  BY <1>7, <1>8 DEF LoopEnds
<1> QED
  BY <1>2, <1>3, <1>4, <1>5, <1>6, <1>8, OpenKeepsFiles, PacketKeepsFiles, AnnounceKeepsFiles
  DEF RecNext, RecorderStep

(***************************************************************************)
(* For any stream, any sizes of the channels and any number of sessions:   *)
(* every finished file begins at a split point and is without a hole, the  *)
(* files of a session adjoin, and what was written is in a finished        *)
(* segment or in the open one, through drops, stops, retries and rotations *)
(* that wait for a slow listener; and a finished segment stays in its file *)
(* unless another is begun in the same second, which a session that        *)
(* rotates by the wall clock never does (nvr-recorder).                    *)
(***************************************************************************)
THEOREM RecordingWholeAlways == FeedsSpec => []RecordingWhole
<1>1. FeedsInit => RecorderInv /\ FilesInv
  <2> SUFFICES ASSUME FeedsInit PROVE RecorderInv /\ FilesInv
    OBVIOUS
  <2>1. PICK who : RecInit(who = "recorder")
    BY DEF FeedsInit
  <2>2. (who = "recorder") \in BOOLEAN
    OBVIOUS
  <2>3. RecorderInv
    BY <2>1, <2>2, RecorderStarts
  <2>4. /\ files = <<>> /\ names = <<>> /\ clock = 0 /\ ~writer.open /\ rpc # "send"
        /\ DOMAIN disk = Seconds /\ 0 \in Seconds
    BY <2>1, NoSegmentIs, RecorderAssumption DEF RecInit, Seconds
  <2>5. FilesInv
    BY <2>4 DEF FilesInv, StampsOk, OpenStands, ClockedOk, SessionsOk, FilesStand
  <2>6. QED
    BY <2>3, <2>5
<1>2. RecorderInv /\ FilesInv /\ [FeedsNext]_feedvars => RecorderInv' /\ FilesInv'
  <2> SUFFICES ASSUME RecorderInv, FilesInv, [FeedsNext]_feedvars PROVE RecorderInv' /\ FilesInv'
    OBVIOUS
  <2>1. RecorderInv'
    BY RecorderSteps, RecorderUntouched DEF FeedsNext, feedvars
  <2>2. UNCHANGED recvars => FilesInv'
    <3>1. clock \in Seconds /\ clock <= clock
      BY RecorderAssumption DEF FilesInv, StampsOk, Seconds
    <3>2. QED
      BY <3>1, QuietKeepsFiles DEF recvars, stored
  <2>3. QED
    BY <2>1, <2>2, FilesSteps DEF FeedsNext, feedvars
<1>3. RecorderInv /\ FilesInv => RecordingWhole
  BY DEF RecorderInv, FilesInv, RecordingWhole
<1>4. QED
  BY <1>1, <1>2, <1>3, PTL DEF FeedsSpec

-----------------------------------------------------------------------------
(* The supervisors' and the source loops' delays *)

\* The function that Power defines up to n.
Powers(f, n) == f = [i \in 0..n |-> IF i = 0 THEN 1 ELSE 2 * f[i - 1]]

\* What it computes for i.
LEMMA PowersAt ==
  ASSUME NEW f, NEW n \in Nat, Powers(f, n), NEW i \in 0..n
  PROVE  f[i] = IF i = 0 THEN 1 ELSE 2 * f[i - 1]
<1> DEFINE F(g, j) == IF j = 0 THEN 1 ELSE 2 * g[j - 1]
<1>1. f = [j \in 0..n |-> F(f, j)]
  BY DEF Powers
<1> HIDE DEF F
<1>2. f[i] = F(f, i)
  BY <1>1
<1>3. QED
  BY <1>2 DEF F

\* It exists.
LEMMA PowersExist ==
  ASSUME NEW n \in Nat
  PROVE  \E f : Powers(f, n)
<1> DEFINE T == {m \in Nat : ~ \E f : Powers(f, m)}
<1>1. ASSUME T # {} PROVE FALSE
  <2>1. PICK m \in T : \A k \in T : m <= k
    BY <1>1, LeastNat
  <2>2. CASE m = 0
    <3>1. Powers([i \in 0..0 |-> 1], 0)
      BY DEF Powers
    <3>2. QED
      BY <2>1, <2>2, <3>1
  <2>3. CASE m > 0
    <3>1. m - 1 \in Nat /\ m - 1 \notin T
      BY <2>1, <2>3
    <3>2. PICK g : Powers(g, m - 1)
      BY <3>1
    <3> DEFINE f == [i \in 0..m |-> IF i < m THEN g[i] ELSE 2 * g[i - 1]]
    <3>3. ASSUME NEW i \in 0..m
          PROVE  f[i] = IF i = 0 THEN 1 ELSE 2 * f[i - 1]
      <4>1. i # 0 => i - 1 \in 0..m /\ i - 1 < m
        OBVIOUS
      <4>2. i # 0 => f[i - 1] = g[i - 1]
        BY <4>1
      <4>3. CASE i < m
        <5>1. i \in 0..(m - 1) /\ f[i] = g[i]
          BY <4>3, <3>1
        <5>2. g[i] = IF i = 0 THEN 1 ELSE 2 * g[i - 1]
          BY <5>1, <3>1, <3>2, PowersAt
        <5>3. QED
          BY <5>1, <5>2, <4>2
      <4>4. CASE i = m
        BY <4>4, <4>2, <2>3
      <4>5. QED
        BY <4>3, <4>4, <3>1
    <3>4. f = [i \in 0..m |-> f[i]]
      OBVIOUS
    <3> HIDE DEF f
    <3>5. Powers(f, m)
      BY <3>3, <3>4 DEF Powers
    <3>6. QED
      BY <2>1, <3>5
  <2>4. QED
    BY <2>1, <2>2, <2>3
<1>2. QED
  BY <1>1

\* Power is its last value.
LEMMA PowerIs ==
  ASSUME NEW n \in Nat
  PROVE  \E f : Powers(f, n) /\ Power(n) = f[n]
<1> DEFINE f == CHOOSE g : Powers(g, n)
<1>1. Powers(f, n)
  BY PowersExist
<1>2. Power(n) = f[n]
  BY Zenon DEF Power, Powers
<1>3. QED
  BY <1>1, <1>2

\* The values do not depend on how far the function goes.
LEMMA PowersAgree ==
  ASSUME NEW n \in Nat, NEW f, NEW g, Powers(f, n), Powers(g, n + 1)
  PROVE  f[n] = g[n]
<1> DEFINE T == {i \in 0..n : f[i] # g[i]}
<1>1. ASSUME T # {} PROVE FALSE
  <2>0. T \in SUBSET Nat
    OBVIOUS
  <2>1. PICK k \in T : \A j \in T : k <= j
    <3> HIDE DEF T
    <3>1. QED
      BY <1>1, <2>0, LeastNat
  <2>2. f[k] = IF k = 0 THEN 1 ELSE 2 * f[k - 1]
    BY <2>1, PowersAt
  <2>3. g[k] = IF k = 0 THEN 1 ELSE 2 * g[k - 1]
    <3>1. k \in 0..(n + 1) /\ n + 1 \in Nat
      BY <2>1
    <3>2. QED
      BY <3>1, PowersAt
  <2>4. k # 0 => k - 1 \in 0..n /\ k - 1 \notin T
    BY <2>1
  <2>5. QED
    BY <2>1, <2>2, <2>3, <2>4
<1>2. QED
  BY <1>1

\* The powers of two: what 1 << n is.
LEMMA PowerZero == Power(0) = 1
<1>1. PICK f : Powers(f, 0) /\ Power(0) = f[0]
  BY PowerIs
<1>2. QED
  BY <1>1, PowersAt

LEMMA PowerNext ==
  ASSUME NEW n \in Nat
  PROVE  Power(n + 1) = 2 * Power(n)
<1>1. PICK f : Powers(f, n) /\ Power(n) = f[n]
  BY PowerIs
<1>2. n + 1 \in Nat /\ n + 1 # 0 /\ n + 1 \in 0..(n + 1) /\ (n + 1) - 1 = n
  OBVIOUS
<1>3. PICK g : Powers(g, n + 1) /\ Power(n + 1) = g[n + 1]
  BY <1>2, PowerIs
<1>4. g[n + 1] = 2 * g[n]
  BY <1>2, <1>3, PowersAt
<1>5. f[n] = g[n]
  BY <1>1, <1>3, PowersAgree
<1>6. QED
  BY <1>1, <1>3, <1>4, <1>5

LEMMA PowerType ==
  ASSUME NEW n \in Nat
  PROVE  Power(n) \in Nat \ {0}
<1> DEFINE T == {m \in Nat : Power(m) \notin Nat \ {0}}
<1>1. ASSUME T # {} PROVE FALSE
  <2>1. PICK m \in T : \A k \in T : m <= k
    BY <1>1, LeastNat
  <2>2. m # 0
    BY <2>1, PowerZero
  <2>3. m - 1 \in Nat /\ m - 1 \notin T /\ (m - 1) + 1 = m
    BY <2>1, <2>2
  <2>4. Power((m - 1) + 1) = 2 * Power(m - 1)
    BY <2>3, PowerNext
  <2>5. Power(m) = 2 * Power(m - 1) /\ Power(m - 1) \in Nat \ {0}
    BY <2>3, <2>4
  <2>6. Power(m) \in Nat \ {0}
    BY <2>5
  <2>7. QED
    BY <2>1, <2>6
<1>2. QED
  BY <1>1

\* They grow.
LEMMA PowerGrows ==
  ASSUME NEW m \in Nat, NEW n \in Nat, m <= n
  PROVE  Power(m) <= Power(n)
<1> DEFINE T == {k \in Nat : m <= k /\ ~ (Power(m) <= Power(k))}
<1>1. ASSUME T # {} PROVE FALSE
  <2>0. T \in SUBSET Nat
    OBVIOUS
  <2>1. PICK k \in T : \A j \in T : k <= j
    <3> HIDE DEF T
    <3>1. QED
      BY <1>1, <2>0, LeastNat
  <2>2. Power(m) \in Nat /\ Power(k) \in Nat
    BY <2>1, PowerType
  <2>3. k # m
    BY <2>1, <2>2
  <2>4. k - 1 \in Nat /\ k - 1 \notin T /\ (k - 1) + 1 = k /\ m <= k - 1
    BY <2>1, <2>3
  <2>5. Power((k - 1) + 1) = 2 * Power(k - 1) /\ Power(k - 1) \in Nat
    BY <2>4, PowerNext, PowerType
  <2>6. Power(k) = 2 * Power(k - 1) /\ Power(m) <= Power(k - 1)
    BY <2>4, <2>5
  <2>7. Power(m) <= Power(k)
    BY <2>2, <2>5, <2>6
  <2>8. QED
    BY <2>1, <2>7
<1>2. QED
  BY <1>1

\* A delay begins at its base.
LEMMA DoubledZero ==
  ASSUME NEW b \in Nat, NEW x \in Nat, b <= x
  PROVE  Doubled(b, 0, x) = b
BY PowerZero DEF Doubled, Least

\* One miss more doubles it, up to its ceiling.
LEMMA DoubledNext ==
  ASSUME NEW b \in Nat, NEW n \in Nat, NEW x \in Nat
  PROVE  Doubled(b, n + 1, x) = Least(2 * Doubled(b, n, x), x)
<1>1. Power(n) \in Nat /\ Power(n + 1) = 2 * Power(n)
  BY PowerNext, PowerType
<1>2. \A p \in Nat : b * p \in Nat /\ b * (2 * p) = 2 * (b * p)
  OBVIOUS
<1>3. PICK q \in Nat : b * Power(n) = q
  BY <1>1, <1>2
<1>4. b * Power(n + 1) = 2 * q
  BY <1>1, <1>2, <1>3
<1>5. Doubled(b, n, x) = Least(q, x) /\ Doubled(b, n + 1, x) = Least(2 * q, x)
  BY <1>3, <1>4 DEF Doubled
<1>6. Least(2 * Least(q, x), x) = Least(2 * q, x)
  BY DEF Least
<1>7. QED
  BY <1>5, <1>6

\* The cap on the exponent does not show: the ceiling is reached first.
LEMMA PoolDelayIs ==
  ASSUME NEW n \in Nat
  PROVE  PoolDelay(n) = Doubled(PoolBase, IF n = 0 THEN 0 ELSE n - 1, PoolMax)
<1> DEFINE e == IF n = 0 THEN 0 ELSE n - 1
<1>1. e \in Nat /\ ExpCap \in Nat /\ PoolBase \in Nat /\ PoolMax \in Nat
  BY SupervisorAssumption
<1>2. PoolDelay(n) = Least(PoolBase * Power(Least(e, ExpCap)), PoolMax)
  BY DEF PoolDelay
<1> HIDE DEF e
<1>3. CASE e <= ExpCap
  <2>1. Least(e, ExpCap) = e
    BY <1>1, <1>3 DEF Least
  <2>2. QED
    BY <1>2, <2>1 DEF Doubled, e
<1>4. CASE ~ (e <= ExpCap)
  <2>1. Least(e, ExpCap) = ExpCap /\ ExpCap <= e
    BY <1>1, <1>4 DEF Least
  <2>2. /\ Power(ExpCap) \in Nat /\ Power(e) \in Nat
        /\ Power(ExpCap) <= Power(e)
    BY <1>1, <2>1, PowerType, PowerGrows
  <2>3. \A p \in Nat, q \in Nat : p <= q => /\ PoolBase * p <= PoolBase * q
                                            /\ PoolBase * p \in Nat /\ PoolBase * q \in Nat
    BY <1>1
  <2>4. /\ PoolBase * Power(ExpCap) <= PoolBase * Power(e)
        /\ PoolBase * Power(ExpCap) \in Nat /\ PoolBase * Power(e) \in Nat
    BY <2>2, <2>3
  <2>5. PICK p \in Nat : p = PoolBase * Power(ExpCap)
    BY <2>4
  <2>6. PICK q \in Nat : q = PoolBase * Power(e)
    BY <2>4
  <2>7. PoolMax <= p /\ p <= q
    BY <2>4, <2>5, <2>6, CeilingAssumption
  <2>8. Least(p, PoolMax) = Least(q, PoolMax)
    BY <1>1, <2>7 DEF Least
  <2>9. QED
    BY <1>2, <2>1, <2>5, <2>6, <2>8 DEF Doubled, e
<1>5. QED
  BY <1>3, <1>4

DelayTypes ==
  /\ misses \in 0..MaxFails /\ fails \in Nat
  /\ kind = "device" => at \in {"check", "resolve", "run", "cancelled", "wait", "stopped"}
  /\ kind # "device" => at \in {"off", "check", "open", "pump", "wait", "stopped"}

\* What a loop will sleep next is the delay of the misses so far, what it
\* slept last is the one of the last miss.
DeviceDelays ==
  (kind = "device" /\ misses < MaxFails) =>
     /\ at \in {"check", "resolve", "run", "cancelled"} =>
           backoff = Doubled(BackoffMin, misses, BackoffMax)
     /\ at = "wait" =>
           misses > 0 /\ backoff = Doubled(BackoffMin, misses - 1, BackoffMax)
     /\ at \in {"check", "resolve"} /\ pause > 0 =>
           pause = Doubled(BackoffMin, misses - 1, BackoffMax)

PoolDelays ==
  kind # "device" =>
     /\ fails = misses
     /\ at \in {"check", "open"} /\ pause > 0 => pause = PoolDelay(misses)

DelayInv == DelayTypes /\ DeviceDelays /\ PoolDelays

\* The invariant holds at the start.
LEMMA DelaysStart ==
  ASSUME NEW k, SupInit(k)
  PROVE  DelayInv
<1>1. Doubled(BackoffMin, 0, BackoffMax) = BackoffMin
  BY SupervisorAssumption, DoubledZero
<1>2. DelayTypes
  BY SupervisorAssumption DEF SupInit, DelayTypes
<1>3. DeviceDelays
  BY <1>1 DEF SupInit, DeviceDelays
<1>4. PoolDelays
  BY DEF SupInit, PoolDelays
<1>5. QED
  BY <1>2, <1>3, <1>4 DEF DelayInv

\* A miss is counted up to the bound.
LEMMA MissedIs ==
  ASSUME misses \in 0..MaxFails
  PROVE  /\ Missed \in 0..MaxFails /\ Missed > 0
         /\ Missed < MaxFails => misses < MaxFails /\ Missed = misses + 1
BY SupervisorAssumption DEF Missed, Least

\* A loop that stands still, or is told to stop, keeps its delay.
LEMMA QuietKeepsDelays ==
  ASSUME DelayInv, UNCHANGED <<kind, backoff, fails, misses, pause>>,
         \/ at' = at
         \/ at' = "stopped"
         \/ at = "check" /\ at' = IF kind = "device" THEN "resolve" ELSE "open"
         \/ at = "pump" /\ at' = "wait"
         \/ at = "run" /\ at' = "cancelled"
  PROVE  DelayInv'
<1>1. DelayTypes'
  BY DEF DelayInv, DelayTypes
<1>2. DeviceDelays'
  BY DEF DelayInv, DelayTypes, DeviceDelays
<1>3. PoolDelays'
  BY DEF DelayInv, DelayTypes, PoolDelays, PoolDelay
<1>4. QED
  BY <1>1, <1>2, <1>3 DEF DelayInv

\* The address was resolved or was not.
LEMMA ResolveKeepsDelays ==
  ASSUME DelayInv, Resolve
  PROVE  DelayInv'
<1> USE DEF DelayInv
<1>1. at = "resolve" /\ kind = "device" /\ UNCHANGED <<kind, backoff, fails, pause>>
  BY DEF Resolve, DelayTypes
<1>2. CASE at' = "run" /\ UNCHANGED misses
  BY <1>1, <1>2 DEF DelayTypes, DeviceDelays, PoolDelays
<1>3. CASE at' = "wait" /\ misses' = Missed
  <2>1. /\ misses' \in 0..MaxFails /\ misses' > 0
        /\ misses' < MaxFails => misses < MaxFails /\ misses' - 1 = misses
    BY <1>3, MissedIs DEF DelayTypes
  <2>2. DelayTypes'
    BY <1>1, <1>3, <2>1 DEF DelayTypes
  <2>3. DeviceDelays'
    BY <1>1, <1>3, <2>1 DEF DeviceDelays
  <2>4. PoolDelays'
    BY <1>1 DEF PoolDelays
  <2>5. QED
    BY <2>2, <2>3, <2>4
<1>4. QED
  BY <1>2, <1>3 DEF Resolve

\* A session ended.
LEMMA SessionOverKeepsDelays ==
  ASSUME DelayInv, SessionOver
  PROVE  DelayInv'
<1> USE DEF DelayInv
<1>1. /\ at \in {"run", "cancelled"} /\ kind = "device"
      /\ UNCHANGED <<kind, fails, pause>>
  BY DEF SessionOver, DelayTypes
<1>2. CASE at' = "stopped" /\ UNCHANGED <<backoff, misses>>
  BY <1>1, <1>2 DEF DelayTypes, DeviceDelays, PoolDelays
<1>3. CASE at' = "wait" /\ backoff' = BackoffMin /\ misses' = 1
  <2>1. backoff' = Doubled(BackoffMin, 0, BackoffMax)
    BY <1>3, SupervisorAssumption, DoubledZero
  <2>2. DelayTypes'
    BY <1>1, <1>3, SupervisorAssumption DEF DelayTypes
  <2>3. DeviceDelays'
    BY <1>1, <1>3, <2>1 DEF DeviceDelays
  <2>4. PoolDelays'
    BY <1>1 DEF PoolDelays
  <2>5. QED
    BY <2>2, <2>3, <2>4
<1>4. CASE at' = "wait" /\ UNCHANGED backoff /\ misses' = Missed
  <2>1. /\ misses' \in 0..MaxFails /\ misses' > 0
        /\ misses' < MaxFails => misses < MaxFails /\ misses' - 1 = misses
    BY <1>4, MissedIs DEF DelayTypes
  <2>2. DelayTypes'
    BY <1>1, <1>4, <2>1 DEF DelayTypes
  <2>3. DeviceDelays'
    BY <1>1, <1>4, <2>1 DEF DeviceDelays
  <2>4. PoolDelays'
    BY <1>1 DEF PoolDelays
  <2>5. QED
    BY <2>2, <2>3, <2>4
<1>5. QED
  BY <1>2, <1>3, <1>4 DEF SessionOver

\* The supervisor slept.
LEMMA DeviceWaitKeepsDelays ==
  ASSUME DelayInv, DeviceWait
  PROVE  DelayInv'
<1> USE DEF DelayInv
<1>1. /\ kind = "device" /\ at = "wait" /\ pause' = backoff
      /\ UNCHANGED <<kind, fails, misses>>
  BY DEF DeviceWait
<1>2. CASE at' = "stopped"
  BY <1>1, <1>2 DEF DelayTypes, DeviceDelays, PoolDelays
<1>3. CASE at' = "check" /\ backoff' = Least(2 * backoff, BackoffMax)
  <2>1. DelayTypes'
    BY <1>1, <1>3 DEF DelayTypes
  <2>2. ASSUME misses < MaxFails
        PROVE  /\ misses - 1 \in Nat
               /\ backoff = Doubled(BackoffMin, misses - 1, BackoffMax)
    BY <1>1, <2>2 DEF DeviceDelays, DelayTypes
  <2>3. ASSUME misses < MaxFails
        PROVE  backoff' = Doubled(BackoffMin, misses, BackoffMax)
    <3>1. (misses - 1) + 1 = misses
      BY SupervisorAssumption DEF DelayTypes
    <3>2. BackoffMin \in Nat /\ BackoffMax \in Nat
      BY SupervisorAssumption
    <3>3. Doubled(BackoffMin, (misses - 1) + 1, BackoffMax)
            = Least(2 * Doubled(BackoffMin, misses - 1, BackoffMax), BackoffMax)
      BY <2>2, <2>3, <3>2, DoubledNext
    <3>4. QED
      BY <1>3, <2>2, <2>3, <3>1, <3>3
  <2>4. DeviceDelays'
    BY <1>1, <1>3, <2>2, <2>3 DEF DeviceDelays
  <2>5. PoolDelays'
    BY <1>1 DEF PoolDelays
  <2>6. QED
    BY <2>1, <2>4, <2>5
<1>4. QED
  BY <1>2, <1>3 DEF DeviceWait

\* A source was opened or was not.
LEMMA OpenKeepsDelays ==
  ASSUME DelayInv, Open
  PROVE  DelayInv'
<1> USE DEF DelayInv
<1>1. at = "open" /\ kind # "device" /\ UNCHANGED kind
  BY DEF Open, DelayTypes
<1>2. CASE at' = "pump" /\ fails' = 0 /\ misses' = 0
  BY <1>1, <1>2, SupervisorAssumption DEF DelayTypes, DeviceDelays, PoolDelays
<1>3. CASE at' = "wait" /\ fails' = Least(fails + 1, MaxFails) /\ misses' = Missed
  <2>1. misses' \in 0..MaxFails
    BY <1>3, MissedIs DEF DelayTypes
  <2>2. fails' = misses'
    BY <1>1, <1>3 DEF PoolDelays, Missed
  <2>3. QED
    BY <1>1, <1>3, <2>1, <2>2 DEF DelayTypes, DeviceDelays, PoolDelays
<1>4. QED
  BY <1>2, <1>3 DEF Open

\* The source's loop slept.
LEMMA PoolWaitKeepsDelays ==
  ASSUME DelayInv, PoolWait
  PROVE  DelayInv'
<1> USE DEF DelayInv
<1>1. /\ kind = "pool" /\ at' \in {"stopped", "check"} /\ pause' = PoolDelay(fails)
      /\ UNCHANGED <<kind, fails, misses>>
  BY DEF PoolWait
<1>2. DelayTypes'
  BY <1>1 DEF DelayTypes
<1>3. DeviceDelays'
  BY <1>1 DEF DeviceDelays
<1>4. PoolDelays'
  BY <1>1 DEF PoolDelays, PoolDelay
<1>5. QED
  BY <1>2, <1>3, <1>4

\* Every step of the supervisors and the source loops keeps the invariant.
LEMMA SupervisorSteps ==
  ASSUME DelayInv, SupNext
  PROVE  DelayInv'
<1>1. CASE Check
  BY <1>1, QuietKeepsDelays DEF Check
<1>2. CASE PipeStarts \/ PipeEnds \/ Pump \/ SessionAges \/ Hang \/ LetGo \/ Stop \/ Flap
  BY <1>2, QuietKeepsDelays DEF PipeStarts, PipeEnds, Pump, SessionAges, Hang, LetGo, Stop, Flap
<1>3. CASE PumpEnds \/ CancelSession
  BY <1>3, QuietKeepsDelays DEF PumpEnds, CancelSession
<1>4. QED
  BY <1>1, <1>2, <1>3, ResolveKeepsDelays, SessionOverKeepsDelays, DeviceWaitKeepsDelays,
     OpenKeepsDelays, PoolWaitKeepsDelays DEF SupNext, Puller, FarEnd

\* The steps of the recorder, the switcher and the taps do not touch it.
LEMMA SupervisorUntouched ==
  ASSUME DelayInv, UNCHANGED supvars
  PROVE  DelayInv'
BY QuietKeepsDelays DEF supvars

(***************************************************************************)
(* For any base, ceiling and number of failures: a supervisor and a source *)
(* loop wait for the base after a session that lasted, twice as long for   *)
(* every attempt in a row that did not, and never longer than the ceiling  *)
(* (livestream.rs, ingest.rs, source.rs).                                  *)
(***************************************************************************)
THEOREM DelayFollowsMissesAlways == FeedsSpec => []DelayFollowsMisses
<1>1. FeedsInit => DelayInv
  BY DelaysStart DEF FeedsInit
<1>2. DelayInv /\ [FeedsNext]_feedvars => DelayInv'
  BY SupervisorSteps, SupervisorUntouched DEF FeedsNext, feedvars
<1>3. DelayInv => DelayFollowsMisses
  <2>1. ASSUME DelayInv, kind # "device", misses < MaxFails
        PROVE  PoolDelay(misses)
                 = Doubled(PoolBase, IF misses = 0 THEN 0 ELSE misses - 1, PoolMax)
    BY <2>1, PoolDelayIs DEF DelayInv, DelayTypes
  <2>2. ASSUME DelayInv, kind # "device" PROVE DelayFollowsMisses
    BY <2>1, <2>2 DEF DelayInv, DelayTypes, PoolDelays, DelayFollowsMisses
  <2>3. ASSUME DelayInv, kind = "device" PROVE DelayFollowsMisses
    BY <2>3 DEF DelayInv, DelayTypes, DeviceDelays, DelayFollowsMisses
  <2>4. QED
    BY <2>2, <2>3
<1>4. QED
  BY <1>1, <1>2, <1>3, PTL DEF FeedsSpec

-----------------------------------------------------------------------------
(* A transcoded stream *)

-----------------------------------------------------------------------------
(* The inductive invariant: one part per stage. *)

Queues ==
  /\ src \in Seq(Nat) /\ pktq \in Seq(Nat) /\ frames \in Seq(Nat)
  /\ frmq \in Seq(Nat) /\ outp \in Seq(Nat) /\ written \in Seq(Nat)
  /\ dpos \in Nat /\ fpos \in Nat /\ epos \in Nat /\ fbase \in Nat
  /\ dpos <= Len(src) /\ fpos <= Len(frames) /\ epos <= Len(outp) /\ fbase <= fpos

\* Without an encoder there is nothing after it, without a muxer nothing written.
StartOk ==
  /\ encoder = "none" => outp = <<>> /\ frmq = <<>> /\ unencoded = {} /\ muxer = "none"
  /\ muxer = "none" => written = <<>>

\* The reader numbers its packets; after EOF it sends nothing.
ReaderOk ==
  \A k \in 1..Len(src) : src[k] = k \/ (src[k] = EOF /\ k = Len(src) /\ reader = "eof")

Before(x, y) == x # EOF /\ (x < y \/ y = EOF)

Rising(s) == \A j, k \in 1..Len(s) : j < k => Before(s[j], s[k])

Ahead(s, t) == \A j \in 1..Len(s), k \in 1..Len(t) : Before(s[j], t[k])

\* Item x is among the first p of n packets of the reader r; EOF is the last.
Within(x, p, n, r) == IF x = EOF THEN p = n /\ r = "eof" ELSE x <= p

\* What the decoder's relay took is decoded, refused or waits in the queue, and is
\* in order.
DecoderOk ==
  /\ Rising(frames) /\ Rising(pktq) /\ Ahead(frames, pktq)
  /\ \A k \in 1..Len(frames) : Within(frames[k], dpos, Len(src), reader)
  /\ \A k \in 1..Len(pktq) : Within(pktq[k], dpos, Len(src), reader)
  /\ Elems(frames) \cup Elems(pktq) \cup undecoded = Items(src, 1, dpos)

\* Item x is one of the first n of s.
Among(x, s, n) == \E m \in 1..n : s[m] = x

\* What the encoder's relay kept of what it took is in order.
EncoderOk ==
  /\ Rising(outp) /\ Rising(frmq) /\ Ahead(outp, frmq)
  /\ \A k \in 1..Len(outp) : Among(outp[k], frames, fpos)
  /\ \A k \in 1..Len(frmq) : Among(frmq[k], frames, fpos)

\* What is written comes before everything the muxer has yet to receive.
MuxerOk ==
  /\ Rising(written) /\ Ahead(written, frmq)
  /\ \A j \in 1..Len(written) :
       /\ Among(written[j], frames, fpos)
       /\ \A k \in (epos + 1)..Len(outp) : Before(written[j], outp[k])

\* A lossless decoder never leaves the encoder's relay behind, so that a lossless
\* relay passes on every frame.
LosslessOk ==
  /\ lossless.dec /\ encoder # "none" => Len(frames) - fpos <= FrameCap
  /\ lossless.dec /\ lossless.enc =>
       Elems(outp) \cup Elems(frmq) \cup unencoded = Items(frames, fbase + 1, fpos)

FlowInv == Queues /\ StartOk /\ ReaderOk /\ DecoderOk /\ EncoderOk /\ MuxerOk /\ LosslessOk

-----------------------------------------------------------------------------
(* Sequences *)

\* The broadcast of the frames holds at least one.
LEMMA FrameCapIs == FrameCap \in Nat \ {0}
BY CapsAssumption

\* An item more.
LEMMA AppendIs ==
  ASSUME NEW s \in Seq(Nat), NEW x \in Nat
  PROVE  /\ Append(s, x) \in Seq(Nat) /\ Len(Append(s, x)) = Len(s) + 1 /\ Len(s) \in Nat
         /\ Append(s, x)[Len(s) + 1] = x
         /\ \A k \in 1..Len(s) : Append(s, x)[k] = s[k] /\ s[k] \in Nat
OBVIOUS

\* An item less.
LEMMA TailIs ==
  ASSUME NEW s \in Seq(Nat), s # <<>>
  PROVE  /\ Tail(s) \in Seq(Nat) /\ Len(Tail(s)) = Len(s) - 1 /\ Len(s) \in Nat \ {0}
         /\ Head(s) = s[1] /\ s[1] \in Nat
         /\ \A k \in 1..Len(Tail(s)) : Tail(s)[k] = s[k + 1] /\ k + 1 \in 1..Len(s)
OBVIOUS

\* Its items.
LEMMA ItemIs ==
  ASSUME NEW s \in Seq(Nat)
  PROVE  Len(s) \in Nat /\ \A k \in 1..Len(s) : s[k] \in Nat
OBVIOUS

\* The items of a sequence with one more, and of a longer part of one.
LEMMA ElemsAppend ==
  ASSUME NEW s \in Seq(Nat), NEW x \in Nat
  PROVE  Elems(Append(s, x)) = Elems(s) \cup {x}
<1> DEFINE t == Append(s, x)
<1>1. /\ Len(t) = Len(s) + 1 /\ Len(s) \in Nat /\ t[Len(s) + 1] = x
      /\ \A k \in 1..Len(s) : t[k] = s[k]
  BY AppendIs
<1> HIDE DEF t
<1>2. \A k \in 1..Len(t) : k \in 1..Len(s) \/ k = Len(s) + 1
  BY <1>1
<1>3. Len(s) + 1 \in 1..Len(t) /\ \A k \in 1..Len(s) : k \in 1..Len(t)
  BY <1>1
<1>4. Elems(t) = Elems(s) \cup {x}
  BY <1>1, <1>2, <1>3 DEF Elems, Items
<1>5. QED
  BY <1>4 DEF t

\* The items of a sequence are its first and those of the rest.
LEMMA ElemsTail ==
  ASSUME NEW s \in Seq(Nat), s # <<>>
  PROVE  Elems(s) = {Head(s)} \cup Elems(Tail(s))
<1>1. /\ Len(Tail(s)) = Len(s) - 1 /\ Len(s) \in Nat \ {0} /\ Head(s) = s[1]
      /\ \A k \in 1..Len(Tail(s)) : Tail(s)[k] = s[k + 1] /\ k + 1 \in 1..Len(s)
  BY TailIs
<1>2. \A k \in 1..Len(s) : k = 1 \/ (k - 1 \in 1..Len(Tail(s)) /\ (k - 1) + 1 = k)
  BY <1>1
<1>3. 1 \in 1..Len(s)
  BY <1>1
<1>4. ASSUME NEW y \in Elems(s) PROVE y \in {Head(s)} \cup Elems(Tail(s))
  <2>1. PICK k \in 1..Len(s) : y = s[k]
    BY <1>4 DEF Elems, Items
  <2>2. CASE k = 1
    BY <1>1, <2>1, <2>2
  <2>3. CASE k - 1 \in 1..Len(Tail(s)) /\ (k - 1) + 1 = k
    <3>1. Tail(s)[k - 1] = s[k]
      BY <1>1, <2>3
    <3>2. QED
      BY <2>1, <2>3, <3>1 DEF Elems, Items
  <2>4. QED
    BY <1>2, <2>2, <2>3
<1>5. ASSUME NEW y \in Elems(Tail(s)) PROVE y \in Elems(s)
  <2>1. PICK k \in 1..Len(Tail(s)) : y = Tail(s)[k]
    BY <1>5 DEF Elems, Items
  <2>2. y = s[k + 1] /\ k + 1 \in 1..Len(s)
    BY <1>1, <2>1
  <2>3. QED
    BY <2>2 DEF Elems, Items
<1>6. Head(s) \in Elems(s)
  BY <1>1, <1>3 DEF Elems, Items
<1>7. QED
  BY <1>4, <1>5, <1>6

\* A part of a sequence with one item more.
LEMMA ItemsMore ==
  ASSUME NEW s, NEW a \in Nat, NEW n \in Nat, a <= n + 1
  PROVE  Items(s, a, n + 1) = Items(s, a, n) \cup {s[n + 1]}
<1>1. \A k \in a..(n + 1) : k \in a..n \/ k = n + 1
  OBVIOUS
<1>2. n + 1 \in a..(n + 1) /\ \A k \in a..n : k \in a..(n + 1)
  OBVIOUS
<1>3. QED
  BY <1>1, <1>2 DEF Items

\* A part of a sequence is the same when the sequence goes on.
LEMMA ItemsStay ==
  ASSUME NEW s \in Seq(Nat), NEW x \in Nat, NEW a \in Nat \ {0}, NEW n \in Nat, n <= Len(s)
  PROVE  Items(Append(s, x), a, n) = Items(s, a, n)
<1>1. \A k \in a..n : k \in 1..Len(s)
  BY ItemIs
<1>2. \A k \in a..n : Append(s, x)[k] = s[k]
  BY <1>1, AppendIs
<1>3. QED
  BY <1>2 DEF Items

\* A later item at the end of a rising sequence.
LEMMA RisingAppend ==
  ASSUME NEW s \in Seq(Nat), Rising(s), NEW x \in Nat,
         \A k \in 1..Len(s) : Before(s[k], x)
  PROVE  Rising(Append(s, x))
<1> DEFINE t == Append(s, x)
<1>1. /\ Len(t) = Len(s) + 1 /\ Len(s) \in Nat /\ t[Len(s) + 1] = x
      /\ \A k \in 1..Len(s) : t[k] = s[k]
  BY AppendIs
<1> HIDE DEF t
<1>2. ASSUME NEW j \in 1..Len(t), NEW k \in 1..Len(t), j < k PROVE Before(t[j], t[k])
  <2>1. j \in 1..Len(s) /\ t[j] = s[j]
    BY <1>1, <1>2
  <2>2. CASE k \in 1..Len(s)
    BY <1>1, <1>2, <2>1, <2>2 DEF Rising
  <2>3. CASE k = Len(s) + 1
    BY <1>1, <2>1, <2>3
  <2>4. QED
    BY <1>1, <2>2, <2>3
<1>3. QED
  BY <1>2 DEF Rising, t

\* A rising sequence without its first item.
LEMMA RisingTail ==
  ASSUME NEW s \in Seq(Nat), Rising(s), s # <<>>
  PROVE  Rising(Tail(s)) /\ \A k \in 1..Len(Tail(s)) : Before(Head(s), Tail(s)[k])
<1>1. /\ Len(Tail(s)) = Len(s) - 1 /\ Len(s) \in Nat \ {0} /\ Head(s) = s[1]
      /\ \A k \in 1..Len(Tail(s)) : Tail(s)[k] = s[k + 1] /\ k + 1 \in 1..Len(s)
  BY TailIs
<1>2. QED
  BY <1>1 DEF Rising

\* What is ahead of a sequence is ahead of it with a later item, and of its rest.
LEMMA AheadAppend ==
  ASSUME NEW s \in Seq(Nat), NEW t \in Seq(Nat), Ahead(s, t), NEW x \in Nat,
         \A k \in 1..Len(s) : Before(s[k], x)
  PROVE  Ahead(s, Append(t, x))
<1>1. /\ Len(Append(t, x)) = Len(t) + 1 /\ Len(t) \in Nat /\ Append(t, x)[Len(t) + 1] = x
      /\ \A k \in 1..Len(t) : Append(t, x)[k] = t[k]
  BY AppendIs
<1>2. \A k \in 1..Len(Append(t, x)) : k \in 1..Len(t) \/ k = Len(t) + 1
  BY <1>1
<1>3. QED
  BY <1>1, <1>2 DEF Ahead

\* The first item of the second sequence may go to the end of the first.
LEMMA AheadMoves ==
  ASSUME NEW s \in Seq(Nat), NEW t \in Seq(Nat), Rising(s), Rising(t), Ahead(s, t), t # <<>>
  PROVE  /\ Rising(Append(s, Head(t))) /\ Ahead(Append(s, Head(t)), Tail(t))
         /\ Ahead(s, Tail(t)) /\ Rising(Tail(t))
         /\ \A k \in 1..Len(s) : Before(s[k], Head(t))
<1>1. /\ Len(Tail(t)) = Len(t) - 1 /\ Len(t) \in Nat \ {0} /\ Head(t) = t[1] /\ Head(t) \in Nat
      /\ \A k \in 1..Len(Tail(t)) : Tail(t)[k] = t[k + 1] /\ k + 1 \in 1..Len(t)
  BY TailIs
<1>2. Rising(Tail(t)) /\ \A k \in 1..Len(Tail(t)) : Before(Head(t), Tail(t)[k])
  BY RisingTail
<1>3. 1 \in 1..Len(t)
  BY <1>1
<1>4. \A k \in 1..Len(s) : Before(s[k], Head(t))
  BY <1>1, <1>3 DEF Ahead
<1>5. Ahead(s, Tail(t))
  BY <1>1 DEF Ahead
<1>6. /\ Len(Append(s, Head(t))) = Len(s) + 1 /\ Len(s) \in Nat
      /\ Append(s, Head(t))[Len(s) + 1] = Head(t)
      /\ \A k \in 1..Len(s) : Append(s, Head(t))[k] = s[k]
  BY <1>1, AppendIs
<1>7. \A k \in 1..Len(Append(s, Head(t))) : k \in 1..Len(s) \/ k = Len(s) + 1
  BY <1>6
<1>8. Ahead(Append(s, Head(t)), Tail(t))
  BY <1>2, <1>5, <1>6, <1>7 DEF Ahead
<1>9. QED
  BY <1>1, <1>2, <1>4, <1>5, <1>8, RisingAppend

-----------------------------------------------------------------------------
(* Every step keeps the invariant. *)

\* It holds at the start.
LEMMA FlowStarts == Init => FlowInv
<1> SUFFICES ASSUME Init PROVE FlowInv
  OBVIOUS
<1>1. Queues /\ StartOk /\ ReaderOk /\ MuxerOk /\ EncoderOk
  BY DEF Init, Queues, StartOk, ReaderOk, EncoderOk, MuxerOk, Rising, Ahead
<1>2. \A s : Items(s, 1, 0) = {}
  BY DEF Items
<1>3. Elems(<<>>) = {}
  BY <1>2 DEF Elems
<1>4. DecoderOk /\ LosslessOk
  BY <1>2, <1>3, CapsAssumption DEF Init, DecoderOk, LosslessOk, Rising, Ahead
<1>5. QED
  BY <1>1, <1>4 DEF FlowInv

\* The reader sends a packet, or EOF.
LEMMA ReaderKeepsFlow ==
  ASSUME FlowInv, Read \/ ReadEof \/ RemoveInput
  PROVE  FlowInv'
<1>1. /\ Queues /\ StartOk /\ ReaderOk /\ DecoderOk /\ EncoderOk /\ MuxerOk /\ LosslessOk
      /\ UNCHANGED <<lossless, decVars, encVars, muxVars>> /\ reader # "eof"
  BY DEF FlowInv, Read, ReadEof, RemoveInput
<1>2. UNCHANGED <<lossless, dpos, drelay, pktq, decoder, frames, undecoded, fbase, fpos, frmq,
                  encoder, outp, unencoded, epos, muxer, written>>
  BY <1>1 DEF decVars, encVars, muxVars
<1>3. StartOk' /\ EncoderOk' /\ MuxerOk' /\ LosslessOk'
  BY <1>1, <1>2 DEF StartOk, EncoderOk, MuxerOk, LosslessOk, Among
\* No EOF was sent yet, so what was taken is numbered.
<1>4. \A x, p, n : Within(x, p, n, reader) => x # EOF /\ x <= p
  BY <1>1 DEF Within
<1>5. \A x, p, n, r : x # EOF /\ x <= p => Within(x, p, n, r)
  BY DEF Within
<1>6. /\ \A k \in 1..Len(frames) : Within(frames[k], dpos, Len(src'), reader')
      /\ \A k \in 1..Len(pktq) : Within(pktq[k], dpos, Len(src'), reader')
  BY <1>1, <1>4, <1>5 DEF DecoderOk
<1>7. ASSUME Items(src', 1, dpos) = Items(src, 1, dpos) PROVE DecoderOk'
  BY <1>1, <1>2, <1>6, <1>7 DEF DecoderOk
<1>8. CASE RemoveInput
  <2>1. Queues' /\ ReaderOk' /\ src' = src
    BY <1>1, <1>2, <1>8 DEF RemoveInput, Queues, ReaderOk
  <2>2. QED
    BY <1>3, <1>7, <2>1 DEF FlowInv
<1>9. ASSUME NEW x \in Nat, src' = Append(src, x),
             x = Len(src) + 1 \/ (x = EOF /\ reader' = "eof")
      PROVE  FlowInv'
  <2>1. /\ src' \in Seq(Nat) /\ Len(src') = Len(src) + 1 /\ Len(src) \in Nat
        /\ src'[Len(src) + 1] = x /\ \A k \in 1..Len(src) : src'[k] = src[k]
    BY <1>1, <1>9, AppendIs DEF Queues
  <2>2. Queues'
    BY <1>1, <1>2, <2>1 DEF Queues
  <2>3. ReaderOk'
    <3>1. SUFFICES ASSUME NEW k \in 1..Len(src')
                   PROVE  src'[k] = k \/ (src'[k] = EOF /\ k = Len(src') /\ reader' = "eof")
      BY DEF ReaderOk
    <3>2. CASE k \in 1..Len(src)
      BY <1>1, <2>1, <3>2 DEF ReaderOk
    <3>3. CASE k = Len(src) + 1
      BY <1>9, <2>1, <3>3
    <3>4. QED
      BY <2>1, <3>2, <3>3
  <2>4. Items(src', 1, dpos) = Items(src, 1, dpos)
    BY <1>1, <1>9, ItemsStay DEF Queues
  <2>5. QED
    BY <1>3, <1>7, <2>2, <2>3, <2>4 DEF FlowInv
<1>10. CASE Read
  <2>1. Len(src) + 1 \in Nat
    BY <1>1 DEF Queues
  <2>2. QED
    BY <1>9, <1>10, <2>1 DEF Read
<1>11. CASE ReadEof
  <2>1. EOF \in Nat
    BY DEF EOF
  <2>2. QED
    BY <1>9, <1>11, <2>1 DEF ReadEof
<1>12. QED
  BY <1>8, <1>10, <1>11

\* The decoder's relay takes a packet, or gets stuck.
LEMMA DecoderRelayKeepsFlow ==
  ASSUME FlowInv, DecoderRelay \/ DecoderRelayError
  PROVE  FlowInv'
<1>1. /\ Queues /\ StartOk /\ ReaderOk /\ DecoderOk /\ EncoderOk /\ MuxerOk /\ LosslessOk
      /\ UNCHANGED <<lossless, reader, src, decoder, frames, undecoded, fbase, fpos, frmq,
                     encoder, outp, unencoded, epos, muxer, written>>
  BY DEF FlowInv, DecoderRelay, DecoderRelayError, srcVars, encVars, muxVars
<1>2. StartOk' /\ ReaderOk' /\ EncoderOk' /\ MuxerOk' /\ LosslessOk'
  BY <1>1 DEF StartOk, ReaderOk, EncoderOk, MuxerOk, LosslessOk, Among
<1>3. CASE DecoderRelayError
  <2>1. UNCHANGED <<dpos, pktq>>
    BY <1>3 DEF DecoderRelayError
  <2>2. Queues' /\ DecoderOk'
    BY <1>1, <2>1 DEF Queues, DecoderOk
  <2>3. QED
    BY <1>2, <2>2 DEF FlowInv
<1>4. CASE DecoderRelay
  <2> DEFINE x == src[dpos + 1]
  <2>1. /\ Len(src) \in Nat /\ dpos + 1 <= Len(src) /\ dpos' = dpos + 1
        /\ pktq' = Append(pktq, x) /\ dpos \in Nat
    BY <1>1, <1>4, CapsAssumption DEF DecoderRelay, Ready, Queues
  <2>2. x \in Nat /\ (x = dpos + 1 \/ (x = EOF /\ dpos + 1 = Len(src) /\ reader = "eof"))
    <3>1. dpos + 1 \in 1..Len(src)
      BY <2>1
    <3>2. QED
      BY <1>1, <3>1, ItemIs DEF Queues, ReaderOk
  <2>3. /\ pktq' \in Seq(Nat) /\ Len(pktq') = Len(pktq) + 1 /\ Len(pktq) \in Nat
        /\ pktq'[Len(pktq) + 1] = x /\ \A k \in 1..Len(pktq) : pktq'[k] = pktq[k]
    BY <1>1, <2>1, <2>2, AppendIs DEF Queues
  <2> HIDE DEF x
  <2>4. Queues'
    BY <1>1, <2>1, <2>3 DEF Queues
\* It is later than all that was taken before.
  <2>5. ASSUME NEW y \in Nat, Within(y, dpos, Len(src), reader)
        PROVE  Before(y, x) /\ Within(y, dpos', Len(src), reader)
    BY <2>1, <2>2, <2>5 DEF Within, Before, EOF
  <2>6. Within(x, dpos', Len(src), reader)
    BY <2>1, <2>2 DEF Within, EOF
  <2>7. /\ \A k \in 1..Len(frames) : frames[k] \in Nat /\ Within(frames[k], dpos, Len(src), reader)
        /\ \A k \in 1..Len(pktq) : pktq[k] \in Nat /\ Within(pktq[k], dpos, Len(src), reader)
    BY <1>1, ItemIs DEF Queues, DecoderOk
  <2>8. Rising(pktq') /\ Ahead(frames, pktq')
    BY <1>1, <2>1, <2>2, <2>5, <2>7, RisingAppend, AheadAppend DEF Queues, DecoderOk
  <2>9. \A k \in 1..Len(pktq') : Within(pktq'[k], dpos', Len(src), reader)
    <3>1. \A k \in 1..Len(pktq') : k \in 1..Len(pktq) \/ k = Len(pktq) + 1
      BY <2>3
    <3>2. QED
      BY <2>3, <2>5, <2>6, <2>7, <3>1
  <2>10. Elems(pktq') = Elems(pktq) \cup {x}
    BY <1>1, <2>1, <2>2, ElemsAppend DEF Queues
  <2>11. Items(src, 1, dpos + 1) = Items(src, 1, dpos) \cup {x}
    BY <2>1, ItemsMore DEF x
  <2>12. Elems(frames) \cup Elems(pktq') \cup undecoded = Items(src, 1, dpos')
    BY <1>1, <2>1, <2>10, <2>11 DEF DecoderOk
  <2>13. DecoderOk'
    BY <1>1, <2>5, <2>7, <2>8, <2>9, <2>12 DEF DecoderOk
  <2>14. QED
    BY <1>2, <2>4, <2>13 DEF FlowInv
<1>5. QED
  BY <1>3, <1>4

\* The decoder broadcasts a frame, for which there is room if it is lossless, or
\* refuses a packet.
LEMMA DecodeKeepsFlow ==
  ASSUME FlowInv, Decode
  PROVE  FlowInv'
<1> DEFINE x == Head(pktq)
           n == Len(frames)
<1>1. /\ Queues /\ StartOk /\ ReaderOk /\ DecoderOk /\ EncoderOk /\ MuxerOk /\ LosslessOk
      /\ UNCHANGED <<lossless, reader, src, dpos, drelay, fbase, fpos, frmq, encoder, outp,
                     unencoded, epos, muxer, written>>
      /\ pktq # <<>> /\ pktq' = Tail(pktq)
      /\ \/ FrameRoom /\ frames' = Append(frames, x) /\ UNCHANGED undecoded
         \/ undecoded' = undecoded \cup {x} /\ UNCHANGED frames
  BY DEF FlowInv, Decode, srcVars, encVars, muxVars
<1>2. /\ pktq' \in Seq(Nat) /\ Len(pktq') = Len(pktq) - 1 /\ Len(pktq) \in Nat \ {0}
      /\ x = pktq[1] /\ x \in Nat
      /\ \A k \in 1..Len(pktq') : pktq'[k] = pktq[k + 1] /\ k + 1 \in 1..Len(pktq)
  BY <1>1, TailIs DEF Queues
<1>3. /\ Rising(Append(frames, x)) /\ Ahead(Append(frames, x), pktq')
      /\ Ahead(frames, pktq') /\ Rising(pktq')
  BY <1>1, AheadMoves DEF Queues, DecoderOk
<1>4. Elems(pktq) = {x} \cup Elems(pktq')
  BY <1>1, ElemsTail DEF Queues
<1>5. /\ Within(x, dpos, Len(src), reader)
      /\ \A k \in 1..Len(pktq') : Within(pktq'[k], dpos, Len(src), reader)
  <2>1. 1 \in 1..Len(pktq)
    BY <1>2
  <2>2. QED
    BY <1>1, <1>2, <2>1 DEF DecoderOk
<1> HIDE DEF x, n
<1>6. StartOk' /\ ReaderOk'
  BY <1>1 DEF StartOk, ReaderOk
<1>7. CASE undecoded' = undecoded \cup {x} /\ UNCHANGED frames
  <2>1. Queues'
    BY <1>1, <1>2, <1>7 DEF Queues
  <2>2. Elems(frames) \cup Elems(pktq') \cup undecoded' = Items(src, 1, dpos)
    BY <1>1, <1>4, <1>7 DEF DecoderOk
  <2>3. DecoderOk'
    BY <1>1, <1>3, <1>5, <1>7, <2>2 DEF DecoderOk
  <2>4. EncoderOk' /\ MuxerOk' /\ LosslessOk'
    BY <1>1, <1>7 DEF EncoderOk, MuxerOk, LosslessOk, Among
  <2>5. QED
    BY <1>6, <2>1, <2>3, <2>4 DEF FlowInv
<1>8. CASE FrameRoom /\ frames' = Append(frames, x) /\ UNCHANGED undecoded
  <2>1. /\ frames' \in Seq(Nat) /\ Len(frames') = n + 1 /\ n \in Nat
        /\ frames'[n + 1] = x /\ \A k \in 1..n : frames'[k] = frames[k]
    BY <1>1, <1>2, <1>8, AppendIs DEF Queues, n
  <2>2. fpos \in Nat /\ fbase \in Nat /\ fpos <= n
    BY <1>1 DEF Queues, n
  <2>3. Queues'
    BY <1>1, <1>2, <2>1, <2>2 DEF Queues
  <2>4. Elems(frames') = Elems(frames) \cup {x}
    BY <1>1, <1>2, <1>8, ElemsAppend DEF Queues
  <2>5. Elems(frames') \cup Elems(pktq') \cup undecoded = Items(src, 1, dpos)
    BY <1>1, <1>4, <2>4 DEF DecoderOk
  <2>6. \A k \in 1..Len(frames') : Within(frames'[k], dpos, Len(src), reader)
    <3>1. \A k \in 1..Len(frames') : k \in 1..n \/ k = n + 1
      BY <2>1
    <3>2. QED
      BY <1>1, <1>5, <2>1, <3>1 DEF DecoderOk, n
  <2>7. DecoderOk'
    BY <1>1, <1>3, <1>5, <1>8, <2>5, <2>6 DEF DecoderOk
  <2>8. \A y : Among(y, frames, fpos) => Among(y, frames', fpos')
    <3>1. \A m \in 1..fpos : frames'[m] = frames[m]
      BY <2>1, <2>2
    <3>2. QED
      BY <1>1, <3>1 DEF Among
  <2>9. EncoderOk' /\ MuxerOk'
    BY <1>1, <2>8 DEF EncoderOk, MuxerOk
  <2>10. Items(frames', fbase + 1, fpos) = Items(frames, fbase + 1, fpos)
    <3>1. frames \in Seq(Nat) /\ fbase + 1 \in Nat \ {0}
      BY <1>1, <2>2 DEF Queues
    <3>2. Items(Append(frames, x), fbase + 1, fpos) = Items(frames, fbase + 1, fpos)
      BY <1>2, <2>2, <3>1, ItemsStay DEF n
    <3>3. QED
      BY <1>8, <3>2
  <2>11. lossless.dec /\ encoder # "none" => Len(frames') - fpos <= FrameCap
    <3>1. ASSUME lossless.dec, encoder # "none" PROVE n - fpos < FrameCap
      BY <1>8, <3>1 DEF FrameRoom, n
    <3>2. QED
      BY <2>1, <2>2, <3>1, FrameCapIs
  <2>12. LosslessOk'
    BY <1>1, <2>10, <2>11 DEF LosslessOk
  <2>13. QED
    BY <1>6, <2>3, <2>7, <2>9, <2>12 DEF FlowInv
<1>9. QED
  BY <1>1, <1>7, <1>8

\* The encoder's task begins with the frames to come.
LEMMA StartKeepsFlow ==
  ASSUME FlowInv, StartEncoder
  PROVE  FlowInv'
<1>1. /\ Queues /\ StartOk /\ ReaderOk /\ DecoderOk /\ EncoderOk /\ MuxerOk /\ LosslessOk
      /\ UNCHANGED <<lossless, reader, src, dpos, drelay, pktq, decoder, frames, undecoded,
                     frmq, outp, unencoded, epos, muxer, written>>
      /\ encoder = "none" /\ encoder' = "running" /\ fbase' = Len(frames) /\ fpos' = Len(frames)
  BY DEF FlowInv, StartEncoder, srcVars, decVars, muxVars
<1>2. outp = <<>> /\ frmq = <<>> /\ unencoded = {} /\ written = <<>> /\ Len(frames) \in Nat
  BY <1>1 DEF StartOk, Queues
<1>3. Queues' /\ StartOk' /\ ReaderOk' /\ DecoderOk'
  BY <1>1, <1>2 DEF Queues, StartOk, ReaderOk, DecoderOk
<1>4. EncoderOk' /\ MuxerOk'
  BY <1>1, <1>2 DEF EncoderOk, MuxerOk, Rising, Ahead
<1>5. Items(frames, Len(frames) + 1, Len(frames)) = {} /\ Elems(<<>>) = {}
  BY <1>2 DEF Items, Elems
<1>6. Len(frames) - Len(frames) <= FrameCap
  BY <1>2, FrameCapIs
<1>7. LosslessOk'
  BY <1>1, <1>2, <1>5, <1>6 DEF LosslessOk
<1>8. QED
  BY <1>3, <1>4, <1>7 DEF FlowInv

\* The encoder's relay is told that it fell behind: never if the decoder is lossless.
LEMMA LagKeepsFlow ==
  ASSUME FlowInv, EncoderRelayLags
  PROVE  FlowInv'
<1>1. /\ Queues /\ StartOk /\ ReaderOk /\ DecoderOk /\ EncoderOk /\ MuxerOk /\ LosslessOk
      /\ UNCHANGED <<lossless, reader, src, dpos, drelay, pktq, decoder, frames, undecoded,
                     fbase, frmq, encoder, outp, unencoded, epos, muxer, written>>
      /\ fpos' = Len(frames) - FrameCap /\ Len(frames) - fpos > FrameCap /\ encoder = "running"
  BY DEF FlowInv, EncoderRelayLags, Lags, srcVars, decVars, muxVars
<1>2. /\ fpos \in Nat /\ Len(frames) \in Nat /\ FrameCap \in Nat \ {0} /\ fbase \in Nat
      /\ fpos' \in Nat /\ fpos' <= Len(frames) /\ fpos < fpos' /\ fbase <= fpos'
  <2>1. fpos \in Nat /\ Len(frames) \in Nat /\ fbase \in Nat /\ fbase <= fpos
    BY <1>1 DEF Queues
  <2>2. QED
    BY <1>1, <2>1, FrameCapIs
<1>3. ~lossless.dec
  BY <1>1, <1>2 DEF LosslessOk
<1>4. Queues' /\ StartOk' /\ ReaderOk' /\ DecoderOk' /\ LosslessOk'
  BY <1>1, <1>2, <1>3 DEF Queues, StartOk, ReaderOk, DecoderOk, LosslessOk
<1>5. \A y : Among(y, frames, fpos) => Among(y, frames', fpos')
  BY <1>1, <1>2 DEF Among
<1>6. EncoderOk' /\ MuxerOk'
  BY <1>1, <1>5 DEF EncoderOk, MuxerOk
<1>7. QED
  BY <1>4, <1>6 DEF FlowInv

\* The encoder's relay takes a frame, and keeps or drops it.
LEMMA EncoderRelayKeepsFlow ==
  ASSUME FlowInv, EncoderRelay
  PROVE  FlowInv'
<1> DEFINE x == frames[fpos + 1]
<1>1. /\ Queues /\ StartOk /\ ReaderOk /\ DecoderOk /\ EncoderOk /\ MuxerOk /\ LosslessOk
      /\ UNCHANGED <<lossless, reader, src, dpos, drelay, pktq, decoder, frames, undecoded,
                     fbase, encoder, outp, unencoded, epos, muxer, written>>
      /\ fpos' = fpos + 1 /\ encoder = "running"
      /\ frmq' = Append(frmq, x) \/ (~lossless.enc /\ frmq' = frmq)
  BY DEF FlowInv, EncoderRelay, Offered, DropsWhenFull, srcVars, decVars, muxVars
<1>2. /\ fpos \in Nat /\ Len(frames) \in Nat /\ fpos + 1 \in 1..Len(frames)
      /\ fbase \in Nat /\ fbase <= fpos
  BY <1>1, CapsAssumption DEF EncoderRelay, Ready, Queues
<1>3. x \in Nat
  BY <1>1, <1>2, ItemIs DEF Queues
\* It is later than all that was taken before.
<1>4. ASSUME NEW y, Among(y, frames, fpos) PROVE Before(y, x) /\ Among(y, frames', fpos')
  <2>1. PICK m \in 1..fpos : frames[m] = y
    BY <1>4 DEF Among
  <2>2. m \in 1..Len(frames) /\ m < fpos + 1 /\ m \in 1..fpos'
    BY <1>1, <1>2
  <2>3. QED
    BY <1>1, <1>2, <2>1, <2>2 DEF DecoderOk, Rising, Among
<1>5. Among(x, frames', fpos')
  <2>1. fpos + 1 \in 1..fpos'
    BY <1>1, <1>2
  <2>2. QED
    BY <1>1, <2>1 DEF Among
<1>6. Items(frames, fbase + 1, fpos + 1) = Items(frames, fbase + 1, fpos) \cup {x}
  <2>1. fbase + 1 \in Nat /\ fpos \in Nat /\ fbase + 1 <= fpos + 1
    BY <1>2
  <2>2. QED
    BY <2>1, ItemsMore
<1> HIDE DEF x
<1>7. StartOk' /\ ReaderOk' /\ DecoderOk'
  BY <1>1 DEF StartOk, ReaderOk, DecoderOk
<1>8. lossless'.dec /\ encoder' # "none" => Len(frames') - fpos' <= FrameCap
  BY <1>1, <1>2, FrameCapIs DEF LosslessOk
<1>9. CASE ~lossless.enc /\ frmq' = frmq
  <2>1. Queues'
    BY <1>1, <1>2, <1>9 DEF Queues
  <2>2. EncoderOk' /\ MuxerOk'
    BY <1>1, <1>4, <1>9 DEF EncoderOk, MuxerOk
  <2>3. LosslessOk'
    BY <1>1, <1>8, <1>9 DEF LosslessOk
  <2>4. QED
    BY <1>7, <2>1, <2>2, <2>3 DEF FlowInv
<1>10. CASE frmq' = Append(frmq, x)
  <2>1. /\ frmq' \in Seq(Nat) /\ Len(frmq') = Len(frmq) + 1 /\ Len(frmq) \in Nat
        /\ frmq'[Len(frmq) + 1] = x /\ \A k \in 1..Len(frmq) : frmq'[k] = frmq[k]
    BY <1>1, <1>3, <1>10, AppendIs DEF Queues
  <2>2. Queues'
    BY <1>1, <1>2, <2>1 DEF Queues
  <2>3. /\ \A k \in 1..Len(frmq) : Before(frmq[k], x)
        /\ \A k \in 1..Len(outp) : Before(outp[k], x)
        /\ \A k \in 1..Len(written) : Before(written[k], x)
    BY <1>1, <1>4 DEF EncoderOk, MuxerOk
  <2>4. Rising(frmq') /\ Ahead(outp, frmq') /\ Ahead(written, frmq')
    BY <1>1, <1>3, <1>10, <2>3, RisingAppend, AheadAppend DEF Queues, EncoderOk, MuxerOk
  <2>5. \A k \in 1..Len(frmq') : Among(frmq'[k], frames', fpos')
    <3>1. \A k \in 1..Len(frmq') : k \in 1..Len(frmq) \/ k = Len(frmq) + 1
      BY <2>1
    <3>2. \A k \in 1..Len(frmq) : Among(frmq[k], frames', fpos')
      BY <1>1, <1>4 DEF EncoderOk
    <3>3. ASSUME NEW k \in 1..Len(frmq') PROVE Among(frmq'[k], frames', fpos')
      <4>1. CASE k \in 1..Len(frmq)
        <5>1. PICK m \in 1..fpos' : frames'[m] = frmq[k]
          BY <1>1, <3>2, <4>1 DEF Among
        <5>2. frmq'[k] = frmq[k]
          BY <2>1, <4>1
        <5>3. QED
          BY <5>1, <5>2 DEF Among
      <4>2. CASE k = Len(frmq) + 1
        <5>1. PICK m \in 1..fpos' : frames'[m] = x
          BY <1>5 DEF Among
        <5>2. QED
          BY <2>1, <4>2, <5>1 DEF Among
      <4>3. QED
        BY <3>1, <4>1, <4>2
    <3>4. QED
      BY <3>3
  <2>6. EncoderOk' /\ MuxerOk'
    BY <1>1, <1>4, <2>4, <2>5 DEF EncoderOk, MuxerOk
  <2>7. Elems(frmq') = Elems(frmq) \cup {x}
    BY <1>1, <1>3, <1>10, ElemsAppend DEF Queues
  <2>8. LosslessOk'
    BY <1>1, <1>6, <1>8, <2>7 DEF LosslessOk
  <2>9. QED
    BY <1>7, <2>2, <2>6, <2>8 DEF FlowInv
<1>11. QED
  BY <1>1, <1>9, <1>10

\* The encoder broadcasts the first frame of its queue, or refuses it.
LEMMA EncodeKeepsFlow ==
  ASSUME FlowInv, Encode
  PROVE  FlowInv'
<1> DEFINE x == Head(frmq)
           n == Len(outp)
<1>1. /\ Queues /\ StartOk /\ ReaderOk /\ DecoderOk /\ EncoderOk /\ MuxerOk /\ LosslessOk
      /\ UNCHANGED <<lossless, reader, src, dpos, drelay, pktq, decoder, frames, undecoded,
                     fbase, fpos, epos, muxer, written>>
      /\ encoder = "running" /\ encoder' # "none" /\ frmq # <<>> /\ frmq' = Tail(frmq)
      /\ \/ outp' = Append(outp, x) /\ UNCHANGED unencoded
         \/ unencoded' = unencoded \cup {x} /\ UNCHANGED outp
  BY DEF FlowInv, Encode, srcVars, decVars, muxVars
<1>2. /\ frmq' \in Seq(Nat) /\ Len(frmq') = Len(frmq) - 1 /\ Len(frmq) \in Nat \ {0}
      /\ x = frmq[1] /\ x \in Nat
      /\ \A k \in 1..Len(frmq') : frmq'[k] = frmq[k + 1] /\ k + 1 \in 1..Len(frmq)
  BY <1>1, TailIs DEF Queues
<1>3. /\ Rising(Append(outp, x)) /\ Ahead(Append(outp, x), frmq')
      /\ Ahead(outp, frmq') /\ Rising(frmq')
  BY <1>1, AheadMoves DEF Queues, EncoderOk
<1>4. Elems(frmq) = {x} \cup Elems(frmq')
  BY <1>1, ElemsTail DEF Queues
<1>5. /\ Among(x, frames, fpos) /\ \A k \in 1..Len(frmq') : Among(frmq'[k], frames, fpos)
      /\ Ahead(written, frmq') /\ \A j \in 1..Len(written) : Before(written[j], x)
  <2>1. 1 \in 1..Len(frmq)
    BY <1>2
  <2>2. QED
    BY <1>1, <1>2, <2>1 DEF EncoderOk, MuxerOk, Ahead
<1> HIDE DEF x, n
<1>6. StartOk' /\ ReaderOk' /\ DecoderOk'
  BY <1>1 DEF StartOk, ReaderOk, DecoderOk
<1>7. \A y : Among(y, frames, fpos) <=> Among(y, frames', fpos')
  BY <1>1 DEF Among
<1>8. \A k \in 1..Len(frmq') : Among(frmq'[k], frames', fpos')
  BY <1>1, <1>5 DEF Among
<1>9. CASE unencoded' = unencoded \cup {x} /\ UNCHANGED outp
  <2>1. Queues'
    BY <1>1, <1>2, <1>9 DEF Queues
  <2>2. EncoderOk' /\ MuxerOk'
    BY <1>1, <1>3, <1>5, <1>7, <1>8, <1>9 DEF EncoderOk, MuxerOk
  <2>3. LosslessOk'
    BY <1>1, <1>4, <1>9 DEF LosslessOk
  <2>4. QED
    BY <1>6, <2>1, <2>2, <2>3 DEF FlowInv
<1>10. CASE outp' = Append(outp, x) /\ UNCHANGED unencoded
  <2>1. /\ outp' \in Seq(Nat) /\ Len(outp') = n + 1 /\ n \in Nat
        /\ outp'[n + 1] = x /\ \A k \in 1..n : outp'[k] = outp[k]
    BY <1>1, <1>2, <1>10, AppendIs DEF Queues, n
  <2>2. epos \in Nat /\ epos <= n
    BY <1>1 DEF Queues, n
  <2>3. Queues'
    BY <1>1, <1>2, <2>1, <2>2 DEF Queues
  <2>4. \A k \in 1..Len(outp') : k \in 1..n \/ k = n + 1
    BY <2>1
  <2>5. \A k \in 1..Len(outp') : Among(outp'[k], frames', fpos')
    <3>1. \A k \in 1..n : Among(outp[k], frames, fpos)
      BY <1>1 DEF EncoderOk, n
    <3>2. QED
      BY <1>1, <1>5, <2>1, <2>4, <3>1 DEF Among
  <2>6. EncoderOk'
    BY <1>1, <1>3, <1>8, <1>10, <2>5 DEF EncoderOk
  <2>7. ASSUME NEW j \in 1..Len(written), NEW k \in (epos + 1)..Len(outp')
        PROVE  Before(written[j], outp'[k])
    <3>1. CASE k \in (epos + 1)..n
      <4>1. k \in 1..n
        BY <2>1, <2>2, <3>1
      <4>2. QED
        BY <1>1, <2>1, <3>1, <4>1 DEF MuxerOk, n
    <3>2. CASE k = n + 1
      BY <1>5, <2>1, <3>2
    <3>3. QED
      BY <2>1, <2>2, <3>1, <3>2
  <2>8. MuxerOk'
    BY <1>1, <1>5, <1>7, <2>7 DEF MuxerOk
  <2>9. Elems(outp') = Elems(outp) \cup {x}
    BY <1>1, <1>2, <1>10, ElemsAppend DEF Queues
  <2>10. LosslessOk'
    BY <1>1, <1>4, <1>10, <2>9 DEF LosslessOk
  <2>11. QED
    BY <1>6, <2>3, <2>6, <2>8, <2>10 DEF FlowInv
<1>11. QED
  BY <1>1, <1>9, <1>10

\* The muxer subscribes, receives, and is told that it fell behind.
LEMMA MuxerKeepsFlow ==
  ASSUME FlowInv, Attach \/ MuxInput \/ MuxPacket \/ MuxLags
  PROVE  FlowInv'
<1>1. /\ Queues /\ StartOk /\ ReaderOk /\ DecoderOk /\ EncoderOk /\ MuxerOk /\ LosslessOk
      /\ UNCHANGED <<lossless, reader, src, dpos, drelay, pktq, decoder, frames, undecoded,
                     fbase, fpos, frmq, encoder, outp, unencoded>>
      /\ encoder # "none" /\ muxer' # "none"
  <2>1. muxer' # "none"
    BY DEF Attach, MuxInput, MuxPacket, MuxLags, CountEof
  <2>2. muxer # "none" => encoder # "none"
    BY DEF FlowInv, StartOk
  <2>3. encoder # "none"
    BY <2>2 DEF Attach, MuxInput, MuxPacket, MuxLags
  <2>4. QED
    BY <2>1, <2>3 DEF FlowInv, Attach, MuxInput, MuxPacket, MuxLags, srcVars, decVars, encVars
<1>2. StartOk' /\ ReaderOk' /\ DecoderOk' /\ EncoderOk' /\ LosslessOk'
  BY <1>1 DEF StartOk, ReaderOk, DecoderOk, EncoderOk, LosslessOk, Among
<1>3. epos \in Nat /\ Len(outp) \in Nat /\ epos <= Len(outp) /\ OutCap \in Nat \ {0}
  BY <1>1, CapsAssumption, ItemIs DEF Queues
<1>4. ASSUME NEW e \in Nat, written' = written, epos' = e, epos <= e, e <= Len(outp)
      PROVE  FlowInv'
  <2>1. \A k \in (e + 1)..Len(outp) : k \in (epos + 1)..Len(outp)
    BY <1>3, <1>4
  <2>2. MuxerOk'
    BY <1>1, <1>4, <2>1 DEF MuxerOk, Among
  <2>3. Queues'
    BY <1>1, <1>4 DEF Queues
  <2>4. QED
    BY <1>2, <2>2, <2>3 DEF FlowInv
<1>5. CASE MuxInput
  BY <1>3, <1>4, <1>5 DEF MuxInput
<1>6. CASE MuxLags
  <2>1. written' = written /\ (epos' = epos \/ (Len(outp) - epos > OutCap /\ epos' = Len(outp) - OutCap))
    BY <1>6 DEF MuxLags, Lags
  <2>2. epos' \in Nat /\ epos <= epos' /\ epos' <= Len(outp)
    BY <1>3, <2>1
  <2>3. QED
    BY <1>4, <2>1, <2>2
<1>7. CASE Attach
  BY <1>3, <1>4, <1>7 DEF Attach
<1>8. CASE MuxPacket
  <2> DEFINE x == outp[epos + 1]
  <2>1. epos' = epos + 1 /\ epos + 1 \in 1..Len(outp)
    BY <1>3, <1>8 DEF MuxPacket, Ready
  <2>2. x \in Nat
    BY <1>1, <2>1, ItemIs DEF Queues
  <2>3. CASE x = EOF
    BY <1>3, <1>4, <1>8, <2>1, <2>3 DEF MuxPacket
  <2>4. CASE x # EOF
    <3>1. written' = Append(written, x)
      BY <1>8, <2>4 DEF MuxPacket
    <3>2. /\ written' \in Seq(Nat) /\ Len(written') = Len(written) + 1 /\ Len(written) \in Nat
          /\ written'[Len(written) + 1] = x
          /\ \A j \in 1..Len(written) : written'[j] = written[j]
      BY <1>1, <2>2, <3>1, AppendIs DEF Queues
    <3>3. /\ Among(x, frames, fpos)
          /\ \A k \in (epos + 2)..Len(outp) : Before(x, outp[k])
          /\ \A k \in 1..Len(frmq) : Before(x, frmq[k])
      <4>1. Among(x, frames, fpos) /\ \A k \in 1..Len(frmq) : Before(x, frmq[k])
        BY <1>1, <2>1 DEF EncoderOk, Ahead
      <4>2. \A k \in (epos + 2)..Len(outp) : k \in 1..Len(outp) /\ epos + 1 < k
        BY <1>3
      <4>3. QED
        BY <1>1, <2>1, <4>1, <4>2 DEF EncoderOk, Rising
    <3>4. \A j \in 1..Len(written) :
            /\ Among(written[j], frames, fpos) /\ Before(written[j], x)
            /\ \A k \in (epos + 2)..Len(outp) : Before(written[j], outp[k])
            /\ \A k \in 1..Len(frmq) : Before(written[j], frmq[k])
      <4>1. epos + 1 \in (epos + 1)..Len(outp)
        BY <1>3, <2>1
      <4>2. \A k \in (epos + 2)..Len(outp) : k \in (epos + 1)..Len(outp)
        BY <1>3
      <4>3. QED
        BY <1>1, <4>1, <4>2 DEF MuxerOk, Ahead
    <3> HIDE DEF x
    <3>5. Rising(written')
      BY <1>1, <2>2, <3>1, <3>4, RisingAppend DEF Queues, MuxerOk
    <3>6. ASSUME NEW j \in 1..Len(written')
          PROVE  /\ Among(written'[j], frames, fpos)
                 /\ \A k \in (epos + 2)..Len(outp) : Before(written'[j], outp[k])
                 /\ \A k \in 1..Len(frmq) : Before(written'[j], frmq[k])
      <4>1. CASE j \in 1..Len(written)
        BY <3>2, <3>4, <4>1
      <4>2. CASE j = Len(written) + 1
        BY <3>2, <3>3, <4>2
      <4>3. QED
        BY <3>2, <4>1, <4>2
    <3>7. (epos' + 1)..Len(outp) = (epos + 2)..Len(outp)
      BY <1>3, <2>1
    <3>8. \A j \in 1..Len(written') : Among(written'[j], frames', fpos')
      BY <1>1, <3>6 DEF Among
    <3>9. Ahead(written', frmq)
      BY <3>6 DEF Ahead
    <3>10. MuxerOk'
      BY <1>1, <3>5, <3>6, <3>7, <3>8, <3>9 DEF MuxerOk
    <3>11. Queues'
      BY <1>1, <1>3, <2>1, <3>2 DEF Queues
    <3>12. QED
      BY <1>2, <3>10, <3>11 DEF FlowInv
  <2>5. QED
    BY <2>3, <2>4
<1>9. QED
  BY <1>5, <1>6, <1>7, <1>8

\* Steps that change nothing.
LEMMA StutterKeepsFlow ==
  ASSUME FlowInv, UNCHANGED vars
  PROVE  FlowInv'
BY DEF FlowInv, Queues, StartOk, ReaderOk, DecoderOk, EncoderOk, MuxerOk, LosslessOk, Among,
       vars, srcVars, decVars, encVars, muxVars

\* The invariant says that the stages hand on what they got.
LEMMA FlowImplied == FlowInv => FlowKept
<1> SUFFICES ASSUME FlowInv PROVE FlowKept
  OBVIOUS
<1>1. Queues /\ DecoderOk /\ EncoderOk /\ MuxerOk /\ LosslessOk
  BY DEF FlowInv
<1>2. \A s \in Seq(Nat) : DOMAIN s = 1..Len(s)
  OBVIOUS
<1>3. \A s \in Seq(Nat) : Rising(s) => Increasing(s)
  BY <1>2 DEF Increasing, Rising, Before
<1>4. OrderKept
  BY <1>1, <1>3 DEF OrderKept, Queues, DecoderOk, EncoderOk, MuxerOk
<1>5. LosslessTasks
  BY <1>1 DEF LosslessTasks, DecoderOk, LosslessOk
<1>6. QED
  BY <1>4, <1>5 DEF FlowKept

(***************************************************************************)
(* For any capacities and any number of packets, at any speed of any stage *)
(* and whenever the encoder and the muxer come in: two lossless tasks lose *)
(* nothing but what a codec refuses between the reader's broadcast and the *)
(* encoder's, and no output reorders or repeats a frame, whatever the      *)
(* relays and the muxer drop (decoder.rs, encoder.rs).                     *)
(***************************************************************************)
THEOREM FlowKeptAlways == Spec => []FlowKept
<1>1. FlowInv /\ [Next]_vars => FlowInv'
  BY ReaderKeepsFlow, DecoderRelayKeepsFlow, DecodeKeepsFlow, StartKeepsFlow, LagKeepsFlow,
     EncoderRelayKeepsFlow, EncodeKeepsFlow, MuxerKeepsFlow, StutterKeepsFlow DEF Next
<1>2. QED
  BY <1>1, FlowStarts, FlowImplied, PTL DEF Spec

=============================================================================
