---------------------------- MODULE Pipe_proofs ----------------------------
(***************************************************************************)
(* The ZLMediaKit barrier of module Pipe, and the frames that go through   *)
(* it, for every list of outputs and every bound.                          *)
(***************************************************************************)
EXTENDS Pipe, FiniteSetTheorems, SequenceTheorems, TLAPS

Kept     == {i \in Demuxed : out[i] = "accepted"}
Rejected == {i \in Demuxed : out[i] = "rejected"}
Settled  == phase \notin {"new", "adding"}

-----------------------------------------------------------------------------
(* The inductive invariant, in named parts. *)

\* TypeOK less the two counters, whose bounds come from CountInv.
ShapeOK ==
  /\ phase \in {"new", "adding", "waiting", "draining", "returned"}
  /\ cancelled \in BOOLEAN
  /\ next \in 1..Len(Outputs) + 1
  /\ out \in [Outs -> {"none", "accepted", "rejected"}]
  /\ input \in {"none", "pending", "top", "read", "ended"}
  /\ avail \in SUBSET AvTypes
  /\ removed \in BOOLEAN
  /\ sent \in Seq(AvTypes \cup {EOF})
  /\ relay \in [Outs -> {"none", "running", "ended"}]
  /\ since \in [Outs -> Nat]
  /\ pos \in [Outs -> Nat]
  /\ lagged \in [Outs -> BOOLEAN]
  /\ chan \in [Outs -> Seq(Nat)]
  /\ fwd \in [Outs -> {"none", "reading", "barrier", "ended"}]
  /\ hand \in [Outs -> Nat]
  /\ completed \in BOOLEAN
  /\ tracks \in SUBSET Outs
  /\ inits \in Nat
  /\ delivered \in [Outs -> Seq(Nat)]

\* The outputs before next are settled, the others untouched.
OutInv ==
  /\ \A i \in Outs : i >= next <=> out[i] = "none"
  /\ Settled => next \notin Outs

\* The coordinator's counters count what they are meant to.
CountInv ==
  /\ registered = Cardinality(tracks)
  /\ expected = Cardinality(Demuxed \ Rejected)

\* Forwarders exist for kept outputs only; a registered one is at the barrier
\* until it opens, and pushes nothing before.
FwdInv ==
  /\ \A i \in Outs : fwd[i] # "none" => Settled /\ i \in Kept
  /\ tracks \subseteq Kept
  /\ tracks # {} => Settled
  /\ \A i \in tracks : fwd[i] = "barrier" \/ completed
  /\ \A i \in Outs : delivered[i] # <<>> => completed

\* The barrier opens exactly when the last kept track has registered.
DoneInv ==
  /\ inits = IF completed THEN 1 ELSE 0
  /\ completed => tracks = Kept /\ Settled
  /\ Settled /\ tracks # {} /\ Kept \subseteq tracks => completed

CoordInv == ShapeOK /\ OutInv /\ CountInv /\ FwdInv /\ DoneInv

-----------------------------------------------------------------------------
LEMMA OutsInterval == Outs = 1..Len(Outputs) /\ Len(Outputs) \in Nat
  BY OutputsAssumption DEF Outs

LEMMA DemuxedFinite ==
  ASSUME NEW S \in SUBSET Demuxed
  PROVE  IsFiniteSet(S) /\ Cardinality(S) \in Nat
  <1>1. IsFiniteSet(Outs)
    BY OutsInterval, FS_Interval
  <1>2. S \subseteq Outs
    BY DEF Demuxed
  <1> QED
    BY <1>1, <1>2, FS_Subset, FS_CardinalityType

LEMMA HeadTailNat ==
  ASSUME NEW s \in Seq(Nat), s # <<>>
  PROVE  Head(s) \in Nat /\ Tail(s) \in Seq(Nat)
  OBVIOUS

LEMMA AppendNat ==
  ASSUME NEW s \in Seq(Nat), NEW n \in Nat
  PROVE  Append(s, n) \in Seq(Nat)
  OBVIOUS

LEMMA CoordInit == Init => CoordInv
  <1> SUFFICES ASSUME Init PROVE CoordInv
    OBVIOUS
  <1>1. ShapeOK
    <2>1. <<>> \in Seq(Nat) /\ <<>> \in Seq(AvTypes \cup {EOF})
      OBVIOUS
    <2>2. next \in 1..Len(Outputs) + 1
      BY OutsInterval DEF Init
    <2>3. chan \in [Outs -> Seq(Nat)] /\ delivered \in [Outs -> Seq(Nat)]
      BY <2>1, Zenon DEF Init
    <2> QED
      BY <2>1, <2>2, <2>3 DEF Init, ShapeOK, End
  <1>2. OutInv
    BY OutsInterval DEF Init, OutInv, Settled
  <1>3. CountInv
    <2>1. Rejected = {}
      BY DEF Init, Rejected, Demuxed
    <2> QED
      BY <2>1, FS_EmptySet DEF Init, CountInv
  <1>4. FwdInv /\ DoneInv
    BY DEF Init, FwdInv, DoneInv, Settled
  <1> QED
    BY <1>1, <1>2, <1>3, <1>4 DEF CoordInv

-----------------------------------------------------------------------------
(* Next keeps the shape. *)

LEMMA ShapeStep ==
  ASSUME ShapeOK, [Next]_vars
  PROVE  ShapeOK'
  <1> USE OutsInterval, BoundsAssumption DEF ShapeOK
  <1>1. CASE UNCHANGED vars
    BY <1>1 DEF vars, startVars, inputVars, relayVars, coordVars, fwdVars
  <1>2. CASE Start \/ Cancel \/ SpawnForwarders \/ Unwind \/ Return
    <2>1. CASE Start
      BY <2>1 DEF Start, inputVars, relayVars, coordVars, fwdVars
    <2>2. CASE Cancel
      BY <2>2 DEF Cancel, inputVars, relayVars, coordVars, fwdVars
    <2>3. CASE SpawnForwarders
      BY <2>3 DEF SpawnForwarders, inputVars, relayVars, coordVars, fwdVars
    <2>4. CASE Unwind
      BY <2>4 DEF Unwind, RemoveInput, inputVars, relayVars, coordVars, fwdVars
    <2>5. CASE Return
      BY <2>5 DEF Return, inputVars, relayVars, coordVars, fwdVars
    <2> QED
      BY <1>2, <2>1, <2>2, <2>3, <2>4, <2>5
  <1>3. ASSUME NEW i \in Outs, Attaching(i), Reject(i) PROVE
          /\ UNCHANGED <<phase, cancelled, removed, sent, relayVars, chan, fwdVars>>
          /\ next' \in 1..Len(Outputs) + 1
          /\ out' \in [Outs -> {"none", "accepted", "rejected"}]
          /\ completed' \in BOOLEAN /\ tracks' \in SUBSET Outs /\ inits' \in Nat
    <2>1. next' \in 1..Len(Outputs) + 1 /\ out' \in [Outs -> {"none", "accepted", "rejected"}]
      BY <1>3 DEF Attaching, Reject
    <2>2. tracks' \in SUBSET Outs
      BY <1>3 DEF Reject, ExpectOneLess, coordVars
    <2>3. CASE i \in Demuxed
      BY <1>3, <2>1, <2>2, <2>3 DEF Reject, ExpectOneLess, TryFinalize
    <2>4. CASE i \notin Demuxed
      BY <1>3, <2>1, <2>2, <2>4 DEF Reject, coordVars
    <2> QED
      BY <2>3, <2>4
  <1>4. ASSUME NEW i \in Outs, OpenFails(i) PROVE ShapeOK'
    BY <1>3, <1>4 DEF OpenFails, relayVars, fwdVars
  <1>5. ASSUME NEW i \in Outs, NEW streams \in SUBSET AvTypes, OutputFails(i, streams)
        PROVE  ShapeOK'
    BY <1>3, <1>5 DEF OutputFails, relayVars, fwdVars
  <1>6. ASSUME NEW i \in Outs, NEW streams \in SUBSET AvTypes, Accept(i, streams)
        PROVE  ShapeOK'
    BY <1>6 DEF Accept, Attaching, coordVars, fwdVars
  <1>7. CASE ReaderLoop
    BY <1>7 DEF ReaderLoop, startVars, relayVars, coordVars, fwdVars
  <1>8. CASE ReadEof
    BY <1>8 DEF ReadEof, startVars, relayVars, coordVars, fwdVars
  <1>9. ASSUME NEW av \in avail, ReadPacket(av) PROVE ShapeOK'
    <2>1. sent' \in Seq(AvTypes \cup {EOF})
      BY <1>9 DEF ReadPacket
    <2> QED
      BY <1>9, <2>1 DEF ReadPacket, startVars, relayVars, coordVars, fwdVars
  <1>10. ASSUME NEW i \in Outs, RelayStep(i) PROVE ShapeOK'
    <2>1. CASE RelayLags(i)
      <3>1. Len(sent) - BroadcastCap \in Nat
        <4>1. Len(sent) \in Nat /\ pos[i] \in Nat /\ BroadcastCap \in Nat
          BY LenProperties
        <4> QED
          BY <2>1, <4>1 DEF RelayLags, Behind
      <3> QED
        BY <2>1, <3>1 DEF RelayLags, startVars, inputVars, coordVars, fwdVars
    <2>2. CASE RelayPacket(i)
      <3>1. pos[i] + 1 \in Nat /\ chan[i] \in Seq(Nat)
        <4>1. pos[i] \in Nat /\ chan[i] \in Seq(Nat)
          OBVIOUS
        <4> HIDE DEF ShapeOK
        <4> QED
          BY <4>1
      <3>2. Append(chan[i], pos[i] + 1) \in Seq(Nat)
        BY <3>1, AppendNat
      <3>3. chan' \in [Outs -> Seq(Nat)]
        BY <2>2, <3>2 DEF RelayPacket
      <3> QED
        BY <2>2, <3>1, <3>3 DEF RelayPacket, startVars, inputVars, coordVars, fwdVars
    <2>3. CASE RelayEof(i)
      <3>1. Append(chan[i], End) \in Seq(Nat)
        BY AppendNat DEF End
      <3>2. chan' \in [Outs -> Seq(Nat)]
        BY <2>3, <3>1 DEF RelayEof
      <3>3. pos' \in [Outs -> Nat]
        <4>1. pos \in [Outs -> Nat] /\ pos' = [pos EXCEPT ![i] = @ + 1]
          BY <2>3 DEF RelayEof
        <4> HIDE DEF ShapeOK
        <4> QED
          BY <4>1
      <3> QED
        BY <2>3, <3>2, <3>3 DEF RelayEof, startVars, inputVars, coordVars, fwdVars
    <2>4. CASE RelayClosed(i)
      BY <2>4 DEF RelayClosed, startVars, inputVars, coordVars, fwdVars
    <2> QED
      BY <1>10, <2>1, <2>2, <2>3, <2>4 DEF RelayStep
  <1>11. ASSUME NEW i \in Outs, FwdStep(i) PROVE ShapeOK'
    <2>1. CASE FwdSkip(i)
      <3>1. chan' \in [Outs -> Seq(Nat)]
        BY <2>1, HeadTailNat DEF FwdSkip
      <3> QED
        BY <2>1, <3>1 DEF FwdSkip, startVars, inputVars, relayVars, coordVars, fwdVars
    <2>2. CASE FwdRegister(i)
      <3>1. chan' \in [Outs -> Seq(Nat)] /\ hand' \in [Outs -> Nat]
        BY <2>2, HeadTailNat DEF FwdRegister
      <3>2. completed' \in BOOLEAN /\ inits' \in Nat /\ tracks' \in SUBSET Outs
        BY <2>2 DEF FwdRegister, RegisterTrack, TryFinalize
      <3> QED
        BY <2>2, <3>1, <3>2 DEF FwdRegister, startVars, inputVars, relayVars
    <2>3. CASE FwdPastBarrier(i)
      <3>1. delivered' \in [Outs -> Seq(Nat)] /\ hand' \in [Outs -> Nat]
        BY <2>3, AppendNat DEF FwdPastBarrier, Push, End
      <3> QED
        BY <2>3, <3>1 DEF FwdPastBarrier, startVars, inputVars, relayVars, coordVars
    <2>4. CASE FwdPush(i)
      <3>1. Head(chan[i]) \in Nat /\ Tail(chan[i]) \in Seq(Nat)
        BY <2>4, HeadTailNat DEF FwdPush
      <3>2. Append(delivered[i], Head(chan[i])) \in Seq(Nat)
        BY <3>1, AppendNat
      <3>3. delivered' \in [Outs -> Seq(Nat)] /\ chan' \in [Outs -> Seq(Nat)]
        BY <2>4, <3>1, <3>2 DEF FwdPush, Push
      <3> QED
        BY <2>4, <3>3 DEF FwdPush, startVars, inputVars, relayVars, coordVars
    <2>5. CASE FwdEnd(i)
      BY <2>5 DEF FwdEnd, startVars, inputVars, relayVars, coordVars
    <2> QED
      BY <1>11, <2>1, <2>2, <2>3, <2>4, <2>5 DEF FwdStep
  <1> QED
    BY <1>1, <1>2, <1>4, <1>5, <1>6, <1>7, <1>8, <1>9, <1>10, <1>11
    DEF Next, StartStep, ReaderStep

-----------------------------------------------------------------------------
(* The steps that matter to the barrier, one lemma each. *)

LEMMA RejectStep ==
  ASSUME CoordInv, ShapeOK', NEW i \in Outs, Attaching(i), Reject(i)
  PROVE  CoordInv'
  <1> USE OutsInterval
  <1>1. out[i] = "none" /\ ~Settled /\ tracks = {} /\ ~completed
    BY DEF CoordInv, ShapeOK, OutInv, FwdInv, DoneInv, Attaching, Settled
  <1>2. UNCHANGED <<phase, fwd, delivered, tracks, registered>>
    BY DEF Reject, ExpectOneLess, coordVars, fwdVars
  <1>3. registered = 0
    BY <1>1, FS_EmptySet DEF CoordInv, CountInv
  <1>4. UNCHANGED <<completed, inits>>
    BY <1>1, <1>3 DEF Reject, ExpectOneLess, TryFinalize, Finalizes, coordVars, CoordInv, ShapeOK
  <1>5. OutInv'
    BY <1>1, <1>2 DEF CoordInv, ShapeOK, OutInv, Reject, Attaching, Settled
  <1>6. CASE i \notin Demuxed
    <2>1. UNCHANGED <<expected, Rejected, Kept>>
      <3>1. expected' = expected
        BY <1>6 DEF Reject, coordVars
      <3>2. \A j \in Demuxed : out'[j] = out[j]
        BY <1>6 DEF CoordInv, ShapeOK, Reject, Demuxed
      <3> QED
        BY <3>1, <3>2 DEF Rejected, Kept
    <2> QED
      BY <1>1, <1>2, <1>4, <1>5, <2>1, SMTT(30) DEF CoordInv, CountInv, FwdInv, DoneInv, Settled
  <1>7. CASE i \in Demuxed
    <2>1. (Demuxed \ Rejected)' = (Demuxed \ Rejected) \ {i} /\ i \in Demuxed \ Rejected
      BY <1>7, <1>1 DEF CoordInv, ShapeOK, Reject, Rejected, Demuxed
    <2>2. IsFiniteSet(Demuxed \ Rejected)
      BY DemuxedFinite
    <2>3. Cardinality((Demuxed \ Rejected)') = Cardinality(Demuxed \ Rejected) - 1
      BY <2>1, <2>2, FS_RemoveElement
    <2>4. expected # 0 /\ expected \in Nat
      BY <2>1, <2>2, FS_EmptySet, FS_CardinalityType DEF CoordInv, CountInv
    <2>5. expected' = expected - 1
      BY <1>7, <2>4 DEF Reject, ExpectOneLess
    <2>6. CountInv'
      BY <1>2, <2>3, <2>5 DEF CoordInv, CountInv
    <2> QED
      BY <1>1, <1>2, <1>4, <1>5, <2>6 DEF CoordInv, FwdInv, DoneInv, Settled
  <1> QED
    BY <1>6, <1>7

LEMMA AcceptStep ==
  ASSUME CoordInv, ShapeOK', NEW i \in Outs, NEW streams \in SUBSET AvTypes,
         Accept(i, streams)
  PROVE  CoordInv'
  <1> USE OutsInterval
  <1>1. out[i] = "none" /\ ~Settled /\ tracks = {} /\ ~completed
    BY DEF CoordInv, ShapeOK, OutInv, FwdInv, DoneInv, Accept, Attaching, Settled
  <1>2. UNCHANGED <<phase, fwd, delivered, coordVars>>
    BY DEF Accept, fwdVars
  <1>3. OutInv'
    BY <1>1, <1>2 DEF CoordInv, ShapeOK, OutInv, Accept, Attaching, Settled
  <1>4. UNCHANGED Rejected
    BY <1>1 DEF CoordInv, ShapeOK, Accept, Rejected, Demuxed
  <1>5. CountInv'
    BY <1>2, <1>4 DEF CoordInv, CountInv, coordVars
  <1> QED
    BY <1>1, <1>2, <1>3, <1>5 DEF CoordInv, FwdInv, DoneInv, Settled, coordVars

LEMMA SpawnStep ==
  ASSUME CoordInv, ShapeOK', SpawnForwarders
  PROVE  CoordInv'
  <1>1. UNCHANGED <<next, out, delivered, coordVars, Kept, Rejected>> /\ Settled' /\ ~Settled
    BY DEF SpawnForwarders, Settled, Kept, Rejected
  <1>2. tracks = {} /\ ~completed
    BY <1>1 DEF CoordInv, FwdInv, DoneInv
  <1>3. \A i \in Outs : fwd'[i] # "none" => i \in Kept
    BY DEF SpawnForwarders, Kept
  <1> QED
    BY <1>1, <1>2, <1>3
    DEF CoordInv, OutInv, CountInv, FwdInv, DoneInv, coordVars, SpawnForwarders

LEMMA RegisterStep ==
  ASSUME CoordInv, ShapeOK', NEW i \in Outs, FwdRegister(i)
  PROVE  CoordInv'
  <1>1. i \in Kept /\ i \notin tracks /\ Settled /\ ~completed
    BY DEF CoordInv, FwdInv, DoneInv, FwdRegister, TrackInitialized
  <1>2. UNCHANGED <<phase, next, out, expected, delivered, Kept, Rejected>>
    BY DEF FwdRegister, RegisterTrack, startVars, Kept, Rejected
  <1>3. tracks' = tracks \cup {i} /\ fwd' = [fwd EXCEPT ![i] = "barrier"]
    BY DEF FwdRegister, RegisterTrack
  <1>4. IsFiniteSet(tracks) /\ Kept \subseteq Demuxed /\ IsFiniteSet(Kept)
    BY DemuxedFinite DEF CoordInv, FwdInv, Kept
  <1>5. Cardinality(tracks') = registered + 1 /\ registered' = registered + 1
    BY <1>1, <1>3, <1>4, FS_AddElement DEF CoordInv, CountInv, FwdRegister, RegisterTrack
  <1>6. Demuxed \ Rejected = Kept
    <2>1. next \in 1..Len(Outputs) + 1 /\ next \notin Outs
      BY <1>1 DEF CoordInv, ShapeOK, OutInv
    <2>2. \A j \in Outs : ~(j >= next)
      BY <2>1, OutsInterval
    <2>3. \A j \in Outs : out[j] # "none"
      BY <2>2 DEF CoordInv, OutInv
    <2>4. \A j \in Outs : out[j] \in {"accepted", "rejected"}
      BY <2>3 DEF CoordInv, ShapeOK
    <2> QED
      BY <2>4 DEF Kept, Rejected, Demuxed
  <1>7. expected = Cardinality(Kept) /\ registered \in Nat /\ expected \in Nat
    BY <1>4, <1>6, FS_CardinalityType DEF CoordInv, CountInv
  <1>8. tracks' \subseteq Kept
    BY <1>1, <1>3 DEF CoordInv, FwdInv
  <1>9. Cardinality(tracks') >= Cardinality(Kept) <=> tracks' = Kept
    BY <1>4, <1>8, FS_Subset, FS_CardinalityType
  <1>10. Finalizes(registered + 1, expected) <=> tracks' = Kept
    BY <1>1, <1>5, <1>7, <1>9 DEF Finalizes
  <1>11. /\ completed' <=> tracks' = Kept
         /\ inits' = IF completed' THEN 1 ELSE 0
    <2>1. completed' = (tracks' = Kept)
      BY <1>1, <1>10 DEF FwdRegister, RegisterTrack, TryFinalize
    <2>2. inits' = IF Finalizes(registered + 1, expected) THEN 1 ELSE 0
      BY <1>1 DEF FwdRegister, RegisterTrack, TryFinalize, CoordInv, DoneInv
    <2>3. CASE tracks' = Kept
      BY <1>10, <2>1, <2>2, <2>3
    <2>4. CASE tracks' # Kept
      BY <1>10, <2>1, <2>2, <2>4
    <2> QED
      BY <2>3, <2>4
  <1>12. OutInv' /\ CountInv'
    BY <1>2, <1>5 DEF CoordInv, OutInv, CountInv, Settled
  <1>13. FwdInv'
    BY <1>1, <1>2, <1>3, <1>8 DEF CoordInv, ShapeOK, FwdInv, Settled
  <1>14. DoneInv'
    BY <1>1, <1>2, <1>3, <1>8, <1>11 DEF CoordInv, DoneInv, Settled
  <1> QED
    BY <1>12, <1>13, <1>14 DEF CoordInv

\* A step that only moves start() on, or a forwarder that is past registering.
LEMMA QuietStep ==
  ASSUME CoordInv, ShapeOK',
         UNCHANGED <<next, out, coordVars>>,
         Settled' <=> Settled,
         \A i \in Outs : fwd'[i] # "none" => fwd[i] # "none",
         \A i \in Outs : fwd[i] = "barrier" => fwd'[i] = "barrier" \/ completed,
         \A i \in Outs : delivered'[i] # delivered[i] => completed
  PROVE  CoordInv'
  <1>1. UNCHANGED <<Kept, Rejected>>
    BY DEF Kept, Rejected
  <1>2. OutInv' /\ CountInv' /\ DoneInv'
    BY <1>1 DEF CoordInv, OutInv, CountInv, DoneInv, coordVars
  <1>3. FwdInv'
    BY <1>1 DEF CoordInv, ShapeOK, FwdInv, coordVars
  <1> QED
    BY <1>2, <1>3 DEF CoordInv

LEMMA CoordStep == CoordInv /\ [Next]_vars => CoordInv'
  <1> SUFFICES ASSUME CoordInv, [Next]_vars PROVE CoordInv'
    OBVIOUS
  <1> ShapeOK'
    BY ShapeStep DEF CoordInv
  <1>1. CASE UNCHANGED vars
    BY <1>1, QuietStep DEF vars, startVars, coordVars, fwdVars, Settled
  <1>2. CASE Start \/ Cancel \/ Unwind \/ Return
    BY <1>2, QuietStep DEF Start, Cancel, Unwind, Return, coordVars, fwdVars, Settled
  <1>3. ASSUME NEW i \in Outs, OpenFails(i) PROVE CoordInv'
    BY <1>3, RejectStep DEF OpenFails
  <1>4. ASSUME NEW i \in Outs, NEW streams \in SUBSET AvTypes,
               OutputFails(i, streams) \/ Accept(i, streams)
        PROVE  CoordInv'
    BY <1>4, RejectStep, AcceptStep DEF OutputFails
  <1>5. CASE ReaderStep
    BY <1>5, QuietStep DEF ReaderStep, ReaderLoop, ReadEof, ReadPacket, startVars, coordVars,
         fwdVars, Settled
  <1>6. ASSUME NEW i \in Outs, RelayStep(i) PROVE CoordInv'
    BY <1>6, QuietStep DEF RelayStep, RelayLags, RelayPacket, RelayEof, RelayClosed, startVars,
         coordVars, fwdVars, Settled
  <1>7. ASSUME NEW i \in Outs, FwdStep(i) PROVE CoordInv'
    <2>1. CASE FwdSkip(i)
      BY <2>1, QuietStep DEF FwdSkip, startVars, coordVars, fwdVars, Settled
    <2>2. CASE FwdRegister(i)
      BY <2>2, RegisterStep
    <2>3. CASE FwdPastBarrier(i)
      BY <2>3, QuietStep DEF FwdPastBarrier, Push, startVars, coordVars, Settled, CoordInv, ShapeOK
    <2>4. CASE FwdPush(i)
      <3>1. completed
        BY <2>4 DEF FwdPush, TrackInitialized, CoordInv, FwdInv
      <3> QED
        BY <2>4, <3>1, QuietStep DEF FwdPush, startVars, coordVars, Settled
    <2>5. CASE FwdEnd(i)
      BY <2>5, QuietStep DEF FwdEnd, startVars, coordVars, Settled, CoordInv, ShapeOK
    <2> QED
      BY <1>7, <2>1, <2>2, <2>3, <2>4, <2>5 DEF FwdStep
  <1> QED
    BY <1>1, <1>2, <1>3, <1>4, <1>5, <1>6, <1>7, SpawnStep DEF Next, StartStep

LEMMA CoordInductive == Spec => []CoordInv
  BY CoordInit, CoordStep, PTL DEF Spec

(***************************************************************************)
(* Pipe::start and its tasks keep their state well formed; in particular   *)
(* the coordinator never counts more tracks than there are sinks.          *)
(***************************************************************************)
THEOREM PipeTypeCorrect == Spec => []TypeOK
  <1>1. CoordInv => TypeOK
    <2> SUFFICES ASSUME CoordInv PROVE TypeOK
      OBVIOUS
    <2>1. tracks \subseteq Demuxed
      BY DEF CoordInv, FwdInv, Kept
    <2>2. registered \in 0..Cardinality(Demuxed)
      BY <2>1, DemuxedFinite, FS_Subset, FS_CardinalityType DEF CoordInv, CountInv
    <2>3. expected \in Nat
      BY DemuxedFinite DEF CoordInv, CountInv
    <2> QED
      BY <2>2, <2>3 DEF CoordInv, ShapeOK, TypeOK
  <1> QED
    BY <1>1, CoordInductive, PTL

(***************************************************************************)
(* ZlmTrackCoordinator: init_complete is called once, when every output    *)
(* the pipe kept has registered, and no frame reaches the Media before.    *)
(***************************************************************************)
THEOREM BarrierIsSafe == Spec => []BarrierHolds
  <1>1. CoordInv => BarrierHolds
    BY DEF CoordInv, FwdInv, DoneInv, Kept, BarrierHolds
  <1> QED
    BY <1>1, CoordInductive, PTL

(***************************************************************************)
(* ZlmTrackCoordinator: a rejected sibling never keeps the barrier shut.   *)
(***************************************************************************)
THEOREM BarrierIsPrompt == Spec => []BarrierOpens
  <1>1. CoordInv => BarrierOpens
    BY DEF CoordInv, DoneInv, Kept, Settled, BarrierOpens
  <1> QED
    BY <1>1, CoordInductive, PTL

(***************************************************************************)
(* The track coordinator's barrier is right in both directions, for any    *)
(* outputs in any order of registration and rejection.                     *)
(***************************************************************************)
THEOREM BarrierIsSound == Spec => []BarrierSound
  <1>1. BarrierHolds /\ BarrierOpens => BarrierSound
    BY DEF BarrierSound
  <1> QED
    BY <1>1, BarrierIsSafe, BarrierIsPrompt, PTL

-----------------------------------------------------------------------------
(* The way of the frames.  D was delivered, h is at the barrier (0: none),   *)
(* C is the channel, whose sender has ended or not, M is what was received.  *)

\* One line of frames, in order, and an End at most at the end.
Line(D, h, C, ended, M) ==
  /\ \A m \in 1..Len(D) : D[m] \in M
  /\ h # 0 => h \in M
  /\ \A m \in 1..Len(C) : C[m] \in M \/ (C[m] = 0 /\ m = Len(C) /\ ended)
  /\ \A m, n \in 1..Len(D) : m < n => D[m] < D[n]
  /\ \A m \in 1..Len(D) : h # 0 => D[m] < h
  /\ \A m \in 1..Len(D), n \in 1..Len(C) : C[n] # 0 => D[m] < C[n]
  /\ \A n \in 1..Len(C) : C[n] # 0 => h < C[n]
  /\ \A m, n \in 1..Len(C) : m < n /\ C[n] # 0 => C[m] < C[n]

\* Nothing received is missing.
Full(D, h, C, M) ==
  \A x \in M : \/ x = h
               \/ \E m \in 1..Len(D) : D[m] = x
               \/ \E m \in 1..Len(C) : C[m] = x

\* A sequence and one item more.
LEMMA AppendIs ==
  ASSUME NEW s \in Seq(Nat), NEW x \in Nat
  PROVE  /\ Append(s, x) \in Seq(Nat) /\ Len(s) \in Nat /\ Len(Append(s, x)) = Len(s) + 1
         /\ Append(s, x)[Len(s) + 1] = x
         /\ \A k \in 1..Len(s) : Append(s, x)[k] = s[k] /\ s[k] \in Nat
         /\ \A k \in 1..Len(s) + 1 : k \in 1..Len(s) \/ k = Len(s) + 1
         /\ \A k \in 1..Len(s) : k \in 1..Len(s) + 1 /\ k < Len(s) + 1
         /\ Len(s) + 1 \in 1..Len(s) + 1
OBVIOUS

\* A sequence without its first item.
LEMMA TailIs ==
  ASSUME NEW s \in Seq(Nat), s # <<>>
  PROVE  /\ Tail(s) \in Seq(Nat) /\ Len(s) \in Nat /\ Len(Tail(s)) + 1 = Len(s)
         /\ Head(s) = s[1] /\ s[1] \in Nat /\ 1 \in 1..Len(s)
         /\ \A k \in 1..Len(Tail(s)) : /\ Tail(s)[k] = s[k + 1] /\ k + 1 \in 1..Len(s) /\ 1 < k + 1
                                       /\ s[k + 1] \in Nat
         /\ \A k \in 1..Len(s) : k = 1 \/ (k - 1 \in 1..Len(Tail(s)) /\ (k - 1) + 1 = k)
OBVIOUS

\* A frame passes the barrier.
LEMMA LinePush ==
  ASSUME NEW D \in Seq(Nat), NEW h \in Nat \ {0}, NEW C \in Seq(Nat), NEW e, NEW M \in SUBSET (Nat \ {0}),
         Line(D, h, C, e, M)
  PROVE  /\ Line(Append(D, h), 0, C, e, M)
         /\ Full(D, h, C, M) => Full(Append(D, h), 0, C, M)
<1> DEFINE E == Append(D, h)
           d == Len(D)
<1>1. /\ d \in Nat /\ Len(E) = d + 1 /\ E[d + 1] = h
      /\ \A k \in 1..d : E[k] = D[k] /\ D[k] \in Nat
      /\ \A k \in 1..d + 1 : k \in 1..d \/ k = d + 1
      /\ \A k \in 1..d : k \in 1..d + 1 /\ k < d + 1
      /\ d + 1 \in 1..d + 1
  BY AppendIs
<1> HIDE DEF E
<1>2. \A n \in 1..Len(C) : C[n] \in Nat
  OBVIOUS
<1>3. \A m \in 1..Len(E) : E[m] \in M
  BY <1>1 DEF Line
<1>4. \A m, n \in 1..Len(E) : m < n => E[m] < E[n]
  <2> SUFFICES ASSUME NEW m \in 1..d + 1, NEW n \in 1..d + 1, m < n PROVE E[m] < E[n]
    BY <1>1
  <2>1. m \in 1..d
    BY <1>1
  <2>2. CASE n \in 1..d
    BY <1>1, <2>1, <2>2 DEF Line
  <2>3. CASE n = d + 1
    BY <1>1, <2>1, <2>3 DEF Line
  <2> QED
    BY <1>1, <2>2, <2>3
<1>5. \A m \in 1..Len(E), n \in 1..Len(C) : C[n] # 0 => E[m] < C[n]
  BY <1>1 DEF Line
<1>6. \A n \in 1..Len(C) : C[n] # 0 => 0 < C[n]
  BY <1>2
<1>7. Line(E, 0, C, e, M)
  BY <1>3, <1>4, <1>5, <1>6 DEF Line
<1>8. Full(D, h, C, M) => Full(E, 0, C, M)
  BY <1>1 DEF Full
<1> QED
  BY <1>7, <1>8 DEF E

\* A frame is taken from the channel.
LEMMA LineTake ==
  ASSUME NEW D \in Seq(Nat), NEW C \in Seq(Nat), NEW e, NEW M \in SUBSET (Nat \ {0}),
         Line(D, 0, C, e, M), C # <<>>, Head(C) # 0
  PROVE  /\ Line(D, Head(C), Tail(C), e, M)
         /\ Full(D, 0, C, M) => Full(D, Head(C), Tail(C), M)
<1> DEFINE T == Tail(C)
           h == Head(C)
<1>1. /\ Len(C) \in Nat /\ Len(T) + 1 = Len(C) /\ Len(T) \in Nat
      /\ h = C[1] /\ C[1] \in Nat /\ 1 \in 1..Len(C)
      /\ \A k \in 1..Len(T) : T[k] = C[k + 1] /\ k + 1 \in 1..Len(C) /\ 1 < k + 1
                              /\ C[k + 1] \in Nat
      /\ \A k \in 1..Len(C) : k = 1 \/ (k - 1 \in 1..Len(T) /\ (k - 1) + 1 = k)
  BY TailIs
<1> HIDE DEF T, h
<1>2. h \in M /\ h # 0
  BY <1>1 DEF Line, h
<1>3. \A m \in 1..Len(T) : T[m] \in M \/ (T[m] = 0 /\ m = Len(T) /\ e)
  <2> SUFFICES ASSUME NEW m \in 1..Len(T) PROVE T[m] \in M \/ (T[m] = 0 /\ m = Len(T) /\ e)
    OBVIOUS
  <2>1. T[m] = C[m + 1] /\ m + 1 \in 1..Len(C) /\ (m + 1 = Len(C) => m = Len(T))
    BY <1>1
  <2> QED
    BY <2>1 DEF Line
<1>4. \A m \in 1..Len(D) : D[m] < h
  BY <1>1, <1>2 DEF Line
<1>5. \A m \in 1..Len(D), n \in 1..Len(T) : T[n] # 0 => D[m] < T[n]
  BY <1>1 DEF Line
<1>6. \A n \in 1..Len(T) : T[n] # 0 => h < T[n]
  BY <1>1 DEF Line
<1>7. \A m, n \in 1..Len(T) : m < n /\ T[n] # 0 => T[m] < T[n]
  <2> SUFFICES ASSUME NEW m \in 1..Len(T), NEW n \in 1..Len(T), m < n, T[n] # 0 PROVE T[m] < T[n]
    OBVIOUS
  <2>1. m + 1 < n + 1 /\ m + 1 \in 1..Len(C) /\ n + 1 \in 1..Len(C)
    BY <1>1
  <2> QED
    BY <1>1, <2>1 DEF Line
<1>8. Line(D, h, T, e, M)
  BY <1>2, <1>3, <1>4, <1>5, <1>6, <1>7 DEF Line
<1>9. ASSUME Full(D, 0, C, M) PROVE Full(D, h, T, M)
  <2> SUFFICES ASSUME NEW x \in M
               PROVE  \/ x = h
                      \/ \E m \in 1..Len(D) : D[m] = x
                      \/ \E m \in 1..Len(T) : T[m] = x
    BY DEF Full
  <2>1. ASSUME NEW m \in 1..Len(C), C[m] = x PROVE x = h \/ \E k \in 1..Len(T) : T[k] = x
    <3>1. CASE m = 1
      BY <1>1, <2>1, <3>1
    <3>2. CASE m - 1 \in 1..Len(T) /\ (m - 1) + 1 = m
      <4>1. T[m - 1] = x
        BY <1>1, <2>1, <3>2
      <4> QED
        BY <3>2, <4>1
    <3> QED
      BY <1>1, <3>1, <3>2
  <2> QED
    BY <1>9, <2>1 DEF Full
<1> QED
  BY <1>8, <1>9 DEF T, h

\* The End in the channel is skipped.
LEMMA LineSkip ==
  ASSUME NEW D \in Seq(Nat), NEW C \in Seq(Nat), NEW e, NEW M \in SUBSET (Nat \ {0}),
         Line(D, 0, C, e, M), C # <<>>, Head(C) = 0
  PROVE  /\ Line(D, 0, Tail(C), e, M)
         /\ Full(D, 0, C, M) => Full(D, 0, Tail(C), M)
<1> DEFINE T == Tail(C)
<1>1. /\ Len(C) \in Nat /\ Len(T) + 1 = Len(C) /\ Len(T) \in Nat /\ C[1] = 0 /\ 1 \in 1..Len(C)
      /\ \A k \in 1..Len(C) : k = 1 \/ (k - 1 \in 1..Len(T) /\ (k - 1) + 1 = k)
  BY TailIs
<1> HIDE DEF T
<1>2. Len(T) = 0
  <2>1. Len(C) = 1
    BY <1>1 DEF Line
  <2> QED
    BY <1>1, <2>1
<1>3. Line(D, 0, T, e, M)
  BY <1>2 DEF Line
<1>4. ASSUME Full(D, 0, C, M) PROVE Full(D, 0, T, M)
  <2>1. \A m \in 1..Len(C) : C[m] = 0
    BY <1>1, <1>2
  <2> QED
    BY <1>4, <2>1 DEF Full
<1> QED
  BY <1>3, <1>4 DEF T

\* A packet later than all received before is queued.
LEMMA LineSend ==
  ASSUME NEW D \in Seq(Nat), NEW h \in Nat, NEW C \in Seq(Nat), NEW M \in SUBSET (Nat \ {0}),
         NEW x \in Nat \ {0}, \A y \in M : y < x, Line(D, h, C, FALSE, M)
  PROVE  /\ Line(D, h, Append(C, x), FALSE, M \cup {x})
         /\ Full(D, h, C, M) => Full(D, h, Append(C, x), M \cup {x})
<1> DEFINE E == Append(C, x)
           c == Len(C)
<1>1. /\ c \in Nat /\ Len(E) = c + 1 /\ E[c + 1] = x
      /\ \A k \in 1..c : E[k] = C[k] /\ C[k] \in Nat
      /\ \A k \in 1..c + 1 : k \in 1..c \/ k = c + 1
      /\ \A k \in 1..c : k \in 1..c + 1 /\ k < c + 1
      /\ c + 1 \in 1..c + 1
  BY AppendIs
<1> HIDE DEF E
<1>2. \A n \in 1..c : C[n] \in M /\ C[n] < x
  BY DEF Line
<1>3. \A m \in 1..Len(D) : D[m] \in M /\ D[m] < x
  BY DEF Line
<1>4. h < x
  BY DEF Line
<1>5. \A m \in 1..Len(E) : E[m] \in M \cup {x}
  BY <1>1, <1>2
<1>6. \A m \in 1..Len(D), n \in 1..Len(E) : E[n] # 0 => D[m] < E[n]
  BY <1>1, <1>3 DEF Line
<1>7. \A n \in 1..Len(E) : E[n] # 0 => h < E[n]
  BY <1>1, <1>4 DEF Line
<1>8. \A m, n \in 1..Len(E) : m < n /\ E[n] # 0 => E[m] < E[n]
  <2> SUFFICES ASSUME NEW m \in 1..c + 1, NEW n \in 1..c + 1, m < n, E[n] # 0 PROVE E[m] < E[n]
    BY <1>1
  <2>1. m \in 1..c
    BY <1>1
  <2>2. CASE n \in 1..c
    BY <1>1, <2>1, <2>2 DEF Line
  <2>3. CASE n = c + 1
    BY <1>1, <1>2, <2>1, <2>3
  <2> QED
    BY <1>1, <2>2, <2>3
<1>9. Line(D, h, E, FALSE, M \cup {x})
  BY <1>3, <1>5, <1>6, <1>7, <1>8 DEF Line
<1>10. Full(D, h, C, M) => Full(D, h, E, M \cup {x})
  BY <1>1 DEF Full
<1> QED
  BY <1>9, <1>10 DEF E

\* The End is queued.
LEMMA LineEof ==
  ASSUME NEW D \in Seq(Nat), NEW h \in Nat, NEW C \in Seq(Nat), NEW M \in SUBSET (Nat \ {0}),
         Line(D, h, C, FALSE, M)
  PROVE  /\ Line(D, h, Append(C, 0), TRUE, M)
         /\ Full(D, h, C, M) => Full(D, h, Append(C, 0), M)
<1> DEFINE E == Append(C, 0)
           c == Len(C)
<1>1. /\ c \in Nat /\ Len(E) = c + 1 /\ E[c + 1] = 0
      /\ \A k \in 1..c : E[k] = C[k] /\ C[k] \in Nat
      /\ \A k \in 1..c + 1 : k \in 1..c \/ k = c + 1
      /\ \A k \in 1..c : k \in 1..c + 1 /\ k < c + 1
      /\ c + 1 \in 1..c + 1
  BY AppendIs
<1> HIDE DEF E
<1>2. \A m \in 1..Len(E) : E[m] \in M \/ (E[m] = 0 /\ m = Len(E) /\ TRUE)
  BY <1>1 DEF Line
<1>3. \A n \in 1..Len(E) : E[n] # 0 => n \in 1..c
  BY <1>1
<1>4. \A m \in 1..Len(D), n \in 1..Len(E) : E[n] # 0 => D[m] < E[n]
  BY <1>1, <1>3 DEF Line
<1>5. \A n \in 1..Len(E) : E[n] # 0 => h < E[n]
  BY <1>1, <1>3 DEF Line
<1>6. \A m, n \in 1..Len(E) : m < n /\ E[n] # 0 => E[m] < E[n]
  <2> SUFFICES ASSUME NEW m \in 1..Len(E), NEW n \in 1..Len(E), m < n, E[n] # 0 PROVE E[m] < E[n]
    OBVIOUS
  <2>1. n \in 1..c /\ m \in 1..c
    BY <1>1, <1>3
  <2> QED
    BY <1>1, <2>1 DEF Line
<1>7. Line(D, h, E, TRUE, M)
  BY <1>2, <1>4, <1>5, <1>6 DEF Line
<1>8. Full(D, h, C, M) => Full(D, h, E, M)
  BY <1>1 DEF Full
<1> QED
  BY <1>7, <1>8 DEF E

\* More is received, or the sender ends.
LEMMA LineMore ==
  ASSUME NEW D, NEW h, NEW C, NEW e, NEW f, NEW M, NEW N, M \subseteq N, e => f, Line(D, h, C, e, M)
  PROVE  Line(D, h, C, f, N)
BY DEF Line

\* A line nothing was put into.
LEMMA LineNone ==
  ASSUME NEW e, NEW M
  PROVE  /\ Line(<<>>, 0, <<>>, e, M)
         /\ M = {} => Full(<<>>, 0, <<>>, M)
<1>1. Len(<<>>) = 0 /\ 1..0 = {}
  OBVIOUS
<1> QED
  BY <1>1 DEF Line, Full

-----------------------------------------------------------------------------
(* The inductive invariant of the frames. *)

\* An output nobody has subscribed for has nothing.
Blank(i) ==
  /\ relay[i] = "none" /\ fwd[i] = "none" /\ hand[i] = 0
  /\ chan[i] = <<>> /\ delivered[i] = <<>>

\* The frames of one output.
Flow(i) ==
  /\ since[i] <= pos[i] /\ pos[i] <= Len(sent)
  /\ Line(delivered[i], hand[i], chan[i], relay[i] = "ended", Due(i))
  /\ i \in Demuxed /\ out[i] = "accepted" /\ ~lagged[i] => Full(delivered[i], hand[i], chan[i], Due(i))
  /\ hand[i] # 0 <=> fwd[i] = "barrier"
  /\ out[i] # "accepted" => Blank(i)
  /\ fwd[i] = "ended" => relay[i] = "ended" /\ chan[i] = <<>>

FlowInv == \A i \in Outs : Flow(i)

\* A relay ends, and an EOF is sent, only when the reader ends; start()
\* returns only when every forwarder has ended.
EndInv ==
  /\ \A i \in Outs : relay[i] = "ended" => input = "ended"
  /\ \A k \in 1..Len(sent) : sent[k] = EOF => input = "ended"
  /\ phase = "returned" => Drained

FrameInv == FlowInv /\ EndInv

-----------------------------------------------------------------------------
(* What a step may leave alone. *)

\* What was sent stays sent.
SentKept == Len(sent) <= Len(sent') /\ \A p \in 1..Len(sent) : sent'[p] = sent[p]

\* The relay of output j receives nothing.
Idle(j) == since'[j] = since[j] /\ pos'[j] = pos[j] /\ lagged'[j] = lagged[j]

\* Output j stays attached, or stays unattached.
Attached(j) == (out'[j] = "accepted") = (out[j] = "accepted")

\* The frames of output j stay where they are.
Same(j) ==
  /\ Idle(j) /\ Attached(j)
  /\ relay'[j] = relay[j] /\ fwd'[j] = fwd[j] /\ hand'[j] = hand[j]
  /\ chan'[j] = chan[j] /\ delivered'[j] = delivered[j]

LEMMA DueType ==
  ASSUME ShapeOK, NEW i \in Outs
  PROVE  /\ Due(i) \in SUBSET (Nat \ {0})
         /\ \A y \in Due(i) : y < pos[i] + 1
BY DEF ShapeOK, Due

LEMMA DueSame ==
  ASSUME ShapeOK, NEW i \in Outs, Idle(i), SentKept, pos[i] <= Len(sent)
  PROVE  Due(i)' = Due(i)
<1>1. since[i] \in Nat /\ pos[i] \in Nat /\ Len(sent) \in Nat
  BY DEF ShapeOK
<1>2. \A p \in since[i] + 1..pos[i] : p \in 1..Len(sent)
  BY <1>1
<1>3. Due(i)' = {p \in since[i] + 1..pos[i] : sent'[p] = Outputs[i].av}
  BY DEF Due, Idle
<1> QED
  BY <1>2, <1>3 DEF Due, SentKept

LEMMA FlowStill ==
  ASSUME ShapeOK, NEW i \in Outs, Flow(i), Same(i), SentKept
  PROVE  Flow(i)'
<1>1. Due(i)' = Due(i)
  BY DueSame DEF Same, Flow
<1>2. since'[i] <= pos'[i] /\ pos'[i] <= Len(sent')
  BY DEF Same, Flow, SentKept, Idle, ShapeOK
<1>3. Line(delivered[i], hand[i], chan[i], relay[i] = "ended", Due(i))'
  BY <1>1 DEF Same, Flow
<1>4. (i \in Demuxed /\ out[i] = "accepted" /\ ~lagged[i] => Full(delivered[i], hand[i], chan[i], Due(i)))'
  BY <1>1 DEF Same, Flow, Idle, Attached
<1>5. (out[i] # "accepted" => Blank(i))'
  BY DEF Same, Flow, Blank, Attached
<1> QED
  BY <1>2, <1>3, <1>4, <1>5 DEF Same, Flow

\* A step of the other tasks, which at most send one packet more.
LEMMA SentSame ==
  ASSUME ShapeOK, UNCHANGED sent
  PROVE  SentKept
BY DEF SentKept, ShapeOK

LEMMA SentMore ==
  ASSUME ShapeOK, NEW x \in AvTypes \cup {EOF}, sent' = Append(sent, x)
  PROVE  /\ SentKept
         /\ Len(sent') = Len(sent) + 1 /\ sent'[Len(sent) + 1] = x /\ Len(sent) \in Nat
BY DEF SentKept, ShapeOK

LEMMA QuietFlow ==
  ASSUME ShapeOK, FlowInv, SentKept, \A i \in Outs : Same(i)
  PROVE  FlowInv'
<1> SUFFICES ASSUME NEW i \in Outs PROVE Flow(i)'
  BY DEF FlowInv
<1> QED
  BY FlowStill DEF FlowInv

LEMMA OneFlow ==
  ASSUME ShapeOK, FlowInv, SentKept, NEW i \in Outs, Flow(i)', \A j \in Outs : j # i => Same(j)
  PROVE  FlowInv'
<1> SUFFICES ASSUME NEW j \in Outs PROVE Flow(j)'
  BY DEF FlowInv
<1>1. CASE j = i
  BY <1>1
<1>2. CASE j # i
  BY <1>2, FlowStill DEF FlowInv
<1> QED
  BY <1>1, <1>2

-----------------------------------------------------------------------------
(* Attaching. *)

LEMMA FlowInit == Init => FrameInv
<1> SUFFICES ASSUME Init PROVE FrameInv
  OBVIOUS
<1>1. ASSUME NEW i \in Outs PROVE Flow(i)
  <2>1. /\ since[i] = 0 /\ pos[i] = 0 /\ sent = <<>> /\ delivered[i] = <<>> /\ hand[i] = 0 /\ chan[i] = <<>>
        /\ relay[i] = "none" /\ fwd[i] = "none" /\ out[i] = "none"
    BY DEF Init, End
  <2>2. Len(sent) = 0
    BY <2>1
  <2>3. Line(delivered[i], hand[i], chan[i], relay[i] = "ended", Due(i))
    BY <2>1, LineNone
  <2> QED
    BY <2>1, <2>2, <2>3 DEF Flow, Blank
<1>2. EndInv
  <2>1. Len(sent) = 0 /\ 1..0 = {}
    BY DEF Init
  <2> QED
    BY <2>1 DEF EndInv, Init
<1> QED
  BY <1>1, <1>2 DEF FrameInv, FlowInv

LEMMA AcceptFlow ==
  ASSUME CoordInv, FlowInv, NEW i \in Outs, NEW S, Accept(i, S)
  PROVE  FlowInv'
<1> USE DEF CoordInv
<1>1. out[i] = "none" /\ sent' = sent
  BY OutsInterval DEF OutInv, Accept, Attaching, ShapeOK
<1>2. Flow(i) /\ Blank(i) /\ SentKept
  BY <1>1, SentSame DEF FlowInv, Flow
<1>3. /\ since'[i] = Len(sent) /\ pos'[i] = Len(sent) /\ relay'[i] = "running" /\ out'[i] = "accepted"
      /\ fwd'[i] = "none" /\ hand'[i] = 0 /\ chan'[i] = <<>> /\ delivered'[i] = <<>>
  BY <1>2 DEF Accept, fwdVars, Blank, ShapeOK
<1>4. Len(sent) \in Nat
  BY DEF ShapeOK
<1>5. Due(i)' = {}
  BY <1>1, <1>3, <1>4 DEF Due
<1>6. Line(delivered[i], hand[i], chan[i], relay[i] = "ended", Due(i))'
  BY <1>3, <1>5, LineNone
<1>7. Full(delivered[i], hand[i], chan[i], Due(i))'
  BY <1>3, <1>5, LineNone
<1>8. Flow(i)'
  BY <1>1, <1>3, <1>4, <1>6, <1>7 DEF Flow
<1>9. \A j \in Outs : j # i => Same(j)
  BY DEF Accept, fwdVars, Same, Idle, Attached, ShapeOK
<1> QED
  BY <1>2, <1>8, <1>9, OneFlow

LEMMA RejectFlow ==
  ASSUME CoordInv, FlowInv, NEW i \in Outs, Attaching(i), Reject(i)
  PROVE  FlowInv'
<1> USE DEF CoordInv
<1>1. out[i] = "none"
  BY OutsInterval DEF OutInv, Attaching, ShapeOK
<1>2. \A j \in Outs : Same(j)
  BY <1>1 DEF Reject, relayVars, fwdVars, Same, Idle, Attached, ShapeOK
<1>3. SentKept
  BY SentSame DEF Reject
<1> QED
  BY <1>2, <1>3, QuietFlow

LEMMA SpawnFlow ==
  ASSUME CoordInv, FlowInv, SpawnForwarders
  PROVE  FlowInv'
<1> USE DEF CoordInv
<1> SUFFICES ASSUME NEW i \in Outs PROVE Flow(i)'
  BY DEF FlowInv
<1>1. Flow(i) /\ fwd[i] = "none"
  BY DEF FlowInv, FwdInv, SpawnForwarders, Settled
<1>2. /\ Idle(i) /\ out'[i] = out[i] /\ relay'[i] = relay[i] /\ hand'[i] = hand[i]
      /\ chan'[i] = chan[i] /\ delivered'[i] = delivered[i] /\ sent' = sent
  BY DEF SpawnForwarders, relayVars, inputVars, Idle
<1>3. fwd'[i] = IF i \in Demuxed /\ out[i] = "accepted" THEN "reading" ELSE "none"
  BY DEF SpawnForwarders
<1>4. Due(i)' = Due(i)
  BY <1>1, <1>2, DueSame, SentSame DEF Flow
<1>5. Line(delivered[i], hand[i], chan[i], relay[i] = "ended", Due(i))'
  BY <1>1, <1>2, <1>4 DEF Flow
<1>6. (i \in Demuxed /\ out[i] = "accepted" /\ ~lagged[i] => Full(delivered[i], hand[i], chan[i], Due(i)))'
  BY <1>1, <1>2, <1>4 DEF Flow, Idle
<1>7. (since[i] <= pos[i] /\ pos[i] <= Len(sent))'
  BY <1>1, <1>2 DEF Flow, Idle
<1>8. (out[i] # "accepted" => Blank(i))'
  BY <1>1, <1>2, <1>3 DEF Flow, Blank
<1> QED
  BY <1>1, <1>2, <1>3, <1>5, <1>6, <1>7, <1>8 DEF Flow

-----------------------------------------------------------------------------
(* The relays. *)

\* A running relay belongs to an attached output.
LEMMA RunningIsAttached ==
  ASSUME NEW i \in Outs, Flow(i), relay[i] # "none" \/ fwd[i] # "none"
  PROVE  out[i] = "accepted"
BY DEF Flow, Blank

\* What RelayLags, RelayPacket and RelayEof leave of the others.
LEMMA RelayOthers ==
  ASSUME ShapeOK, NEW i \in Outs, RelayStep(i)
  PROVE  /\ \A j \in Outs : j # i => Same(j)
         /\ sent' = sent /\ SentKept
         /\ out' = out /\ since' = since /\ fwd' = fwd /\ hand' = hand /\ delivered' = delivered
<1>1. sent' = sent /\ out' = out /\ since' = since /\ fwd' = fwd /\ hand' = hand /\ delivered' = delivered
  BY DEF RelayStep, RelayLags, RelayPacket, RelayEof, RelayClosed, startVars, inputVars, fwdVars
<1>2. ASSUME RelayLags(i), NEW j \in Outs, j # i PROVE Same(j)
  BY <1>1, <1>2 DEF RelayLags, startVars, fwdVars, Same, Idle, Attached, ShapeOK
<1>3. ASSUME RelayPacket(i), NEW j \in Outs, j # i PROVE Same(j)
  BY <1>1, <1>3 DEF RelayPacket, startVars, fwdVars, Same, Idle, Attached, ShapeOK
<1>4. ASSUME RelayEof(i), NEW j \in Outs, j # i PROVE Same(j)
  BY <1>1, <1>4 DEF RelayEof, startVars, fwdVars, Same, Idle, Attached, ShapeOK
<1>5. ASSUME RelayClosed(i), NEW j \in Outs, j # i PROVE Same(j)
  BY <1>1, <1>5 DEF RelayClosed, startVars, fwdVars, Same, Idle, Attached, ShapeOK
<1> QED
  BY <1>1, <1>2, <1>3, <1>4, <1>5, SentSame DEF RelayStep

\* What is received grows with pos.
LEMMA DueGrows ==
  ASSUME ShapeOK, NEW i \in Outs, sent' = sent, since' = since, NEW n \in Nat, pos'[i] = n, pos[i] <= n
  PROVE  Due(i) \subseteq Due(i)'
BY DEF ShapeOK, Due

LEMMA DueNext ==
  ASSUME ShapeOK, NEW i \in Outs, sent' = sent, since' = since, pos'[i] = pos[i] + 1,
         since[i] <= pos[i]
  PROVE  Due(i)' = IF sent[pos[i] + 1] = Outputs[i].av THEN Due(i) \cup {pos[i] + 1} ELSE Due(i)
<1> DEFINE s == since[i]
           p == pos[i]
<1>1. s \in Nat /\ p \in Nat
  BY DEF ShapeOK
<1>2. Due(i)' = {k \in s + 1..p + 1 : sent[k] = Outputs[i].av}
  BY DEF Due
<1>3. s + 1..p + 1 = (s + 1..p) \cup {p + 1}
  BY <1>1
<1>4. Due(i) = {k \in s + 1..p : sent[k] = Outputs[i].av}
  BY DEF Due
<1> HIDE DEF s, p
<1>5. ASSUME sent[p + 1] = Outputs[i].av PROVE Due(i)' = Due(i) \cup {p + 1}
  BY <1>2, <1>3, <1>4, <1>5
<1>6. ASSUME sent[p + 1] # Outputs[i].av PROVE Due(i)' = Due(i)
  BY <1>2, <1>3, <1>4, <1>6
<1> QED
  BY <1>5, <1>6 DEF p

LEMMA LagsFlow ==
  ASSUME ShapeOK, NEW i \in Outs, Flow(i), RelayLags(i)
  PROVE  Flow(i)'
<1>1. /\ relay[i] = "running" /\ relay'[i] = "running" /\ chan'[i] = chan[i] /\ lagged'[i] = TRUE
      /\ pos'[i] = Len(sent) - BroadcastCap /\ Len(sent) - pos[i] > BroadcastCap
  BY DEF RelayLags, Behind, ShapeOK
<1>2. Len(sent) \in Nat /\ pos[i] \in Nat /\ since[i] \in Nat /\ BroadcastCap \in Nat
  BY BoundsAssumption DEF ShapeOK
<1>3. sent' = sent /\ out' = out /\ since' = since /\ fwd' = fwd /\ hand' = hand /\ delivered' = delivered
  BY RelayOthers DEF RelayStep
<1>4. pos[i] <= pos'[i] /\ pos'[i] <= Len(sent) /\ pos'[i] \in Nat
  BY <1>1, <1>2
<1>5. Due(i) \subseteq Due(i)'
  BY <1>3, <1>4, DueGrows
<1>6. Line(delivered[i], hand[i], chan[i], relay[i] = "ended", Due(i))'
  BY <1>1, <1>3, <1>5, LineMore DEF Flow
<1>7. (since[i] <= pos[i] /\ pos[i] <= Len(sent))'
  BY <1>2, <1>3, <1>4 DEF Flow
<1> QED
  BY <1>1, <1>3, <1>6, <1>7, RunningIsAttached DEF Flow

\* The types of one output's share.
LEMMA FlowTypes ==
  ASSUME ShapeOK, NEW i \in Outs
  PROVE  /\ delivered[i] \in Seq(Nat) /\ chan[i] \in Seq(Nat) /\ hand[i] \in Nat
         /\ since[i] \in Nat /\ pos[i] \in Nat /\ Len(sent) \in Nat
BY DEF ShapeOK

LEMMA PacketFlow ==
  ASSUME ShapeOK, NEW i \in Outs, Flow(i), RelayPacket(i)
  PROVE  Flow(i)'
<1> DEFINE p == pos[i] + 1
           D == delivered[i]
           h == hand[i]
           C == chan[i]
<1>1. /\ relay[i] = "running" /\ relay'[i] = "running" /\ lagged'[i] = lagged[i]
      /\ pos'[i] = p /\ Len(sent) - pos[i] \in 1..BroadcastCap
      /\ chan'[i] = IF i \in Demuxed /\ sent[p] = Outputs[i].av THEN Append(C, p) ELSE C
  BY DEF RelayPacket, Behind, Wants, ShapeOK
<1>2. /\ D \in Seq(Nat) /\ C \in Seq(Nat) /\ h \in Nat
      /\ since[i] \in Nat /\ pos[i] \in Nat /\ Len(sent) \in Nat /\ p \in Nat \ {0}
  BY FlowTypes
<1>3. sent' = sent /\ out' = out /\ since' = since /\ fwd' = fwd /\ hand' = hand /\ delivered' = delivered
  BY RelayOthers DEF RelayStep
<1>4. Due(i)' = IF sent[p] = Outputs[i].av THEN Due(i) \cup {p} ELSE Due(i)
  BY <1>1, <1>3, DueNext DEF Flow
<1>5. Due(i) \in SUBSET (Nat \ {0}) /\ \A y \in Due(i) : y < p
  BY DueType
<1>6. (since[i] <= pos[i] /\ pos[i] <= Len(sent))'
  BY <1>1, <1>2, <1>3, BoundsAssumption DEF Flow
<1>7. Line(D, h, C, FALSE, Due(i))
  BY <1>1 DEF Flow
<1>8. out[i] = "accepted" /\ (i \in Demuxed /\ ~lagged[i] => Full(D, h, C, Due(i)))
  BY <1>1, RunningIsAttached DEF Flow
<1>9. ASSUME Line(D, h, chan'[i], FALSE, Due(i)'),
             i \in Demuxed /\ ~lagged[i] => Full(D, h, chan'[i], Due(i)')
      PROVE  Flow(i)'
  <2>1. fwd[i] = "ended" => FALSE
    BY <1>1 DEF Flow
  <2> QED
    BY <1>1, <1>3, <1>6, <1>8, <1>9, <2>1 DEF Flow
<1>10. CASE i \in Demuxed /\ sent[p] = Outputs[i].av
  <2>1. chan'[i] = Append(C, p) /\ Due(i)' = Due(i) \cup {p}
    BY <1>1, <1>4, <1>10
  <2> HIDE DEF p, D, h, C
  <2>2. Line(D, h, Append(C, p), FALSE, Due(i) \cup {p})
    BY <1>2, <1>5, <1>7, LineSend
  <2>3. Full(D, h, C, Due(i)) => Full(D, h, Append(C, p), Due(i) \cup {p})
    BY <1>2, <1>5, <1>7, LineSend
  <2> QED
    BY <1>8, <1>9, <2>1, <2>2, <2>3
<1>11. CASE sent[p] # Outputs[i].av
  <2>1. chan'[i] = C /\ Due(i)' = Due(i)
    BY <1>1, <1>4, <1>11
  <2> QED
    BY <1>7, <1>8, <1>9, <2>1
<1>12. CASE i \notin Demuxed
  <2>1. chan'[i] = C /\ Due(i) \subseteq Due(i)'
    BY <1>1, <1>4, <1>12
  <2>2. Line(D, h, chan'[i], FALSE, Due(i)')
    BY <1>7, <2>1, LineMore
  <2> QED
    BY <1>9, <1>12, <2>2
<1> QED
  BY <1>10, <1>11, <1>12

LEMMA EofFlow ==
  ASSUME ShapeOK, NEW i \in Outs, Flow(i), RelayEof(i)
  PROVE  Flow(i)'
<1> DEFINE p == pos[i] + 1
           D == delivered[i]
           h == hand[i]
           C == chan[i]
<1>1. /\ relay[i] = "running" /\ relay'[i] = "ended" /\ lagged'[i] = lagged[i]
      /\ pos'[i] = p /\ Len(sent) - pos[i] \in 1..BroadcastCap /\ sent[p] = EOF
      /\ chan'[i] = IF i \in Demuxed THEN Append(C, 0) ELSE C
  BY DEF RelayEof, Behind, End, ShapeOK
<1>2. /\ D \in Seq(Nat) /\ C \in Seq(Nat) /\ h \in Nat
      /\ since[i] \in Nat /\ pos[i] \in Nat /\ Len(sent) \in Nat
  BY FlowTypes
<1>3. sent' = sent /\ out' = out /\ since' = since /\ fwd' = fwd /\ hand' = hand /\ delivered' = delivered
  BY RelayOthers DEF RelayStep
<1>4. Outputs[i].av # EOF
  <2>1. i \in 1..Len(Outputs)
    BY OutsInterval
  <2>2. Outputs[i] \in [av : AvTypes, dest : {"Demuxed", "Network"}]
    BY <2>1, OutputsAssumption, ElementOfSeq
  <2> QED
    BY <2>2 DEF AvTypes, EOF
<1>5. Due(i)' = Due(i)
  BY <1>1, <1>3, <1>4, DueNext DEF Flow
<1>6. Due(i) \in SUBSET (Nat \ {0})
  BY DueType
<1>7. (since[i] <= pos[i] /\ pos[i] <= Len(sent))'
  BY <1>1, <1>2, <1>3, BoundsAssumption DEF Flow
<1>8. Line(D, h, C, FALSE, Due(i))
  BY <1>1 DEF Flow
<1>9. out[i] = "accepted" /\ (i \in Demuxed /\ ~lagged[i] => Full(D, h, C, Due(i)))
  BY <1>1, RunningIsAttached DEF Flow
<1>10. fwd[i] # "ended"
  BY <1>1 DEF Flow
<1>11. Line(D, h, chan'[i], TRUE, Due(i)) /\ (i \in Demuxed /\ ~lagged[i] => Full(D, h, chan'[i], Due(i)))
  <2> HIDE DEF D, h, C
  <2>1. CASE i \in Demuxed
    BY <1>1, <1>2, <1>6, <1>8, <1>9, <2>1, LineEof
  <2>2. CASE i \notin Demuxed
    BY <1>1, <1>8, <2>2, LineMore
  <2> QED
    BY <2>1, <2>2
<1> QED
  BY <1>1, <1>3, <1>5, <1>7, <1>9, <1>10, <1>11 DEF Flow

LEMMA ClosedFlow ==
  ASSUME ShapeOK, NEW i \in Outs, Flow(i), RelayClosed(i)
  PROVE  Flow(i)'
<1>1. /\ relay[i] = "running" /\ relay'[i] = "ended" /\ chan'[i] = chan[i] /\ Idle(i)
  BY DEF RelayClosed, Idle, ShapeOK
<1>2. sent' = sent /\ out' = out /\ since' = since /\ fwd' = fwd /\ hand' = hand /\ delivered' = delivered
  BY RelayOthers DEF RelayStep
<1>3. Due(i)' = Due(i)
  BY <1>1, <1>2, DueSame, SentSame DEF Flow
<1>4. Line(delivered[i], hand[i], chan[i], TRUE, Due(i))
  BY LineMore DEF Flow
<1>5. (since[i] <= pos[i] /\ pos[i] <= Len(sent))'
  BY <1>1, <1>2 DEF Flow, Idle
<1> QED
  BY <1>1, <1>2, <1>3, <1>4, <1>5, RunningIsAttached DEF Flow, Idle

LEMMA RelayFlow ==
  ASSUME ShapeOK, FlowInv, NEW i \in Outs, RelayStep(i)
  PROVE  FlowInv'
<1>1. Flow(i)'
  BY LagsFlow, PacketFlow, EofFlow, ClosedFlow DEF FlowInv, RelayStep
<1> QED
  BY <1>1, RelayOthers, OneFlow

-----------------------------------------------------------------------------
(* The forwarders. *)

LEMMA FwdOthers ==
  ASSUME ShapeOK, NEW i \in Outs, FwdStep(i)
  PROVE  /\ \A j \in Outs : j # i => Same(j)
         /\ sent' = sent /\ SentKept /\ Idle(i)
         /\ out' = out /\ relay' = relay
<1>1. sent' = sent /\ out' = out /\ relay' = relay /\ since' = since /\ pos' = pos /\ lagged' = lagged
  BY DEF FwdStep, FwdSkip, FwdRegister, FwdPastBarrier, FwdPush, FwdEnd, startVars, inputVars, relayVars
<1>2. ASSUME FwdSkip(i), NEW j \in Outs, j # i PROVE Same(j)
  BY <1>1, <1>2 DEF FwdSkip, fwdVars, Same, Idle, Attached, ShapeOK
<1>3. ASSUME FwdRegister(i), NEW j \in Outs, j # i PROVE Same(j)
  BY <1>1, <1>3 DEF FwdRegister, Same, Idle, Attached, ShapeOK
<1>4. ASSUME FwdPastBarrier(i), NEW j \in Outs, j # i PROVE Same(j)
  BY <1>1, <1>4 DEF FwdPastBarrier, Push, Same, Idle, Attached, ShapeOK
<1>5. ASSUME FwdPush(i), NEW j \in Outs, j # i PROVE Same(j)
  BY <1>1, <1>5 DEF FwdPush, Push, Same, Idle, Attached, ShapeOK
<1>6. ASSUME FwdEnd(i), NEW j \in Outs, j # i PROVE Same(j)
  BY <1>1, <1>6 DEF FwdEnd, Same, Idle, Attached, ShapeOK
<1> QED
  BY <1>1, <1>2, <1>3, <1>4, <1>5, <1>6, SentSame DEF FwdStep, Idle

\* It is enough that the line is kept.
LEMMA FwdKeeps ==
  ASSUME ShapeOK, NEW i \in Outs, Flow(i), FwdStep(i), fwd[i] # "none",
         Line(delivered'[i], hand'[i], chan'[i], relay[i] = "ended", Due(i)),
         Full(delivered[i], hand[i], chan[i], Due(i)) => Full(delivered'[i], hand'[i], chan'[i], Due(i)),
         hand'[i] # 0 <=> fwd'[i] = "barrier",
         fwd'[i] = "ended" => relay[i] = "ended" /\ chan'[i] = <<>>
  PROVE  Flow(i)'
<1>1. sent' = sent /\ SentKept /\ Idle(i) /\ out' = out /\ relay' = relay
  BY FwdOthers
<1>2. Due(i)' = Due(i)
  BY <1>1, DueSame DEF Flow
<1>3. out[i] = "accepted"
  BY RunningIsAttached
<1>4. (since[i] <= pos[i] /\ pos[i] <= Len(sent))'
  BY <1>1 DEF Flow, Idle
<1>5. (i \in Demuxed /\ out[i] = "accepted" /\ ~lagged[i] => Full(delivered[i], hand[i], chan[i], Due(i)))'
  BY <1>1, <1>2, <1>3 DEF Flow, Idle
<1>6. Line(delivered[i], hand[i], chan[i], relay[i] = "ended", Due(i))'
  BY <1>1, <1>2
<1> QED
  BY <1>1, <1>3, <1>4, <1>5, <1>6 DEF Flow

\* What a forwarder that reads has before it.
LEMMA Reading ==
  ASSUME ShapeOK, NEW i \in Outs, Flow(i), fwd[i] = "reading"
  PROVE  /\ delivered[i] \in Seq(Nat) /\ chan[i] \in Seq(Nat) /\ hand[i] = 0
         /\ Due(i) \in SUBSET (Nat \ {0})
         /\ Line(delivered[i], 0, chan[i], relay[i] = "ended", Due(i))
BY FlowTypes, DueType DEF Flow

LEMMA SkipFlow ==
  ASSUME ShapeOK, NEW i \in Outs, Flow(i), FwdSkip(i)
  PROVE  Flow(i)'
<1>1. /\ fwd[i] = "reading" /\ fwd'[i] = "reading" /\ hand'[i] = hand[i] /\ delivered'[i] = delivered[i]
      /\ chan[i] # <<>> /\ Head(chan[i]) = 0 /\ chan'[i] = Tail(chan[i])
  BY DEF FwdSkip, fwdVars, End, ShapeOK
<1>2. /\ Line(delivered[i], 0, Tail(chan[i]), relay[i] = "ended", Due(i))
      /\ Full(delivered[i], 0, chan[i], Due(i)) => Full(delivered[i], 0, Tail(chan[i]), Due(i))
  BY <1>1, Reading, LineSkip
<1> QED
  BY <1>1, <1>2, Reading, FwdKeeps DEF FwdStep

LEMMA RegisterFlow ==
  ASSUME ShapeOK, NEW i \in Outs, Flow(i), FwdRegister(i)
  PROVE  Flow(i)'
<1>1. /\ fwd[i] = "reading" /\ fwd'[i] = "barrier" /\ delivered'[i] = delivered[i]
      /\ chan[i] # <<>> /\ Head(chan[i]) # 0 /\ hand'[i] = Head(chan[i]) /\ chan'[i] = Tail(chan[i])
  BY DEF FwdRegister, End, ShapeOK
<1>2. /\ Line(delivered[i], Head(chan[i]), Tail(chan[i]), relay[i] = "ended", Due(i))
      /\ Full(delivered[i], 0, chan[i], Due(i)) => Full(delivered[i], Head(chan[i]), Tail(chan[i]), Due(i))
  BY <1>1, Reading, LineTake
<1> QED
  BY <1>1, <1>2, Reading, FwdKeeps DEF FwdStep

LEMMA PastBarrierFlow ==
  ASSUME ShapeOK, NEW i \in Outs, Flow(i), FwdPastBarrier(i)
  PROVE  Flow(i)'
<1>1. /\ fwd[i] = "barrier" /\ fwd'[i] = "reading" /\ delivered'[i] = Append(delivered[i], hand[i])
      /\ hand'[i] = 0 /\ chan'[i] = chan[i]
  BY DEF FwdPastBarrier, Push, End, ShapeOK
<1>2. hand[i] \in Nat \ {0} /\ Line(delivered[i], hand[i], chan[i], relay[i] = "ended", Due(i))
  BY <1>1, FlowTypes DEF Flow
<1>3. /\ Line(Append(delivered[i], hand[i]), 0, chan[i], relay[i] = "ended", Due(i))
      /\ Full(delivered[i], hand[i], chan[i], Due(i)) => Full(Append(delivered[i], hand[i]), 0, chan[i], Due(i))
  BY <1>2, FlowTypes, DueType, LinePush
<1> QED
  BY <1>1, <1>3, FwdKeeps DEF FwdStep

LEMMA PushFlow ==
  ASSUME ShapeOK, NEW i \in Outs, Flow(i), FwdPush(i)
  PROVE  Flow(i)'
<1> DEFINE D == delivered[i]
           C == chan[i]
           h == Head(C)
           T == Tail(C)
           e == relay[i] = "ended"
<1>1. /\ fwd[i] = "reading" /\ fwd'[i] = "reading" /\ hand'[i] = hand[i] /\ delivered'[i] = Append(D, h)
      /\ C # <<>> /\ h # 0 /\ chan'[i] = T
  BY DEF FwdPush, Push, End, ShapeOK
<1>2. /\ Line(D, h, T, e, Due(i))
      /\ Full(D, 0, C, Due(i)) => Full(D, h, T, Due(i))
  BY <1>1, Reading, LineTake
<1>3. D \in Seq(Nat) /\ h \in Nat \ {0} /\ T \in Seq(Nat) /\ Due(i) \in SUBSET (Nat \ {0})
  BY <1>1, Reading, HeadTailNat
<1>4. /\ Line(Append(D, h), 0, T, e, Due(i))
      /\ Full(D, h, T, Due(i)) => Full(Append(D, h), 0, T, Due(i))
  <2> HIDE DEF D, h, T, e
  <2> QED
    BY <1>2, <1>3, LinePush
<1> QED
  BY <1>1, <1>2, <1>4, Reading, FwdKeeps DEF FwdStep

LEMMA EndFlow ==
  ASSUME ShapeOK, NEW i \in Outs, Flow(i), FwdEnd(i)
  PROVE  Flow(i)'
<1>1. /\ fwd[i] = "reading" /\ fwd'[i] = "ended" /\ hand'[i] = hand[i] /\ delivered'[i] = delivered[i]
      /\ chan[i] = <<>> /\ chan'[i] = chan[i] /\ relay[i] = "ended"
  BY DEF FwdEnd, ShapeOK
<1>2. Line(delivered'[i], hand'[i], chan'[i], relay[i] = "ended", Due(i))
  BY <1>1 DEF Flow
<1> QED
  BY <1>1, <1>2, Reading, FwdKeeps DEF FwdStep

LEMMA FwdFlow ==
  ASSUME ShapeOK, FlowInv, NEW i \in Outs, FwdStep(i)
  PROVE  FlowInv'
<1>1. Flow(i)'
  BY SkipFlow, RegisterFlow, PastBarrierFlow, PushFlow, EndFlow DEF FlowInv, FwdStep
<1> QED
  BY <1>1, FwdOthers, OneFlow

-----------------------------------------------------------------------------
(* Every step keeps the frames. *)

\* The steps that move no frame.
Aside == Start \/ Cancel \/ Unwind \/ Return \/ ReaderStep \/ UNCHANGED vars

LEMMA AsideSent ==
  ASSUME ShapeOK, Aside
  PROVE  \/ UNCHANGED sent
         \/ /\ input' = "ended" /\ sent' = Append(sent, EOF)
         \/ \E av \in AvTypes : sent' = Append(sent, av) /\ input = "read"
<1>1. ASSUME NEW av \in avail, ReadPacket(av) PROVE av \in AvTypes /\ sent' = Append(sent, av) /\ input = "read"
  BY <1>1 DEF ReadPacket, ShapeOK
<1>2. CASE ReaderLoop \/ ReadEof
  BY <1>2 DEF ReaderLoop, ReadEof
<1>3. CASE Start \/ Cancel \/ Unwind \/ Return \/ UNCHANGED vars
  BY <1>3 DEF Start, Cancel, Unwind, Return, vars, inputVars
<1> QED
  BY <1>1, <1>2, <1>3 DEF Aside, ReaderStep

LEMMA AsideFlow ==
  ASSUME ShapeOK, FlowInv, Aside
  PROVE  FlowInv'
<1>1. UNCHANGED <<out, relay, since, pos, lagged, chan, fwd, hand, delivered>>
  <2>1. ASSUME NEW av \in avail, ReadPacket(av)
        PROVE UNCHANGED <<out, relay, since, pos, lagged, chan, fwd, hand, delivered>>
    BY <2>1 DEF ReadPacket, startVars, relayVars, fwdVars
  <2>2. CASE ReaderLoop \/ ReadEof
    BY <2>2 DEF ReaderLoop, ReadEof, startVars, relayVars, fwdVars
  <2>3. CASE Start \/ Cancel \/ Unwind \/ Return \/ UNCHANGED vars
    BY <2>3 DEF Start, Cancel, Unwind, Return, vars, startVars, relayVars, fwdVars
  <2> QED
    BY <2>1, <2>2, <2>3 DEF Aside, ReaderStep
<1>2. \A i \in Outs : Same(i)
  BY <1>1 DEF Same, Idle, Attached
<1>3. SentKept
  <2>1. CASE UNCHANGED sent
    BY <2>1, SentSame
  <2>2. CASE sent' = Append(sent, EOF)
    BY <2>2, SentMore
  <2>3. ASSUME NEW av \in AvTypes, sent' = Append(sent, av) PROVE SentKept
    BY <2>3, SentMore
  <2> QED
    BY <2>1, <2>2, <2>3, AsideSent
<1> QED
  BY <1>2, <1>3, QuietFlow

\* The ways a step can go.
LEMMA NextCases ==
  ASSUME [Next]_vars
  PROVE  \/ Aside
         \/ SpawnForwarders
         \/ \E i \in Outs : Attaching(i) /\ Reject(i) /\ (input' = input \/ input = "none")
         \/ \E i \in Outs, streams \in SUBSET AvTypes : Accept(i, streams)
         \/ \E i \in Outs : RelayStep(i)
         \/ \E i \in Outs : FwdStep(i)
<1>1. ASSUME NEW i \in Outs, OpenFails(i)
      PROVE  Attaching(i) /\ Reject(i) /\ (input' = input \/ input = "none")
  BY <1>1 DEF OpenFails
<1>2. ASSUME NEW i \in Outs, NEW streams, OutputFails(i, streams)
      PROVE  Attaching(i) /\ Reject(i) /\ (input' = input \/ input = "none")
  BY <1>2 DEF OutputFails
<1> QED
  BY <1>1, <1>2 DEF Next, StartStep, Aside

LEMMA FlowStep == CoordInv /\ FlowInv /\ [Next]_vars => FlowInv'
<1> SUFFICES ASSUME CoordInv, FlowInv, [Next]_vars PROVE FlowInv'
  OBVIOUS
<1>1. ShapeOK
  BY DEF CoordInv
<1> QED
  BY <1>1, NextCases, AsideFlow, SpawnFlow, RejectFlow, AcceptFlow, RelayFlow, FwdFlow

\* A reader that has ended never reads again.
LEMMA InputStaysEnded ==
  ASSUME [Next]_vars, input = "ended"
  PROVE  input' = "ended" /\ UNCHANGED sent
<1>1. CASE Aside
  <2>1. ~ReaderStep
    BY DEF ReaderStep, ReaderLoop, ReadPacket, ReadEof
  <2> QED
    BY <1>1, <2>1 DEF Aside, Start, Cancel, Unwind, RemoveInput, Return, vars, inputVars
<1>2. CASE SpawnForwarders
  BY <1>2 DEF SpawnForwarders, inputVars
<1>3. ASSUME NEW i \in Outs, Reject(i), input' = input \/ input = "none" PROVE input' = "ended" /\ UNCHANGED sent
  BY <1>3 DEF Reject
<1>4. ASSUME NEW i \in Outs, NEW S, Accept(i, S) PROVE input' = "ended" /\ UNCHANGED sent
  BY <1>4 DEF Accept
<1>5. ASSUME NEW i \in Outs, RelayStep(i) PROVE input' = "ended" /\ UNCHANGED sent
  BY <1>5 DEF RelayStep, RelayLags, RelayPacket, RelayEof, RelayClosed, inputVars
<1>6. ASSUME NEW i \in Outs, FwdStep(i) PROVE input' = "ended" /\ UNCHANGED sent
  BY <1>6 DEF FwdStep, FwdSkip, FwdRegister, FwdPastBarrier, FwdPush, FwdEnd, inputVars
<1> QED
  BY <1>1, <1>2, <1>3, <1>4, <1>5, <1>6, NextCases

\* A relay ends at the EOF, or when the reader has gone.
LEMMA RelayEnds ==
  ASSUME ShapeOK, EndInv, FlowInv, [Next]_vars, NEW i \in Outs, relay'[i] = "ended", relay[i] # "ended"
  PROVE  input = "ended"
<1>1. CASE Aside
  <2>1. relay' = relay
    BY <1>1 DEF Aside, ReaderStep, ReaderLoop, ReadPacket, ReadEof, Start, Cancel, Unwind, Return, vars, relayVars
  <2> QED
    BY <2>1
<1>2. ~SpawnForwarders
  BY DEF SpawnForwarders, relayVars
<1>3. ASSUME NEW j \in Outs, Reject(j) PROVE FALSE
  BY <1>3 DEF Reject, relayVars
<1>4. ASSUME NEW j \in Outs, NEW S, Accept(j, S) PROVE FALSE
  BY <1>4 DEF Accept, ShapeOK
<1>5. ASSUME NEW j \in Outs, RelayStep(j) PROVE input = "ended"
  <2>1. CASE RelayLags(j) \/ RelayPacket(j)
    BY <2>1 DEF RelayLags, RelayPacket
  <2>2. CASE RelayEof(j)
    <3>1. pos[j] \in Nat /\ Len(sent) \in Nat /\ Len(sent) - pos[j] >= 1 /\ sent[pos[j] + 1] = EOF
      BY <2>2, BoundsAssumption DEF RelayEof, Behind, ShapeOK
    <3>2. pos[j] + 1 \in 1..Len(sent)
      BY <3>1
    <3> QED
      BY <3>1, <3>2 DEF EndInv
  <2>3. CASE RelayClosed(j)
    BY <2>3 DEF RelayClosed
  <2> QED
    BY <1>5, <2>1, <2>2, <2>3 DEF RelayStep
<1>6. ASSUME NEW j \in Outs, FwdStep(j) PROVE FALSE
  BY <1>6 DEF FwdStep, FwdSkip, FwdRegister, FwdPastBarrier, FwdPush, FwdEnd, relayVars
<1> QED
  BY <1>1, <1>2, <1>3, <1>4, <1>5, <1>6, NextCases

\* An EOF is the last thing the reader sends.
LEMMA EofEnds ==
  ASSUME ShapeOK, EndInv, [Next]_vars, NEW k \in 1..Len(sent'), sent'[k] = EOF
  PROVE  input' = "ended"
<1>1. CASE UNCHANGED sent
  BY <1>1, InputStaysEnded DEF EndInv
<1>2. CASE Aside
  <2>1. CASE input' = "ended"
    BY <2>1
  <2>2. ASSUME NEW av \in AvTypes, sent' = Append(sent, av), input = "read" PROVE FALSE
    <3>1. SentKept /\ Len(sent') = Len(sent) + 1 /\ sent'[Len(sent) + 1] = av /\ Len(sent) \in Nat
      BY <2>2, SentMore
    <3>2. av # EOF
      BY DEF AvTypes, EOF
    <3>3. k \in 1..Len(sent)
      BY <3>1, <3>2
    <3> QED
      BY <2>2, <3>1, <3>3 DEF SentKept, EndInv
  <2> QED
    BY <1>1, <1>2, <2>1, <2>2, AsideSent
<1>3. CASE ~Aside
  <2>1. UNCHANGED sent
    <3>1. ASSUME NEW i \in Outs, Reject(i) PROVE UNCHANGED sent
      BY <3>1 DEF Reject
    <3>2. ASSUME NEW i \in Outs, NEW S, Accept(i, S) PROVE UNCHANGED sent
      BY <3>2 DEF Accept
    <3>3. ASSUME SpawnForwarders PROVE UNCHANGED sent
      BY <3>3 DEF SpawnForwarders, inputVars
    <3> QED
      BY <1>3, <3>1, <3>2, <3>3, RelayOthers, FwdOthers, NextCases
  <2> QED
    BY <1>1, <2>1
<1> QED
  BY <1>2, <1>3

\* start() returns when the forwarders have ended, and they stay ended.
LEMMA ReturnedIsDrained ==
  ASSUME ShapeOK, EndInv, [Next]_vars, phase' = "returned"
  PROVE  Drained'
<1>1. CASE Return
  BY <1>1 DEF Return, Drained, Forwarders, fwdVars
<1>2. CASE ~Return
  <2>1. phase = "returned" /\ \A i \in Outs : fwd[i] \in {"none", "ended"}
    <3>1. phase = "returned"
      <4>1. CASE Aside
        BY <1>2, <4>1 DEF Aside, ReaderStep, ReaderLoop, ReadPacket, ReadEof, Start, Cancel, Unwind, vars, startVars
      <4>2. ~SpawnForwarders
        BY DEF SpawnForwarders
      <4>3. ASSUME NEW i \in Outs, Reject(i) PROVE phase = "returned"
        BY <4>3 DEF Reject
      <4>4. ASSUME NEW i \in Outs, NEW S, Accept(i, S) PROVE phase = "returned"
        BY <4>4 DEF Accept
      <4>5. ASSUME NEW i \in Outs, RelayStep(i) PROVE phase = "returned"
        BY <4>5 DEF RelayStep, RelayLags, RelayPacket, RelayEof, RelayClosed, startVars
      <4>6. ASSUME NEW i \in Outs, FwdStep(i) PROVE phase = "returned"
        BY <4>6 DEF FwdStep, FwdSkip, FwdRegister, FwdPastBarrier, FwdPush, FwdEnd, startVars
      <4> QED
        BY <4>1, <4>2, <4>3, <4>4, <4>5, <4>6, NextCases
    <3> QED
      BY <3>1 DEF EndInv, Drained, Forwarders
  <2>2. fwd' = fwd
    <3>1. CASE Aside
      BY <1>2, <3>1 DEF Aside, ReaderStep, ReaderLoop, ReadPacket, ReadEof, Start, Cancel, Unwind, vars, fwdVars
    <3>2. ~SpawnForwarders
      BY DEF SpawnForwarders
    <3>3. ASSUME NEW i \in Outs, Reject(i) PROVE fwd' = fwd
      BY <3>3 DEF Reject, fwdVars
    <3>4. ASSUME NEW i \in Outs, NEW S, Accept(i, S) PROVE fwd' = fwd
      BY <3>4 DEF Accept, fwdVars
    <3>5. ASSUME NEW i \in Outs, FwdStep(i) PROVE FALSE
      <4>1. fwd[i] \in {"none", "ended"}
        BY <2>1
      <4> QED
        BY <3>5, <4>1 DEF FwdStep, FwdSkip, FwdRegister, FwdPastBarrier, FwdPush, FwdEnd
    <3> QED
      BY <3>1, <3>2, <3>3, <3>4, <3>5, RelayOthers, NextCases
  <2> QED
    BY <2>1, <2>2 DEF Drained, Forwarders
<1> QED
  BY <1>1, <1>2

LEMMA EndStep == CoordInv /\ FrameInv /\ [Next]_vars => EndInv'
<1> SUFFICES ASSUME CoordInv, FrameInv, [Next]_vars PROVE EndInv'
  OBVIOUS
<1>1. ShapeOK /\ EndInv /\ FlowInv
  BY DEF CoordInv, FrameInv
<1>2. \A i \in Outs : relay'[i] = "ended" => input' = "ended"
  BY <1>1, RelayEnds, InputStaysEnded DEF EndInv
<1>3. \A k \in 1..Len(sent') : sent'[k] = EOF => input' = "ended"
  BY <1>1, EofEnds
<1>4. phase' = "returned" => Drained'
  BY <1>1, ReturnedIsDrained
<1> QED
  BY <1>2, <1>3, <1>4 DEF EndInv

LEMMA FrameInductive == Spec => []FrameInv
<1>1. CoordInv /\ FrameInv /\ [Next]_vars => FrameInv'
  BY FlowStep, EndStep DEF FrameInv
<1> QED
  BY <1>1, FlowInit, CoordInductive, PTL DEF Spec

-----------------------------------------------------------------------------
(* The frames theorem. *)

LEMMA FramesInOrder == CoordInv /\ FrameInv => InOrder
<1> SUFFICES ASSUME CoordInv, FrameInv, NEW i \in Outs, NEW m \in DOMAIN delivered[i]
             PROVE  /\ delivered[i][m] \in 1..Len(sent) /\ sent[delivered[i][m]] = Outputs[i].av
                    /\ m > 1 => delivered[i][m - 1] < delivered[i][m]
  BY DEF InOrder
<1>1. Flow(i) /\ ShapeOK
  BY DEF CoordInv, FrameInv, FlowInv
<1>2. /\ delivered[i] \in Seq(Nat) /\ since[i] \in Nat /\ pos[i] \in Nat /\ Len(sent) \in Nat
  BY <1>1, FlowTypes
<1>3. m \in 1..Len(delivered[i]) /\ m \in Nat /\ (m > 1 => m - 1 \in 1..Len(delivered[i]) /\ m - 1 < m)
  BY <1>2
<1>4. delivered[i][m] \in Due(i)
  BY <1>1, <1>3 DEF Flow, Line
<1>5. delivered[i][m] \in 1..Len(sent) /\ sent[delivered[i][m]] = Outputs[i].av
  BY <1>1, <1>2, <1>4 DEF Flow, Due
<1>6. m > 1 => delivered[i][m - 1] < delivered[i][m]
  BY <1>1, <1>3 DEF Flow, Line
<1> QED
  BY <1>5, <1>6

LEMMA FramesAllThere == CoordInv /\ FrameInv => LostOnlyByLag
<1> SUFFICES ASSUME CoordInv, FrameInv, NEW i \in Demuxed, out[i] = "accepted", ~lagged[i]
             PROVE  Elems(delivered[i]) \cup InFlight(i) = Due(i)
  BY DEF LostOnlyByLag
<1>1. i \in Outs
  BY DEF Demuxed
<1>2. Flow(i) /\ ShapeOK
  BY <1>1 DEF CoordInv, FrameInv, FlowInv
<1>3. delivered[i] \in Seq(Nat) /\ chan[i] \in Seq(Nat) /\ Due(i) \in SUBSET (Nat \ {0})
  BY <1>1, <1>2, FlowTypes, DueType
<1>4. DOMAIN delivered[i] = 1..Len(delivered[i]) /\ DOMAIN chan[i] = 1..Len(chan[i])
  BY <1>3
<1>5. Line(delivered[i], hand[i], chan[i], relay[i] = "ended", Due(i)) /\ Full(delivered[i], hand[i], chan[i], Due(i))
  BY <1>2 DEF Flow
<1>6. ASSUME NEW x \in Due(i) PROVE x \in Elems(delivered[i]) \cup InFlight(i)
  BY <1>3, <1>4, <1>5 DEF Full, Elems, InFlight, End
<1>7. Elems(delivered[i]) \subseteq Due(i)
  BY <1>4, <1>5 DEF Line, Elems
<1>8. InFlight(i) \subseteq Due(i)
  BY <1>4, <1>5 DEF Line, Elems, InFlight, End
<1> QED
  BY <1>6, <1>7, <1>8

LEMMA FramesReleased == CoordInv /\ FrameInv => ReleasedIfForwarded
<1> SUFFICES ASSUME CoordInv, FrameInv, phase = "returned", Forwarders # {}
             PROVE  /\ input = "ended"
                    /\ \A i \in Forwarders : relay[i] = "ended" /\ chan[i] = <<>> /\ hand[i] = End
  BY DEF ReleasedIfForwarded
<1>1. ASSUME NEW i \in Forwarders PROVE relay[i] = "ended" /\ chan[i] = <<>> /\ hand[i] = End
  <2>1. i \in Outs /\ fwd[i] = "ended"
    BY DEF FrameInv, EndInv, Drained, Forwarders
  <2> QED
    BY <2>1 DEF FrameInv, FlowInv, Flow, End
<1>2. input = "ended"
  BY <1>1 DEF FrameInv, EndInv, Forwarders
<1> QED
  BY <1>1, <1>2

(***************************************************************************)
(* For every list of outputs, every length of the input and every capacity *)
(* of the two channels: what the forwarders give to the Media is in order, *)
(* of the right stream and, but for a broadcast lag, everything the relay  *)
(* received (FwdRegister's first frame included), and a pipe that has      *)
(* returned has nothing of it left.                                        *)
(***************************************************************************)
THEOREM FramesAreIntact == Spec => []FramesIntact
<1>1. CoordInv /\ FrameInv => FramesIntact
  BY FramesInOrder, FramesAllThere, FramesReleased DEF FramesIntact
<1> QED
  BY <1>1, CoordInductive, FrameInductive, PTL
=============================================================================
