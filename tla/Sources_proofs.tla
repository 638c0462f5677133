--------------------------- MODULE Sources_proofs ---------------------------
(***************************************************************************)
(* Proofs about a source from its registration to its outputs: Manager's   *)
(* registry, for every set of ids, callers and sources; and Bus, for any   *)
(* containers, outputs and number of openings.                             *)
(***************************************************************************)
EXTENDS Manager, Bus, WellFoundedInduction, FiniteSetTheorems, TLAPS

-----------------------------------------------------------------------------
(* The registry: the inductive invariant, in named parts. *)

\* What the map holds.
RegistryInv ==
  \A id \in Ids : registry[id] # None =>
    /\ sid[registry[id]] = id
    /\ state[registry[id]] # "unborn"
    /\ ~cancelled[registry[id]]
    /\ registry[id] \notin drained

\* What a call in progress holds.
HeldInv ==
  \A c \in Callers :
    /\ pc[c] \in {"idle", "build"} => held[c] = None
    /\ pc[c] = "build" => cid[c] \in Ids
    /\ pc[c] \in {"joining", "removing", "insert"} =>
         /\ held[c] \in Sources
         /\ cid[c] \in Ids
         /\ sid[held[c]] = cid[c]
         /\ state[held[c]] # "unborn"
         /\ cancelled[held[c]] <=> pc[c] # "insert"
         /\ held[c] \notin drained
         /\ \A id \in Ids : registry[id] # held[c]
         /\ \A d \in Callers : held[d] = held[c] => d = c

\* What shutdown has taken.
DrainedInv ==
  /\ drained # {} => shut = "joining"
  /\ \A s \in drained : cancelled[s] /\ state[s] # "unborn" /\ sid[s] \in Ids
  /\ \A s, t \in drained : sid[s] = sid[t] => s = t

\* contended records every overlap: of two calls, and of a call and shutdown.
ContentionInv ==
  /\ \A c, d \in Callers :
       c # d /\ Busy(c) /\ Busy(d) /\ cid[c] = cid[d] => cid[c] \in contended
  /\ \A c \in Callers : Busy(c) /\ shut # "no" => cid[c] \in contended
  /\ \A id \in Ids : shut # "no" /\ registry[id] # None => id \in contended

\* While a call works on an orderly id, that id has no registered entry.
VacantInv ==
  \A c \in Callers : Busy(c) /\ Orderly(cid[c]) => registry[cid[c]] = None

\* Somebody is responsible for every source that runs.
Owned(s) ==
  \/ Registered(s)
  \/ \E c \in Callers : held[c] = s
  \/ s \in drained
  \/ s \in detached

OwnedInv == \A s \in Sources : Live(s) => sid[s] \in Ids /\ (Orderly(sid[s]) => Owned(s))

\* Who has been told to stop: never a source still to be spawned, always one
\* that was given up on.
CancelledInv ==
  /\ \A s \in Sources : state[s] = "unborn" => ~cancelled[s]
  /\ \A s \in detached : cancelled[s]

IInv ==
  /\ TypeOK
  /\ RegistryInv
  /\ HeldInv
  /\ DrainedInv
  /\ ContentionInv
  /\ VacantInv
  /\ OwnedInv
  /\ CancelledInv

-----------------------------------------------------------------------------
LEMMA InitInv == Init => IInv
  <1> SUFFICES ASSUME Init PROVE IInv
    OBVIOUS
  <1>1. TypeOK
    BY DEF Init, TypeOK
  <1>2. RegistryInv /\ HeldInv /\ DrainedInv /\ ContentionInv
    BY DEF Init, RegistryInv, HeldInv, DrainedInv, ContentionInv, Busy
  <1>3. VacantInv /\ OwnedInv /\ CancelledInv
    BY DEF Init, VacantInv, OwnedInv, CancelledInv, Busy, Live
  <1> QED
    BY <1>1, <1>2, <1>3 DEF IInv

LEMMA UpsertTakeInv ==
  ASSUME IInv, NEW c \in Callers, NEW id \in Ids, NEW k \in Kinds,
         NEW update \in BOOLEAN, UpsertTake(c, id, k, update)
  PROVE  IInv'
  <1> USE NoneAssumption DEF IInv, UpsertTake, Take, Stop
  <1>1. TypeOK'
    BY DEF TypeOK, NoteContention
  <1>2. RegistryInv'
    BY DEF TypeOK, RegistryInv
  <1>3. HeldInv'
    BY DEF TypeOK, RegistryInv, HeldInv
  <1>4. DrainedInv'
    BY DEF TypeOK, DrainedInv
  <1>5. ContentionInv'
    BY DEF TypeOK, ContentionInv, NoteContention, Busy
  <1>6. VacantInv'
    BY DEF TypeOK, VacantInv, NoteContention, Busy, Orderly
  <1>7. OwnedInv'
    BY DEF TypeOK, OwnedInv, Owned, Registered, HeldInv, NoteContention, Live, Orderly
  <1>8. CancelledInv'
    BY DEF TypeOK, CancelledInv, RegistryInv
  <1> QED
    BY <1>1, <1>2, <1>3, <1>4, <1>5, <1>6, <1>7, <1>8

LEMMA UpsertJoinedInv ==
  ASSUME IInv, NEW c \in Callers, UpsertJoined(c)
  PROVE  IInv'
  <1> USE NoneAssumption DEF IInv, UpsertJoined, Joinable, JoinOutcome, srcVars
  <1>1. TypeOK'
    BY DEF TypeOK, HeldInv
  <1>2. RegistryInv'
    BY DEF TypeOK, RegistryInv, HeldInv
  <1>3. HeldInv'
    BY DEF TypeOK, RegistryInv, HeldInv, DrainedInv
  <1>4. DrainedInv'
    BY DEF TypeOK, DrainedInv, RegistryInv
  <1>5. ContentionInv'
    BY DEF TypeOK, ContentionInv, HeldInv, Busy
  <1>6. VacantInv'
    BY DEF TypeOK, VacantInv, ContentionInv, HeldInv, Busy, Orderly
  <1>7. OwnedInv'
    BY DEF TypeOK, OwnedInv, Owned, Registered, VacantInv, HeldInv, Busy, Live, Orderly
  <1>8. CancelledInv'
    BY DEF TypeOK, CancelledInv, RegistryInv, HeldInv, DrainedInv
  <1> QED
    BY <1>1, <1>2, <1>3, <1>4, <1>5, <1>6, <1>7, <1>8

LEMMA BuildInv ==
  ASSUME IInv, NEW c \in Callers, NEW s \in Sources, Build(c, s)
  PROVE  IInv'
  <1> USE NoneAssumption DEF IInv, Build, obsVars
  <1>1. TypeOK'
    BY DEF TypeOK, Kinds
  <1>2. RegistryInv'
    BY DEF TypeOK, RegistryInv, HeldInv
  <1>3. HeldInv'
    BY DEF TypeOK, RegistryInv, HeldInv, DrainedInv, CancelledInv
  <1>4. DrainedInv'
    BY DEF TypeOK, DrainedInv, RegistryInv
  <1>5. ContentionInv'
    BY DEF TypeOK, ContentionInv, HeldInv, Busy
  <1>6. VacantInv'
    BY DEF TypeOK, VacantInv, ContentionInv, HeldInv, Busy, Orderly
  <1>7. OwnedInv'
    BY DEF TypeOK, OwnedInv, Owned, Registered, VacantInv, HeldInv, Busy, Live, Orderly
  <1>8. CancelledInv'
    BY DEF TypeOK, CancelledInv, RegistryInv, HeldInv, DrainedInv
  <1> QED
    BY <1>1, <1>2, <1>3, <1>4, <1>5, <1>6, <1>7, <1>8

LEMMA InsertInv ==
  ASSUME IInv, NEW c \in Callers, Insert(c)
  PROVE  IInv'
  <1> USE NoneAssumption DEF IInv, Insert, Return, srcVars, obsVars
  <1>1. TypeOK'
    BY DEF TypeOK, Kinds
  <1>2. RegistryInv'
    BY DEF TypeOK, RegistryInv, HeldInv
  <1>3. HeldInv'
    BY DEF TypeOK, RegistryInv, HeldInv, DrainedInv
  <1>4. DrainedInv'
    BY DEF TypeOK, DrainedInv, RegistryInv
  <1>5. ContentionInv'
    BY DEF TypeOK, ContentionInv, HeldInv, Busy
  <1>6. VacantInv'
    BY DEF TypeOK, VacantInv, ContentionInv, HeldInv, Busy, Orderly
  <1>7. OwnedInv'
    <2> SUFFICES ASSUME NEW s \in Sources, Live(s)', Orderly(sid[s])'
                 PROVE  Owned(s)'
      BY DEF OwnedInv, TypeOK, Live, Orderly
    <2>1. cid[c] \in Ids /\ sid[held[c]] = cid[c] /\ Busy(c) /\ held[c] \in Sources
      BY DEF HeldInv, Busy
    <2>2. Owned(s)
      BY DEF OwnedInv, Live, Orderly
    <2>3. CASE Registered(s)
      BY <2>1, <2>3 DEF TypeOK, Registered, RegistryInv, VacantInv, Orderly, Owned
    <2>4. CASE \E d \in Callers : held[d] = s
      BY <2>1, <2>4 DEF TypeOK, Registered, Owned
    <2> QED
      BY <2>2, <2>3, <2>4 DEF Owned
  <1>8. CancelledInv'
    BY DEF TypeOK, CancelledInv, RegistryInv, HeldInv, DrainedInv
  <1> QED
    BY <1>1, <1>2, <1>3, <1>4, <1>5, <1>6, <1>7, <1>8

LEMMA RemoveTakeInv ==
  ASSUME IInv, NEW c \in Callers, NEW id \in Ids, RemoveTake(c, id)
  PROVE  IInv'
  <1> USE NoneAssumption DEF IInv, RemoveTake, Take, Stop
  <1>1. TypeOK'
    BY DEF TypeOK, NoteContention
  <1>2. RegistryInv'
    BY DEF TypeOK, RegistryInv, HeldInv
  <1>3. HeldInv'
    <2> DEFINE old == registry[id]
    <2>1. old \in Sources /\ sid[old] = id /\ state[old] # "unborn" /\ old \notin drained
      BY DEF TypeOK, RegistryInv
    <2>2. \A i \in Ids : registry'[i] # old
      BY <2>1 DEF TypeOK, RegistryInv
    <2>3. \A d \in Callers : held[d] # old
      BY <2>1 DEF TypeOK, HeldInv
    <2>4. /\ held'[c] = old /\ cid'[c] = id /\ pc'[c] = "removing" /\ cancelled'[old]
          /\ \A d \in Callers \ {c} : held'[d] = held[d] /\ cid'[d] = cid[d] /\ pc'[d] = pc[d]
      BY <2>1 DEF TypeOK
    <2>5. \A d \in Callers : held[d] \in Sources => cancelled'[held[d]] = cancelled[held[d]]
      BY <2>3 DEF TypeOK
    <2>6. \A i \in Ids : registry'[i] = registry[i] \/ registry'[i] = None
      BY DEF TypeOK
    <2> HIDE DEF old, RemoveTake, Take, Stop
    <2> SUFFICES ASSUME NEW d \in Callers PROVE HeldInv!(d)'
      BY DEF HeldInv
    <2>7. UNCHANGED <<sid, state, drained>>
      BY DEF RemoveTake
    <2>8. CASE d = c
      BY <2>1, <2>2, <2>3, <2>4, <2>7, <2>8
    <2>9. CASE d # c
      BY <2>1, <2>3, <2>4, <2>5, <2>6, <2>7, <2>9 DEF HeldInv
    <2> QED
      BY <2>8, <2>9
  <1>4. DrainedInv'
    BY DEF TypeOK, DrainedInv, RegistryInv
  <1>5. ContentionInv'
    BY DEF TypeOK, ContentionInv, NoteContention, Busy
  <1>6. VacantInv'
    BY DEF TypeOK, VacantInv, ContentionInv, HeldInv, Busy, Orderly, NoteContention
  <1>7. OwnedInv'
    BY DEF TypeOK, OwnedInv, Owned, Registered, VacantInv, HeldInv, NoteContention, Live, Orderly
  <1>8. CancelledInv'
    BY DEF TypeOK, CancelledInv, RegistryInv, HeldInv, DrainedInv
  <1> QED
    BY <1>1, <1>2, <1>3, <1>4, <1>5, <1>6, <1>7, <1>8

LEMMA RemoveJoinedInv ==
  ASSUME IInv, NEW c \in Callers, RemoveJoined(c)
  PROVE  IInv'
  <1> USE NoneAssumption DEF IInv, RemoveJoined, Joinable, JoinOutcome, Return, srcVars
  <1>1. TypeOK'
    BY DEF TypeOK, HeldInv
  <1>2. RegistryInv'
    BY DEF TypeOK, RegistryInv, HeldInv
  <1>3. HeldInv'
    BY DEF TypeOK, RegistryInv, HeldInv, DrainedInv
  <1>4. DrainedInv'
    BY DEF TypeOK, DrainedInv, RegistryInv
  <1>5. ContentionInv'
    BY DEF TypeOK, ContentionInv, HeldInv, Busy
  <1>6. VacantInv'
    BY DEF TypeOK, VacantInv, ContentionInv, HeldInv, Busy, Orderly
  <1>7. OwnedInv'
    BY DEF TypeOK, OwnedInv, Owned, Registered, VacantInv, HeldInv, Busy, Live, Orderly
  <1>8. CancelledInv'
    BY DEF TypeOK, CancelledInv, RegistryInv, HeldInv, DrainedInv
  <1> QED
    BY <1>1, <1>2, <1>3, <1>4, <1>5, <1>6, <1>7, <1>8

LEMMA DisconnectInv ==
  ASSUME IInv, NEW c \in Callers, Disconnect(c)
  PROVE  IInv'
  <1> USE NoneAssumption DEF IInv, Disconnect, Return, srcVars
  <1>1. TypeOK'
    BY DEF TypeOK, HeldInv
  <1>2. RegistryInv'
    BY DEF TypeOK, RegistryInv, HeldInv
  <1>3. HeldInv'
    BY DEF TypeOK, RegistryInv, HeldInv, DrainedInv
  <1>4. DrainedInv'
    BY DEF TypeOK, DrainedInv, RegistryInv
  <1>5. ContentionInv'
    BY DEF TypeOK, ContentionInv, HeldInv, Busy
  <1>6. VacantInv'
    BY DEF TypeOK, VacantInv, ContentionInv, HeldInv, Busy, Orderly
  <1>7. OwnedInv'
    BY DEF TypeOK, OwnedInv, Owned, Registered, VacantInv, HeldInv, Busy, Live, Orderly
  <1>8. CancelledInv'
    BY DEF TypeOK, CancelledInv, RegistryInv, HeldInv, DrainedInv
  <1> QED
    BY <1>1, <1>2, <1>3, <1>4, <1>5, <1>6, <1>7, <1>8

LEMMA ShutdownDrainInv ==
  ASSUME IInv, ShutdownDrain
  PROVE  IInv'
  <1> USE NoneAssumption DEF IInv, ShutdownDrain, Entries, Registered, Stop, callVars
  <1>1. TypeOK'
    BY DEF TypeOK, Kinds
  <1>2. RegistryInv'
    BY DEF TypeOK, RegistryInv, HeldInv
  <1>3. HeldInv'
    BY DEF TypeOK, RegistryInv, HeldInv, DrainedInv
  <1>4. DrainedInv'
    <2>1. \A s \in drained' : \E id \in Ids : registry[id] = s /\ s # None /\ s \in Sources
      OBVIOUS
    <2>2. \A s \in drained' : s \in Sources /\ cancelled'[s] /\ state[s] # "unborn"
      BY DEF RegistryInv
    <2>3. \A s \in drained' : registry[sid[s]] = s /\ sid[s] \in Ids
      BY <2>1 DEF RegistryInv
    <2> QED
      BY <2>2, <2>3 DEF DrainedInv
  <1>5. ContentionInv'
    BY DEF TypeOK, ContentionInv, HeldInv, Busy
  <1>6. VacantInv'
    BY DEF TypeOK, VacantInv, ContentionInv, HeldInv, Busy, Orderly
  <1>7. OwnedInv'
    <2> SUFFICES ASSUME NEW s \in Sources, Live(s)', Orderly(sid[s])'
                 PROVE  Owned(s)'
      BY DEF OwnedInv, TypeOK, Live, Orderly
    <2>1. Owned(s)
      BY DEF OwnedInv, Live, Orderly
    <2> QED
      BY <2>1 DEF Owned, DrainedInv
  <1>8. CancelledInv'
    BY DEF TypeOK, CancelledInv, RegistryInv, HeldInv, DrainedInv
  <1> QED
    BY <1>1, <1>2, <1>3, <1>4, <1>5, <1>6, <1>7, <1>8

LEMMA ShutdownJoinedInv ==
  ASSUME IInv, NEW s \in Sources, ShutdownJoined(s)
  PROVE  IInv'
  <1> USE NoneAssumption DEF IInv, ShutdownJoined, Joinable, JoinOutcome, srcVars, callVars
  <1>1. TypeOK'
    BY DEF TypeOK, Kinds
  <1>2. RegistryInv'
    BY DEF TypeOK, RegistryInv, HeldInv
  <1>3. HeldInv'
    BY DEF TypeOK, RegistryInv, HeldInv, DrainedInv
  <1>4. DrainedInv'
    BY DEF TypeOK, DrainedInv, RegistryInv
  <1>5. ContentionInv'
    BY DEF TypeOK, ContentionInv, HeldInv, Busy
  <1>6. VacantInv'
    BY DEF TypeOK, VacantInv, ContentionInv, HeldInv, Busy, Orderly
  <1>7. OwnedInv'
    BY DEF TypeOK, OwnedInv, Owned, Registered, VacantInv, HeldInv, Busy, Live, Orderly
  <1>8. CancelledInv'
    BY DEF TypeOK, CancelledInv, RegistryInv, HeldInv, DrainedInv
  <1> QED
    BY <1>1, <1>2, <1>3, <1>4, <1>5, <1>6, <1>7, <1>8

LEMMA ShutdownReturnInv ==
  ASSUME IInv, ShutdownReturn
  PROVE  IInv'
  <1> USE NoneAssumption DEF IInv, ShutdownReturn, srcVars, callVars, obsVars
  <1>1. TypeOK'
    BY DEF TypeOK, Kinds
  <1>2. RegistryInv'
    BY DEF TypeOK, RegistryInv, HeldInv
  <1>3. HeldInv'
    BY DEF TypeOK, RegistryInv, HeldInv, DrainedInv
  <1>4. DrainedInv'
    BY DEF TypeOK, DrainedInv, RegistryInv
  <1>5. ContentionInv'
    BY DEF TypeOK, ContentionInv, HeldInv, Busy
  <1>6. VacantInv'
    BY DEF TypeOK, VacantInv, ContentionInv, HeldInv, Busy, Orderly
  <1>7. OwnedInv'
    BY DEF TypeOK, OwnedInv, Owned, Registered, VacantInv, HeldInv, Busy, Live, Orderly
  <1>8. CancelledInv'
    BY DEF TypeOK, CancelledInv, RegistryInv, HeldInv, DrainedInv
  <1> QED
    BY <1>1, <1>2, <1>3, <1>4, <1>5, <1>6, <1>7, <1>8

LEMMA StopOnCancelInv ==
  ASSUME IInv, NEW s \in Sources, StopOnCancel(s)
  PROVE  IInv'
  <1> USE NoneAssumption DEF IInv, StopOnCancel, Live, callVars, obsVars
  <1>1. TypeOK'
    BY DEF TypeOK, Kinds
  <1>2. RegistryInv'
    BY DEF TypeOK, RegistryInv, HeldInv
  <1>3. HeldInv'
    BY DEF TypeOK, RegistryInv, HeldInv, DrainedInv
  <1>4. DrainedInv'
    BY DEF TypeOK, DrainedInv, RegistryInv
  <1>5. ContentionInv'
    BY DEF TypeOK, ContentionInv, HeldInv, Busy
  <1>6. VacantInv'
    BY DEF TypeOK, VacantInv, ContentionInv, HeldInv, Busy, Orderly
  <1>7. OwnedInv'
    BY DEF TypeOK, OwnedInv, Owned, Registered, VacantInv, HeldInv, Busy, Live, Orderly
  <1>8. CancelledInv'
    BY DEF TypeOK, CancelledInv, RegistryInv, HeldInv, DrainedInv
  <1> QED
    BY <1>1, <1>2, <1>3, <1>4, <1>5, <1>6, <1>7, <1>8

LEMMA EndByItselfInv ==
  ASSUME IInv, NEW s \in Sources, EndByItself(s)
  PROVE  IInv'
  <1> USE NoneAssumption DEF IInv, EndByItself, Live, callVars, obsVars
  <1>1. TypeOK'
    BY DEF TypeOK, Kinds
  <1>2. RegistryInv'
    BY DEF TypeOK, RegistryInv, HeldInv
  <1>3. HeldInv'
    BY DEF TypeOK, RegistryInv, HeldInv, DrainedInv
  <1>4. DrainedInv'
    BY DEF TypeOK, DrainedInv, RegistryInv
  <1>5. ContentionInv'
    BY DEF TypeOK, ContentionInv, HeldInv, Busy
  <1>6. VacantInv'
    BY DEF TypeOK, VacantInv, ContentionInv, HeldInv, Busy, Orderly
  <1>7. OwnedInv'
    BY DEF TypeOK, OwnedInv, Owned, Registered, VacantInv, HeldInv, Busy, Live, Orderly
  <1>8. CancelledInv'
    BY DEF TypeOK, CancelledInv, RegistryInv, HeldInv, DrainedInv
  <1> QED
    BY <1>1, <1>2, <1>3, <1>4, <1>5, <1>6, <1>7, <1>8

LEMMA GetStuckInv ==
  ASSUME IInv, NEW s \in Sources, GetStuck(s)
  PROVE  IInv'
  <1> USE NoneAssumption DEF IInv, GetStuck, Live, callVars, obsVars
  <1>1. TypeOK'
    BY DEF TypeOK, Kinds
  <1>2. RegistryInv'
    BY DEF TypeOK, RegistryInv, HeldInv
  <1>3. HeldInv'
    BY DEF TypeOK, RegistryInv, HeldInv, DrainedInv
  <1>4. DrainedInv'
    BY DEF TypeOK, DrainedInv, RegistryInv
  <1>5. ContentionInv'
    BY DEF TypeOK, ContentionInv, HeldInv, Busy
  <1>6. VacantInv'
    BY DEF TypeOK, VacantInv, ContentionInv, HeldInv, Busy, Orderly
  <1>7. OwnedInv'
    BY DEF TypeOK, OwnedInv, Owned, Registered, VacantInv, HeldInv, Busy, Live, Orderly
  <1>8. CancelledInv'
    BY DEF TypeOK, CancelledInv, RegistryInv, HeldInv, DrainedInv
  <1> QED
    BY <1>1, <1>2, <1>3, <1>4, <1>5, <1>6, <1>7, <1>8

LEMMA NextInv == IInv /\ [Next]_vars => IInv'
  <1> SUFFICES ASSUME IInv, [Next]_vars PROVE IInv'
    OBVIOUS
  <1>1. CASE UNCHANGED vars
    BY <1>1 DEF vars, srcVars, callVars, obsVars, IInv, TypeOK, RegistryInv, HeldInv,
         DrainedInv, ContentionInv, VacantInv, OwnedInv, Owned, CancelledInv,
         Registered, Live, Busy, Orderly
  <1>2. CASE Next
    BY <1>2, UpsertTakeInv, UpsertJoinedInv, BuildInv, InsertInv, RemoveTakeInv,
       RemoveJoinedInv, DisconnectInv, ShutdownDrainInv, ShutdownJoinedInv,
       ShutdownReturnInv, StopOnCancelInv, EndByItselfInv, GetStuckInv DEF Next, CallStep
  <1> QED
    BY <1>1, <1>2

LEMMA Inductive == Spec => []IInv
  BY InitInv, NextInv, PTL DEF Spec

(***************************************************************************)
(* The state of the registry is well formed: in particular shutdown drains *)
(* only real entries and a call never holds anything but a source.         *)
(***************************************************************************)
THEOREM TypeCorrect == Spec => []TypeOK
  <1>1. IInv => TypeOK
    BY DEF IInv
  <1> QED
    BY <1>1, Inductive, PTL

(***************************************************************************)
(* upsert_entry: two sources of one id never run at the same time, as long *)
(* as the calls on that id neither overlap nor are dropped half-way.       *)
(* Every running source of an orderly id has an owner (OwnedInv); a call   *)
(* at work finds the map vacant (VacantInv), so registry, call and         *)
(* shutdown cannot own one each.                                           *)
(***************************************************************************)
THEOREM Exclusive == Spec => []ExclusiveWhenSerialised
  <1>1. IInv => ExclusiveWhenSerialised
    BY NoneAssumption
    DEF IInv, TypeOK, RegistryInv, HeldInv, DrainedInv, ContentionInv, VacantInv,
        OwnedInv, Owned, ExclusiveWhenSerialised, Registered, Live, Busy, Orderly
  <1> QED
    BY <1>1, Inductive, PTL

(***************************************************************************)
(* upsert_entry, remove_pipe: a running source nobody told to stop can     *)
(* still be reached through the map or through the call that built it.     *)
(***************************************************************************)
THEOREM NoLeak == Spec => []NoLeakWhenSerialised
  <1>1. IInv => NoLeakWhenSerialised
    BY NoneAssumption
    DEF IInv, TypeOK, HeldInv, DrainedInv, CancelledInv, OwnedInv, Owned,
        NoLeakWhenSerialised, Registered, Live, Orderly
  <1> QED
    BY <1>1, Inductive, PTL

(***************************************************************************)
(* status, get_pipe: whatever calls race, an entry in the map belongs to   *)
(* its id and has not been told to stop.                                   *)
(***************************************************************************)
THEOREM RegisteredIsRunnable == Spec => []RegisteredNotCancelled
  <1>1. IInv => RegisteredNotCancelled
    BY DEF IInv, RegistryInv, RegisteredNotCancelled
  <1> QED
    BY <1>1, Inductive, PTL

(***************************************************************************)
(* shutdown: when it returns, no source of an orderly id runs, workers     *)
(* given up on after the join bound excepted.                              *)
(***************************************************************************)
THEOREM ShutdownStops == Spec => []ShutdownStopsSerialised
  <1>1. IInv => ShutdownStopsSerialised
    BY NoneAssumption
    DEF IInv, TypeOK, RegistryInv, HeldInv, DrainedInv, ContentionInv,
        OwnedInv, Owned, ShutdownStopsSerialised, Registered, Live, Busy, Orderly
  <1> QED
    BY <1>1, Inductive, PTL

(***************************************************************************)
(* What update_pipe, remove_pipe and status rely on, together: the sources *)
(* of an orderly id run one at a time and can be reached, no registered    *)
(* source was told to stop, and shutdown leaves none running.              *)
(***************************************************************************)
THEOREM SourcesUnderControl == Spec => []SourcesOwned
  <1>1. ExclusiveWhenSerialised /\ NoLeakWhenSerialised /\ RegisteredNotCancelled
          /\ ShutdownStopsSerialised => SourcesOwned
    BY DEF SourcesOwned
  <1> QED
    BY <1>1, Exclusive, NoLeak, RegisteredIsRunnable, ShutdownStops, PTL

-----------------------------------------------------------------------------
(* Numbers, from the well-foundedness of inclusion among finite sets. *)

\* A set of natural numbers that is not empty has a least element.
LEMMA LeastNat ==
  ASSUME NEW T \in SUBSET Nat, T # {}
  PROVE  \E x \in T : \A y \in T : x <= y
<1> DEFINE I == {0..x : x \in T}
           R == StrictSubsetOrdering(Nat)
<1>1. \A x \in Nat : 0..x \in FiniteSubsetsOf(Nat)
  BY FS_Interval DEF FiniteSubsetsOf
<1>2. I \subseteq FiniteSubsetsOf(Nat) /\ I # {}
  BY <1>1
<1>3. IsWellFoundedOn(R, FiniteSubsetsOf(Nat))
  BY FS_StrictSubsetOrderingWellFounded
<1> HIDE DEF I, R
<1>4. PICK i \in I : \A j \in I : ~ (<<j, i>> \in R)
  BY <1>2, <1>3, WFMin
<1>5. PICK x \in T : i = 0..x
  BY DEF I
<1>6. ASSUME NEW y \in T, y < x PROVE FALSE
  <2>1. /\ 0..y \in I /\ 0..y \subseteq 0..x /\ 0..y # 0..x
        /\ 0..x \in SUBSET Nat /\ 0..y \in SUBSET Nat
    BY <1>6 DEF I
  <2>2. <<0..y, 0..x>> \in R
    BY <2>1 DEF R, StrictSubsetOrdering
  <2>3. QED
    BY <2>1, <2>2, <1>4, <1>5
<1>7. QED
  BY <1>6

-----------------------------------------------------------------------------
(* The command queue of a loop: what its thread mixes once it has caught up. *)

-----------------------------------------------------------------------------
(* The bus: until the input is removed there is one opening, and everything  *)
(* is of it.                                                                 *)

\* The streams ss are those of the container c, in some order.
Listed(ss, c) ==
  /\ DOMAIN ss = DOMAIN c /\ c \in Containers
  /\ \A k \in DOMAIN ss :
       /\ ss[k].index \in DOMAIN c
       /\ ss[k].codec = c[ss[k].index].codec
  /\ \A k, l \in DOMAIN ss : ss[k].index = ss[l].index => k = l

\* Nothing has been opened, or one container has.
Viewed(ss, tk, ly) ==
  IF tk = 0 THEN ss = <<>> /\ ly = <<>>
  ELSE tk = 1 /\ Len(ly) = 1 /\ Listed(ss, ly[1])

\* Every task reads, or reads from a task that reads, opening tk.
TasksOf(tk, dec, enc) ==
  \A i \in Index :
    /\ dec[i] # Unset => tk # 0 /\ dec[i].epoch = tk
    /\ enc[i] # Unset => tk # 0 /\ enc[i].epoch = tk

\* A lossy task for stream i is among the ones asked for.
LossyFor(S, i) == \E st \in S : st.index = i /\ ~st.lossless

\* Every task was asked for, an encoder in the codec it encodes to, and drops
\* only if that was asked for; only raw video is encoded without a decoder.
AskedOf(ss, dec, enc, S) ==
  \A i \in Index :
    /\ dec[i] # Unset => dec[i].lossless \/ LossyFor(S, i)
    /\ enc[i] # Unset =>
         /\ \E st \in S : /\ st.kind = "encoder" /\ st.index = i
                          /\ enc[i].codec = EncoderCodec(At(ss, i), st.enc)
         /\ At(ss, i).codec # "raw" =>
              dec[i] # Unset /\ (enc[i].lossless \/ LossyFor(S, i))

\* Every track of an output comes from opening tk and is as it was asked for.
TracksOf(ss, tk, out) ==
  \A k \in DOMAIN out.tracks :
    /\ out.tracks[k].epoch = tk
    /\ TrackAsAsked(out.config, out.clash, out.tracks[k], At(ss, out.tracks[k].index))

\* One reader at most, of the input there is, unless that is still to be read.
ReaderOk ==
  /\ removed \in BOOLEAN /\ pending \in BOOLEAN
  /\ layouts \in Seq(Containers) /\ task \in 0..Len(layouts)
  /\ pending => task # 0
  /\ reading = IF task # 0 /\ ~pending THEN {task} ELSE {}

ServedOk ==
  ~removed =>
    /\ Viewed(streams, task, layouts)
    /\ TasksOf(task, decoders, encoders)
    /\ AskedOf(streams, decoders, encoders, asked)
    /\ \A id \in OutputIds : outputs[id] # Unset =>
         task \in reading /\ TracksOf(streams, task, outputs[id])
    /\ lastSub # Unset => task \in reading /\ lastSub.epoch = task

BusInv == DOMAIN outputs = OutputIds /\ ReaderOk /\ ServedOk

\* v is the state as it is, or with the input opened.
SeenAs(v) ==
  \/ v.ss = streams /\ v.task = task /\ v.pending = pending /\ v.layouts = layouts
  \/ \E c \in Containers : \E order \in Orders(c) :
       /\ task = 0 /\ v.task = Len(layouts) + 1 /\ v.pending = TRUE
       /\ v.ss = streams \o order /\ v.layouts = Append(layouts, c)

LEMMA ViewsSeen ==
  ASSUME NEW v \in Views PROVE SeenAs(v)
  BY DEF Views, Opened, SeenAs

\* A stream of the open input, as the bus lists it.
BusStream == [index : Index, av : {"video", "audio"}, codec : Codecs]

LEMMA OrdersListed ==
  ASSUME NEW c \in Containers, NEW ss \in Orders(c)
  PROVE  Listed(ss, c) /\ ss \in Seq(BusStream)
<1>1. c \in Seq(Stream) /\ DOMAIN c \subseteq Index
  BY ContainersAssumption DEF Index
<1>2. PICK p \in [DOMAIN c -> DOMAIN c] :
        /\ \A a, b \in DOMAIN c : p[a] = p[b] => a = b
        /\ ss = [k \in DOMAIN c |-> [index |-> p[k], av |-> c[p[k]].av, codec |-> c[p[k]].codec]]
  BY DEF Orders
<1>3. \A k \in DOMAIN c : p[k] \in DOMAIN c /\ c[p[k]] \in Stream
  BY <1>1, <1>2
<1>4. \A k \in DOMAIN c : ss[k] \in BusStream
  BY <1>1, <1>2, <1>3 DEF BusStream, Stream
<1>5. DOMAIN ss = 1..Len(c) /\ Len(c) \in Nat /\ DOMAIN c = 1..Len(c)
  BY <1>1, <1>2
<1>6. ss \in Seq(BusStream)
  <2>1. ss \in [1..Len(c) -> BusStream]
    BY <1>2, <1>4, <1>5
  <2>2. QED
    BY <2>1, <1>5
<1>7. Listed(ss, c)
  BY <1>2, <1>3 DEF Listed
<1>8. QED
  BY <1>6, <1>7

LEMMA ViewsViewed ==
  ASSUME ReaderOk, Viewed(streams, task, layouts), NEW v, SeenAs(v)
  PROVE  Viewed(v.ss, v.task, v.layouts)
<1>1. CASE v.ss = streams /\ v.task = task /\ v.layouts = layouts
  BY <1>1
<1>2. CASE \E c \in Containers : \E order \in Orders(c) :
             /\ task = 0 /\ v.task = Len(layouts) + 1
             /\ v.ss = streams \o order /\ v.layouts = Append(layouts, c)
  <2>0. PICK c \in Containers : \E order \in Orders(c) :
          /\ task = 0 /\ v.task = Len(layouts) + 1
          /\ v.ss = streams \o order /\ v.layouts = Append(layouts, c)
    BY <1>2
  <2>1. PICK order \in Orders(c) :
          /\ task = 0 /\ v.task = Len(layouts) + 1
          /\ v.ss = streams \o order /\ v.layouts = Append(layouts, c)
    BY <2>0
  <2>2. streams = <<>> /\ layouts = <<>>
    BY <2>1 DEF Viewed
  <2>3. Listed(order, c) /\ order \in Seq(BusStream)
    BY OrdersListed
  <2>4. <<>> \o order = order
    BY <2>3
  <2>5. v.task = 1 /\ v.ss = order /\ v.layouts = <<c>>
    BY <2>1, <2>2, <2>4
  <2>6. QED
    BY <2>3, <2>5 DEF Viewed
<1>3. QED
  BY <1>1, <1>2 DEF SeenAs

\* The tables find a stream of the input.
LEMMA FirstOfIs ==
  ASSUME NEW c, NEW ss, Listed(ss, c), NEW av, Has(ss, av)
  PROVE  \E k \in DOMAIN ss : FirstOf(ss, av) = ss[k] /\ ss[k].av = av
<1>1. DOMAIN ss \in SUBSET Nat
  BY ContainersAssumption DEF Listed
<1> DEFINE T == {k \in DOMAIN ss : ss[k].av = av}
<1>2. T \in SUBSET Nat /\ T # {}
  BY <1>1 DEF Has
<1>3. PICK k \in T : \A j \in T : k <= j
  BY <1>2, LeastNat
<1>4. \A j \in 1..k - 1 : ss[j].av # av
  <2>1. DOMAIN ss = 1..Len(c) /\ k \in 1..Len(c) /\ Len(c) \in Nat
    BY <1>1, ContainersAssumption DEF Listed
  <2>2. QED
    BY <1>3, <2>1
<1>5. \E n \in DOMAIN ss : ss[n].av = av /\ \A j \in 1..n - 1 : ss[j].av # av
  BY <1>3, <1>4
<1>6. QED
  BY <1>5 DEF FirstOf

LEMMA AtIs ==
  ASSUME NEW c, NEW ss, Listed(ss, c), NEW k \in DOMAIN ss
  PROVE  At(ss, ss[k].index) = ss[k]
<1>1. DOMAIN ss = 1..Len(c) /\ Len(c) \in Nat
  BY ContainersAssumption DEF Listed
<1>2. \A j \in 1..k - 1 : ss[j].index # ss[k].index
  BY <1>1 DEF Listed
<1>3. \A n \in DOMAIN ss : ss[n].index = ss[k].index => n = k
  BY DEF Listed
<1>4. k = CHOOSE n \in DOMAIN ss : ss[n].index = ss[k].index /\ \A j \in 1..n - 1 : ss[j].index # ss[k].index
  BY <1>2, <1>3
<1>5. QED
  BY <1>4 DEF At

\* So does the plan of a container.
LEMMA PlanIs ==
  ASSUME NEW c, NEW ss, Listed(ss, c), NEW o, Has(ss, o.av)
  PROVE  /\ \A n \in DOMAIN Plan(ss, o) : \E k \in DOMAIN ss :
              Plan(ss, o)[n] = Entry(ss[k], Settings(o, ss[k]))
         /\ Plan(ss, o) # <<>> /\ DOMAIN Plan(ss, o) \in {1..1, 1..2}
         /\ Len(Plan(ss, o)) = 2 <=> 2 \in DOMAIN Plan(ss, o)
<1>1. PICK k \in DOMAIN ss : FirstOf(ss, o.av) = ss[k] /\ ss[k].av = o.av
  BY FirstOfIs
<1>2. At(ss, FirstOf(ss, o.av).index) = ss[k]
  BY <1>1, AtIs
<1> DEFINE P1 == <<Entry(ss[k], o.enc)>>
           P2 == IF o.audio /\ ss[k].av = "video" /\ Has(ss, "audio")
                 THEN <<Entry(FirstOf(ss, "audio"), o.audioEnc)>> ELSE <<>>
           S  == {Entry(ss[k], o.enc), Entry(FirstOf(ss, "audio"), o.audioEnc)}
<1>3. Plan(ss, o) = P1 \o P2
  BY <1>2 DEF Plan
<1>4. P1 \in Seq(S) /\ P2 \in Seq(S)
  OBVIOUS
<1>5. \A n \in DOMAIN P1 : P1[n] = Entry(ss[k], Settings(o, ss[k]))
  BY <1>1 DEF Settings
<1>6. \A n \in DOMAIN P2 : \E j \in DOMAIN ss : P2[n] = Entry(ss[j], Settings(o, ss[j]))
  <2>1. CASE Has(ss, "audio") /\ ss[k].av = "video"
    <3>1. PICK j \in DOMAIN ss : FirstOf(ss, "audio") = ss[j] /\ ss[j].av = "audio"
      BY <2>1, FirstOfIs
    <3>2. Settings(o, ss[j]) = o.audioEnc
      BY <1>1, <2>1, <3>1 DEF Settings
    <3>3. QED
      BY <3>1, <3>2
  <2>2. CASE ~(Has(ss, "audio") /\ ss[k].av = "video")
    BY <2>2
  <2>3. QED
    BY <2>1, <2>2
<1> HIDE DEF P1, P2, S
<1>7. ASSUME NEW n \in DOMAIN (P1 \o P2)
      PROVE  \/ n \in DOMAIN P1 /\ (P1 \o P2)[n] = P1[n]
             \/ n - Len(P1) \in DOMAIN P2 /\ (P1 \o P2)[n] = P2[n - Len(P1)]
  BY <1>4, <1>7
<1>8. Len(P1) = 1 /\ Len(P2) \in {0, 1}
  BY DEF P1, P2
<1>9. Len(P1 \o P2) \in {1, 2} /\ DOMAIN (P1 \o P2) = 1..Len(P1 \o P2)
  <2>1. P1 \o P2 \in Seq(S) /\ Len(P1 \o P2) = Len(P1) + Len(P2)
    BY <1>4
  <2>2. QED
    BY <2>1, <1>8
<1>10. /\ P1 \o P2 # <<>> /\ DOMAIN (P1 \o P2) \in {1..1, 1..2}
       /\ Len(P1 \o P2) = 2 <=> 2 \in DOMAIN (P1 \o P2)
  BY <1>9
<1>11. \A n \in DOMAIN (P1 \o P2) : \E j \in DOMAIN ss :
         (P1 \o P2)[n] = Entry(ss[j], Settings(o, ss[j]))
  BY <1>5, <1>6, <1>7
<1>12. QED
  BY <1>3, <1>10, <1>11

\* The members of two sequences in a row, and those of a transcoding.
LEMMA ElemsOfBoth ==
  ASSUME NEW S, NEW a \in Seq(S), NEW b \in Seq(S), NEW x \in Elems(a \o b)
  PROVE  x \in Elems(a) \/ x \in Elems(b)
<1>1. PICK n \in DOMAIN (a \o b) : x = (a \o b)[n]
  BY DEF Elems
<1>2. \/ n \in DOMAIN a /\ x = a[n]
      \/ n - Len(a) \in DOMAIN b /\ x = b[n - Len(a)]
  BY <1>1
<1>3. QED
  BY <1>2 DEF Elems

LEMMA ShortSeqs ==
  ASSUME NEW d, NEW e
  PROVE  /\ <<>> \in Seq({d, e}) /\ <<d, e>> \in Seq({d, e})
         /\ <<d>> \in Seq({d, e}) /\ <<e>> \in Seq({d, e})
  OBVIOUS

LEMMA TranscodersAre ==
  ASSUME NEW t
  PROVE  /\ Transcoders(t) \in Seq({Step("decoder", t.index, Unset, TRUE), Step("encoder", t.index, t.enc, TRUE)})
         /\ \A x \in Elems(Transcoders(t)) :
              \/ x = Step("decoder", t.index, Unset, TRUE)
              \/ x = Step("encoder", t.index, t.enc, TRUE)
<1> DEFINE d == Step("decoder", t.index, Unset, TRUE)
           e == Step("encoder", t.index, t.enc, TRUE)
<1>1. Transcoders(t) = IF t.transcode THEN <<d, e>> ELSE <<>>
  BY DEF Transcoders
<1> HIDE DEF d, e
<1>2. Transcoders(t) \in Seq({d, e})
  BY <1>1, ShortSeqs
<1>3. \A n \in DOMAIN Transcoders(t) : Transcoders(t)[n] \in {d, e}
  BY <1>2
<1>4. \A x \in Elems(Transcoders(t)) : x \in {d, e}
  BY <1>3 DEF Elems
<1>5. QED
  BY <1>2, <1>4 DEF d, e

LEMMA IndexIs ==
  ASSUME NEW c, NEW ss, Listed(ss, c), NEW k \in DOMAIN ss
  PROVE  ss[k].index \in Index
  BY DEF Listed, Index

\* The steps of an output are for streams of the input, with its settings, and
\* those of a file or a push drop nothing.
LEMMA StepsAre ==
  ASSUME NEW c, NEW ss, Listed(ss, c), NEW o, Has(ss, o.av), NEW st \in Elems(Steps(ss, o))
  PROVE  /\ IsFileNet(o) => st.lossless
         /\ st.kind = "encoder" =>
              \E k \in DOMAIN ss : st.index = ss[k].index /\ st.enc = Settings(o, ss[k])
<1>1. PICK k \in DOMAIN ss : FirstOf(ss, o.av) = ss[k] /\ ss[k].av = o.av
  BY FirstOfIs
<1> DEFINE plan == Plan(ss, o)
           s == FirstOf(ss, o.av)
           T2 == IF Len(plan) = 2 THEN Transcoders(plan[2]) ELSE <<>>
           D == IF TryDecoder(s, o) THEN <<Step("decoder", s.index, Unset, FALSE)>> ELSE <<>>
           E == IF TryEncoder(s, o) THEN <<Step("encoder", s.index, o.enc, FALSE)>> ELSE <<>>
<1>2. CASE IsFileNet(o)
  <2>1. Steps(ss, o) = Transcoders(plan[1]) \o T2
    BY <1>2 DEF Steps
  <2>2. ASSUME NEW n \in DOMAIN plan, NEW x \in Elems(Transcoders(plan[n]))
        PROVE  /\ x.lossless
               /\ x.kind = "encoder" =>
                    \E j \in DOMAIN ss : x.index = ss[j].index /\ x.enc = Settings(o, ss[j])
    <3>1. PICK j \in DOMAIN ss : plan[n] = Entry(ss[j], Settings(o, ss[j]))
      BY PlanIs
    <3>2. \/ x = Step("decoder", plan[n].index, Unset, TRUE)
          \/ x = Step("encoder", plan[n].index, plan[n].enc, TRUE)
      BY <2>2, TranscodersAre
    <3>3. plan[n].index = ss[j].index /\ plan[n].enc = Settings(o, ss[j])
      BY <3>1 DEF Entry
    <3>4. QED
      BY <3>2, <3>3 DEF Step
  <2>3. 1 \in DOMAIN plan /\ (Len(plan) = 2 => 2 \in DOMAIN plan)
    BY PlanIs
  <2>4. st \in Elems(Transcoders(plan[1])) \cup Elems(T2)
    <3>1. PICK A : Transcoders(plan[1]) \in Seq(A)
      BY TranscodersAre
    <3>2. PICK B : Transcoders(plan[2]) \in Seq(B)
      BY TranscodersAre
    <3>3. Transcoders(plan[1]) \in Seq(A \cup B) /\ T2 \in Seq(A \cup B)
      BY <3>1, <3>2
    <3> HIDE DEF T2, plan
    <3>4. QED
      BY <3>3, <2>1, ElemsOfBoth
  <2>5. CASE st \in Elems(Transcoders(plan[1]))
    BY <2>2, <2>3, <2>5, <1>2
  <2>6. CASE st \in Elems(T2)
    <3>1. Len(plan) = 2
      BY <2>6 DEF Elems
    <3>2. QED
      BY <3>1, <2>2, <2>3, <2>6, <1>2
  <2>7. QED
    BY <2>4, <2>5, <2>6
<1>3. CASE ~IsFileNet(o)
  <2>1. Steps(ss, o) = D \o E
    BY <1>3 DEF Steps
  <2>2. \/ st = Step("decoder", s.index, Unset, FALSE)
        \/ st = Step("encoder", s.index, o.enc, FALSE)
    <3> DEFINE d == Step("decoder", s.index, Unset, FALSE)
               e == Step("encoder", s.index, o.enc, FALSE)
    <3>0. D \in {<<>>, <<d>>} /\ E \in {<<>>, <<e>>}
      OBVIOUS
    <3> HIDE DEF d, e, D, E
    <3>1. D \in Seq({d, e}) /\ E \in Seq({d, e})
      BY <3>0, ShortSeqs
    <3>2. D \o E \in Seq({d, e})
      BY <3>1
    <3>3. \A n \in DOMAIN (D \o E) : (D \o E)[n] \in {d, e}
      BY <3>2
    <3>4. st \in {d, e}
      BY <3>3, <2>1 DEF Elems
    <3>5. QED
      BY <3>4 DEF d, e
  <2>3. Settings(o, ss[k]) = o.enc /\ s.index = ss[k].index
    BY <1>1 DEF Settings
  <2>4. QED
    BY <2>2, <2>3, <1>3 DEF Step
<1>4. QED
  BY <1>2, <1>3

\* Starting tasks, whichever are asked for.
LEMMA TasksStarted ==
  ASSUME NEW v, TasksOf(v.task, decoders, encoders), NEW steps,
         NEW dec, dec = DecodersAfter(v, steps), NEW enc, enc = EncodersAfter(v, steps, dec)
  PROVE  TasksOf(v.task, dec, enc)
<1>1. ASSUME NEW i \in Index, dec[i] # Unset PROVE v.task # 0 /\ dec[i].epoch = v.task
  <2>1. CASE decoders[i] # Unset \/ Wanted(steps, "decoder", i) = {} \/ v.task = 0
    <3>1. dec[i] = decoders[i]
      BY <2>1 DEF DecodersAfter
    <3>2. QED
      BY <3>1, <1>1 DEF TasksOf
  <2>2. CASE ~(decoders[i] # Unset \/ Wanted(steps, "decoder", i) = {} \/ v.task = 0)
    <3>1. dec[i] = [epoch |-> v.task,
                    lossless |-> (CHOOSE st \in Wanted(steps, "decoder", i) : TRUE).lossless]
      BY <2>2, <1>1 DEF DecodersAfter
    <3>2. QED
      BY <3>1, <2>2
  <2>3. QED
    BY <2>1, <2>2
<1>2. ASSUME NEW i \in Index, enc[i] # Unset PROVE v.task # 0 /\ enc[i].epoch = v.task
  <2> DEFINE raw == At(v.ss, i).codec = "raw"
             stays == \/ encoders[i] # Unset \/ Wanted(steps, "encoder", i) = {}
                      \/ (raw /\ v.task = 0) \/ (~raw /\ dec[i] = Unset)
  <2>1. CASE stays
    <3>1. enc[i] = encoders[i]
      BY <2>1 DEF EncodersAfter
    <3>2. QED
      BY <3>1, <1>2 DEF TasksOf
  <2>2. CASE ~stays
    <3>1. enc[i].epoch = IF raw THEN v.task ELSE dec[i].epoch
      BY <2>2 DEF EncodersAfter
    <3>2. QED
      BY <3>1, <2>2, <1>1
  <2>3. QED
    BY <2>1, <2>2
<1>3. QED
  BY <1>1, <1>2 DEF TasksOf

\* What was started was asked for.
LEMMA AskedStarted ==
  ASSUME NEW v, AskedOf(v.ss, decoders, encoders, asked), NEW steps,
         NEW dec, dec = DecodersAfter(v, steps), NEW enc, enc = EncodersAfter(v, steps, dec),
         \A i \in Index : encoders[i] # Unset => v.task # 0
  PROVE  AskedOf(v.ss, dec, enc, asked \cup Elems(steps))
<1> DEFINE S == asked \cup Elems(steps)
<1>1. ASSUME NEW i \in Index, LossyFor(asked, i) PROVE LossyFor(S, i)
  BY <1>1 DEF LossyFor
<1>2. ASSUME NEW i \in Index, dec[i] # Unset PROVE dec[i].lossless \/ LossyFor(S, i)
  <2>1. CASE decoders[i] # Unset \/ Wanted(steps, "decoder", i) = {} \/ v.task = 0
    <3>1. dec[i] = decoders[i]
      BY <2>1 DEF DecodersAfter
    <3>2. QED
      BY <3>1, <1>1, <1>2 DEF AskedOf
  <2>2. CASE ~(decoders[i] # Unset \/ Wanted(steps, "decoder", i) = {} \/ v.task = 0)
    <3> DEFINE st == CHOOSE st \in Wanted(steps, "decoder", i) : TRUE
    <3>1. dec[i] = [epoch |-> v.task, lossless |-> st.lossless]
      BY <2>2, <1>2 DEF DecodersAfter
    <3>2. st \in Elems(steps) /\ st.index = i
      <4>1. st \in Wanted(steps, "decoder", i)
        BY <2>2
      <4>2. QED
        BY <4>1 DEF Wanted
    <3> HIDE DEF st
    <3>3. QED
      BY <3>1, <3>2 DEF LossyFor
  <2>3. QED
    BY <2>1, <2>2
<1>3. ASSUME NEW i \in Index, enc[i] # Unset
      PROVE  /\ \E st \in S : /\ st.kind = "encoder" /\ st.index = i
                             /\ enc[i].codec = EncoderCodec(At(v.ss, i), st.enc)
             /\ At(v.ss, i).codec # "raw" =>
                  dec[i] # Unset /\ (enc[i].lossless \/ LossyFor(S, i))
  <2> DEFINE raw == At(v.ss, i).codec = "raw"
             stays == \/ encoders[i] # Unset \/ Wanted(steps, "encoder", i) = {}
                      \/ (raw /\ v.task = 0) \/ (~raw /\ dec[i] = Unset)
  <2>1. CASE stays
    <3>1. enc[i] = encoders[i]
      BY <2>1 DEF EncodersAfter
    <3>2. decoders[i] # Unset => dec[i] # Unset
      BY DEF DecodersAfter
    <3>3. \E st \in asked : /\ st.kind = "encoder" /\ st.index = i
                            /\ encoders[i].codec = EncoderCodec(At(v.ss, i), st.enc)
      BY <3>1, <1>3 DEF AskedOf
    <3>4. At(v.ss, i).codec # "raw" =>
            decoders[i] # Unset /\ (encoders[i].lossless \/ LossyFor(asked, i))
      BY <3>1, <1>3 DEF AskedOf
    <3> HIDE DEF S
    <3>5. asked \subseteq S
      BY DEF S
    <3>6. QED
      BY <3>1, <3>2, <3>3, <3>4, <3>5, <1>1
  <2>2. CASE ~stays
    <3> DEFINE st == CHOOSE st \in Wanted(steps, "encoder", i) : TRUE
    <3>1. enc[i] = [epoch |-> IF raw THEN v.task ELSE dec[i].epoch,
                    codec |-> EncoderCodec(At(v.ss, i), st.enc),
                    lossless |-> st.lossless /\ ~raw]
      BY <2>2 DEF EncodersAfter
    <3>2. st \in Elems(steps) /\ st.index = i /\ st.kind = "encoder"
      <4>1. st \in Wanted(steps, "encoder", i)
        BY <2>2
      <4>2. QED
        BY <4>1 DEF Wanted
    <3> HIDE DEF st
    <3>3. enc[i].codec = EncoderCodec(At(v.ss, i), st.enc)
      BY <3>1
    <3>4. ~raw => dec[i] # Unset /\ (enc[i].lossless \/ ~st.lossless)
      <4>1. ~raw => dec[i] # Unset
        BY <2>2
      <4>2. enc[i].lossless = (st.lossless /\ ~raw)
        BY <3>1
      <4> HIDE DEF raw
      <4>3. QED
        BY <4>1, <4>2
    <3>5. QED
      BY <3>2, <3>3, <3>4 DEF LossyFor
  <2>3. QED
    BY <2>1, <2>2
<1>4. QED
  BY <1>2, <1>3 DEF AskedOf

\* A task that an output uses does what the output wants or had been asked for
\* before by somebody who wanted something else.
LEMMA TaskClash ==
  ASSUME NEW v, v.task = 1, Listed(v.ss, v.layouts[1]), NEW o, Has(v.ss, o.av),
         AskedOf(v.ss, decoders, encoders, asked),
         NEW dec, dec = DecodersAfter(v, Steps(v.ss, o)),
         NEW enc, enc = EncodersAfter(v, Steps(v.ss, o), dec),
         NEW k \in DOMAIN v.ss, NEW s, s = v.ss[k], enc[s.index] # Unset
  PROVE  /\ \/ enc[s.index].codec = EncoderCodec(s, Settings(o, s))
            \/ \E st \in asked : /\ st.kind = "encoder" /\ st.index = s.index
                               /\ EncoderCodec(s, st.enc) # EncoderCodec(s, Settings(o, s))
         /\ IsFileNet(o) /\ s.codec # "raw" =>
              \/ enc[s.index].lossless /\ dec[s.index] # Unset /\ dec[s.index].lossless
              \/ \E st \in asked : st.index = s.index /\ ~st.lossless
<1> DEFINE i == s.index
           steps == Steps(v.ss, o)
<1>1. i \in Index /\ At(v.ss, i) = s
  BY AtIs, IndexIs
<1>2. AskedOf(v.ss, dec, enc, asked \cup Elems(steps))
  BY AskedStarted
<1>3. ASSUME NEW st \in Elems(steps), st.index = i
      PROVE  (IsFileNet(o) => st.lossless) /\ (st.kind = "encoder" => st.enc = Settings(o, s))
  <2>1. IsFileNet(o) => st.lossless
    BY StepsAre
  <2>2. ASSUME st.kind = "encoder" PROVE st.enc = Settings(o, s)
    <3>1. PICK j \in DOMAIN v.ss : st.index = v.ss[j].index /\ st.enc = Settings(o, v.ss[j])
      BY <2>2, StepsAre
    <3>2. j = k
      BY <3>1, <1>3 DEF Listed
    <3>3. QED
      BY <3>1, <3>2
  <2>3. QED
    BY <2>1, <2>2
<1> HIDE DEF steps
<1>4. \/ enc[i].codec = EncoderCodec(s, Settings(o, s))
      \/ \E st \in asked : /\ st.kind = "encoder" /\ st.index = i
                         /\ EncoderCodec(s, st.enc) # EncoderCodec(s, Settings(o, s))
  <2>1. PICK st \in asked \cup Elems(steps) :
          st.kind = "encoder" /\ st.index = i /\ enc[i].codec = EncoderCodec(s, st.enc)
    BY <1>1, <1>2 DEF AskedOf
  <2>2. CASE st \in asked
    BY <2>1, <2>2
  <2>3. CASE st \in Elems(steps)
    BY <2>1, <2>3, <1>3
  <2>4. QED
    BY <2>2, <2>3
<1>5. ASSUME IsFileNet(o), LossyFor(asked \cup Elems(steps), i)
      PROVE  \E st \in asked : st.index = i /\ ~st.lossless
  <2>1. PICK st \in asked \cup Elems(steps) : st.index = i /\ ~st.lossless
    BY <1>5 DEF LossyFor
  <2>2. QED
    BY <2>1, <1>3, <1>5
<1>6. ASSUME IsFileNet(o), s.codec # "raw"
      PROVE  \/ enc[i].lossless /\ dec[i] # Unset /\ dec[i].lossless
             \/ \E st \in asked : st.index = i /\ ~st.lossless
  <2>1. dec[i] # Unset /\ (enc[i].lossless \/ LossyFor(asked \cup Elems(steps), i))
    BY <1>1, <1>2, <1>6 DEF AskedOf
  <2>2. dec[i].lossless \/ LossyFor(asked \cup Elems(steps), i)
    BY <2>1, <1>1, <1>2 DEF AskedOf
  <2>3. QED
    BY <2>1, <2>2, <1>5, <1>6
<1>7. QED
  BY <1>4, <1>6

\* A track taken from the reader: of its opening, and what it says.
LEMMA CopiedIs ==
  ASSUME NEW v, v.task = 1, Listed(v.ss, v.layouts[1]), NEW k \in DOMAIN v.ss
  PROVE  /\ Copied(v, v.ss[k].index).epoch = 1
         /\ Copied(v, v.ss[k].index).index = v.ss[k].index
         /\ Copied(v, v.ss[k].index).header = v.ss[k].codec
         /\ Copied(v, v.ss[k].index).packets = v.ss[k].codec
<1>1. At(v.ss, v.ss[k].index) = v.ss[k]
  BY AtIs
<1>2. v.ss[k].index \in DOMAIN v.layouts[v.task]
      /\ v.layouts[v.task][v.ss[k].index].codec = v.ss[k].codec
  BY DEF Listed
<1>3. QED
  BY <1>1, <1>2 DEF Copied, Track

\* What Clash notes of a stream that one of the tracks is made of.
LEMMA ClashIs ==
  ASSUME NEW c, NEW ss, Listed(ss, c), NEW k \in DOMAIN ss, NEW s, s = ss[k], NEW o,
         NEW tracks, NEW n \in DOMAIN tracks, tracks[n].index = s.index
  PROVE  /\ (\E st \in asked : /\ st.kind = "encoder" /\ st.index = s.index
                              /\ EncoderCodec(s, st.enc) # EncoderCodec(s, Settings(o, s)))
             => s.index \in Clash(ss, o, tracks).codec
         /\ (\E st \in asked : st.index = s.index /\ ~st.lossless)
             => s.index \in Clash(ss, o, tracks).lossy
<1> DEFINE own == {At(ss, t.index) : t \in Elems(tracks)}
<1>1. s \in own
  BY AtIs DEF Elems
<1>2. /\ Clash(ss, o, tracks).codec = {x.index : x \in {x \in own : \E st \in asked :
             /\ st.kind = "encoder" /\ st.index = x.index
             /\ EncoderCodec(x, st.enc) # EncoderCodec(x, Settings(o, x))}}
      /\ Clash(ss, o, tracks).lossy = {x.index : x \in {x \in own : \E st \in asked :
             st.index = x.index /\ ~st.lossless}}
  BY DEF Clash
<1> HIDE DEF own
<1>3. QED
  BY <1>1, <1>2

\* The tracks of an accepted output are as it asked.
LEMMA TracksAre ==
  ASSUME NEW v, Viewed(v.ss, v.task, v.layouts), NEW o \in Configs, Has(v.ss, o.av),
         AskedOf(v.ss, decoders, encoders, asked),
         NEW dec, dec = DecodersAfter(v, Steps(v.ss, o)),
         NEW enc, enc = EncodersAfter(v, Steps(v.ss, o), dec),
         TasksOf(v.task, dec, enc), Attachable(v, o, dec, enc),
         NEW out, out.config = o, out.tracks = Tracks(v, o, dec, enc),
         out.clash = Clash(v.ss, o, out.tracks)
  PROVE  v.task = 1 /\ TracksOf(v.ss, 1, out)
<1>1. v.task = 1 /\ Listed(v.ss, v.layouts[1])
  BY DEF Viewed, Has
<1>2. PICK k \in DOMAIN v.ss : FirstOf(v.ss, o.av) = v.ss[k] /\ v.ss[k].av = o.av
  BY <1>1, FirstOfIs
<1> DEFINE s == FirstOf(v.ss, o.av)
           i == s.index
           plan == Plan(v.ss, o)
<1>3. \A j \in DOMAIN v.ss : v.ss[j].index \in Index /\ At(v.ss, v.ss[j].index) = v.ss[j]
  BY <1>1, AtIs, IndexIs
<1>4. i \in Index /\ s = v.ss[k] /\ Settings(o, s) = o.enc
  BY <1>2, <1>3 DEF Settings
\* A transcoded track on the encoder of its stream.
<1>5. ASSUME NEW j \in DOMAIN v.ss, NEW n \in DOMAIN out.tracks, enc[v.ss[j].index] # Unset,
             Transcoded(o, v.ss[j]),
             out.tracks[n].index = v.ss[j].index, out.tracks[n].epoch = enc[v.ss[j].index].epoch,
             out.tracks[n].packets = enc[v.ss[j].index].codec,
             IsFileNet(o) => out.tracks[n].lossless =
               (enc[v.ss[j].index].lossless /\ dec[v.ss[j].index] # Unset
                  /\ dec[v.ss[j].index].lossless)
      PROVE  /\ out.tracks[n].epoch = 1
             /\ TrackAsAsked(o, out.clash, out.tracks[n], At(v.ss, out.tracks[n].index))
  <2>1. out.tracks[n].epoch = 1
    BY <1>1, <1>3, <1>5 DEF TasksOf
  <2>2. PICK x : x = v.ss[j]
    OBVIOUS
  <2>3. At(v.ss, out.tracks[n].index) = x
    BY <1>3, <1>5, <2>2
  <2>4. /\ \/ enc[x.index].codec = EncoderCodec(x, Settings(o, x))
           \/ \E st \in asked : /\ st.kind = "encoder" /\ st.index = x.index
                              /\ EncoderCodec(x, st.enc) # EncoderCodec(x, Settings(o, x))
        /\ IsFileNet(o) /\ x.codec # "raw" =>
             \/ enc[x.index].lossless /\ dec[x.index] # Unset /\ dec[x.index].lossless
             \/ \E st \in asked : st.index = x.index /\ ~st.lossless
    BY <1>1, <1>5, <2>2, TaskClash
  <2>5. /\ (\E st \in asked : /\ st.kind = "encoder" /\ st.index = x.index
                            /\ EncoderCodec(x, st.enc) # EncoderCodec(x, Settings(o, x)))
            => x.index \in out.clash.codec
        /\ (\E st \in asked : st.index = x.index /\ ~st.lossless) => x.index \in out.clash.lossy
    BY <1>1, <1>5, <2>2, ClashIs
  <2>6. out.tracks[n].packets = EncoderCodec(x, Settings(o, x)) \/ x.index \in out.clash.codec
    BY <1>5, <2>2, <2>4, <2>5
  <2>7. IsFileNet(o) /\ x.codec # "raw" => out.tracks[n].lossless \/ x.index \in out.clash.lossy
    BY <1>5, <2>2, <2>4, <2>5
  <2>8. TrackAsAsked(o, out.clash, out.tracks[n], x)
    BY <1>5, <2>2, <2>6, <2>7 DEF TrackAsAsked
  <2>9. QED
    BY <2>1, <2>3, <2>8
\* A track that is not transcoded.
<1>6. ASSUME NEW j \in DOMAIN v.ss, NEW n \in DOMAIN out.tracks, ~Transcoded(o, v.ss[j]),
             out.tracks[n].index = v.ss[j].index, out.tracks[n].epoch = 1,
             out.tracks[n].packets = v.ss[j].codec, out.tracks[n].header = v.ss[j].codec
      PROVE  /\ out.tracks[n].epoch = 1
             /\ TrackAsAsked(o, out.clash, out.tracks[n], At(v.ss, out.tracks[n].index))
  <2>1. At(v.ss, out.tracks[n].index) = v.ss[j]
    BY <1>3, <1>6
  <2>2. QED
    BY <2>1, <1>6 DEF TrackAsAsked
<1> HIDE DEF s, i, plan
<1>7. CASE IsFileNet(o)
  <2>1. out.tracks = [n \in DOMAIN plan |-> Muxed(v, plan[n], dec, enc)]
    BY <1>7 DEF Tracks, plan, IsFileNet
  <2>2. \A n \in DOMAIN plan : plan[n].transcode => enc[plan[n].index] # Unset
    BY <1>7 DEF Attachable, plan, IsFileNet
  <2>3. ASSUME NEW n \in DOMAIN out.tracks
        PROVE  /\ out.tracks[n].epoch = 1
               /\ TrackAsAsked(o, out.clash, out.tracks[n], At(v.ss, out.tracks[n].index))
    <3>1. n \in DOMAIN plan /\ out.tracks[n] = Muxed(v, plan[n], dec, enc)
      BY <2>1, <2>3
    <3>2. PICK j \in DOMAIN v.ss : plan[n] = Entry(v.ss[j], Settings(o, v.ss[j]))
      BY <1>1, <3>1, PlanIs DEF plan
    <3>3. plan[n].index = v.ss[j].index /\ plan[n].transcode = Transcoded(o, v.ss[j])
      BY <3>2, <1>7 DEF Entry, Transcoded
    <3>4. CASE ~plan[n].transcode
      <4>1. out.tracks[n] = Copied(v, v.ss[j].index)
        BY <3>1, <3>3, <3>4 DEF Muxed
      <4>2. QED
        BY <4>1, <3>3, <3>4, <1>1, <1>6, CopiedIs
    <3>5. CASE plan[n].transcode
      <4>1. enc[v.ss[j].index] # Unset
        BY <2>2, <3>1, <3>3, <3>5
      <4>2. out.tracks[n] =
              Track(v.ss[j].index, enc[v.ss[j].index].codec, enc[v.ss[j].index].codec,
                    enc[v.ss[j].index].epoch,
                    enc[v.ss[j].index].lossless /\ dec[v.ss[j].index] # Unset
                      /\ dec[v.ss[j].index].lossless)
        BY <3>1, <3>3, <3>5 DEF Muxed
      <4>3. /\ out.tracks[n].index = v.ss[j].index
            /\ out.tracks[n].epoch = enc[v.ss[j].index].epoch
            /\ out.tracks[n].packets = enc[v.ss[j].index].codec
            /\ out.tracks[n].lossless =
                 (enc[v.ss[j].index].lossless /\ dec[v.ss[j].index] # Unset
                    /\ dec[v.ss[j].index].lossless)
        BY <4>2 DEF Track
      <4>4. QED
        BY <4>1, <4>3, <3>3, <3>5, <1>5
    <3>6. QED
      BY <3>4, <3>5
  <2>4. QED
    BY <2>3, <1>1 DEF TracksOf
<1>8. CASE ~IsFileNet(o)
  <2>0. ASSUME NEW t, out.tracks = <<t>>, t.epoch = 1,
               TrackAsAsked(o, out.clash, t, At(v.ss, t.index))
        PROVE  v.task = 1 /\ TracksOf(v.ss, 1, out)
    <3>1. DOMAIN out.tracks = {1} /\ out.tracks[1] = t
      BY <2>0
    <3>2. QED
      BY <3>1, <2>0, <1>1 DEF TracksOf
  <2> DEFINE t == out.tracks[1]
  <2>1. CASE o.dest = "Raw"
    <3>1. out.tracks = <<Track(i, s.codec, s.codec, dec[i].epoch, FALSE)>> /\ dec[i] # Unset
      BY <1>8, <2>1 DEF Tracks, Attachable, s, i, IsFileNet
    <3>2. /\ out.tracks = <<t>> /\ 1 \in DOMAIN out.tracks
          /\ t.index = s.index /\ t.packets = s.codec /\ t.header = s.codec /\ t.epoch = dec[i].epoch
      BY <3>1 DEF Track, i
    <3>3. t.epoch = 1
      BY <3>1, <3>2, <1>1, <1>4 DEF TasksOf
    <3>4. ~Transcoded(o, s)
      BY <1>8, <2>1 DEF Transcoded, TryEncoder
    <3>5. QED
      BY <3>2, <3>3, <3>4, <1>4, <1>6, <2>0
  <2>2. CASE o.dest = "Encoded"
    <3>1. out.tracks = <<Track(i, s.codec, enc[i].codec, enc[i].epoch, FALSE)>> /\ enc[i] # Unset
      BY <1>8, <2>2 DEF Tracks, Attachable, s, i, IsFileNet
    <3>2. /\ out.tracks = <<t>> /\ 1 \in DOMAIN out.tracks /\ enc[s.index] # Unset
          /\ t.index = s.index /\ t.packets = enc[s.index].codec /\ t.epoch = enc[s.index].epoch
      BY <3>1 DEF Track, i
    <3>3. Transcoded(o, s)
      BY <1>8, <2>2 DEF Transcoded, TryEncoder
    <3>4. QED
      BY <3>2, <3>3, <1>4, <1>5, <1>8, <2>0
  <2>3. CASE o.dest = "Mux" /\ TryEncoder(s, o)
    <3>1. out.tracks = <<Track(i, o.format, enc[i].codec, enc[i].epoch, FALSE)>> /\ enc[i] # Unset
      BY <1>8, <2>3 DEF Tracks, Attachable, s, i, IsFileNet
    <3>2. /\ out.tracks = <<t>> /\ 1 \in DOMAIN out.tracks /\ enc[s.index] # Unset
          /\ t.index = s.index /\ t.packets = enc[s.index].codec /\ t.epoch = enc[s.index].epoch
      BY <3>1 DEF Track, i
    <3>3. Transcoded(o, s)
      BY <1>8, <2>3 DEF Transcoded
    <3>4. QED
      BY <3>2, <3>3, <1>4, <1>5, <1>8, <2>0
  <2>4. CASE ~(o.dest = "Mux" /\ TryEncoder(s, o)) /\ o.dest \notin {"Raw", "Encoded"}
    <3>1. out.tracks = <<Copied(v, i)>>
      BY <1>8, <2>4 DEF Tracks, s, i, IsFileNet
    <3>2. out.tracks = <<t>> /\ 1 \in DOMAIN out.tracks /\ t = Copied(v, s.index)
      BY <3>1 DEF i
    <3>3. ~Transcoded(o, s)
      <4>1. o.dest \in {"Mux", "Demuxed"}
        BY <1>8, <2>4, ConfigsAssumption DEF IsFileNet
      <4>2. QED
        BY <4>1, <1>8, <2>4 DEF Transcoded, TryEncoder
    <3>4. t.epoch = 1 /\ t.index = s.index /\ t.packets = s.codec /\ t.header = s.codec
      BY <3>2, <1>1, <1>4, CopiedIs
    <3>5. QED
      BY <3>2, <3>3, <3>4, <1>4, <1>6, <2>0
  <2>5. QED
    BY <2>1, <2>2, <2>3, <2>4
<1>9. QED
  BY <1>7, <1>8

-----------------------------------------------------------------------------
(* The steps keep BusInv. *)

\* The reader: what a command does to the input.
LEMMA ReaderMoves ==
  ASSUME BusInv, NEW v, SeenAs(v), removed' = removed,
         outputs' = outputs \/ DOMAIN outputs' = OutputIds,
         \/ StartInput(v)
         \/ Prepared(v)
  PROVE  /\ DOMAIN outputs' = OutputIds /\ ReaderOk'
         /\ task' = v.task /\ streams' = v.ss /\ layouts' = v.layouts
         /\ StartInput(v) => (v.task # 0 => task' \in reading')
         /\ task # 0 => task' = task /\ streams' = streams /\ (task \in reading => task' \in reading')
<1>1. DOMAIN outputs' = OutputIds
  BY DEF BusInv
<1>2. task' = v.task /\ streams' = v.ss /\ layouts' = v.layouts
  BY DEF StartInput, Prepared
<1>3. CASE v.ss = streams /\ v.task = task /\ v.pending = pending /\ v.layouts = layouts
  BY <1>1, <1>2, <1>3 DEF BusInv, ReaderOk, StartInput, Prepared
<1>4. CASE \E c \in Containers : \E order \in Orders(c) :
             /\ task = 0 /\ v.task = Len(layouts) + 1 /\ v.pending = TRUE
             /\ v.ss = streams \o order /\ v.layouts = Append(layouts, c)
  <2>1. PICK c \in Containers : \E order \in Orders(c) :
             /\ task = 0 /\ v.task = Len(layouts) + 1 /\ v.pending = TRUE
             /\ v.ss = streams \o order /\ v.layouts = Append(layouts, c)
    BY <1>4
  <2>2. /\ task = 0 /\ v.task = Len(layouts) + 1 /\ v.pending = TRUE
        /\ v.layouts = Append(layouts, c)
    BY <2>1
  <2>3. /\ layouts' \in Seq(Containers) /\ Len(layouts') = Len(layouts) + 1 /\ Len(layouts) \in Nat
        /\ task' \in 1..Len(layouts')
    BY <1>2, <2>2 DEF BusInv, ReaderOk
  <2>4. reading = {}
    BY <2>2 DEF BusInv, ReaderOk
  <2>6. CASE StartInput(v)
    <3>1. v.pending
      BY <2>2
    <3>2. reading' = {v.task} /\ ~pending' /\ pending' \in BOOLEAN
      BY <3>1, <2>4, <2>6 DEF StartInput
    <3>3. QED
      BY <1>1, <1>2, <2>2, <2>3, <2>6, <3>2 DEF BusInv, ReaderOk
  <2>7. CASE ~StartInput(v) /\ Prepared(v)
    <3>1. reading' = {} /\ pending' /\ pending' \in BOOLEAN
      BY <2>2, <2>4, <2>7 DEF Prepared
    <3>2. task' # 0
      BY <1>2, <2>2, <2>3
    <3>3. QED
      BY <1>1, <1>2, <2>2, <2>3, <2>7, <3>1, <3>2 DEF BusInv, ReaderOk
  <2>8. QED
    BY <2>6, <2>7
<1>5. QED
  BY <1>3, <1>4 DEF SeenAs

\* What is served while nothing is removed: the same opening, or the first one.
LEMMA SeenServed ==
  ASSUME BusInv, ~removed, NEW v, SeenAs(v)
  PROVE  /\ Viewed(v.ss, v.task, v.layouts)
         /\ TasksOf(v.task, decoders, encoders)
         /\ AskedOf(v.ss, decoders, encoders, asked)
         /\ \A i \in Index : encoders[i] # Unset => v.task # 0
         /\ task # 0 => v.task = task
<1>1. Viewed(v.ss, v.task, v.layouts)
  BY ViewsViewed DEF BusInv, ServedOk
<1>2. task # 0 => v.task = task
  BY DEF SeenAs
<1>3. TasksOf(task, decoders, encoders)
  BY DEF BusInv, ServedOk
<1>4. TasksOf(v.task, decoders, encoders)
  BY <1>2, <1>3 DEF TasksOf
<1>5. AskedOf(v.ss, decoders, encoders, asked)
  <2>1. AskedOf(streams, decoders, encoders, asked)
    BY DEF BusInv, ServedOk
  <2>2. CASE v.ss = streams
    BY <2>1, <2>2
  <2>3. CASE task = 0
    BY <1>3, <2>3 DEF TasksOf, AskedOf
  <2>4. QED
    BY <2>2, <2>3 DEF SeenAs
<1>6. \A i \in Index : encoders[i] # Unset => v.task # 0
  BY <1>4 DEF TasksOf
<1>7. QED
  BY <1>1, <1>2, <1>4, <1>5, <1>6

LEMMA AddOutputKeeps ==
  ASSUME BusInv, NEW o \in Configs, AddOutput(o)
  PROVE  BusInv'
<1>1. PICK v \in Views :
        /\ Has(v.ss, o.av)
        /\ decoders' = DecodersAfter(v, Steps(v.ss, o))
        /\ encoders' = EncodersAfter(v, Steps(v.ss, o), decoders')
        /\ Attachable(v, o, decoders', encoders')
        /\ outputs' = [outputs EXCEPT ![o.id] =
                         [config |-> o, tracks |-> Tracks(v, o, decoders', encoders'),
                          clash |-> Clash(v.ss, o, Tracks(v, o, decoders', encoders'))]]
        /\ Asked(Steps(v.ss, o))
        /\ StartInput(v)
  BY DEF AddOutput
<1>2. SeenAs(v)
  BY ViewsSeen
<1>3. removed' = removed /\ lastSub' = lastSub /\ DOMAIN outputs' = OutputIds
  BY <1>1 DEF AddOutput, BusInv
<1>4. /\ DOMAIN outputs' = OutputIds /\ ReaderOk'
      /\ task' = v.task /\ streams' = v.ss /\ layouts' = v.layouts
      /\ v.task # 0 => task' \in reading'
      /\ task # 0 => task' = task /\ streams' = streams /\ (task \in reading => task' \in reading')
  BY <1>1, <1>2, <1>3, ReaderMoves
<1>5. ASSUME ~removed PROVE ServedOk'
  <2>1. /\ Viewed(v.ss, v.task, v.layouts) /\ TasksOf(v.task, decoders, encoders)
        /\ AskedOf(v.ss, decoders, encoders, asked)
        /\ \A i \in Index : encoders[i] # Unset => v.task # 0
    BY <1>5, <1>2, SeenServed
  <2>2. TasksOf(v.task, decoders', encoders')
    BY <1>1, <2>1, TasksStarted
  <2>3. AskedOf(v.ss, decoders', encoders', asked')
    <3>1. asked' = asked \cup Elems(Steps(v.ss, o))
      BY <1>1, <1>5 DEF Asked
    <3>2. QED
      BY <3>1, <1>1, <2>1, AskedStarted
  <2>4. PICK out : out = [config |-> o, tracks |-> Tracks(v, o, decoders', encoders'),
                          clash |-> Clash(v.ss, o, Tracks(v, o, decoders', encoders'))]
    OBVIOUS
  <2>5. v.task = 1 /\ TracksOf(v.ss, 1, out)
    BY <1>1, <2>1, <2>2, <2>4, TracksAre
  <2>6. ASSUME NEW id \in OutputIds, outputs'[id] # Unset
        PROVE  task' \in reading' /\ TracksOf(streams', task', outputs'[id])
    <3>1. CASE id = o.id
      <4>1. outputs'[id] = out
        BY <1>1, <2>4, <3>1 DEF BusInv
      <4>2. QED
        BY <4>1, <2>5, <1>4
    <3>2. CASE id # o.id
      <4>1. outputs'[id] = outputs[id]
        BY <1>1, <3>2 DEF BusInv
      <4>2. task \in reading /\ TracksOf(streams, task, outputs[id])
        BY <4>1, <2>6, <1>5 DEF BusInv, ServedOk
      <4>3. task # 0
        BY <4>2 DEF BusInv, ReaderOk
      <4>4. QED
        BY <4>1, <4>2, <4>3, <1>4
    <3>3. QED
      BY <3>1, <3>2
  <2>7. ASSUME lastSub' # Unset PROVE task' \in reading' /\ lastSub'.epoch = task'
    BY <2>7, <1>3, <1>4, <1>5 DEF BusInv, ServedOk, ReaderOk
  <2>8. QED
    BY <2>1, <2>2, <2>3, <2>6, <2>7, <1>4 DEF ServedOk
<1>6. ServedOk'
  BY <1>3, <1>5 DEF ServedOk
<1>7. QED
  BY <1>4, <1>6 DEF BusInv

\* A command that fails after opening the input and starting some tasks.
LEMMA FailureKeeps ==
  ASSUME BusInv, NEW v \in Views, Prepared(v), NEW steps,
         removed' = removed, lastSub' = lastSub, outputs' = outputs,
         \/ decoders' = decoders /\ encoders' = encoders /\ asked' = asked
         \/ /\ decoders' = DecodersAfter(v, steps) /\ encoders' = EncodersAfter(v, steps, decoders')
            /\ Asked(steps)
  PROVE  BusInv'
<1>1. SeenAs(v)
  BY ViewsSeen
<1>2. /\ DOMAIN outputs' = OutputIds /\ ReaderOk'
      /\ task' = v.task /\ streams' = v.ss /\ layouts' = v.layouts
      /\ task # 0 => task' = task /\ streams' = streams /\ (task \in reading => task' \in reading')
  BY <1>1, ReaderMoves
<1>3. ASSUME ~removed PROVE ServedOk'
  <2>1. /\ Viewed(v.ss, v.task, v.layouts) /\ TasksOf(v.task, decoders, encoders)
        /\ AskedOf(v.ss, decoders, encoders, asked)
        /\ \A i \in Index : encoders[i] # Unset => v.task # 0
    BY <1>1, <1>3, SeenServed
  <2>2. TasksOf(v.task, decoders', encoders')
    BY <2>1, TasksStarted
  <2>3. AskedOf(v.ss, decoders', encoders', asked')
    <3>1. CASE decoders' = decoders /\ encoders' = encoders /\ asked' = asked
      BY <3>1, <2>1
    <3>2. CASE /\ decoders' = DecodersAfter(v, steps) /\ encoders' = EncodersAfter(v, steps, decoders')
               /\ Asked(steps)
      <4>1. asked' = asked \cup Elems(steps)
        BY <1>3, <3>2 DEF Asked
      <4>2. QED
        BY <4>1, <3>2, <2>1, AskedStarted
    <3>3. QED
      BY <3>1, <3>2
  <2>4. ASSUME NEW id \in OutputIds, outputs'[id] # Unset
        PROVE  task' \in reading' /\ TracksOf(streams', task', outputs'[id])
    <3>1. task \in reading /\ TracksOf(streams, task, outputs[id])
      BY <2>4, <1>3 DEF BusInv, ServedOk
    <3>2. task # 0
      BY <3>1 DEF BusInv, ReaderOk
    <3>3. QED
      BY <3>1, <3>2, <1>2
  <2>5. ASSUME lastSub' # Unset PROVE task' \in reading' /\ lastSub'.epoch = task'
    BY <2>5, <1>2, <1>3 DEF BusInv, ServedOk, ReaderOk
  <2>6. QED
    BY <2>1, <2>2, <2>3, <2>4, <2>5, <1>2 DEF ServedOk
<1>4. QED
  BY <1>2, <1>3 DEF BusInv, ServedOk

LEMMA AddOutputFailsKeeps ==
  ASSUME BusInv, NEW o \in Configs, AddOutputFails(o)
  PROVE  BusInv'
<1>1. removed' = removed /\ lastSub' = lastSub /\ outputs' = outputs
  BY DEF AddOutputFails
<1>2. PICK v \in Views :
        /\ Prepared(v)
        /\ IF ~Has(v.ss, o.av) THEN UNCHANGED <<tasks, asked>>
           ELSE \E k \in 0..Len(Steps(v.ss, o)) :
                  LET done == SubSeq(Steps(v.ss, o), 1, k) IN
                    /\ decoders' = DecodersAfter(v, done)
                    /\ encoders' = EncodersAfter(v, done, decoders')
                    /\ FailsAfter(v, o, k, decoders', encoders')
                    /\ Asked(done)
  BY DEF AddOutputFails
<1>3. \E done : \/ decoders' = decoders /\ encoders' = encoders /\ asked' = asked
                \/ /\ decoders' = DecodersAfter(v, done)
                   /\ encoders' = EncodersAfter(v, done, decoders')
                   /\ Asked(done)
  BY <1>2 DEF tasks
<1>4. QED
  BY <1>1, <1>2, <1>3, FailureKeeps

LEMMA SubscribeKeeps ==
  ASSUME BusInv, NEW av, Subscribe(av)
  PROVE  BusInv'
<1>1. PICK v \in Views :
        /\ Has(v.ss, av)
        /\ decoders' = DecodersAfter(v, <<Step("decoder", FirstOf(v.ss, av).index, Unset, FALSE)>>)
        /\ decoders'[FirstOf(v.ss, av).index] # Unset
        /\ lastSub' = [index |-> FirstOf(v.ss, av).index,
                       epoch |-> decoders'[FirstOf(v.ss, av).index].epoch]
        /\ Asked(<<Step("decoder", FirstOf(v.ss, av).index, Unset, FALSE)>>)
        /\ StartInput(v)
        /\ UNCHANGED <<config, encoders, outputs, removed>>
  BY DEF Subscribe
<1> DEFINE steps == <<Step("decoder", FirstOf(v.ss, av).index, Unset, FALSE)>>
<1>2. SeenAs(v)
  BY ViewsSeen
<1>3. /\ DOMAIN outputs' = OutputIds /\ ReaderOk'
      /\ task' = v.task /\ streams' = v.ss /\ layouts' = v.layouts
      /\ v.task # 0 => task' \in reading'
      /\ task # 0 => task' = task /\ streams' = streams /\ (task \in reading => task' \in reading')
  BY <1>1, <1>2, ReaderMoves
<1>4. ASSUME ~removed PROVE ServedOk'
  <2>1. /\ Viewed(v.ss, v.task, v.layouts) /\ TasksOf(v.task, decoders, encoders)
        /\ AskedOf(v.ss, decoders, encoders, asked)
        /\ \A i \in Index : encoders[i] # Unset => v.task # 0
    BY <1>4, <1>2, SeenServed
  <2>2. TasksOf(v.task, decoders', encoders')
    <3>1. TasksOf(v.task, DecodersAfter(v, steps), EncodersAfter(v, steps, DecodersAfter(v, steps)))
      BY <2>1, TasksStarted
    <3>2. QED
      BY <3>1, <2>1, <1>1 DEF TasksOf
  <2>8. AskedOf(v.ss, decoders', encoders', asked')
    <3> DEFINE enc == EncodersAfter(v, steps, DecodersAfter(v, steps))
    <3>1. \A i \in Index : enc[i] = encoders[i]
      <4>1. \A i \in Index : Wanted(steps, "encoder", i) = {}
        BY DEF Wanted, Elems, Step
      <4> HIDE DEF steps
      <4>2. QED
        BY <4>1 DEF EncodersAfter
    <3>2. asked' = asked \cup Elems(steps)
      BY <1>1, <1>4 DEF Asked
    <3>3. AskedOf(v.ss, DecodersAfter(v, steps), enc, asked \cup Elems(steps))
      BY <2>1, AskedStarted
    <3>4. decoders' = DecodersAfter(v, steps) /\ encoders' = encoders
      BY <1>1
    <3> HIDE DEF steps, enc
    <3>5. ASSUME NEW dec, AskedOf(v.ss, dec, enc, asked \cup Elems(steps))
          PROVE  AskedOf(v.ss, dec, encoders, asked \cup Elems(steps))
      <4>1. PICK S : S = asked \cup Elems(steps)
        OBVIOUS
      <4>2. AskedOf(v.ss, dec, enc, S)
        BY <3>5, <4>1
      <4>3. AskedOf(v.ss, dec, encoders, S)
        BY <3>1, <4>2 DEF AskedOf
      <4>4. QED
        BY <4>1, <4>3
    <3>6. QED
      BY <3>2, <3>3, <3>4, <3>5
  <2>3. v.task = 1 /\ Listed(v.ss, v.layouts[1])
    BY <1>1, <2>1 DEF Viewed, Has
  <2>4. FirstOf(v.ss, av).index \in Index
    <3>1. PICK k \in DOMAIN v.ss : FirstOf(v.ss, av) = v.ss[k]
      BY <1>1, <2>3, FirstOfIs
    <3>2. QED
      BY <3>1, <2>3 DEF Listed, Index
  <2>5. task' \in reading' /\ lastSub'.epoch = task'
    BY <1>1, <1>3, <2>2, <2>3, <2>4 DEF TasksOf
  <2>6. ASSUME NEW id \in OutputIds, outputs'[id] # Unset
        PROVE  task' \in reading' /\ TracksOf(streams', task', outputs'[id])
    <3>1. task \in reading /\ TracksOf(streams, task, outputs[id])
      BY <2>6, <1>1, <1>4 DEF BusInv, ServedOk
    <3>2. task # 0
      BY <3>1 DEF BusInv, ReaderOk
    <3>3. QED
      BY <3>1, <3>2, <1>1, <1>3
  <2>7. QED
    BY <2>1, <2>2, <2>5, <2>6, <2>8, <1>3 DEF ServedOk
<1>5. QED
  BY <1>1, <1>3, <1>4 DEF BusInv, ServedOk

LEMMA AddInputKeeps ==
  ASSUME BusInv, AddInput
  PROVE  BusInv'
<1>1. decoders' = decoders /\ encoders' = encoders /\ outputs' = outputs
      /\ removed' = removed /\ lastSub' = lastSub /\ asked' = asked
  BY DEF AddInput, tasks
<1>2. CASE UNCHANGED <<task, pending, streams, layouts, reading>>
  BY <1>1, <1>2 DEF BusInv, ReaderOk, ServedOk
<1>3. CASE task = 0 /\ \E v \in Opened : StartInput(v)
  <2>1. PICK v \in Opened : StartInput(v)
    BY <1>3
  <2>2. SeenAs(v)
    <3>1. PICK c \in Containers : \E order \in Orders(c) :
            v = [ss |-> streams \o order, task |-> Len(layouts) + 1, pending |-> TRUE,
                 layouts |-> Append(layouts, c)]
      BY DEF Opened
    <3>2. PICK order \in Orders(c) :
            v = [ss |-> streams \o order, task |-> Len(layouts) + 1, pending |-> TRUE,
                 layouts |-> Append(layouts, c)]
      BY <3>1
    <3>3. /\ task = 0 /\ v.task = Len(layouts) + 1 /\ v.pending = TRUE
          /\ v.ss = streams \o order /\ v.layouts = Append(layouts, c)
      BY <3>2, <1>3
    <3>4. QED
      BY <3>3 DEF SeenAs
  <2>3. /\ DOMAIN outputs' = OutputIds /\ ReaderOk'
        /\ task' = v.task /\ streams' = v.ss /\ layouts' = v.layouts
    BY <1>1, <2>1, <2>2, ReaderMoves
  <2>4. ASSUME ~removed PROVE ServedOk'
    <3>1. /\ Viewed(v.ss, v.task, v.layouts) /\ TasksOf(v.task, decoders, encoders)
          /\ AskedOf(v.ss, decoders, encoders, asked)
      BY <2>2, <2>4, SeenServed
    <3>2. 0 \notin reading
      BY DEF BusInv, ReaderOk
    <3>3. (\A id \in OutputIds : outputs[id] = Unset) /\ lastSub = Unset
      BY <1>3, <2>4, <3>2 DEF BusInv, ServedOk
    <3>4. QED
      BY <1>1, <2>3, <3>1, <3>3 DEF ServedOk
  <2>5. QED
    BY <1>1, <2>3, <2>4 DEF BusInv, ServedOk
<1>4. QED
  BY <1>2, <1>3 DEF AddInput

LEMMA RemoveInputKeeps ==
  ASSUME BusInv, RemoveInput
  PROVE  BusInv'
<1>1. ReaderOk'
  <2>1. reading' = reading \ {task} /\ task' = 0 /\ pending' = FALSE /\ removed' = TRUE /\ layouts' = layouts
    BY DEF RemoveInput, StopReader, DropPending
  <2>2. reading \subseteq {task} /\ layouts \in Seq(Containers)
    BY DEF BusInv, ReaderOk
  <2>3. reading' = {} /\ ~pending' /\ 0 \in 0..Len(layouts)
    BY <2>1, <2>2
  <2>4. QED
    BY <2>1, <2>2, <2>3 DEF ReaderOk
<1>2. ServedOk'
  BY DEF ServedOk, RemoveInput
<1>3. QED
  BY <1>1, <1>2 DEF BusInv, RemoveInput

\* The inductive invariant.
LEMMA BusInvariant == BusSpec => []BusInv
<1>1. BusInit => BusInv
  <2> SUFFICES ASSUME BusInit PROVE BusInv
    OBVIOUS
  <2>1. ReaderOk
    <3>1. layouts = <<>> /\ task = 0 /\ pending = FALSE /\ removed = FALSE /\ reading = {}
      BY DEF BusInit
    <3>2. layouts \in Seq(Containers) /\ Len(layouts) = 0
      BY <3>1
    <3>3. 0 \in 0..Len(layouts)
      BY <3>2
    <3>4. QED
      BY <3>1, <3>2, <3>3 DEF ReaderOk
  <2>2. ServedOk
    BY DEF BusInit, ServedOk, Viewed, TasksOf, AskedOf
  <2>3. QED
    BY <2>1, <2>2 DEF BusInit, BusInv
<1>2. BusInv /\ [BusNext]_busvars => BusInv'
  <2> SUFFICES ASSUME BusInv, [BusNext]_busvars PROVE BusInv'
    OBVIOUS
  <2>1. CASE AddInput
    BY <2>1, AddInputKeeps
  <2>2. CASE RemoveInput
    BY <2>2, RemoveInputKeeps
  <2>3. ASSUME NEW o \in Configs, AddOutput(o) PROVE BusInv'
    BY <2>3, AddOutputKeeps
  <2>4. ASSUME NEW o \in Configs, AddOutputFails(o) PROVE BusInv'
    BY <2>4, AddOutputFailsKeeps
  <2>5. ASSUME NEW av, Subscribe(av) PROVE BusInv'
    BY <2>5, SubscribeKeeps
  <2>6. ASSUME NEW av, SubscribeFails(av) PROVE BusInv'
    <3>1. PICK v \in Views : Prepared(v)
      BY <2>6 DEF SubscribeFails
    <3>2. /\ removed' = removed /\ lastSub' = lastSub /\ outputs' = outputs
          /\ decoders' = decoders /\ encoders' = encoders /\ asked' = asked
      BY <2>6 DEF SubscribeFails, tasks
    <3>3. QED
      BY <3>1, <3>2, FailureKeeps
  <2>7. CASE UNCHANGED busvars
    BY <2>7 DEF busvars, tasks, BusInv, ReaderOk, ServedOk
  <2>8. QED
    BY <2>1, <2>2, <2>3, <2>4, <2>5, <2>6, <2>7 DEF BusNext
<1>3. QED
  BY <1>1, <1>2, PTL DEF BusSpec

\* An encoder is asked for with the decoder it reads, in that order.
LEMMA DecodersFirst ==
  ASSUME NEW c, NEW ss, Listed(ss, c), NEW o \in Configs, Has(ss, o.av),
         NEW k \in DOMAIN Steps(ss, o), Steps(ss, o)[k].kind = "encoder",
         At(ss, Steps(ss, o)[k].index).codec # "raw"
  PROVE  \E j \in 1..k - 1 : /\ Steps(ss, o)[j].kind = "decoder"
                             /\ Steps(ss, o)[j].index = Steps(ss, o)[k].index
<1> DEFINE s == FirstOf(ss, o.av)
           plan == Plan(ss, o)
<1>1. PICK n \in DOMAIN ss : s = ss[n]
  BY FirstOfIs
<1>2. At(ss, s.index) = s
  BY <1>1, AtIs
<1>3. CASE IsFileNet(o)
  <2> DEFINE Pair(t) == <<Step("decoder", t.index, Unset, TRUE), Step("encoder", t.index, t.enc, TRUE)>>
             T1 == Transcoders(plan[1])
             T2 == IF Len(plan) = 2 THEN Transcoders(plan[2]) ELSE <<>>
  <2>1. Steps(ss, o) = T1 \o T2
    BY <1>3 DEF Steps
  <2>2. T1 \in {<<>>, Pair(plan[1])} /\ T2 \in {<<>>, Pair(plan[2])}
    BY DEF Transcoders
  <2>3. \A t : Pair(t)[1].kind = "decoder" /\ Pair(t)[1].index = Pair(t)[2].index
    BY DEF Step
  <2> DEFINE S == {Pair(plan[1])[1], Pair(plan[1])[2], Pair(plan[2])[1], Pair(plan[2])[2]}
  <2>4. \A R : \A x, y \in R : <<x, y>> \in Seq(R)
    OBVIOUS
  <2>5. \A x : Len(Pair(x)) = 2 /\ Pair(x) = <<Pair(x)[1], Pair(x)[2]>>
    OBVIOUS
  <2> HIDE DEF T1, T2, Pair, plan
  <2>6. T1 \in Seq(S) /\ T2 \in Seq(S)
    <3>1. Pair(plan[1]) \in Seq(S) /\ Pair(plan[2]) \in Seq(S)
      BY <2>4, <2>5
    <3>2. <<>> \in Seq(S)
      OBVIOUS
    <3>3. QED
      BY <3>1, <3>2, <2>2
  <2> HIDE DEF S
  <2>7. /\ Len(T1) \in {0, 2} /\ Len(T2) \in {0, 2}
        /\ Len(T1) = 2 => T1[1].kind = "decoder" /\ T1[1].index = T1[2].index
        /\ Len(T2) = 2 => T2[1].kind = "decoder" /\ T2[1].index = T2[2].index
    BY <2>2, <2>3, <2>5
  <2>8. k \in 1..Len(T1) + Len(T2)
    BY <2>1, <2>6
  <2>9. \A j \in 1..Len(T1) + Len(T2) :
          Steps(ss, o)[j] = IF j <= Len(T1) THEN T1[j] ELSE T2[j - Len(T1)]
    BY <2>1, <2>6
  <2>10. CASE k <= Len(T1)
    <3>1. (k = 1 \/ k = 2) /\ Len(T1) = 2
      <4>1. PICK a, b : a = Len(T1) /\ b = Len(T2)
        OBVIOUS
      <4>2. (a = 0 \/ a = 2) /\ (b = 0 \/ b = 2) /\ k \in 1..a + b /\ k <= a
        BY <4>1, <2>7, <2>8, <2>10
      <4>3. (k = 1 \/ k = 2) /\ a = 2
        BY <4>2
      <4>4. QED
        BY <4>1, <4>3
    <3>2. k = 2
      BY <3>1, <2>7, <2>9
    <3>3. Steps(ss, o)[1] = T1[1] /\ Steps(ss, o)[2] = T1[2]
      BY <3>1, <2>7, <2>9
    <3>4. QED
      BY <3>1, <3>2, <3>3, <2>7
  <2>11. CASE ~(k <= Len(T1))
    <3>1. (k = Len(T1) + 1 \/ k = Len(T1) + 2) /\ Len(T2) = 2
      <4>1. PICK a, b : a = Len(T1) /\ b = Len(T2)
        OBVIOUS
      <4>2. (a = 0 \/ a = 2) /\ (b = 0 \/ b = 2) /\ k \in 1..a + b /\ ~(k <= a)
        BY <4>1, <2>7, <2>8, <2>11
      <4>3. (k = a + 1 \/ k = a + 2) /\ b = 2
        BY <4>2
      <4>4. QED
        BY <4>1, <4>3
    <3>2. Steps(ss, o)[Len(T1) + 1] = T2[1] /\ Steps(ss, o)[Len(T1) + 2] = T2[2]
      BY <3>1, <2>7, <2>9
    <3>3. k = Len(T1) + 2
      BY <3>1, <3>2, <2>7
    <3>4. Len(T1) + 1 \in 1..k - 1
      BY <3>3, <2>7
    <3>5. QED
      BY <3>2, <3>3, <3>4, <3>1, <2>7
  <2>12. QED
    BY <2>7, <2>8, <2>10, <2>11
<1>4. CASE ~IsFileNet(o)
  <2> DEFINE d == Step("decoder", s.index, Unset, FALSE)
             e == Step("encoder", s.index, o.enc, FALSE)
             D == IF TryDecoder(s, o) THEN <<d>> ELSE <<>>
             E == IF TryEncoder(s, o) THEN <<e>> ELSE <<>>
  <2>1. Steps(ss, o) = D \o E
    BY <1>4 DEF Steps
  <2>2. d.kind = "decoder" /\ e.kind = "encoder" /\ d.index = s.index /\ e.index = s.index
    BY DEF Step
  <2>3. D \in Seq({d, e}) /\ E \in Seq({d, e})
    <3> HIDE DEF d, e
    <3>1. <<d>> \in Seq({d, e}) /\ <<e>> \in Seq({d, e}) /\ <<>> \in Seq({d, e})
      OBVIOUS
    <3>2. D \in {<<d>>, <<>>} /\ E \in {<<e>>, <<>>}
      OBVIOUS
    <3>3. QED
      BY <3>1, <3>2
  <2>4. /\ TryDecoder(s, o) => Len(D) = 1 /\ D[1] = d
        /\ ~TryDecoder(s, o) => Len(D) = 0
        /\ TryEncoder(s, o) => Len(E) = 1 /\ E[1] = e
        /\ ~TryEncoder(s, o) => Len(E) = 0
    OBVIOUS
  <2> HIDE DEF D, E, d, e
  <2>5. k \in 1..Len(D) + Len(E)
    BY <2>1, <2>3
  <2>6. \A j \in 1..Len(D) + Len(E) :
          Steps(ss, o)[j] = IF j <= Len(D) THEN D[j] ELSE E[j - Len(D)]
    BY <2>1, <2>3
  <2>7. TryEncoder(s, o) /\ Steps(ss, o)[k] = e
    <3>1. CASE k <= Len(D)
      <4>a. PICK a, b : a = Len(D) /\ b = Len(E)
        OBVIOUS
      <4>b. (a = 0 \/ a = 1) /\ (b = 0 \/ b = 1) /\ k \in 1..a + b /\ k <= a
        BY <4>a, <2>4, <2>5, <3>1
      <4>c. k = 1 /\ a = 1
        BY <4>b
      <4>1. k = 1 /\ TryDecoder(s, o)
        BY <4>a, <4>c, <2>4
      <4>2. Steps(ss, o)[k] = d
        BY <4>1, <2>4, <2>5, <2>6
      <4>3. QED
        BY <4>2, <2>2
    <3>2. CASE ~(k <= Len(D))
      <4>a. PICK a, b : a = Len(D) /\ b = Len(E)
        OBVIOUS
      <4>b. (a = 0 \/ a = 1) /\ (b = 0 \/ b = 1) /\ k \in 1..a + b /\ ~(k <= a)
        BY <4>a, <2>4, <2>5, <3>2
      <4>c. k - a = 1 /\ b = 1
        BY <4>b
      <4>1. k - Len(D) = 1 /\ TryEncoder(s, o)
        BY <4>a, <4>c, <2>4
      <4>2. QED
        BY <4>1, <2>4, <2>5, <2>6, <3>2
    <3>3. QED
      BY <3>1, <3>2, <2>4, <2>5
  <2>8. s.codec # "raw"
    BY <2>7, <2>2, <1>2
  <2>9. o.dest \in {"Encoded", "Mux"}
    BY <1>4, <2>7, ConfigsAssumption DEF TryEncoder, IsFileNet
  <2>10. TryDecoder(s, o)
    BY <2>7, <2>8, <2>9 DEF TryDecoder
  <2>11. k = 2 /\ Len(D) = 1
    <3>0. Len(D) = 1 /\ D[1] = d /\ Len(E) = 1
      BY <2>10, <2>7, <2>4
    <3>1. k # 1
      <4>1. 1 \in 1..Len(D) + Len(E) /\ 1 <= Len(D)
        BY <3>0
      <4>2. Steps(ss, o)[1] = d
        BY <4>1, <2>6, <3>0
      <4>3. QED
        BY <4>2, <2>7, <2>2
    <3>2. QED
      BY <3>0, <3>1, <2>5
  <2>12. Steps(ss, o)[1] = d
    BY <2>10, <2>4, <2>5, <2>6, <2>11
  <2>13. QED
    BY <2>11, <2>12, <2>7, <2>2
<1>5. QED
  BY <1>3, <1>4

\* bus.rs: whatever the bus accepted is fed by the one reader there is, and no
\* task an output needs was forgotten.
THEOREM OutputsServedAlways == BusSpec => []OutputsServed
<1>1. BusInv => OutputsServed
  <2> SUFFICES ASSUME BusInv PROVE OutputsServed
    OBVIOUS
  <2>1. OneReader
    BY DEF BusInv, ReaderOk, OneReader
  <2>2. AcceptedIsFed
    <3>1. ASSUME ~removed, NEW t \in AcceptedTracks PROVE t.epoch \in reading
      <4>1. PICK id \in OutputIds : outputs[id] # Unset /\ \E k \in DOMAIN outputs[id].tracks : t = outputs[id].tracks[k]
        BY <3>1 DEF AcceptedTracks
      <4>2. QED
        BY <4>1, <3>1 DEF BusInv, ServedOk, TracksOf
    <3>2. QED
      BY <3>1 DEF AcceptedIsFed, BusInv, ServedOk
  <2>3. EncodersHaveDecoders
    <3> SUFFICES ASSUME ~removed, NEW o \in Configs, Has(streams, o.av),
                        NEW k \in DOMAIN Steps(streams, o), Steps(streams, o)[k].kind = "encoder",
                        At(streams, Steps(streams, o)[k].index).codec # "raw"
                 PROVE  \E j \in 1..k - 1 : /\ Steps(streams, o)[j].kind = "decoder"
                                            /\ Steps(streams, o)[j].index = Steps(streams, o)[k].index
      BY DEF EncodersHaveDecoders
    <3>1. Listed(streams, layouts[1])
      BY DEF BusInv, ServedOk, Viewed, Has
    <3>2. QED
      BY <3>1, DecodersFirst
  <2>4. QED
    BY <2>1, <2>2, <2>3 DEF OutputsServed
<1>2. QED
  BY <1>1, BusInvariant, PTL

\* bus.rs:457-459 and the sharing of tasks: an accepted output gets what it asked
\* for, unless an earlier command had asked for something else of the stream.
THEOREM AsAskedAlways == BusSpec => []AsAsked
<1>1. BusInv => AsAsked
  BY DEF BusInv, ServedOk, TracksOf, AsAsked
<1>2. QED
  BY <1>1, BusInvariant, PTL

=============================================================================
