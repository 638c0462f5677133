------------------------------ MODULE GbServer ------------------------------
(***************************************************************************)
(* The GB28181 platform server: crates/gb28181/src/server.rs, with the     *)
(* Registrar and the CatalogAccumulator it keeps its state in.             *)
(*                                                                         *)
(* main_loop spawns a task for every request, so REGISTERs run beside each *)
(* other, beside sweep_loop and beside the calls of the HTTP API.  What    *)
(* the server knows of a device is split between the registrar and dests,  *)
(* two maps with a lock each.                                              *)
(*                                                                         *)
(* A REGISTER is named r; r also names the address it came from and the    *)
(* nonce of the challenge it may get.  Time is in ticks.                   *)
(***************************************************************************)
EXTENDS Integers, Sequences

CONSTANTS
  Devices,
  Registers,  \* bound: the REGISTER requests of a run
  Calls,      \* bound: catalog_query and device_control calls
  Workloads,  \* bound: the sets of requests and calls that come together
  None,
  Expires,    \* values of the Expires header
  Grace,      \* keepalive_grace
  NonceTTL,   \* 300 s
  Size,       \* channels of a device: SumNum of its catalog
  MaxTime     \* bound: the clock

\* RegisteredDevice: the REGISTER it is from, when it runs out, the last sign of life.
Entry == [from : Registers, until : Int, seen : Nat, online : BOOLEAN]

ASSUME ServerAssumption ==
  /\ None \notin Registers /\ None \notin Entry
  /\ Expires \subseteq Int
  /\ Grace \in Nat /\ NonceTTL \in Nat /\ MaxTime \in Nat
  /\ Size \in Nat \ {0}

VARIABLES
  load,       \* the workload of this behaviour
  now,
  decision,   \* AuthConfig::password_for
  devices,    \* Registrar::devices
  dests,      \* device -> where its last REGISTER came from
  nonces,     \* nonce -> time of issue
  req, rpc,   \* what a REGISTER says, and how far its handler is
  change,     \* RegistrarChange
  sweeping,   \* devices a sweep has dropped and not yet dealt with
  call, cpc,  \* what a call asks, and how far it is
  pending,    \* pending_catalog
  copies,     \* how often a call's MESSAGE reached the device
  flight,     \* catalog chunks on the wire (one channel each)
  buffer,     \* chunk_rx of a query
  got,        \* CatalogAccumulator::items
  (* Observation only. *)
  announced,  \* what the Registered and Unregistered events say last
  disturbed   \* devices whose handling overlapped, or that could not be answered

regVars  == <<devices, dests, nonces, req, rpc, change, sweeping, announced, disturbed>>
callVars == <<call, cpc, pending, copies, flight, buffer, got>>
vars == <<load, now, decision, regVars, callVars>>

Request == [dev : Devices, expires : Expires, nonce : Registers \cup {None}, good : BOOLEAN]
Kinds == {"catalog", "move", "preset"}
Channels == 1..Size
Registered(d) == devices[d] # None

Init ==
  /\ load \in Workloads
  /\ now = 0
  /\ decision \in [Devices -> {"allow", "require", "reject"}]
  /\ devices = [d \in Devices |-> None]
  /\ dests = [d \in Devices |-> None]
  /\ nonces = [r \in Registers |-> None]
  /\ req = [r \in Registers |-> None]
  /\ rpc = [r \in Registers |-> "idle"]
  /\ change = [r \in Registers |-> "none"]
  /\ sweeping = {}
  /\ call = [c \in Calls |-> None]
  /\ cpc = [c \in Calls |-> "idle"]
  /\ pending = {}
  /\ copies = [c \in Calls |-> 0]
  /\ flight = [c \in Calls |-> [i \in Channels |-> 0]]
  /\ buffer = [c \in Calls |-> <<>>]
  /\ got = [c \in Calls |-> <<>>]
  /\ announced = {} /\ disturbed = {}

Tick ==
  /\ now < MaxTime
  /\ now' = now + 1
  /\ UNCHANGED <<load, decision, regVars, callVars>>

-----------------------------------------------------------------------------
(* REGISTER *)

\* A device knows the nonces of the challenges it was sent.
Arrive(r, q) ==
  /\ r \in load /\ rpc[r] = "idle"
  /\ IF q.nonce = None THEN ~q.good ELSE rpc[q.nonce] = "challenged"
  /\ req' = [req EXCEPT ![r] = q]
  /\ rpc' = [rpc EXCEPT ![r] = "auth"]
  /\ UNCHANGED <<load, now, decision, devices, dests, nonces, change, sweeping, announced,
                 disturbed, callVars>>

Valid(n) == nonces[n] # None /\ now - nonces[n] < NonceTTL
Pruned == [n \in Registers |-> IF Valid(n) THEN nonces[n] ELSE None]

\* Fault: the nonce is looked up and stays.
LookUpNonce(n) == nonces' = Pruned

\* The nonce is gone, whatever the response turns out to be.
TakeNonce(n) == nonces' = [Pruned EXCEPT ![n] = None]

\* check_authorization, when a password is required
Authorise(r) ==
  LET d == req[r].dev  n == req[r].nonce IN
  /\ rpc[r] = "auth"
  /\ \/ decision[d] = "allow" /\ rpc' = [rpc EXCEPT ![r] = "register"] /\ UNCHANGED nonces
     \/ decision[d] = "reject" /\ rpc' = [rpc EXCEPT ![r] = "refused"] /\ UNCHANGED nonces
     \/ /\ decision[d] = "require"
        /\ IF n = None THEN UNCHANGED nonces ELSE TakeNonce(n)
        /\ rpc' = [rpc EXCEPT ![r] = IF n # None /\ Valid(n) /\ req[r].good
                                     THEN "register" ELSE "challenge"]
  /\ UNCHANGED <<load, now, decision, devices, dests, req, change, sweeping, announced,
                 disturbed, callVars>>

Challenge(r) ==
  /\ rpc[r] = "challenge"
  /\ nonces' = [nonces EXCEPT ![r] = now]
  /\ rpc' = [rpc EXCEPT ![r] = "challenged"]
  /\ UNCHANGED <<load, now, decision, devices, dests, req, change, sweeping, announced,
                 disturbed, callVars>>

\* The registrar has r's change, dests or the events have not.
Halfway(d) ==
  \/ d \in sweeping
  \/ \E r \in Registers : rpc[r] \in {"dest", "reply"} /\ req[r].dev = d

\* Registrar::register, under its lock
Register(r) ==
  LET d == req[r].dev  e == req[r].expires IN
  /\ rpc[r] = "register"
  /\ devices' = [devices EXCEPT ![d] =
       IF e = 0 THEN None
       ELSE [from |-> r, until |-> now + e, seen |-> now, online |-> TRUE]]
  /\ change' = [change EXCEPT ![r] = CASE e = 0 /\ Registered(d) -> "unregistered"
                                       [] e # 0 /\ ~Registered(d) -> "registered"
                                       [] OTHER -> "none"]
  /\ rpc' = [rpc EXCEPT ![r] = "dest"]
  /\ disturbed' = IF Halfway(d) THEN disturbed \cup {d} ELSE disturbed
  /\ UNCHANGED <<load, now, decision, dests, nonces, req, sweeping, announced, callVars>>

\* Fault: the route is kept as it was first learnt.
FirstRoute(r) == IF dests[req[r].dev] = None THEN r ELSE dests[req[r].dev]

Route(r) == IF req[r].expires > 0 THEN r ELSE None

\* dests, under its own lock; a request whose sender cannot be told changes nothing.
SetDest(r) ==
  LET d == req[r].dev IN
  /\ rpc[r] = "dest"
  /\ \/ dests' = [dests EXCEPT ![d] = Route(r)] /\ UNCHANGED disturbed
     \/ req[r].expires > 0 /\ disturbed' = disturbed \cup {d} /\ UNCHANGED dests
  /\ rpc' = [rpc EXCEPT ![r] = "reply"]
  /\ UNCHANGED <<load, now, decision, devices, nonces, req, change, sweeping, announced,
                 callVars>>

\* Fault: a removal is not announced.
AnnounceArrivals(r) ==
  announced' = IF change[r] = "registered" THEN announced \cup {req[r].dev} ELSE announced

\* The Registered and Unregistered events
Announce(r) ==
  announced' = CASE change[r] = "registered" -> announced \cup {req[r].dev}
                 [] change[r] = "unregistered" -> announced \ {req[r].dev}
                 [] OTHER -> announced

\* A reply that cannot be sent ends the handler before the event.
Reply(r) ==
  /\ rpc[r] = "reply"
  /\ \/ Announce(r) /\ UNCHANGED disturbed
     \/ disturbed' = disturbed \cup {req[r].dev} /\ UNCHANGED announced
  /\ rpc' = [rpc EXCEPT ![r] = "done"]
  /\ UNCHANGED <<load, now, decision, devices, dests, nonces, req, change, sweeping,
                 callVars>>

-----------------------------------------------------------------------------
(* Keepalives and sweeps *)

\* Fault: a keepalive does not bring a device back online.
Seen(d) == [devices[d] EXCEPT !.seen = now]

KeptAlive(d) == [devices[d] EXCEPT !.seen = now, !.online = TRUE]

\* A keepalive of an unknown device is answered 404 and changes nothing.
Keepalive(d) ==
  /\ Registered(d)
  /\ devices' = [devices EXCEPT ![d] = KeptAlive(d)]
  /\ UNCHANGED <<load, now, decision, dests, nonces, req, rpc, change, sweeping, announced,
                 disturbed, callVars>>

Expired(d) == Registered(d) /\ now >= devices[d].until
Overdue(d) == devices[d].online /\ now - devices[d].seen > Grace

\* Fault: an expired registration is only marked.
SweptMarks(d) == IF Registered(d) /\ Overdue(d)
                 THEN [devices[d] EXCEPT !.online = FALSE]
                 ELSE devices[d]

Swept(d) == CASE Expired(d) -> None
              [] ~Expired(d) /\ Registered(d) /\ Overdue(d) -> [devices[d] EXCEPT !.online = FALSE]
              [] OTHER -> devices[d]

\* Registrar::sweep under the lock.  The Offline event is only a message.
SweepStart ==
  /\ sweeping = {}
  /\ nonces' = Pruned
  /\ devices' = [d \in Devices |-> Swept(d)]
  /\ sweeping' = {d \in Devices : Expired(d)}
  /\ disturbed' = disturbed \cup {d \in Devices : Expired(d) /\ Halfway(d)}
  /\ UNCHANGED <<load, now, decision, dests, req, rpc, change, announced, callVars>>

SweepDrop(d) ==
  /\ d \in sweeping
  /\ dests' = [dests EXCEPT ![d] = None]
  /\ announced' = announced \ {d}
  /\ sweeping' = sweeping \ {d}
  /\ UNCHANGED <<load, now, decision, devices, nonces, req, rpc, change, disturbed,
                 callVars>>

-----------------------------------------------------------------------------
(* catalog_query and device_control *)

Start(c, k, d) ==
  /\ c \in load /\ cpc[c] = "idle"
  /\ call' = [call EXCEPT ![c] = k]
  /\ IF dests[d] = None
     THEN cpc' = [cpc EXCEPT ![c] = "offline"] /\ UNCHANGED pending
     ELSE /\ cpc' = [cpc EXCEPT ![c] = "send"]
          /\ pending' = IF k = "catalog" THEN pending \cup {c} ELSE pending
  /\ UNCHANGED <<load, now, decision, regVars, copies, flight, buffer, got>>

\* The MESSAGE reaches the device (which answers a query with its chunks) or does not.
Deliver(c, arrives) ==
  /\ copies' = [copies EXCEPT ![c] = @ + IF arrives THEN 1 ELSE 0]
  /\ flight' = IF arrives /\ call[c] = "catalog"
               THEN [flight EXCEPT ![c] = [i \in Channels |-> @[i] + 1]]
               ELSE flight

\* A final response came back.
SendOk(c) ==
  /\ cpc[c] \in {"send", "resend"}
  /\ Deliver(c, TRUE)
  /\ cpc' = [cpc EXCEPT ![c] = IF call[c] = "catalog" THEN "collect" ELSE "done"]
  /\ UNCHANGED <<load, now, decision, regVars, call, pending, buffer, got>>

\* Fault: every command is tried twice.
RetriedAlways(c) == cpc[c] = "send"

\* Motion is not tried again.
Retried(c) == cpc[c] = "send" /\ call[c] # "move"

\* pending_catalog.remove
Forget(c) == pending' = pending \ {c}

\* No answer in time: the MESSAGE was lost, or its response.
SendFails(c) ==
  /\ cpc[c] \in {"send", "resend"}
  /\ \E arrives \in BOOLEAN : Deliver(c, arrives)
  /\ IF Retried(c)
     THEN cpc' = [cpc EXCEPT ![c] = "resend"] /\ UNCHANGED pending
     ELSE cpc' = [cpc EXCEPT ![c] = "failed"] /\ Forget(c)
  /\ UNCHANGED <<load, now, decision, regVars, call, buffer, got>>

\* handle_message routes a chunk by its SN; chunks may overtake each other.
Chunk(c, i) ==
  /\ flight[c][i] > 0
  /\ flight' = [flight EXCEPT ![c][i] = @ - 1]
  /\ buffer' = IF c \in pending THEN [buffer EXCEPT ![c] = Append(@, i)] ELSE buffer
  /\ UNCHANGED <<load, now, decision, regVars, call, cpc, pending, copies, got>>

ChunkLost(c, i) ==
  /\ flight[c][i] > 0
  /\ flight' = [flight EXCEPT ![c][i] = @ - 1]
  /\ UNCHANGED <<load, now, decision, regVars, call, cpc, pending, copies, buffer, got>>

\* is_complete: sum_num is known from the first chunk on.
IsComplete(items) == items # <<>> /\ Len(items) >= Size

Collect(c) ==
  /\ cpc[c] = "collect" /\ buffer[c] # <<>>
  /\ got' = [got EXCEPT ![c] = Append(@, Head(buffer[c]))]
  /\ buffer' = [buffer EXCEPT ![c] = Tail(@)]
  /\ IF IsComplete(got'[c])
     THEN cpc' = [cpc EXCEPT ![c] = "done"] /\ Forget(c)
     ELSE UNCHANGED <<cpc, pending>>
  /\ UNCHANGED <<load, now, decision, regVars, call, copies, flight>>

\* Fault: the window opens with the first chunk.
SilentForever(c) == buffer[c] = <<>> /\ got[c] # <<>>

\* timeout_at polls the channel first: what is buffered is still taken.
TimedOut(c) == buffer[c] = <<>>

QueryTimeout(c) ==
  /\ cpc[c] = "collect" /\ TimedOut(c)
  /\ cpc' = [cpc EXCEPT ![c] = "done"] /\ Forget(c)
  /\ UNCHANGED <<load, now, decision, regVars, call, copies, flight, buffer, got>>

\* The HTTP client goes away and the call is dropped where it stands.
Abandon(c) ==
  /\ cpc[c] \in {"send", "resend", "collect"}
  /\ cpc' = [cpc EXCEPT ![c] = "gone"]
  /\ UNCHANGED <<load, now, decision, regVars, call, pending, copies, flight, buffer, got>>

\* Fault: one channel too few counts as all of them.
IncompleteOffByOne(c) == got[c] # <<>> /\ Len(got[c]) + 1 < Size

\* CatalogAccumulator::finish
Incomplete(c) == got[c] # <<>> /\ Len(got[c]) < Size

-----------------------------------------------------------------------------
Handler(r) == Authorise(r) \/ Challenge(r) \/ Register(r) \/ SetDest(r) \/ Reply(r)

CallSteps(c) ==
  \/ SendOk(c) \/ SendFails(c) \/ Collect(c) \/ QueryTimeout(c)

Sweep == SweepStart \/ \E d \in Devices : SweepDrop(d)

Next ==
  \/ Tick \/ Sweep
  \/ \E r \in Registers : Handler(r) \/ \E q \in Request : Arrive(r, q)
  \/ \E d \in Devices : Keepalive(d)
  \/ \E c \in Calls : \/ CallSteps(c) \/ Abandon(c)
                      \/ \E k \in Kinds, d \in Devices : Start(c, k, d)
                      \/ \E i \in Channels : Chunk(c, i) \/ ChunkLost(c, i)

Spec == Init /\ [][Next]_vars

\* sweep_loop ticks for ever; SIP transactions and queries are ended by timers.
Fairness ==
  /\ WF_vars(Sweep)
  /\ \A c \in Calls : WF_vars(CallSteps(c))

FairSpec == Spec /\ Fairness

-----------------------------------------------------------------------------
(* Properties *)

TypeOK ==
  /\ load \in Workloads /\ now \in 0..MaxTime
  /\ decision \in [Devices -> {"allow", "require", "reject"}]
  /\ devices \in [Devices -> Entry \cup {None}]
  /\ dests \in [Devices -> Registers \cup {None}]
  /\ nonces \in [Registers -> 0..MaxTime \cup {None}]
  /\ req \in [Registers -> Request \cup {None}]
  /\ rpc \in [Registers -> {"idle", "auth", "challenge", "challenged", "refused", "register",
                            "dest", "reply", "done"}]
  /\ change \in [Registers -> {"none", "registered", "unregistered"}]
  /\ sweeping \subseteq Devices
  /\ call \in [Calls -> Kinds \cup {None}]
  /\ cpc \in [Calls -> {"idle", "offline", "send", "resend", "collect", "done", "failed", "gone"}]
  /\ copies \in [Calls -> 0..2]
  /\ \A c \in Calls : \A i \in Channels : flight[c][i] \in 0..copies[c]
  /\ \A c \in Calls : Len(got[c]) <= Size

(***************************************************************************)
(* The registrar and dests agree on a device that no two handlers or       *)
(* sweeps were at once at: an address stands for a registration, and a     *)
(* registration that has not run out can be reached where it came from.    *)
(***************************************************************************)
DestsAgree ==
  \A d \in Devices \ disturbed : ~Halfway(d) =>
    /\ dests[d] # None => Registered(d) /\ dests[d] = devices[d].from
    /\ Registered(d) /\ now < devices[d].until => dests[d] = devices[d].from

(***************************************************************************)
(* On such a device the event stream tells the truth: the last of the      *)
(* Registered and Unregistered events says what the registrar holds.       *)
(***************************************************************************)
EventsAgree ==
  \A d \in Devices \ disturbed : ~Halfway(d) => (d \in announced <=> Registered(d))

(***************************************************************************)
(* A device is offline only while its keepalive is overdue, whatever runs  *)
(* beside the sweep (Registrar::keepalive, register and sweep).            *)
(***************************************************************************)
OfflineIsOverdue ==
  \A d \in Devices : Registered(d) /\ ~devices[d].online => now - devices[d].seen > Grace

(***************************************************************************)
(* Registrar, dests and events tell one story about a device that handlers *)
(* and sweeps came to one at a time, and offline is never stale.           *)
(***************************************************************************)
RegistrationsAgree == DestsAgree /\ EventsAgree /\ OfflineIsOverdue

\* "single-use" (server.rs:491-492): no two REGISTERs are let in by one nonce.
NonceOnce ==
  \A r, s \in Registers :
    /\ r # s
    /\ \A x \in {r, s} : /\ rpc[x] \in {"register", "dest", "reply", "done"}
                         /\ decision[req[x].dev] = "require"
    => req[r].nonce # req[s].nonce

\* server.rs:254-257: a motion command reaches the device once at most.
MotionOnce == \A c \in Calls : call[c] = "move" => copies[c] <= 1

\* All channels are there, each once.
AllChannels(c) == {got[c][i] : i \in DOMAIN got[c]} = Channels

(***************************************************************************)
(* A catalog that some chunk contributed to, asked for once and not        *)
(* flagged incomplete, holds every channel.                                *)
(***************************************************************************)
CompleteIsWhole ==
  \A c \in Calls :
    call[c] = "catalog" /\ cpc[c] = "done" /\ copies[c] = 1 /\ got[c] # <<>> /\ ~Incomplete(c)
      => AllChannels(c)

(***************************************************************************)
(* Nothing counts twice, although requests are resent, repeated and carry  *)
(* what others carry: a nonce lets one REGISTER in, a motion command moves *)
(* once, and a catalog that claims to be whole is.                         *)
(***************************************************************************)
OnceOnly == NonceOnce /\ MotionOnce /\ CompleteIsWhole

\* A registration that has run out is dropped, unless it is renewed.
ExpiredGoes == \A d \in Devices : Expired(d) ~> ~Expired(d)

\* A call to a device returns.
CallsEnd == \A c \in Calls : (cpc[c] = "send") ~> (cpc[c] \in {"done", "failed", "gone"})

\* Nothing outlives its time: expired registrations go, and calls return though
\* the device never answers.
NothingOverstays == ExpiredGoes /\ CallsEnd

=============================================================================
