-------------------------- MODULE Protocols_proofs --------------------------
(***************************************************************************)
(* Proofs about the two protocols with cameras: the platform server of     *)
(* GbServer (what it knows of a device is told the same everywhere, and    *)
(* nothing counts twice), for any devices, requests, calls and clock; and  *)
(* Xiaomi (logins, commands, datagrams, records).                          *)
(***************************************************************************)
EXTENDS GbServer, Xiaomi, FiniteSetTheorems, WellFoundedInduction, TLAPS

-----------------------------------------------------------------------------
(* The registrations. *)

Statuses == {"idle", "auth", "challenge", "challenged", "refused", "register", "dest", "reply",
             "done"}

RegType ==
  /\ now \in Nat
  /\ devices \in [Devices -> Entry \cup {None}]
  /\ dests \in [Devices -> Registers \cup {None}]
  /\ rpc \in [Registers -> Statuses]
  /\ DOMAIN req = Registers /\ DOMAIN change = Registers
  /\ \A r \in Registers : rpc[r] # "idle" => req[r] \in Request
  /\ sweeping \subseteq Devices

\* REGISTER r has changed the registrar and is not through yet.
Under(r, d) == rpc[r] \in {"dest", "reply"} /\ req[r].dev = d

\* What DestsAgree says of a device.
DestAgrees(d) ==
  /\ dests[d] # None => Registered(d) /\ dests[d] = devices[d].from
  /\ Registered(d) /\ now < devices[d].until => dests[d] = devices[d].from

\* One at a time is at a device that is not disturbed,
OneAtATime ==
  \A d \in Devices \ disturbed :
    /\ d \in sweeping => ~Registered(d) /\ \A r \in Registers : ~Under(r, d)
    /\ \A r, s \in Registers : Under(r, d) /\ Under(s, d) => r = s

\* the registrar then says what that REGISTER said,
AsSaid ==
  \A d \in Devices \ disturbed, r \in Registers :
    rpc[r] = "dest" /\ req[r].dev = d =>
      /\ Registered(d) <=> req[r].expires # 0
      /\ Registered(d) => devices[d].from = r /\ (req[r].expires < 0 => devices[d].until <= now)

\* dests agrees once it is set,
DestSet ==
  \A d \in Devices \ disturbed :
    (~Halfway(d) \/ \E r \in Registers : rpc[r] = "reply" /\ req[r].dev = d) => DestAgrees(d)

\* and the event that is to come makes up for what the events have not told.
EventDue ==
  \A d \in Devices \ disturbed :
    /\ ~Halfway(d) => (d \in announced <=> Registered(d))
    /\ \A r \in Registers : Under(r, d) =>
         /\ change[r] = "registered" => Registered(d)
         /\ change[r] = "unregistered" => ~Registered(d)
         /\ change[r] \notin {"registered", "unregistered"} => (d \in announced <=> Registered(d))

RegInv == RegType /\ OneAtATime /\ AsSaid /\ DestSet /\ EventDue /\ OfflineIsOverdue

\* What the invariant says before anything has come.
LEMMA RegInit == Init => RegInv
<1> SUFFICES ASSUME Init PROVE RegInv
  OBVIOUS
<1> USE ServerAssumption
<1>1. RegType
  BY DEF Init, RegType, Statuses
<1>2. OneAtATime /\ AsSaid
  BY DEF Init, OneAtATime, AsSaid, Under, Registered
<1>3. DestSet /\ EventDue
  BY DEF Init, DestSet, EventDue, DestAgrees, Under, Registered, Halfway
<1>4. OfflineIsOverdue
  BY DEF Init, OfflineIsOverdue, Registered
<1> QED
  BY <1>1, <1>2, <1>3, <1>4 DEF RegInv

\* The clock only runs registrations out.
LEMMA TickKeepsReg ==
  ASSUME RegInv, Tick
  PROVE  RegInv'
<1> USE ServerAssumption
<1>0. /\ now' = now + 1 /\ now \in Nat
      /\ UNCHANGED <<devices, dests, req, rpc, change, sweeping, announced, disturbed>>
  BY DEF Tick, regVars, RegInv, RegType
<1>1. RegType'
  BY <1>0 DEF RegInv, RegType
<1>2. OneAtATime'
  BY <1>0 DEF RegInv, OneAtATime, Under, Registered
<1>3. AsSaid'
  <2> SUFFICES ASSUME NEW d \in Devices \ disturbed, NEW r \in Registers,
                      rpc[r] = "dest", req[r].dev = d
               PROVE  /\ Registered(d) <=> req[r].expires # 0
                      /\ Registered(d) => /\ devices[d].from = r
                                          /\ req[r].expires < 0 => devices[d].until <= now + 1
    BY <1>0 DEF AsSaid, Registered
  <2>1. Registered(d) => devices[d].until \in Int
    BY DEF Registered, RegInv, RegType, Entry
  <2> QED
    BY <1>0, <2>1 DEF RegInv, AsSaid
<1>4. ASSUME NEW d \in Devices PROVE DestAgrees(d) => DestAgrees(d)'
  <2>1. Registered(d) => devices[d].until \in Int
    BY DEF Registered, RegInv, RegType, Entry
  <2> QED
    BY <1>0, <2>1 DEF DestAgrees, Registered
<1>5. DestSet'
  BY <1>0, <1>4 DEF RegInv, DestSet, Halfway
<1>6. EventDue'
  BY <1>0 DEF RegInv, EventDue, Halfway, Under, Registered
<1>7. OfflineIsOverdue'
  <2> SUFFICES ASSUME NEW d \in Devices, (Registered(d) /\ ~devices[d].online)'
               PROVE  (now - devices[d].seen > Grace)'
    BY DEF OfflineIsOverdue
  <2>1. devices[d].seen \in Int /\ Registered(d) /\ ~devices[d].online
    BY <1>0 DEF Registered, RegInv, RegType, Entry
  <2>2. now - devices[d].seen > Grace
    BY <2>1 DEF RegInv, OfflineIsOverdue
  <2> QED
    BY <1>0, <2>1, <2>2
<1> QED
  BY <1>1, <1>2, <1>3, <1>5, <1>6, <1>7 DEF RegInv

\* Before a REGISTER reaches the registrar it has changed nothing.
LEMMA EarlyKeepsReg ==
  ASSUME RegInv, NEW r \in Registers, rpc[r] \in {"idle", "auth", "challenge"},
         \E x \in {"auth", "register", "refused", "challenge", "challenged"} :
           rpc' = [rpc EXCEPT ![r] = x],
         rpc[r] # "idle" => req' = req,
         \E q \in Request : req' = req \/ req' = [req EXCEPT ![r] = q],
         req'[r] \in Request,
         UNCHANGED <<now, devices, dests, change, sweeping, announced, disturbed>>
  PROVE  RegInv'
<1> USE ServerAssumption
<1>0. /\ rpc'[r] \in {"auth", "register", "refused", "challenge", "challenged"}
      /\ \A s \in Registers \ {r} : rpc'[s] = rpc[s] /\ req'[s] = req[s]
      /\ rpc' \in [Registers -> Statuses]
      /\ DOMAIN req' = Registers
  BY DEF RegInv, RegType, Statuses
<1>1. RegType'
  BY <1>0 DEF RegInv, RegType
<1>2. ASSUME NEW s \in Registers, NEW d PROVE Under(s, d)' <=> Under(s, d)
  BY <1>0 DEF Under
<1>3. ASSUME NEW d PROVE Halfway(d)' <=> Halfway(d)
  BY <1>0 DEF Halfway
<1>4. OneAtATime'
  BY <1>2 DEF RegInv, OneAtATime, Registered
<1>5. AsSaid'
  BY <1>0 DEF RegInv, AsSaid, Registered
<1>6. DestSet'
  <2> SUFFICES ASSUME NEW d \in Devices \ disturbed,
                      (~Halfway(d) \/ \E s \in Registers : rpc[s] = "reply" /\ req[s].dev = d)'
               PROVE  DestAgrees(d)'
    BY DEF DestSet
  <2>1. ~Halfway(d) \/ \E s \in Registers : rpc[s] = "reply" /\ req[s].dev = d
    BY <1>0, <1>3
  <2> QED
    BY <2>1 DEF RegInv, DestSet, DestAgrees, Registered
<1>7. EventDue'
  BY <1>2, <1>3 DEF RegInv, EventDue, Registered
<1>8. OfflineIsOverdue'
  BY DEF RegInv, OfflineIsOverdue, Registered
<1> QED
  BY <1>1, <1>4, <1>5, <1>6, <1>7, <1>8 DEF RegInv

\* A REGISTER that nobody else is beside makes the registrar say what it said.
LEMMA RegisterKeepsReg ==
  ASSUME RegInv, NEW r \in Registers, Register(r)
  PROVE  RegInv'
<1> USE ServerAssumption
<1> DEFINE e == req[r].expires
           new == [from |-> r, until |-> now + e, seen |-> now, online |-> TRUE]
<1>a. PICK d \in Devices : d = req[r].dev
  BY DEF Register, RegInv, RegType, Request
<1>0. /\ rpc[r] = "register" /\ rpc' = [rpc EXCEPT ![r] = "dest"]
      /\ devices' = [devices EXCEPT ![d] = IF e = 0 THEN None ELSE new]
      /\ change' = [change EXCEPT ![r] = CASE e = 0 /\ Registered(d) -> "unregistered"
                                           [] e # 0 /\ ~Registered(d) -> "registered"
                                           [] OTHER -> "none"]
      /\ disturbed' = IF Halfway(d) THEN disturbed \cup {d} ELSE disturbed
      /\ UNCHANGED <<now, dests, req, sweeping, announced>>
  BY <1>a DEF Register
<1>1. d \in Devices /\ e \in Int /\ now \in Nat
  BY <1>0 DEF RegInv, RegType, Request
<1>2. new \in Entry /\ new # None
  <2>1. now + e \in Int
    BY <1>1
  <2>2. new \in Entry
    BY <1>1, <2>1 DEF Entry
  <2> QED
    BY <2>2
<1>3. /\ devices'[d] = IF e = 0 THEN None ELSE new
      /\ \A x \in Devices \ {d} : devices'[x] = devices[x]
      /\ devices' \in [Devices -> Entry \cup {None}]
  BY <1>0, <1>1, <1>2 DEF RegInv, RegType
<1>4. /\ rpc'[r] = "dest"
      /\ \A s \in Registers \ {r} : rpc'[s] = rpc[s] /\ change'[s] = change[s]
      /\ rpc' \in [Registers -> Statuses] /\ DOMAIN change' = Registers
      /\ change'[r] = CASE e = 0 /\ Registered(d) -> "unregistered"
                        [] e # 0 /\ ~Registered(d) -> "registered"
                        [] OTHER -> "none"
  BY <1>0 DEF RegInv, RegType, Statuses
<1>5. Registered(d)' <=> e # 0
  BY <1>2, <1>3 DEF Registered
<1> HIDE DEF new
<1>6. RegType'
  BY <1>0, <1>3, <1>4 DEF RegInv, RegType
<1>7. ASSUME NEW x \in Devices \ {d}
      PROVE  /\ Registered(x)' <=> Registered(x)
             /\ Halfway(x)' <=> Halfway(x)
             /\ \A s \in Registers : Under(s, x)' <=> Under(s, x)
             /\ DestAgrees(x)' <=> DestAgrees(x)
  BY <1>a, <1>0, <1>3, <1>4 DEF Registered, Halfway, Under, DestAgrees
<1>8. ASSUME d \notin disturbed'
      PROVE  /\ d \notin disturbed /\ ~Halfway(d) /\ d \notin sweeping /\ Halfway(d)'
             /\ \A s \in Registers : Under(s, d)' <=> s = r
             /\ \A s \in Registers : rpc'[s] = "reply" => req[s].dev # d
             /\ d \in announced <=> Registered(d)
  <2>1. d \notin disturbed /\ ~Halfway(d)
    BY <1>0, <1>8
  <2>2. d \in announced <=> Registered(d)
    BY <1>1, <2>1 DEF RegInv, EventDue
  <2> QED
    BY <1>a, <1>0, <1>4, <2>1, <2>2 DEF Halfway, Under
<1>9. disturbed \subseteq disturbed'
  BY <1>0
<1>10. OneAtATime'
  <2> SUFFICES ASSUME NEW x \in Devices, x \notin disturbed'
               PROVE  (/\ x \in sweeping => ~Registered(x) /\ \A s \in Registers : ~Under(s, x)
                       /\ \A s, t \in Registers : Under(s, x) /\ Under(t, x) => s = t)'
    BY DEF OneAtATime
  <2>1. CASE x = d
    BY <1>0, <1>8, <2>1
  <2>2. CASE x # d
    BY <1>0, <1>7, <1>9, <2>2 DEF RegInv, OneAtATime
  <2> QED
    BY <2>1, <2>2
<1>11. AsSaid'
  <2> SUFFICES ASSUME NEW x \in Devices, x \notin disturbed', NEW s \in Registers,
                      rpc'[s] = "dest", req[s].dev = x
               PROVE  (/\ Registered(x) <=> req[s].expires # 0
                       /\ Registered(x) => devices[x].from = s
                                           /\ (req[s].expires < 0 => devices[x].until <= now))'
    BY <1>0 DEF AsSaid
  <2>1. CASE x = d
    <3>1. s = r
      BY <1>0, <1>8, <2>1 DEF Under
    <3>2. e # 0 => devices'[d].from = r /\ devices'[d].until = now + e
      BY <1>3 DEF new
    <3> QED
      BY <1>0, <1>1, <1>5, <2>1, <3>1, <3>2
  <2>2. CASE x # d
    <3>1. s # r /\ rpc[s] = "dest" /\ x \notin disturbed
      BY <1>a, <1>4, <1>9, <2>2
    <3> QED
      BY <1>0, <1>3, <1>7, <2>2, <3>1 DEF RegInv, AsSaid
  <2> QED
    BY <2>1, <2>2
<1>12. DestSet'
  <2> SUFFICES ASSUME NEW x \in Devices, x \notin disturbed',
                      Halfway(x)' => \E s \in Registers : rpc'[s] = "reply" /\ req[s].dev = x
               PROVE  DestAgrees(x)'
    BY <1>0 DEF DestSet
  <2>1. x # d
    BY <1>8
  <2>2. ~Halfway(x) \/ \E s \in Registers : rpc[s] = "reply" /\ req[s].dev = x
    BY <1>a, <1>4, <1>7, <2>1
  <2> QED
    BY <1>7, <1>9, <2>1, <2>2 DEF RegInv, DestSet
<1>13. EventDue'
  <2> SUFFICES ASSUME NEW x \in Devices, x \notin disturbed'
      PROVE  (/\ ~Halfway(x) => (x \in announced <=> Registered(x))
              /\ \A s \in Registers : Under(s, x) =>
                  /\ change[s] = "registered" => Registered(x)
                  /\ change[s] = "unregistered" => ~Registered(x)
                  /\ change[s] \notin {"registered", "unregistered"} =>
                       (x \in announced <=> Registered(x)))'
    BY DEF EventDue
  <2>1. CASE x = d
    <3>1. /\ change'[r] = "registered" => e # 0
          /\ change'[r] = "unregistered" => e = 0
          /\ change'[r] \notin {"registered", "unregistered"} => (Registered(d) <=> e # 0)
      BY <1>4
    <3> QED
      BY <1>0, <1>5, <1>8, <2>1, <3>1
  <2>2. CASE x # d
    <3>1. \A s \in Registers : Under(s, x) => change'[s] = change[s]
      BY <1>a, <1>0, <1>4 DEF Under
    <3> QED
      BY <1>0, <1>7, <1>9, <2>2, <3>1 DEF RegInv, EventDue
  <2> QED
    BY <2>1, <2>2
<1>14. OfflineIsOverdue'
  <2> SUFFICES ASSUME NEW x \in Devices, Registered(x)', ~devices'[x].online
               PROVE  now - devices'[x].seen > Grace
    BY <1>0 DEF OfflineIsOverdue
  <2>1. x # d
    BY <1>3, <1>5 DEF new
  <2> QED
    BY <1>3, <1>7, <2>1 DEF RegInv, OfflineIsOverdue
<1> QED
  BY <1>6, <1>10, <1>11, <1>12, <1>13, <1>14 DEF RegInv

\* The route of a device is then the way the REGISTER came, or none.
LEMMA SetDestKeepsReg ==
  ASSUME RegInv, NEW r \in Registers, SetDest(r)
  PROVE  RegInv'
<1> USE ServerAssumption
<1>a. PICK d \in Devices : d = req[r].dev
  BY DEF SetDest, RegInv, RegType, Request
<1>0. /\ rpc[r] = "dest" /\ rpc' = [rpc EXCEPT ![r] = "reply"]
      /\ \/ dests' = [dests EXCEPT ![d] = Route(r)] /\ disturbed' = disturbed
         \/ disturbed' = disturbed \cup {d} /\ dests' = dests
      /\ UNCHANGED <<now, devices, req, change, sweeping, announced>>
  BY <1>a DEF SetDest
<1>1. d \in Devices /\ req[r].expires \in Int /\ now \in Nat
  BY <1>0 DEF RegInv, RegType, Request
<1>2. /\ rpc'[r] = "reply" /\ \A s \in Registers \ {r} : rpc'[s] = rpc[s]
      /\ rpc' \in [Registers -> Statuses]
  BY <1>0 DEF RegInv, RegType, Statuses
<1>3. /\ \A x \in Devices \ {d} : dests'[x] = dests[x]
      /\ d \notin disturbed' => dests'[d] = Route(r)
      /\ dests' \in [Devices -> Registers \cup {None}]
      /\ disturbed \subseteq disturbed'
  BY <1>0, <1>1 DEF RegInv, RegType, Route
<1>4. RegType'
  BY <1>0, <1>2, <1>3 DEF RegInv, RegType
<1>5. \A x \in Devices : /\ Registered(x)' <=> Registered(x)
                         /\ Halfway(x)' <=> Halfway(x)
                         /\ \A s \in Registers : Under(s, x)' <=> Under(s, x)
  BY <1>0, <1>2 DEF Registered, Halfway, Under
<1>6. OneAtATime'
  BY <1>0, <1>3, <1>5 DEF RegInv, OneAtATime
<1>7. AsSaid'
  BY <1>0, <1>2, <1>3, <1>5 DEF RegInv, AsSaid
<1>8. DestSet'
  <2> SUFFICES ASSUME NEW x \in Devices, x \notin disturbed',
                      ~Halfway(x)' \/ \E s \in Registers : rpc'[s] = "reply" /\ req[s].dev = x
               PROVE  DestAgrees(x)'
    BY <1>0 DEF DestSet
  <2>1. CASE x = d
    <3>1. /\ Registered(d) <=> req[r].expires # 0
          /\ Registered(d) => /\ devices[d].from = r
                              /\ req[r].expires < 0 => devices[d].until <= now
      BY <1>a, <1>0, <1>1, <1>3, <2>1 DEF RegInv, AsSaid
    <3>2. dests'[d] = IF req[r].expires > 0 THEN r ELSE None
      BY <1>3, <2>1 DEF Route
    <3>3. Registered(d) => devices[d].until \in Int
      BY <1>1 DEF RegInv, RegType, Registered, Entry
    <3>4. Registered(d)' <=> Registered(d)
      BY <1>1, <1>5
    <3>5. dests'[d] # None => Registered(d) /\ dests'[d] = devices[d].from
      BY <1>1, <3>1, <3>2
    <3>6. Registered(d) /\ now < devices[d].until => dests'[d] = devices[d].from
      BY <1>1, <3>1, <3>2, <3>3
    <3> QED
      BY <1>0, <2>1, <3>4, <3>5, <3>6 DEF DestAgrees
  <2>2. CASE x # d
    <3>1. ~Halfway(x) \/ \E s \in Registers : rpc[s] = "reply" /\ req[s].dev = x
      BY <1>a, <1>2, <1>5, <2>2
    <3>2. DestAgrees(x)
      BY <1>3, <3>1 DEF RegInv, DestSet
    <3> QED
      BY <1>0, <1>3, <1>5, <2>2, <3>2 DEF DestAgrees
  <2> QED
    BY <2>1, <2>2
<1>9. EventDue'
  BY <1>0, <1>3, <1>5 DEF RegInv, EventDue
<1>10. OfflineIsOverdue'
  BY <1>0, <1>5 DEF RegInv, OfflineIsOverdue
<1> QED
  BY <1>4, <1>6, <1>7, <1>8, <1>9, <1>10 DEF RegInv

\* The event tells what the registrar holds, or the device counts as disturbed.
LEMMA ReplyKeepsReg ==
  ASSUME RegInv, NEW r \in Registers, Reply(r)
  PROVE  RegInv'
<1> USE ServerAssumption
<1>a. PICK d \in Devices : d = req[r].dev
  BY DEF Reply, RegInv, RegType, Request
<1>0. /\ rpc[r] = "reply" /\ rpc' = [rpc EXCEPT ![r] = "done"]
      /\ UNCHANGED <<now, devices, dests, req, change, sweeping>>
  BY DEF Reply
<1>1. /\ disturbed \subseteq disturbed'
      /\ \A x \in Devices \ {d} : x \in announced' <=> x \in announced
      /\ d \notin disturbed' =>
           /\ change[r] = "registered" => d \in announced'
           /\ change[r] = "unregistered" => d \notin announced'
           /\ change[r] \notin {"registered", "unregistered"} => announced' = announced
  <2>1. CASE Announce(r) /\ UNCHANGED disturbed
    <3>1. CASE change[r] = "registered"
      BY <1>a, <2>1, <3>1 DEF Announce
    <3>2. CASE change[r] = "unregistered"
      BY <1>a, <2>1, <3>2 DEF Announce
    <3>3. CASE change[r] \notin {"registered", "unregistered"}
      BY <1>a, <2>1, <3>3 DEF Announce
    <3> QED
      BY <3>1, <3>2, <3>3
  <2>2. CASE disturbed' = disturbed \cup {d} /\ UNCHANGED announced
    BY <2>2
  <2> QED
    BY <1>a, <2>1, <2>2 DEF Reply
<1>2. /\ rpc'[r] = "done" /\ \A s \in Registers \ {r} : rpc'[s] = rpc[s]
      /\ rpc' \in [Registers -> Statuses]
  BY <1>0 DEF RegInv, RegType, Statuses
<1>3. RegType'
  BY <1>0, <1>2 DEF RegInv, RegType
<1>4. \A x \in Devices : /\ Registered(x)' <=> Registered(x)
                         /\ DestAgrees(x)' <=> DestAgrees(x)
                         /\ \A s \in Registers : Under(s, x)' <=> (s # r /\ Under(s, x))
  BY <1>0, <1>2 DEF Registered, DestAgrees, Under
<1>5. \A x \in Devices \ {d} : Halfway(x)' <=> Halfway(x)
  BY <1>a, <1>0, <1>2 DEF Halfway
<1>6. d \notin disturbed' => /\ \A s \in Registers : ~Under(s, d)'
                             /\ ~Halfway(d)'
                             /\ DestAgrees(d)
  <2> SUFFICES ASSUME d \notin disturbed
               PROVE  /\ \A s \in Registers : ~Under(s, d)' /\ ~Halfway(d)'
                      /\ DestAgrees(d)
    BY <1>1
  <2>1. Under(r, d)
    BY <1>a, <1>0 DEF Under
  <2>2. d \notin sweeping /\ \A s \in Registers : Under(s, d) => s = r
    BY <2>1 DEF RegInv, OneAtATime
  <2>3. \A s \in Registers : ~Under(s, d)'
    BY <1>4, <2>2
  <2>4. ~Halfway(d)'
    BY <1>0, <2>2, <2>3 DEF Halfway, Under
  <2>5. DestAgrees(d)
    BY <1>a, <1>0 DEF RegInv, DestSet
  <2> QED
    BY <2>3, <2>4, <2>5
<1>7. OneAtATime'
  BY <1>0, <1>1, <1>4 DEF RegInv, OneAtATime
<1>8. AsSaid'
  <2> SUFFICES ASSUME NEW x \in Devices, x \notin disturbed', NEW s \in Registers,
                      rpc'[s] = "dest", req[s].dev = x
               PROVE  (/\ Registered(x) <=> req[s].expires # 0
                       /\ Registered(x) => devices[x].from = s
                                           /\ (req[s].expires < 0 => devices[x].until <= now))'
    BY <1>0 DEF AsSaid
  <2>1. rpc[s] = "dest" /\ x \notin disturbed
    BY <1>1, <1>2
  <2> QED
    BY <1>0, <1>4, <2>1 DEF RegInv, AsSaid
<1>9. DestSet'
  <2> SUFFICES ASSUME NEW x \in Devices, x \notin disturbed',
                      ~Halfway(x)' \/ \E s \in Registers : rpc'[s] = "reply" /\ req[s].dev = x
               PROVE  DestAgrees(x)
    BY <1>0, <1>4 DEF DestSet
  <2>1. CASE x = d
    BY <1>6, <2>1
  <2>2. CASE x # d
    <3>1. ~Halfway(x) \/ \E s \in Registers : rpc[s] = "reply" /\ req[s].dev = x
      BY <1>2, <1>5, <2>2
    <3> QED
      BY <1>1, <3>1 DEF RegInv, DestSet
  <2> QED
    BY <2>1, <2>2
<1>10. EventDue'
  <2> SUFFICES ASSUME NEW x \in Devices, x \notin disturbed'
      PROVE  (/\ ~Halfway(x) => (x \in announced <=> Registered(x))
              /\ \A s \in Registers : Under(s, x) =>
                  /\ change[s] = "registered" => Registered(x)
                  /\ change[s] = "unregistered" => ~Registered(x)
                  /\ change[s] \notin {"registered", "unregistered"} =>
                       (x \in announced <=> Registered(x)))'
    BY DEF EventDue
  <2>1. CASE x = d
    <3>1. Under(r, d) /\ d \notin disturbed
      BY <1>a, <1>0, <1>1, <2>1 DEF Under
    <3>2. /\ change[r] = "registered" => Registered(d)
          /\ change[r] = "unregistered" => ~Registered(d)
          /\ change[r] \notin {"registered", "unregistered"} => (d \in announced <=> Registered(d))
      BY <3>1 DEF RegInv, EventDue
    <3>3. d \in announced' <=> Registered(d)
      BY <1>1, <2>1, <3>2
    <3> QED
      BY <1>4, <1>6, <2>1, <3>3
  <2>2. CASE x # d
    BY <1>0, <1>1, <1>4, <1>5, <2>2 DEF RegInv, EventDue
  <2> QED
    BY <2>1, <2>2
<1>11. OfflineIsOverdue'
  BY <1>0, <1>4 DEF RegInv, OfflineIsOverdue
<1> QED
  BY <1>3, <1>7, <1>8, <1>9, <1>10, <1>11 DEF RegInv

\* Entries that change in nothing but seen and online are the same to all but
\* OfflineIsOverdue.
LEMMA SameEntriesKeepReg ==
  ASSUME RegInv,
         devices' \in [Devices -> Entry \cup {None}],
         \A x \in Devices : /\ devices'[x] = None <=> devices[x] = None
                            /\ devices[x] # None => /\ devices'[x].from = devices[x].from
                                                    /\ devices'[x].until = devices[x].until,
         OfflineIsOverdue',
         UNCHANGED <<now, dests, req, rpc, change, sweeping, announced, disturbed>>
  PROVE  RegInv'
<1>1. RegType'
  BY DEF RegInv, RegType
<1>2. \A x \in Devices : /\ Registered(x)' <=> Registered(x)
                         /\ Halfway(x)' <=> Halfway(x)
                         /\ DestAgrees(x)' <=> DestAgrees(x)
                         /\ \A s \in Registers : Under(s, x)' <=> Under(s, x)
  BY DEF Registered, Halfway, DestAgrees, Under
<1>3. OneAtATime'
  BY <1>2 DEF RegInv, OneAtATime
<1>4. AsSaid'
  BY <1>2 DEF RegInv, AsSaid, Registered
<1>5. DestSet'
  BY <1>2 DEF RegInv, DestSet
<1>6. EventDue'
  BY <1>2 DEF RegInv, EventDue
<1> QED
  BY <1>1, <1>3, <1>4, <1>5, <1>6 DEF RegInv

\* A keepalive is a sign of life.
LEMMA KeepaliveKeepsReg ==
  ASSUME RegInv, NEW d \in Devices, Keepalive(d)
  PROVE  RegInv'
<1> USE ServerAssumption
<1>0. /\ devices[d] # None /\ devices' = [devices EXCEPT ![d] = KeptAlive(d)]
      /\ UNCHANGED <<now, dests, req, rpc, change, sweeping, announced, disturbed>>
  BY DEF Keepalive, Registered
<1>1. devices[d] \in Entry /\ now \in Nat
  BY <1>0 DEF RegInv, RegType
<1>2. /\ KeptAlive(d) \in Entry /\ KeptAlive(d).online
      /\ KeptAlive(d).from = devices[d].from /\ KeptAlive(d).until = devices[d].until
  BY <1>1 DEF KeptAlive, Entry
<1>3. /\ devices' \in [Devices -> Entry \cup {None}] /\ devices'[d] = KeptAlive(d)
      /\ \A x \in Devices \ {d} : devices'[x] = devices[x]
  BY <1>0, <1>2 DEF RegInv, RegType
<1>4. OfflineIsOverdue'
  BY <1>0, <1>2, <1>3 DEF RegInv, OfflineIsOverdue, Registered
<1> QED
  BY <1>0, <1>2, <1>3, <1>4, SameEntriesKeepReg

\* What a sweep leaves of a device.
LEMMA SweptIs ==
  ASSUME RegType, NEW d \in Devices
  PROVE  /\ Expired(d) => Swept(d) = None
         /\ ~Expired(d) => /\ Swept(d) = None <=> devices[d] = None
                           /\ devices[d] # None => /\ Swept(d) \in Entry
                                                   /\ Swept(d).from = devices[d].from
                                                   /\ Swept(d).until = devices[d].until
                                                   /\ Swept(d).seen = devices[d].seen
                                                   /\ ~Swept(d).online =>
                                                        ~devices[d].online \/ Overdue(d)
<1> USE ServerAssumption
<1>1. CASE Expired(d)
  BY <1>1 DEF Swept
<1>2. CASE ~Expired(d) /\ Registered(d) /\ Overdue(d)
  <2>1. Swept(d) = [devices[d] EXCEPT !.online = FALSE] /\ devices[d] \in Entry
    BY <1>2 DEF Swept, Registered, RegType
  <2>2. /\ Swept(d) \in Entry
        /\ Swept(d).from = devices[d].from /\ Swept(d).until = devices[d].until
        /\ Swept(d).seen = devices[d].seen
    BY <2>1 DEF Entry
  <2> QED
    BY <1>2, <2>2 DEF Registered
<1>3. CASE ~Expired(d) /\ ~(Registered(d) /\ Overdue(d))
  <2>1. Swept(d) = devices[d]
    BY <1>3 DEF Swept
  <2> QED
    BY <1>3, <2>1 DEF RegType
<1> QED
  BY <1>1, <1>2, <1>3

\* A sweep that meets a handler at a device it drops leaves it disturbed.
LEMMA SweepStartKeepsReg ==
  ASSUME RegInv, SweepStart
  PROVE  RegInv'
<1> USE ServerAssumption
<1>0. /\ sweeping = {} /\ devices' = [d \in Devices |-> Swept(d)]
      /\ sweeping' = {d \in Devices : Expired(d)}
      /\ disturbed' = disturbed \cup {d \in Devices : Expired(d) /\ Halfway(d)}
      /\ UNCHANGED <<now, dests, req, rpc, change, announced>>
  BY DEF SweepStart
<1>1. \A d \in Devices : devices'[d] = Swept(d)
  BY <1>0
<1>2. /\ devices' \in [Devices -> Entry \cup {None}]
      /\ \A d \in Devices : Expired(d) => devices'[d] = None
      /\ \A d \in Devices : ~Expired(d) =>
           /\ devices'[d] = None <=> devices[d] = None
           /\ devices[d] # None => /\ devices'[d].from = devices[d].from
                                   /\ devices'[d].until = devices[d].until
                                   /\ devices'[d].seen = devices[d].seen
                                   /\ ~devices'[d].online => ~devices[d].online \/ Overdue(d)
  <2>1. \A d \in Devices : devices'[d] \in Entry \cup {None}
    BY <1>1, SweptIs DEF RegInv
  <2>2. devices' \in [Devices -> Entry \cup {None}]
    BY <1>0, <2>1
  <2> QED
    BY <1>1, <2>2, SweptIs DEF RegInv
<1>3. RegType'
  BY <1>0, <1>2 DEF RegInv, RegType
<1>4. \A x \in Devices, s \in Registers : Under(s, x)' <=> Under(s, x)
  BY <1>0 DEF Under
<1>5. \A x \in Devices : ~Expired(x) => /\ Registered(x)' <=> Registered(x)
                                        /\ Halfway(x)' <=> Halfway(x)
                                        /\ DestAgrees(x)' <=> DestAgrees(x)
                                        /\ x \notin sweeping'
  BY <1>0, <1>2 DEF Registered, Halfway, DestAgrees
<1>6. \A x \in Devices : Expired(x) /\ x \notin disturbed' =>
        /\ ~Registered(x)' /\ Halfway(x)'
        /\ \A s \in Registers : ~Under(s, x)
  BY <1>0, <1>2 DEF Registered, Halfway, Under
<1>7. disturbed \subseteq disturbed'
  BY <1>0
<1>8. OneAtATime'
  BY <1>4, <1>5, <1>6, <1>7 DEF RegInv, OneAtATime
<1>9. AsSaid'
  <2> SUFFICES ASSUME NEW x \in Devices, x \notin disturbed', NEW s \in Registers,
                      rpc[s] = "dest", req[s].dev = x
               PROVE  (/\ Registered(x) <=> req[s].expires # 0
                       /\ Registered(x) => devices[x].from = s
                                           /\ (req[s].expires < 0 => devices[x].until <= now))'
    BY <1>0 DEF AsSaid
  <2>1. ~Expired(x)
    BY <1>6 DEF Under
  <2> QED
    BY <1>0, <1>2, <1>5, <1>7, <2>1 DEF RegInv, AsSaid, Registered
<1>10. DestSet'
  <2> SUFFICES ASSUME NEW x \in Devices, x \notin disturbed',
                      ~Halfway(x)' \/ \E s \in Registers : rpc[s] = "reply" /\ req[s].dev = x
               PROVE  DestAgrees(x)'
    BY <1>0 DEF DestSet
  <2>1. ~Expired(x)
    BY <1>6 DEF Under
  <2> QED
    BY <1>5, <1>7, <2>1 DEF RegInv, DestSet
<1>11. EventDue'
  BY <1>0, <1>4, <1>5, <1>6, <1>7 DEF RegInv, EventDue
<1>12. OfflineIsOverdue'
  <2> SUFFICES ASSUME NEW x \in Devices, devices'[x] # None, ~devices'[x].online
               PROVE  now - devices'[x].seen > Grace
    BY <1>0 DEF OfflineIsOverdue, Registered
  <2>1. ~Expired(x) /\ devices[x] # None
    BY <1>2
  <2>2. devices'[x].seen = devices[x].seen /\ (~devices[x].online \/ Overdue(x))
    BY <1>2, <2>1
  <2> QED
    BY <2>1, <2>2 DEF RegInv, OfflineIsOverdue, Overdue, Registered
<1> QED
  BY <1>3, <1>8, <1>9, <1>10, <1>11, <1>12 DEF RegInv

\* What was dropped is unreachable and announced as gone.
LEMMA SweepDropKeepsReg ==
  ASSUME RegInv, NEW d \in Devices, SweepDrop(d)
  PROVE  RegInv'
<1> USE ServerAssumption
<1>0. /\ d \in sweeping /\ dests' = [dests EXCEPT ![d] = None]
      /\ announced' = announced \ {d} /\ sweeping' = sweeping \ {d}
      /\ UNCHANGED <<now, devices, req, rpc, change, disturbed>>
  BY DEF SweepDrop
<1>1. /\ dests' \in [Devices -> Registers \cup {None}] /\ dests'[d] = None
      /\ \A x \in Devices \ {d} : dests'[x] = dests[x]
  BY <1>0 DEF RegInv, RegType
<1>2. RegType'
  BY <1>0, <1>1 DEF RegInv, RegType
<1>3. \A x \in Devices : /\ Registered(x)' <=> Registered(x)
                         /\ \A s \in Registers : Under(s, x)' <=> Under(s, x)
  BY <1>0 DEF Registered, Under
<1>4. \A x \in Devices \ {d} : /\ Halfway(x)' <=> Halfway(x)
                               /\ DestAgrees(x)' <=> DestAgrees(x)
  BY <1>0, <1>1, <1>3 DEF Halfway, DestAgrees
<1>5. d \notin disturbed => /\ ~Registered(d) /\ DestAgrees(d)'
                            /\ \A s \in Registers : ~Under(s, d)
  BY <1>0, <1>1, <1>3 DEF RegInv, OneAtATime, DestAgrees
<1>6. OneAtATime'
  BY <1>0, <1>3 DEF RegInv, OneAtATime
<1>7. AsSaid'
  BY <1>0, <1>3 DEF RegInv, AsSaid
<1>8. DestSet'
  BY <1>0, <1>4, <1>5 DEF RegInv, DestSet
<1>9. EventDue'
  BY <1>0, <1>3, <1>4, <1>5 DEF RegInv, EventDue
<1>10. OfflineIsOverdue'
  BY <1>0, <1>3 DEF RegInv, OfflineIsOverdue
<1> QED
  BY <1>2, <1>6, <1>7, <1>8, <1>9, <1>10 DEF RegInv

\* Calls read dests and change nothing of the registrations.
LEMMA StillKeepsReg ==
  ASSUME RegInv, UNCHANGED <<now, regVars>>
  PROVE  RegInv'
BY DEF regVars, RegInv, RegType, OneAtATime, AsSaid, DestSet, EventDue, OfflineIsOverdue, Under,
       DestAgrees, Registered, Halfway

\* The steps of a call.
CallStep(c) ==
  \/ CallSteps(c) \/ Abandon(c)
  \/ \E k \in Kinds, d \in Devices : Start(c, k, d)
  \/ \E i \in Channels : Chunk(c, i) \/ ChunkLost(c, i)

\* A call's step leaves the clock, the passwords and the registrations alone.
LEMMA CallsAreApart ==
  ASSUME NEW c \in Calls, CallStep(c)
  PROVE  UNCHANGED <<now, decision, regVars>>
BY DEF CallStep, CallSteps, SendOk, SendFails, Collect, QueryTimeout, Abandon, Start, Chunk,
       ChunkLost

\* Every step keeps the invariant of the registrations.
LEMMA RegStep == RegInv /\ [Next]_vars => RegInv'
<1> SUFFICES ASSUME RegInv, [Next]_vars PROVE RegInv'
  OBVIOUS
<1>1. CASE Tick
  BY <1>1, TickKeepsReg
<1>2. CASE Sweep
  BY <1>2, SweepStartKeepsReg, SweepDropKeepsReg DEF Sweep
<1>3. ASSUME NEW r \in Registers, NEW q \in Request, Arrive(r, q) PROVE RegInv'
  <2>1. /\ rpc[r] = "idle" /\ rpc' = [rpc EXCEPT ![r] = "auth"]
        /\ req' = [req EXCEPT ![r] = q]
        /\ UNCHANGED <<now, devices, dests, change, sweeping, announced, disturbed>>
    BY <1>3 DEF Arrive
  <2>2. req'[r] \in Request
    BY <2>1 DEF RegInv, RegType
  <2> QED
    BY <2>1, <2>2, EarlyKeepsReg
<1>4. ASSUME NEW r \in Registers, Authorise(r) \/ Challenge(r) PROVE RegInv'
  <2>1. /\ rpc[r] \in {"auth", "challenge"} /\ req' = req
        /\ UNCHANGED <<now, devices, dests, change, sweeping, announced, disturbed>>
    BY <1>4 DEF Authorise, Challenge
  <2>2. \E x \in {"auth", "register", "refused", "challenge", "challenged"} :
           rpc' = [rpc EXCEPT ![r] = x]
    BY <1>4 DEF Authorise, Challenge
  <2>3. req'[r] \in Request
    BY <2>1 DEF RegInv, RegType
  <2> QED
    BY <2>1, <2>2, <2>3, EarlyKeepsReg
<1>5. ASSUME NEW r \in Registers, Register(r) \/ SetDest(r) \/ Reply(r) PROVE RegInv'
  BY <1>5, RegisterKeepsReg, SetDestKeepsReg, ReplyKeepsReg
<1>6. ASSUME NEW d \in Devices, Keepalive(d) PROVE RegInv'
  BY <1>6, KeepaliveKeepsReg
<1>7. ASSUME NEW c \in Calls, CallStep(c) PROVE RegInv'
  BY <1>7, CallsAreApart, StillKeepsReg
<1>8. CASE UNCHANGED vars
  BY <1>8, StillKeepsReg DEF vars
<1> QED
  BY <1>1, <1>2, <1>3, <1>4, <1>5, <1>6, <1>7, <1>8 DEF Next, Handler, CallStep

(***************************************************************************)
(* The registrar, dests and the events tell one story about every device   *)
(* that handlers and sweeps came to one at a time, and a device is offline *)
(* only while its keepalive is overdue: for any number of REGISTERs run    *)
(* beside each other, beside sweep_loop and beside the calls.              *)
(***************************************************************************)
THEOREM RegistrationsAgreeAlways == Spec => []RegistrationsAgree
<1>1. RegInv => RegistrationsAgree
  <2> SUFFICES ASSUME RegInv PROVE RegistrationsAgree
    OBVIOUS
  <2>1. DestsAgree
    BY DEF RegInv, DestSet, DestAgrees, DestsAgree
  <2>2. EventsAgree
    BY DEF RegInv, EventDue, EventsAgree
  <2> QED
    BY <2>1, <2>2 DEF RegInv, RegistrationsAgree
<1> QED
  BY <1>1, RegInit, RegStep, PTL DEF Spec

-----------------------------------------------------------------------------
(* The nonces. *)

\* REGISTER r was let in on a password.
LetIn(r) ==
  /\ rpc[r] \in {"register", "dest", "reply", "done"}
  /\ decision[req[r].dev] = "require"

\* A nonce that is named was issued, for good, and is spent once it let one in.
NonceSpent ==
  /\ DOMAIN nonces = Registers
  /\ \A r \in Registers :
       /\ rpc[r] # "idle" /\ req[r].nonce # None =>
            req[r].nonce \in Registers /\ rpc[req[r].nonce] = "challenged"
       /\ LetIn(r) => req[r].nonce # None /\ nonces[req[r].nonce] = None

NonceInv == NonceSpent /\ NonceOnce

\* A step that lets nobody in and brings no spent nonce back.
LEMMA NonceFrame ==
  ASSUME NonceInv, RegType, req' = req, decision' = decision, DOMAIN nonces' = Registers,
         \A r \in Registers : /\ LetIn(r)' => LetIn(r)
                              /\ rpc'[r] # "idle" => rpc[r] # "idle"
                              /\ rpc[r] = "challenged" => /\ rpc'[r] = "challenged"
                                                          /\ nonces[r] = None => nonces'[r] = None
  PROVE  NonceInv'
<1>1. NonceSpent'
  <2> SUFFICES ASSUME NEW r \in Registers
               PROVE  (/\ rpc[r] # "idle" /\ req[r].nonce # None =>
                            req[r].nonce \in Registers /\ rpc[req[r].nonce] = "challenged"
                       /\ LetIn(r) => req[r].nonce # None /\ nonces[req[r].nonce] = None)'
    BY DEF NonceSpent
  <2>1. rpc'[r] # "idle" /\ req[r].nonce # None =>
          req[r].nonce \in Registers /\ rpc[req[r].nonce] = "challenged"
                                     /\ rpc'[req[r].nonce] = "challenged"
    BY DEF NonceInv, NonceSpent
  <2>2. LetIn(r)' => rpc'[r] # "idle" /\ req[r].nonce # None /\ nonces[req[r].nonce] = None
    BY DEF NonceInv, NonceSpent, LetIn
  <2> QED
    BY <2>1, <2>2
<1>2. NonceOnce'
  BY DEF NonceInv, NonceOnce, LetIn
<1> QED
  BY <1>1, <1>2 DEF NonceInv

\* The REGISTER that takes a valid nonce is the only one that nonce lets in.
LEMMA AuthoriseKeepsNonce ==
  ASSUME NonceInv, RegType, NEW r \in Registers, Authorise(r)
  PROVE  NonceInv'
<1> DEFINE n == req[r].nonce
<1>0. rpc[r] = "auth" /\ UNCHANGED <<now, decision, req>>
  BY DEF Authorise
<1>1. CASE /\ decision[req[r].dev] \in {"allow", "reject"} /\ UNCHANGED nonces
           /\ \E x \in {"register", "refused"} : rpc' = [rpc EXCEPT ![r] = x]
  <2>1. /\ \A s \in Registers \ {r} : rpc'[s] = rpc[s]
        /\ rpc'[r] # "challenged" /\ ~LetIn(r)'
    BY <1>0, <1>1 DEF RegType, LetIn
  <2> QED
    BY <1>0, <1>1, <2>1, NonceFrame DEF LetIn, NonceInv, NonceSpent
<1>2. CASE /\ decision[req[r].dev] = "require" /\ rpc' = [rpc EXCEPT ![r] = "challenge"]
           /\ nonces' = nonces \/ (n # None /\ TakeNonce(n))
  <2>1. \A s \in Registers : nonces[s] = None => nonces'[s] = None
    BY <1>2 DEF TakeNonce, Pruned, Valid
  <2>2. DOMAIN nonces' = Registers
    BY <1>2 DEF TakeNonce, Pruned, NonceInv, NonceSpent
  <2>3. (\A s \in Registers \ {r} : rpc'[s] = rpc[s]) /\ rpc'[r] = "challenge"
    BY <1>2 DEF RegType
  <2> QED
    BY <1>0, <2>1, <2>2, <2>3, NonceFrame DEF LetIn
<1>3. CASE /\ decision[req[r].dev] = "require" /\ rpc' = [rpc EXCEPT ![r] = "register"]
           /\ n # None /\ Valid(n) /\ TakeNonce(n)
  <2>1. n \in Registers /\ rpc[n] = "challenged" /\ n # r /\ nonces[n] # None
    BY <1>0, <1>3 DEF NonceInv, NonceSpent, Valid
  <2>2. /\ DOMAIN nonces' = Registers /\ nonces'[n] = None
        /\ \A s \in Registers : nonces[s] = None => nonces'[s] = None
    BY <1>3, <2>1 DEF TakeNonce, Pruned, Valid
  <2>3. (\A s \in Registers \ {r} : rpc'[s] = rpc[s]) /\ rpc'[r] = "register"
    BY <1>3 DEF RegType
  <2>4. \A s \in Registers \ {r} : LetIn(s)' <=> LetIn(s)
    BY <1>0, <2>3 DEF LetIn
  <2>5. \A s \in Registers \ {r} : LetIn(s)' => req[s].nonce # n
    BY <2>1, <2>4 DEF NonceInv, NonceSpent
  <2>6. NonceSpent'
    <3> SUFFICES ASSUME NEW s \in Registers
                 PROVE  (/\ rpc[s] # "idle" /\ req[s].nonce # None =>
                              req[s].nonce \in Registers /\ rpc[req[s].nonce] = "challenged"
                         /\ LetIn(s) => req[s].nonce # None /\ nonces[req[s].nonce] = None)'
      BY <2>2 DEF NonceSpent
    <3>1. CASE s = r
      BY <1>0, <1>3, <2>1, <2>2, <2>3, <3>1
    <3>2. CASE s # r
      <4>1. rpc[s] # "idle" /\ req[s].nonce # None =>
              /\ req[s].nonce \in Registers /\ rpc[req[s].nonce] = "challenged"
              /\ req[s].nonce # r
        BY <1>0 DEF NonceInv, NonceSpent
      <4>2. LetIn(s)' => rpc[s] # "idle" /\ req[s].nonce # None /\ nonces[req[s].nonce] = None
        BY <2>4, <3>2 DEF NonceInv, NonceSpent, LetIn
      <4> QED
        BY <1>0, <2>2, <2>3, <3>2, <4>1, <4>2
    <3> QED
      BY <3>1, <3>2
  <2>7. NonceOnce'
    <3> SUFFICES ASSUME NEW s \in Registers, NEW t \in Registers, s # t, LetIn(s)', LetIn(t)'
                 PROVE  req[s].nonce # req[t].nonce
      BY <1>0 DEF NonceOnce, LetIn
    <3>1. CASE s = r \/ t = r
      BY <2>5, <3>1
    <3>2. CASE s # r /\ t # r
      <4>1. LetIn(s) /\ LetIn(t)
        BY <2>4, <3>2
      <4> QED
        BY <4>1 DEF NonceInv, NonceOnce, LetIn
    <3> QED
      BY <3>1, <3>2
  <2> QED
    BY <2>6, <2>7 DEF NonceInv
<1>4. CASE decision[req[r].dev] # "require"
  BY <1>1, <1>4 DEF Authorise
<1>5. CASE decision[req[r].dev] = "require" /\ n # None /\ Valid(n) /\ req[r].good
  BY <1>3, <1>5 DEF Authorise
<1>6. CASE decision[req[r].dev] = "require" /\ ~(n # None /\ Valid(n) /\ req[r].good)
  <2>1. rpc' = [rpc EXCEPT ![r] = "challenge"]
    BY <1>6 DEF Authorise
  <2>2. nonces' = nonces \/ (n # None /\ TakeNonce(n))
    <3>0. IF n = None THEN nonces' = nonces ELSE TakeNonce(n)
      BY <1>6, Zenon DEF Authorise
    <3>1. CASE n = None
      BY <3>0, <3>1
    <3>2. CASE n # None
      BY <3>0, <3>2 DEF TakeNonce
    <3> QED
      BY <3>1, <3>2
  <2> QED
    BY <1>2, <1>6, <2>1, <2>2
<1> QED
  BY <1>4, <1>5, <1>6

\* Every step keeps the invariant of the nonces.
LEMMA NonceStep == RegType /\ NonceInv /\ [Next]_vars => NonceInv'
<1> SUFFICES ASSUME RegType, NonceInv, [Next]_vars PROVE NonceInv'
  OBVIOUS
<1>1. CASE UNCHANGED <<nonces, req, rpc, decision>>
  BY <1>1, NonceFrame DEF LetIn, NonceInv, NonceSpent
<1>2. CASE SweepStart
  <2>1. DOMAIN nonces' = Registers /\ \A s \in Registers : nonces[s] = None => nonces'[s] = None
    BY <1>2 DEF SweepStart, Pruned, Valid
  <2>2. UNCHANGED <<req, rpc, decision>>
    BY <1>2 DEF SweepStart
  <2> QED
    BY <2>1, <2>2, NonceFrame DEF LetIn
<1>3. ASSUME NEW r \in Registers, NEW q \in Request, Arrive(r, q) PROVE NonceInv'
  <2>1. /\ rpc[r] = "idle" /\ rpc' = [rpc EXCEPT ![r] = "auth"]
        /\ req' = [req EXCEPT ![r] = q]
        /\ q.nonce # None => rpc[q.nonce] = "challenged"
        /\ q.nonce \in Registers \cup {None}
        /\ UNCHANGED <<nonces, decision>>
    BY <1>3 DEF Arrive, Request
  <2>2. /\ rpc'[r] = "auth" /\ req'[r] = q
        /\ \A s \in Registers \ {r} : rpc'[s] = rpc[s] /\ req'[s] = req[s]
    BY <2>1 DEF RegType
  <2>3. ~LetIn(r)' /\ \A s \in Registers \ {r} : LetIn(s)' <=> LetIn(s)
    BY <2>1, <2>2 DEF LetIn
  <2>4. NonceSpent'
    <3> SUFFICES ASSUME NEW s \in Registers
                 PROVE  (/\ rpc[s] # "idle" /\ req[s].nonce # None =>
                              req[s].nonce \in Registers /\ rpc[req[s].nonce] = "challenged"
                         /\ LetIn(s) => req[s].nonce # None /\ nonces[req[s].nonce] = None)'
      BY <2>1 DEF NonceInv, NonceSpent
    <3>1. CASE s = r
      BY <2>1, <2>2, <2>3, <3>1
    <3>2. CASE s # r
      BY <2>1, <2>2, <2>3, <3>2 DEF NonceInv, NonceSpent
    <3> QED
      BY <3>1, <3>2
  <2>5. NonceOnce'
    <3> SUFFICES ASSUME NEW s \in Registers, NEW t \in Registers, s # t, LetIn(s)', LetIn(t)'
                 PROVE  (req[s].nonce # req[t].nonce)'
      BY DEF NonceOnce, LetIn
    <3>1. s # r /\ t # r /\ LetIn(s) /\ LetIn(t)
      BY <2>3
    <3>2. req[s].nonce # req[t].nonce
      BY <3>1 DEF NonceInv, NonceOnce, LetIn
    <3> QED
      BY <2>2, <3>1, <3>2
  <2> QED
    BY <2>4, <2>5 DEF NonceInv
<1>4. ASSUME NEW r \in Registers, Challenge(r) PROVE NonceInv'
  <2>1. /\ rpc[r] = "challenge" /\ rpc' = [rpc EXCEPT ![r] = "challenged"]
        /\ nonces' = [nonces EXCEPT ![r] = now]
        /\ UNCHANGED <<req, decision>>
    BY <1>4 DEF Challenge
  <2>2. /\ rpc'[r] = "challenged"
        /\ \A s \in Registers \ {r} : rpc'[s] = rpc[s] /\ nonces'[s] = nonces[s]
        /\ DOMAIN nonces' = Registers
    BY <2>1 DEF RegType, NonceInv, NonceSpent
  <2> QED
    BY <2>1, <2>2, NonceFrame DEF LetIn
<1>5. ASSUME NEW r \in Registers, Register(r) \/ SetDest(r) \/ Reply(r) PROVE NonceInv'
  <2>1. /\ rpc[r] \in {"register", "dest", "reply"}
        /\ \E x \in {"dest", "reply", "done"} : rpc' = [rpc EXCEPT ![r] = x]
        /\ UNCHANGED <<nonces, req, decision>>
    BY <1>5 DEF Register, SetDest, Reply
  <2>2. /\ rpc'[r] \in {"dest", "reply", "done"} /\ \A s \in Registers \ {r} : rpc'[s] = rpc[s]
    BY <2>1 DEF RegType
  <2> QED
    BY <2>1, <2>2, NonceFrame DEF LetIn, NonceInv, NonceSpent
<1>6. CASE Tick \/ (\E d \in Devices : Keepalive(d) \/ SweepDrop(d)) \/ UNCHANGED vars
  BY <1>1, <1>6 DEF Tick, Keepalive, SweepDrop, vars, regVars
<1>7. ASSUME NEW c \in Calls, CallStep(c) PROVE NonceInv'
  BY <1>1, <1>7, CallsAreApart DEF regVars
<1> QED
  BY <1>2, <1>3, <1>4, <1>5, <1>6, <1>7, AuthoriseKeepsNonce
  DEF Next, Handler, CallStep, Sweep

-----------------------------------------------------------------------------
(* The calls. *)

Listed(s) == {s[k] : k \in 1..Len(s)}

Distinct(s) == \A j, k \in 1..Len(s) : s[j] = s[k] => j = k

CallType ==
  /\ call \in [Calls -> Kinds \cup {None}]
  /\ DOMAIN cpc = Calls
  /\ copies \in [Calls -> Nat]
  /\ flight \in [Calls -> [Channels -> Nat]]
  /\ buffer \in [Calls -> Seq(Channels)]
  /\ got \in [Calls -> Seq(Channels)]

\* Before its MESSAGE is sent nothing has reached the device, and motion is not
\* sent again.
SentOnce(c) ==
  /\ cpc[c] \in {"idle", "send"} => copies[c] = 0
  /\ cpc[c] = "resend" => call[c] # "move"
  /\ call[c] = "move" => copies[c] <= 1

\* The channels of a query: on the wire, in the buffer, collected.
OncePerChannel(wire, waiting, taken) ==
  /\ Distinct(waiting) /\ Distinct(taken) /\ Listed(waiting) \cap Listed(taken) = {}
  /\ \A i \in Channels :
       wire[i] <= 1 /\ (wire[i] = 1 => i \notin Listed(waiting) \cup Listed(taken))

\* Of a MESSAGE that reached the device once, each channel is in one place at most.
ChannelsOnce(c) ==
  /\ copies[c] = 0 => buffer[c] = <<>> /\ got[c] = <<>> /\ \A i \in Channels : flight[c][i] = 0
  /\ copies[c] = 1 => OncePerChannel(flight[c], buffer[c], got[c])

CallInv == CallType /\ \A c \in Calls : SentOnce(c) /\ ChannelsOnce(c)

\* So many distinct channels are all of them.
LEMMA AllThere ==
  ASSUME NEW s \in Seq(Channels), Distinct(s), Len(s) >= Size
  PROVE  Listed(s) = Channels
<1> USE ServerAssumption
<1>1. Len(s) \in Nat /\ s \in [1..Len(s) -> Channels]
  OBVIOUS
<1>2. s \in Injection(1..Len(s), Channels)
  BY <1>1 DEF Injection, IsInjective, Distinct
<1>3. /\ IsFiniteSet(Channels) /\ Cardinality(Channels) = Size
      /\ Cardinality(1..Len(s)) = IF 1 > Len(s) THEN 0 ELSE Len(s)
  BY <1>1, FS_Interval DEF Channels
<1>4. Cardinality(1..Len(s)) <= Size
  BY <1>2, <1>3, FS_Injection
<1>5. Cardinality(1..Len(s)) = Cardinality(Channels)
  BY <1>1, <1>3, <1>4
<1>6. s \in Surjection(1..Len(s), Channels)
  BY <1>2, <1>3, <1>5, FS_Injection
<1>7. \A i \in Channels : \E k \in 1..Len(s) : s[k] = i
  BY <1>6 DEF Surjection
<1> QED
  BY <1>1, <1>7 DEF Listed

\* What a sequence lists when one more is put at its end.
LEMMA ListedAppend ==
  ASSUME NEW s \in Seq(Channels), NEW i \in Channels
  PROVE  /\ Append(s, i) \in Seq(Channels)
         /\ Listed(Append(s, i)) = Listed(s) \cup {i}
         /\ Distinct(s) /\ i \notin Listed(s) => Distinct(Append(s, i))
<1>1. /\ Append(s, i) \in Seq(Channels) /\ Len(Append(s, i)) = Len(s) + 1 /\ Len(s) \in Nat
      /\ \A k \in 1..Len(s) : Append(s, i)[k] = s[k]
      /\ Append(s, i)[Len(s) + 1] = i
  OBVIOUS
<1>2. \A k \in 1..(Len(s) + 1) : k \in 1..Len(s) \/ k = Len(s) + 1
  BY <1>1
<1>3. 1..Len(s) \subseteq 1..(Len(s) + 1) /\ Len(s) + 1 \in 1..(Len(s) + 1)
  BY <1>1
<1>4. Listed(Append(s, i)) = Listed(s) \cup {i}
  BY <1>1, <1>2, <1>3 DEF Listed
<1>5. Distinct(s) /\ i \notin Listed(s) => Distinct(Append(s, i))
  BY <1>1, <1>2, <1>3 DEF Listed, Distinct
<1> QED
  BY <1>1, <1>4, <1>5

\* What a sequence lists when its first is taken.
LEMMA ListedTail ==
  ASSUME NEW s \in Seq(Channels), s # <<>>
  PROVE  /\ Tail(s) \in Seq(Channels) /\ Head(s) \in Channels
         /\ Listed(s) = Listed(Tail(s)) \cup {Head(s)}
         /\ Distinct(s) => Distinct(Tail(s)) /\ Head(s) \notin Listed(Tail(s))
<1>1. /\ Tail(s) \in Seq(Channels) /\ Len(Tail(s)) = Len(s) - 1 /\ Len(s) \in Nat /\ Len(s) > 0
      /\ \A k \in 1..(Len(s) - 1) : Tail(s)[k] = s[k + 1]
      /\ Head(s) = s[1] /\ s[1] \in Channels
  OBVIOUS
<1>2. \A k \in 1..Len(s) : k = 1 \/ (k - 1 \in 1..(Len(s) - 1) /\ (k - 1) + 1 = k)
  BY <1>1
<1>3. 1 \in 1..Len(s) /\ \A k \in 1..(Len(s) - 1) : k + 1 \in 1..Len(s) /\ k + 1 # 1
  BY <1>1
<1>4. Listed(s) = Listed(Tail(s)) \cup {Head(s)}
  <2>1. \A x \in Listed(s) : x = s[1] \/ x \in Listed(Tail(s))
    BY <1>1, <1>2 DEF Listed
  <2>2. s[1] \in Listed(s) /\ \A x \in Listed(Tail(s)) : x \in Listed(s)
    BY <1>1, <1>3 DEF Listed
  <2> QED
    BY <1>1, <2>1, <2>2
<1>5. Distinct(s) => Head(s) \notin Listed(Tail(s))
  BY <1>1, <1>3 DEF Listed, Distinct
<1>6. Distinct(s) => Distinct(Tail(s))
  BY <1>1, <1>3 DEF Distinct
<1> QED
  BY <1>1, <1>4, <1>5, <1>6

\* A step of call c keeps what is said of the others.
LEMMA OthersKeepCalls ==
  ASSUME CallInv, NEW c \in Calls, CallType', (SentOnce(c) /\ ChannelsOnce(c))',
         \A b \in Calls \ {c} : /\ call'[b] = call[b] /\ cpc'[b] = cpc[b]
                                /\ copies'[b] = copies[b] /\ flight'[b] = flight[b]
                                /\ buffer'[b] = buffer[b] /\ got'[b] = got[b]
  PROVE  CallInv'
BY DEF CallInv, SentOnce, ChannelsOnce

\* The MESSAGE reaches the device once more, or does not.
LEMMA DeliverIs ==
  ASSUME CallType, NEW c \in Calls, NEW arrives \in BOOLEAN, Deliver(c, arrives),
         ChannelsOnce(c), UNCHANGED <<buffer, got>>
  PROVE  /\ copies' \in [Calls -> Nat] /\ flight' \in [Calls -> [Channels -> Nat]]
         /\ \A b \in Calls \ {c} : copies'[b] = copies[b] /\ flight'[b] = flight[b]
         /\ copies'[c] \in {copies[c], copies[c] + 1}
         /\ ChannelsOnce(c)'
<1>1. /\ copies' = [copies EXCEPT ![c] = @ + IF arrives THEN 1 ELSE 0]
      /\ flight' = IF arrives /\ call[c] = "catalog"
                   THEN [flight EXCEPT ![c] = [i \in Channels |-> flight[c][i] + 1]]
                   ELSE flight
  BY DEF Deliver
<1>2. copies[c] \in Nat /\ flight[c] \in [Channels -> Nat]
  BY DEF CallType
<1>3. /\ copies' \in [Calls -> Nat] /\ copies'[c] = copies[c] + IF arrives THEN 1 ELSE 0
      /\ \A b \in Calls \ {c} : copies'[b] = copies[b]
  BY <1>1, <1>2 DEF CallType
<1>4. [i \in Channels |-> flight[c][i] + 1] \in [Channels -> Nat]
  BY <1>2
<1>5. /\ flight' \in [Calls -> [Channels -> Nat]]
      /\ \A b \in Calls \ {c} : flight'[b] = flight[b]
      /\ flight'[c] = IF arrives /\ call[c] = "catalog"
                      THEN [i \in Channels |-> flight[c][i] + 1] ELSE flight[c]
  BY <1>1, <1>4 DEF CallType
<1>6. ChannelsOnce(c)'
  <2>1. CASE ~arrives
    BY <1>2, <1>3, <1>5, <2>1 DEF ChannelsOnce
  <2>2. CASE arrives /\ copies[c] = 0
    <3>1. copies'[c] = 1 /\ buffer'[c] = <<>> /\ got'[c] = <<>>
      BY <1>3, <2>2 DEF ChannelsOnce
    <3>2. \A i \in Channels : flight'[c][i] \in {0, 1}
      BY <1>2, <1>5, <2>2 DEF ChannelsOnce
    <3>3. Listed(<<>>) = {} /\ Distinct(<<>>)
      BY DEF Listed, Distinct
    <3>4. OncePerChannel(flight'[c], <<>>, <<>>)
      BY <3>2, <3>3 DEF OncePerChannel
    <3> QED
      BY <3>1, <3>4 DEF ChannelsOnce
  <2>3. CASE arrives /\ copies[c] # 0
    <3>1. copies'[c] \notin {0, 1}
      BY <1>2, <1>3, <2>3
    <3> QED
      BY <3>1 DEF ChannelsOnce
  <2> QED
    BY <2>1, <2>2, <2>3
<1> QED
  BY <1>2, <1>3, <1>5, <1>6

\* Starting a call sends nothing yet.
LEMMA StartKeepsCalls ==
  ASSUME CallInv, NEW c \in Calls, NEW k \in Kinds, NEW d \in Devices, Start(c, k, d)
  PROVE  CallInv'
<1>1. /\ cpc[c] = "idle" /\ call' = [call EXCEPT ![c] = k]
      /\ \E x \in {"offline", "send"} : cpc' = [cpc EXCEPT ![c] = x]
      /\ UNCHANGED <<copies, flight, buffer, got>>
  BY DEF Start
<1>2. /\ CallType' /\ cpc'[c] \in {"offline", "send"}
      /\ \A b \in Calls \ {c} : call'[b] = call[b] /\ cpc'[b] = cpc[b]
  BY <1>1 DEF CallInv, CallType
<1>3. (SentOnce(c) /\ ChannelsOnce(c))'
  BY <1>1, <1>2 DEF CallInv, SentOnce, ChannelsOnce
<1> QED
  BY <1>1, <1>2, <1>3, OthersKeepCalls

\* Sending moves a command once at most.
LEMMA SendKeepsCalls ==
  ASSUME CallInv, NEW c \in Calls, SendOk(c) \/ SendFails(c)
  PROVE  CallInv'
<1>1. /\ cpc[c] \in {"send", "resend"}
      /\ \E x \in {"collect", "done", "resend", "failed"} :
           /\ cpc' = [cpc EXCEPT ![c] = x]
           /\ x = "resend" => call[c] # "move"
      /\ \E arrives \in BOOLEAN : Deliver(c, arrives)
      /\ UNCHANGED <<call, buffer, got>>
  BY DEF SendOk, SendFails, Retried
<1>2. /\ DOMAIN cpc' = Calls /\ cpc'[c] \in {"collect", "done", "resend", "failed"}
      /\ cpc'[c] = "resend" => call[c] # "move"
      /\ \A b \in Calls \ {c} : cpc'[b] = cpc[b]
  BY <1>1 DEF CallInv, CallType
<1>3. /\ copies' \in [Calls -> Nat] /\ flight' \in [Calls -> [Channels -> Nat]]
      /\ \A b \in Calls \ {c} : copies'[b] = copies[b] /\ flight'[b] = flight[b]
      /\ copies'[c] \in {copies[c], copies[c] + 1}
      /\ ChannelsOnce(c)'
  BY <1>1, DeliverIs DEF CallInv
<1>4. CallType'
  BY <1>1, <1>2, <1>3 DEF CallInv, CallType
<1>5. SentOnce(c)'
  <2>1. call[c] = "move" => copies[c] = 0
    BY <1>1 DEF CallInv, SentOnce
  <2> QED
    BY <1>1, <1>2, <1>3, <2>1 DEF SentOnce
<1> QED
  BY <1>1, <1>2, <1>3, <1>4, <1>5, OthersKeepCalls

\* A chunk leaves the wire, for the buffer of its query or for nowhere.
LEMMA ChunkKeepsCalls ==
  ASSUME CallInv, NEW c \in Calls, NEW i \in Channels, Chunk(c, i) \/ ChunkLost(c, i)
  PROVE  CallInv'
<1>1. /\ flight[c][i] > 0 /\ flight' = [flight EXCEPT ![c][i] = @ - 1]
      /\ buffer' = buffer \/ buffer' = [buffer EXCEPT ![c] = Append(@, i)]
      /\ UNCHANGED <<call, cpc, copies, got>>
  BY DEF Chunk, ChunkLost
<1>2. /\ flight[c] \in [Channels -> Nat] /\ copies[c] \in Nat
      /\ buffer[c] \in Seq(Channels) /\ got[c] \in Seq(Channels)
  BY DEF CallInv, CallType
<1>3. flight[c][i] - 1 \in Nat
  BY <1>1, <1>2
<1>4. /\ flight' \in [Calls -> [Channels -> Nat]]
      /\ \A b \in Calls \ {c} : flight'[b] = flight[b]
      /\ flight'[c][i] = flight[c][i] - 1
      /\ \A j \in Channels \ {i} : flight'[c][j] = flight[c][j]
  BY <1>1, <1>3 DEF CallInv, CallType
<1>5. Append(buffer[c], i) \in Seq(Channels)
  BY <1>2, ListedAppend
<1>6. /\ buffer' \in [Calls -> Seq(Channels)]
      /\ \A b \in Calls \ {c} : buffer'[b] = buffer[b]
      /\ buffer'[c] \in {buffer[c], Append(buffer[c], i)}
  BY <1>1, <1>5 DEF CallInv, CallType
<1>7. CallType'
  BY <1>1, <1>4, <1>6 DEF CallInv, CallType
<1>8. copies[c] # 0
  BY <1>1 DEF CallInv, ChannelsOnce
<1>9. ChannelsOnce(c)'
  <2> SUFFICES ASSUME copies[c] = 1
               PROVE  OncePerChannel(flight'[c], buffer'[c], got[c])
    BY <1>1, <1>8 DEF ChannelsOnce
  <2>1. OncePerChannel(flight[c], buffer[c], got[c])
    BY DEF CallInv, ChannelsOnce
  <2>2. flight[c][i] = 1 /\ flight'[c][i] = 0
    BY <1>1, <1>2, <1>4, <2>1 DEF OncePerChannel
  <2>3. i \notin Listed(buffer[c]) /\ i \notin Listed(got[c])
    BY <2>1, <2>2 DEF OncePerChannel
  <2>4. /\ Distinct(buffer'[c])
        /\ Listed(buffer'[c]) \subseteq Listed(buffer[c]) \cup {i}
    BY <1>2, <1>6, <2>1, <2>3, ListedAppend DEF OncePerChannel
  <2>5. \A j \in Channels \ {i} :
          /\ flight'[c][j] <= 1
          /\ flight'[c][j] = 1 => j \notin Listed(buffer'[c]) \cup Listed(got[c])
    BY <1>4, <2>1, <2>4 DEF OncePerChannel
  <2> QED
    BY <2>1, <2>2, <2>3, <2>4, <2>5 DEF OncePerChannel
<1>10. SentOnce(c)'
  BY <1>1 DEF CallInv, SentOnce
<1> QED
  BY <1>1, <1>4, <1>6, <1>7, <1>9, <1>10, OthersKeepCalls

\* What is collected leaves the buffer.
LEMMA CollectKeepsCalls ==
  ASSUME CallInv, NEW c \in Calls, Collect(c)
  PROVE  CallInv'
<1>1. /\ cpc[c] = "collect" /\ buffer[c] # <<>>
      /\ got' = [got EXCEPT ![c] = Append(@, Head(buffer[c]))]
      /\ buffer' = [buffer EXCEPT ![c] = Tail(@)]
      /\ cpc' = cpc \/ cpc' = [cpc EXCEPT ![c] = "done"]
      /\ UNCHANGED <<call, copies, flight>>
  BY DEF Collect
<1>2. buffer[c] \in Seq(Channels) /\ got[c] \in Seq(Channels)
  BY DEF CallInv, CallType
<1> DEFINE h == Head(buffer[c])
<1>3. /\ Tail(buffer[c]) \in Seq(Channels) /\ h \in Channels
      /\ Listed(buffer[c]) = Listed(Tail(buffer[c])) \cup {h}
      /\ Distinct(buffer[c]) => Distinct(Tail(buffer[c])) /\ h \notin Listed(Tail(buffer[c]))
  BY <1>1, <1>2, ListedTail
<1>4. /\ Append(got[c], h) \in Seq(Channels)
      /\ Listed(Append(got[c], h)) = Listed(got[c]) \cup {h}
      /\ Distinct(got[c]) /\ h \notin Listed(got[c]) => Distinct(Append(got[c], h))
  BY <1>2, <1>3, ListedAppend
<1> HIDE DEF h
<1>5. /\ buffer' \in [Calls -> Seq(Channels)] /\ got' \in [Calls -> Seq(Channels)]
      /\ buffer'[c] = Tail(buffer[c]) /\ got'[c] = Append(got[c], h)
      /\ DOMAIN cpc' = Calls /\ cpc'[c] \in {"collect", "done"}
      /\ \A b \in Calls \ {c} : /\ buffer'[b] = buffer[b] /\ got'[b] = got[b]
                                /\ cpc'[b] = cpc[b]
  BY <1>1, <1>3, <1>4 DEF CallInv, CallType, h
<1>6. CallType'
  BY <1>1, <1>5 DEF CallInv, CallType
<1>7. copies[c] # 0
  BY <1>1 DEF CallInv, ChannelsOnce
<1>8. ChannelsOnce(c)'
  <2> SUFFICES ASSUME copies[c] = 1
               PROVE  OncePerChannel(flight[c], Tail(buffer[c]), Append(got[c], h))
    BY <1>1, <1>5, <1>7 DEF ChannelsOnce
  <2>1. OncePerChannel(flight[c], buffer[c], got[c])
    BY DEF CallInv, ChannelsOnce
  <2> QED
    BY <1>3, <1>4, <2>1 DEF OncePerChannel
<1>9. SentOnce(c)'
  BY <1>1, <1>5 DEF CallInv, SentOnce
<1> QED
  BY <1>1, <1>5, <1>6, <1>8, <1>9, OthersKeepCalls

\* A call that ends sends nothing more.
LEMMA EndKeepsCalls ==
  ASSUME CallInv, NEW c \in Calls, QueryTimeout(c) \/ Abandon(c)
  PROVE  CallInv'
<1>1. /\ \E x \in {"done", "gone"} : cpc' = [cpc EXCEPT ![c] = x]
      /\ UNCHANGED <<call, copies, flight, buffer, got>>
  BY DEF QueryTimeout, Abandon
<1>2. /\ CallType' /\ cpc'[c] \in {"done", "gone"}
      /\ \A b \in Calls \ {c} : cpc'[b] = cpc[b]
  BY <1>1 DEF CallInv, CallType
<1>3. (SentOnce(c) /\ ChannelsOnce(c))'
  BY <1>1, <1>2 DEF CallInv, SentOnce, ChannelsOnce
<1> QED
  BY <1>1, <1>2, <1>3, OthersKeepCalls

\* Every step keeps the invariant of the calls.
LEMMA CallStepKeeps == CallInv /\ [Next]_vars => CallInv'
<1> SUFFICES ASSUME CallInv, [Next]_vars PROVE CallInv'
  OBVIOUS
<1>1. CASE UNCHANGED <<call, cpc, copies, flight, buffer, got>>
  BY <1>1 DEF CallInv, CallType, SentOnce, ChannelsOnce
<1>2. ASSUME NEW c \in Calls, CallStep(c) PROVE CallInv'
  BY <1>2, StartKeepsCalls, SendKeepsCalls, ChunkKeepsCalls, CollectKeepsCalls, EndKeepsCalls
  DEF CallStep, CallSteps
<1>3. CASE Tick \/ Sweep \/ (\E d \in Devices : Keepalive(d)) \/ UNCHANGED vars
  BY <1>1, <1>3 DEF Tick, Sweep, SweepStart, SweepDrop, Keepalive, vars, callVars
<1>4. ASSUME NEW r \in Registers, Handler(r) \/ \E q \in Request : Arrive(r, q) PROVE CallInv'
  BY <1>1, <1>4 DEF Handler, Authorise, Challenge, Register, SetDest, Reply, Arrive, callVars
<1> QED
  BY <1>2, <1>3, <1>4 DEF Next, CallStep

(***************************************************************************)
(* Nothing counts twice: no two REGISTERs are let in by one nonce though   *)
(* any number of them carry it; a motion command reaches the device once   *)
(* at most, whatever is lost; and a catalog asked for once and not flagged *)
(* incomplete holds every channel, in whatever order its chunks come.      *)
(***************************************************************************)
THEOREM OnceOnlyAlways == Spec => []OnceOnly
<1>1. Init => NonceInv /\ CallInv
  <2> SUFFICES ASSUME Init PROVE NonceInv /\ CallInv
    OBVIOUS
  <2>1. NonceInv
    BY DEF Init, NonceInv, NonceSpent, NonceOnce, LetIn
  <2>2. CallType
    BY DEF Init, CallType
  <2>3. \A c \in Calls : SentOnce(c) /\ ChannelsOnce(c)
    BY ServerAssumption DEF Init, SentOnce, ChannelsOnce, Kinds
  <2> QED
    BY <2>1, <2>2, <2>3 DEF CallInv
<1>2. CallInv => MotionOnce
  BY DEF CallInv, SentOnce, MotionOnce
<1>3. CallInv => CompleteIsWhole
  <2> SUFFICES ASSUME CallInv, NEW c \in Calls, copies[c] = 1, got[c] # <<>>, ~Incomplete(c)
               PROVE  AllChannels(c)
    BY DEF CompleteIsWhole
  <2>1. got[c] \in Seq(Channels) /\ Distinct(got[c])
    BY DEF CallInv, CallType, ChannelsOnce, OncePerChannel
  <2>2. Len(got[c]) >= Size
    BY <2>1, ServerAssumption DEF Incomplete
  <2>3. Listed(got[c]) = Channels
    BY <2>1, <2>2, AllThere
  <2> QED
    BY <2>1, <2>3 DEF AllChannels, Listed
<1>4. RegInv => RegType
  BY DEF RegInv
<1>5. NonceInv => NonceOnce
  BY DEF NonceInv
<1> QED
  BY <1>1, <1>2, <1>3, <1>4, <1>5, RegInit, RegStep, NonceStep, CallStepKeeps, PTL
  DEF Spec, OnceOnly

-----------------------------------------------------------------------------
(* The account: what the scratch map and the credentials hold at each turn of *)
(* a login.                                                                   *)

AuthKeys == [user : BOOLEAN, code : BOOLEAN, ick : BOOLEAN, flag : BOOLEAN]
Brought  == [gives : SUBSET Credentials, blanks : SUBSET Credentials]

CloudTypes ==
  /\ auth \in AuthKeys /\ bare \in BOOLEAN /\ creds \subseteq Credentials
  /\ chain \in [gave : Seq(Brought), pos : Nat, service : BOOLEAN]

\* A ticket is asked for with a verification under way, a captcha with either
\* way to go on; until a login follows its chain nothing is held.
TurnsOk ==
  /\ at = "ticket" => auth.flag
  /\ at = "captcha" => auth.user \/ auth.flag
  /\ at # "none" => step \notin {"Done", "Err"}
  /\ at # "follow" /\ step \notin {"Done", "Err"} => creds = {}

\* Given, of the answers s.
GivenBy(s, c, n) ==
  \E i \in 1..n : c \in s[i].gives /\ \A j \in (i + 1)..n : c \notin s[j].blanks

\* A chain that is followed has a response to come and a GET for it, and what is
\* held is what the answers read so far gave, the service cookie kept aside.
FollowOk == at = "follow" =>
  /\ chain.pos >= 1 /\ chain.pos < Len(chain.gave) /\ chain.pos <= MaxRedirects
  /\ "cookies" \notin creds
  /\ chain.service <=> GivenBy(chain.gave, "cookies", chain.pos)
  /\ \A c \in Credentials \ {"cookies"} : c \in creds <=> GivenBy(chain.gave, c, chain.pos)

LoginInv == CloudTypes /\ TurnsOk /\ FollowOk /\ LoginResumes

\* One more answer: it gives, or leaves what was given unless it blanks it.
LEMMA GivenNext ==
  ASSUME NEW s, NEW c, NEW n \in Nat
  PROVE  GivenBy(s, c, n + 1) <=>
           \/ c \in s[n + 1].gives
           \/ GivenBy(s, c, n) /\ c \notin s[n + 1].blanks
<1>1. ASSUME GivenBy(s, c, n + 1), c \notin s[n + 1].gives
      PROVE  GivenBy(s, c, n) /\ c \notin s[n + 1].blanks
  <2>1. PICK i \in 1..(n + 1) : /\ c \in s[i].gives
                                /\ \A j \in (i + 1)..(n + 1) : c \notin s[j].blanks
    BY <1>1 DEF GivenBy
  <2>2. i \in 1..n /\ n + 1 \in (i + 1)..(n + 1) /\ \A j \in (i + 1)..n : j \in (i + 1)..(n + 1)
    BY <1>1, <2>1
  <2>3. QED
    BY <2>1, <2>2 DEF GivenBy
<1>2. ASSUME c \in s[n + 1].gives PROVE GivenBy(s, c, n + 1)
  <2>1. n + 1 \in 1..(n + 1) /\ (n + 1 + 1)..(n + 1) = {}
    OBVIOUS
  <2>2. QED
    BY <1>2, <2>1 DEF GivenBy
<1>3. ASSUME GivenBy(s, c, n), c \notin s[n + 1].blanks PROVE GivenBy(s, c, n + 1)
  <2>1. PICK i \in 1..n : c \in s[i].gives /\ \A j \in (i + 1)..n : c \notin s[j].blanks
    BY <1>3 DEF GivenBy
  <2>2. i \in 1..(n + 1) /\ \A j \in (i + 1)..(n + 1) : j \in (i + 1)..n \/ j = n + 1
    BY <2>1
  <2>3. QED
    BY <1>3, <2>1, <2>2 DEF GivenBy
<1> QED
  BY <1>1, <1>2, <1>3

\* The first answer decides alone.
LEMMA GivenFirst ==
  ASSUME NEW s, NEW c
  PROVE  GivenBy(s, c, 1) <=> c \in s[1].gives
<1>1. 1..1 = {1} /\ 2..1 = {} /\ 1 + 1 = 2
  OBVIOUS
<1> QED
  BY <1>1 DEF GivenBy

\* The answers of a login, one and a chain of responses.
LEMMA FollowKeeps ==
  ASSUME LoginInv, NEW a \in FirstAnswers \cup {[gives |-> {}, blanks |-> {}]}, NEW c \in Chains,
         Follow(a, c), creds' = a.gives, auth' \in AuthKeys, UNCHANGED bare, at # "none"
  PROVE  LoginInv'
<1>1. a \in Brought /\ "cookies" \notin a.gives
  <2>1. PICK g \in SUBSET {"ssecurity", "token"} : a = [gives |-> g, blanks |-> {}]
    BY DEF FirstAnswers
  <2>2. g \in SUBSET Credentials /\ {} \in SUBSET Credentials /\ "cookies" \notin g
    BY DEF Credentials
  <2>3. QED
    BY <2>1, <2>2 DEF Brought
<1>2. c \in Seq(Brought) /\ Len(c) >= 1
  <2>1. PICK h \in 1..MaxChain : c \in [1..h -> Answers]
    BY DEF Chains
  <2>2. h \in Nat /\ h >= 1 /\ c \in [1..h -> Brought]
    BY <2>1, CloudAssumption DEF Brought
  <2>3. QED
    BY <2>2
<1>3. <<a>> \o c \in Seq(Brought) /\ Len(<<a>> \o c) = Len(c) + 1 /\ (<<a>> \o c)[1] = a
  BY <1>1, <1>2
<1>4. /\ at' = "follow" /\ step' = step /\ chain'.gave = <<a>> \o c /\ chain'.pos = 1
      /\ chain'.service = FALSE /\ chain' \in [gave : Seq(Brought), pos : Nat, service : BOOLEAN]
  BY <1>3 DEF Follow
<1>5. FollowOk'
  <2>1. \A d : GivenBy(chain'.gave, d, 1) <=> d \in a.gives
    BY <1>3, <1>4, GivenFirst
  <2>2. MaxRedirects >= 1 /\ Len(c) \in Nat
    BY <1>2, CloudAssumption
  <2>3. QED
    BY <1>1, <1>2, <1>3, <1>4, <2>1, <2>2 DEF FollowOk
<1>6. CloudTypes'
  BY <1>1, <1>4 DEF CloudTypes, LoginInv, Brought
<1>7. TurnsOk'
  BY <1>4 DEF LoginInv, TurnsOk
<1> QED
  BY <1>4, <1>5, <1>6, <1>7 DEF LoginInv, LoginResumes

\* Logins are entered.
LEMMA EntryKeeps ==
  ASSUME LoginInv, Login \/ LoginWithCaptcha \/ LoginWithVerify \/ LoginWithToken
  PROVE  LoginInv'
<1>1. CASE Login
  BY <1>1 DEF Login, LoginInv, CloudTypes, TurnsOk, FollowOk, LoginResumes
<1>2. CASE LoginWithCaptcha
  <2>1. CASE auth.ick
    <3>1. auth' = [auth EXCEPT !.code = TRUE] /\ at' = (IF auth.flag THEN "ticket" ELSE "login")
          /\ UNCHANGED <<step, creds, chain, bare>> /\ at = "none" /\ step = "Captcha"
      BY <1>2, <2>1 DEF LoginWithCaptcha
    <3>2. CloudTypes' /\ auth'.flag = auth.flag
      BY <3>1 DEF LoginInv, CloudTypes, AuthKeys
    <3>3. QED
      BY <3>1, <3>2 DEF LoginInv, TurnsOk, FollowOk, LoginResumes
  <2>2. CASE ~auth.ick
    BY <1>2, <2>2 DEF LoginWithCaptcha, LoginInv, CloudTypes, TurnsOk, FollowOk, LoginResumes
  <2>3. QED
    BY <2>1, <2>2
<1>3. CASE LoginWithVerify
  BY <1>3 DEF LoginWithVerify, LoginInv, CloudTypes, TurnsOk, FollowOk, LoginResumes
<1>4. CASE LoginWithToken
  BY <1>4 DEF LoginWithToken, LoginInv, CloudTypes, TurnsOk, FollowOk, LoginResumes
<1>5. QED
  BY <1>1, <1>2, <1>3, <1>4

\* One GET of the chain.
LEMMA GetKeeps ==
  ASSUME LoginInv, FinishAuth
  PROVE  LoginInv'
<1> DEFINE k == chain.pos + 1
           r == chain.gave[k]
<1>1. /\ at = "follow" /\ chain.pos \in Nat /\ chain.pos >= 1 /\ chain.pos < Len(chain.gave)
      /\ chain.pos <= MaxRedirects /\ chain.gave \in Seq(Brought) /\ chain.service \in BOOLEAN
      /\ creds \subseteq Credentials /\ "cookies" \notin creds
  BY DEF FinishAuth, LoginInv, CloudTypes, FollowOk
<1>2. r \in Brought
  <2>1. k \in 1..Len(chain.gave)
    BY <1>1
  <2>2. QED
    BY <1>1, <2>1
<1>3. /\ chain' = [chain EXCEPT !.pos = k, !.service = ServiceToken(r)]
      /\ UNCHANGED <<auth, bare>>
  BY DEF FinishAuth
<1>4. ServiceToken(r) \in BOOLEAN
  BY DEF ServiceToken
<1>5. /\ chain'.gave = chain.gave /\ chain'.pos = k /\ chain'.service = ServiceToken(r)
      /\ chain' \in [gave : Seq(Brought), pos : Nat, service : BOOLEAN]
  <2>1. PICK b \in BOOLEAN : b = ServiceToken(r)
    BY <1>4
  <2>2. chain' = [chain EXCEPT !.pos = k, !.service = b] /\ k \in Nat
    BY <1>1, <1>3, <2>1
  <2>3. chain \in [gave : Seq(Brought), pos : Nat, service : BOOLEAN]
    BY DEF LoginInv, CloudTypes
  <2>4. QED
    BY <2>1, <2>2, <2>3
<1>6. ServiceToken(r) <=> GivenBy(chain.gave, "cookies", k)
  <2>1. chain.service <=> GivenBy(chain.gave, "cookies", chain.pos)
    BY <1>1 DEF LoginInv, FollowOk
  <2>2. GivenBy(chain.gave, "cookies", k) <=>
           "cookies" \in r.gives \/ (GivenBy(chain.gave, "cookies", chain.pos) /\ "cookies" \notin r.blanks)
    BY <1>1, GivenNext
  <2>3. QED
    BY <2>1, <2>2 DEF ServiceToken
<1>7. ASSUME NEW c \in Credentials \ {"cookies"}
      PROVE  c \in Read(r) <=> GivenBy(chain.gave, c, k)
  <2>1. c \in creds <=> GivenBy(chain.gave, c, chain.pos)
    BY <1>1, <1>7 DEF LoginInv, FollowOk
  <2>2. GivenBy(chain.gave, c, k) <=>
           c \in r.gives \/ (GivenBy(chain.gave, c, chain.pos) /\ c \notin r.blanks)
    BY <1>1, GivenNext
  <2>3. c \in Read(r) <=> c \in r.gives \/ (c \in creds /\ c \notin r.blanks)
    BY <1>7 DEF Read
  <2>4. QED
    BY <2>1, <2>2, <2>3
<1>8. Read(r) \subseteq Credentials /\ "cookies" \notin Read(r)
  BY <1>1, <1>2 DEF Read, Brought
<1>9. CASE k < Len(chain.gave) /\ k <= MaxRedirects
  <2>1. creds' = Read(r) /\ UNCHANGED <<at, step>>
    BY <1>9 DEF FinishAuth
  <2>2. FollowOk'
    BY <1>1, <1>5, <1>6, <1>7, <1>8, <1>9, <2>1 DEF FollowOk
  <2>3. CloudTypes' /\ TurnsOk' /\ LoginResumes'
    BY <1>1, <1>3, <1>5, <1>8, <2>1 DEF LoginInv, CloudTypes, TurnsOk, LoginResumes
  <2>4. QED
    BY <2>2, <2>3 DEF LoginInv
<1>10. CASE ~(k < Len(chain.gave) /\ k <= MaxRedirects)
  <2>1. /\ creds' = (Read(r) \ {"cookies"}) \cup (IF ServiceToken(r) THEN {"cookies"} ELSE {})
        /\ at' = "none" /\ step' = "Done"
    BY <1>10 DEF FinishAuth
  <2>2. creds' \subseteq Credentials
    BY <1>8, <2>1 DEF Credentials
  <2>3. CloudTypes' /\ TurnsOk' /\ FollowOk'
    BY <1>3, <1>5, <2>1, <2>2 DEF LoginInv, CloudTypes, TurnsOk, FollowOk
  <2>4. ASSUME Len(chain.gave) <= MaxRedirects + 1
        PROVE  creds' = {c \in Credentials : GivenBy(chain.gave, c, Len(chain.gave))}
    <3>1. k = Len(chain.gave)
      BY <1>1, <1>10, <2>4, CloudAssumption
    <3>2. \A c \in Credentials : c \in creds' <=> GivenBy(chain.gave, c, k)
      BY <1>6, <1>7, <2>1
    <3>3. QED
      BY <2>2, <3>1, <3>2
  <2>5. LoginResumes'
    <3>1. ASSUME Len(chain'.gave) <= MaxRedirects + 1
          PROVE  creds' = {c \in Credentials : Given(c, Len(chain.gave))'}
      <4>1. \A c : Given(c, Len(chain.gave))' <=> GivenBy(chain.gave, c, Len(chain.gave))
        BY <1>5 DEF Given, GivenBy
      <4>2. QED
        BY <1>5, <2>4, <3>1, <4>1
    <3>2. QED
      BY <1>5, <2>1, <3>1 DEF LoginResumes
  <2>6. QED
    BY <2>3, <2>5 DEF LoginInv
<1> QED
  BY <1>9, <1>10

\* The exchanges of a login.
LEMMA ExchangeKeeps ==
  ASSUME LoginInv, CloudStep
  PROVE  LoginInv'
<1>0. NoAuth \in AuthKeys /\ [NoAuth EXCEPT !.user = TRUE] \in AuthKeys
      /\ [NoAuth EXCEPT !.user = TRUE].user
  BY DEF NoAuth, AuthKeys
<1>1. CASE HttpError
  BY <1>1 DEF HttpError, LoginInv, CloudTypes, TurnsOk, FollowOk, LoginResumes
<1>2. CASE LoginAnswered
  <2>1. PICK a \in FirstAnswers, c \in Chains : Answered(a, c)
    BY <1>2 DEF LoginAnswered
  <2>0. at = "login" /\ UNCHANGED bare /\ creds = {}
    BY <1>2 DEF LoginAnswered, LoginInv, TurnsOk
  <2>3. CASE /\ at' \in {"captcha", "start"} /\ auth' = [NoAuth EXCEPT !.user = TRUE]
             /\ UNCHANGED <<step, creds, chain>>
    BY <1>0, <2>0, <2>3 DEF LoginInv, CloudTypes, TurnsOk, FollowOk, LoginResumes
  <2>4. CASE /\ auth' = [NoAuth EXCEPT !.user = TRUE] /\ at' = "none" /\ step' = "Err"
             /\ UNCHANGED <<creds, chain>>
    BY <1>0, <2>0, <2>4 DEF LoginInv, CloudTypes, TurnsOk, FollowOk, LoginResumes
  <2>5. CASE auth' = NoAuth /\ Store(a) /\ Follow(a, c)
    <3>1. creds' = a.gives
      BY <2>0, <2>5 DEF Store
    <3>2. QED
      BY <1>0, <2>0, <2>5, <3>1, FollowKeeps
  <2>6. QED
    BY <2>1, <2>3, <2>4, <2>5 DEF Answered
<1>3. CASE GetCaptcha
  <2>1. PICK b \in BOOLEAN : bare' = b /\ auth' = [auth EXCEPT !.ick = ~b]
    BY <1>3 DEF GetCaptcha
  <2>2. /\ auth' \in AuthKeys /\ auth'.ick = ~b /\ auth'.user = auth.user /\ auth'.flag = auth.flag
    BY <2>1 DEF LoginInv, CloudTypes, AuthKeys
  <2>3. at = "captcha" /\ at' = "none" /\ step' = "Captcha" /\ UNCHANGED <<creds, chain>>
    BY <1>3 DEF GetCaptcha
  <2>4. QED
    BY <2>1, <2>2, <2>3 DEF LoginInv, CloudTypes, TurnsOk, FollowOk, LoginResumes
<1>4. CASE AuthStart
  <2>1. auth' \in AuthKeys /\ auth'.flag
    BY <1>4 DEF AuthStart, LoginInv, CloudTypes, AuthKeys
  <2>2. QED
    BY <1>4, <2>1 DEF AuthStart, LoginInv, CloudTypes, TurnsOk, FollowOk, LoginResumes
<1>5. CASE SendTicket
  BY <1>5 DEF SendTicket, LoginInv, CloudTypes, TurnsOk, FollowOk, LoginResumes
<1>6. CASE Verified
  <2>1. at = "verify" /\ UNCHANGED <<auth, creds, bare>> /\ creds = {}
    BY <1>6 DEF Verified, LoginInv, TurnsOk
  <2>2. CASE at' = "none" /\ step' = "Err" /\ UNCHANGED chain
    BY <2>1, <2>2 DEF LoginInv, CloudTypes, TurnsOk, FollowOk, LoginResumes
  <2>3. CASE \E c \in Chains : Follow([gives |-> {}, blanks |-> {}], c)
    <3>1. PICK c \in Chains : Follow([gives |-> {}, blanks |-> {}], c)
      BY <2>3
    <3>2. auth' \in AuthKeys /\ creds' = [gives |-> {}, blanks |-> {}].gives
      BY <2>1 DEF LoginInv, CloudTypes
    <3>3. QED
      BY <2>1, <3>1, <3>2, FollowKeeps
  <2>4. QED
    BY <1>6, <2>2, <2>3 DEF Verified
<1>7. CASE TokenAnswered
  <2>1. PICK a \in FirstAnswers :
          /\ Store(a)
          /\ \/ \E c \in Chains : Follow(a, c)
             \/ at' = "none" /\ step' = "Err" /\ UNCHANGED chain
    BY <1>7 DEF TokenAnswered
  <2>2. at = "token" /\ UNCHANGED <<auth, bare>> /\ creds = {}
    BY <1>7 DEF TokenAnswered, LoginInv, TurnsOk
  <2>3. creds' = a.gives /\ a.gives \subseteq Credentials /\ auth' \in AuthKeys
    <3>1. PICK g \in SUBSET {"ssecurity", "token"} : a = [gives |-> g, blanks |-> {}]
      BY <2>1 DEF FirstAnswers
    <3>2. a.gives = g /\ g \subseteq Credentials
      BY <3>1 DEF Credentials
    <3>3. creds' = a.gives
      BY <2>1, <2>2 DEF Store
    <3>4. QED
      BY <2>2, <3>2, <3>3 DEF LoginInv, CloudTypes
  <2>4. CASE at' = "none" /\ step' = "Err" /\ UNCHANGED chain
    BY <2>2, <2>3, <2>4 DEF LoginInv, CloudTypes, TurnsOk, FollowOk, LoginResumes
  <2>5. CASE \E c \in Chains : Follow(a, c)
    <3>1. PICK c \in Chains : Follow(a, c)
      BY <2>5
    <3>2. QED
      BY <2>2, <2>3, <3>1, FollowKeeps
  <2>6. QED
    BY <2>1, <2>4, <2>5
<1>8. CASE FinishAuth
  BY <1>8, GetKeeps
<1>9. QED
  BY <1>1, <1>2, <1>3, <1>4, <1>5, <1>6, <1>7, <1>8 DEF CloudStep

\* cloud.rs: a login resumes where it asked to, and is done with what the service
\* gave along the way.
THEOREM LoginResumesAlways == XiaomiSpec => []LoginResumes
<1>0. NoAuth \in AuthKeys /\ NoChain \in [gave : Seq(Brought), pos : Nat, service : BOOLEAN]
  BY DEF NoAuth, AuthKeys, NoChain
<1>1. XiaomiInit => LoginInv
  BY <1>0 DEF XiaomiInit, CloudInit, LoginInv, CloudTypes, TurnsOk, FollowOk, LoginResumes
<1>2. LoginInv /\ [XiaomiNext]_xiaomivars => LoginInv'
  <2> SUFFICES ASSUME LoginInv, [XiaomiNext]_xiaomivars PROVE LoginInv'
    OBVIOUS
  <2>0. UNCHANGED cloudvars => LoginInv'
    <3> SUFFICES ASSUME UNCHANGED cloudvars PROVE LoginInv'
      OBVIOUS
    <3>1. UNCHANGED <<auth, at, step, creds, chain, bare>>
      BY DEF cloudvars
    <3>2. CloudTypes' /\ TurnsOk' /\ FollowOk'
      BY <3>1 DEF LoginInv, CloudTypes, TurnsOk, FollowOk
    <3>3. \A c, n : Given(c, n)' <=> Given(c, n)
      BY <3>1 DEF Given
    <3>4. LoginResumes'
      BY <3>1, <3>3 DEF LoginInv, LoginResumes
    <3>5. QED
      BY <3>2, <3>4 DEF LoginInv
  <2>9. CloudNew => LoginInv'
    BY <1>0 DEF CloudNew, LoginInv, CloudTypes, TurnsOk, FollowOk, LoginResumes
  <2>1. CASE Tool
    BY <2>1, <2>9, EntryKeeps DEF Tool
  <2>2. CASE Account
    BY <2>2, ExchangeKeeps DEF Account
  <2>3. CASE TokenLogin
    BY <2>3, EntryKeeps DEF TokenLogin
  <2>4. CASE Resolve
    BY <2>4, <2>9 DEF Resolve
  <2>5. CASE TokenLoggedIn \/ Search \/ Echo \/ WriteCommand \/ CommandAcked \/ CommandTimeout
             \/ ReadReply \/ Loop \/ ReadPacket \/ Cancel \/ Thread \/ World
    BY <2>0, <2>5 DEF TokenLoggedIn, Search, Echo, WriteCommand, CommandAcked, CommandTimeout,
                      ReadReply, Loop, ReadPacket, Cancel, Thread, World
  <2>6. CASE UNCHANGED xiaomivars
    BY <2>0, <2>6 DEF xiaomivars
  <2>7. QED
    BY <2>1, <2>2, <2>3, <2>4, <2>5, <2>6 DEF XiaomiNext, Client
<1>3. LoginInv => LoginResumes
  BY DEF LoginInv
<1>4. QED
  BY <1>1, <1>2, <1>3, PTL DEF XiaomiSpec

-----------------------------------------------------------------------------
(* The commands: what is about when an ack fires the writer. *)

Writing == {"auth", "start", "stop"}
Awaits  == {"authwait", "startwait", "stopwait"}

\* The camera, and the packets that concern commands.
CamTypes ==
  /\ DOMAIN cam = {"mode", "accepts", "frags", "got", "low", "acked", "replied"}
  /\ cam.mode \in {"udp", "tcp"}
  /\ mode \in {"none", "udp", "tcp"} /\ slot \in {"none", "armed", "fired"}

\* Nothing is written before the handshake is over.
HandshakeOk ==
  mode = "none" => /\ sent = {} /\ pc \in {"tool", "token", "resolve", "search", "echo", "ended"}
                   /\ \A d \in Commands : CmdAck(d) \notin toCli

\* An ack is sent by a camera that has the command.
AcksOk == \A d \in Commands : CmdAck(d) \in toCli => d \in cam.got

\* While a writer waits, nothing of another command is about, unless stale.
WaitOk ==
  mode = "udp" /\ ~stale /\ pc \in Awaits =>
    /\ slot = "armed" => \A d \in Commands :
         CmdAck(d) \in toCli \/ Cmd(d) \in toCam => d = CommandOf[pc]
    /\ slot = "fired" => CommandOf[pc] \in cam.got

SentOk == mode = "udp" /\ ~stale => sent \subseteq cam.got

SendInv == CamTypes /\ HandshakeOk /\ AcksOk /\ WaitOk /\ SentOk

\* A packet of another sort put on the network is no command's.
LEMMA CarriedIs ==
  ASSUME NEW net, NEW p
  PROVE  Carried(net, p) \subseteq net \cup {p}
  BY DEF Carried

LEMMA PacketsDiffer ==
  /\ \A c, d : /\ Cmd(c) = Cmd(d) => c = d
               /\ CmdAck(c) = CmdAck(d) => c = d
               /\ Cmd(c) # CmdAck(d) /\ Cmd(c) # Hello(d) /\ CmdAck(c) # Hello(d)
  /\ \A c, ch, k : /\ Cmd(c) # Ack(ch, k) /\ CmdAck(c) # Ack(ch, k)
                   /\ Cmd(c) # Drw(ch, k) /\ CmdAck(c) # Drw(ch, k)
<1>1. /\ \A c : Cmd(c).t = "cmd" /\ CmdAck(c).t = "cmdack" /\ Hello(c).t = "hello"
                /\ Cmd(c).c = c /\ CmdAck(c).c = c
      /\ \A ch, k : Ack(ch, k).t = "drwack" /\ Drw(ch, k).t = "drw"
  BY DEF Cmd, CmdAck, Hello, Ack, Drw
<1>2. QED
  BY <1>1

\* No command goes to the camera, no ack comes from it, and it forgets nothing:
\* what is about may only get less.
LEMMA QuietKeeps ==
  ASSUME SendInv, UNCHANGED <<mode, pc, sent, stale>>,
         \A d \in Commands : CmdAck(d) \in toCli' => CmdAck(d) \in toCli,
         \A d \in Commands : Cmd(d) \in toCam' => Cmd(d) \in toCam,
         slot' = slot, DOMAIN cam' = DOMAIN cam, cam'.got = cam.got, cam'.mode = cam.mode
  PROVE  SendInv'
  BY DEF SendInv, CamTypes, HandshakeOk, AcksOk, WaitOk, SentOk

LEMMA WorldKeeps ==
  ASSUME SendInv, World
  PROVE  SendInv'
<1>1. UNCHANGED <<mode, pc, sent, stale, slot>>
  BY DEF World, mine, Network, CamHello, CamReply, Lose, CamCommand, CamSend, CamAck
<1>2. CASE CamHello
  <2>1. toCli' \subseteq toCli \cup {Hello("punch"), Hello("ready")} /\ toCam' = toCam /\ cam' = cam
    BY <1>2, CarriedIs DEF CamHello
  <2>2. QED
    BY <1>1, <2>1, PacketsDiffer, QuietKeeps
<1>3. CASE CamReply
  <2>1. toCli' \subseteq toCli \cup {Drw(0, 1)} /\ toCam' = toCam /\ cam' = cam
    BY <1>3, CarriedIs DEF CamReply
  <2>2. QED
    BY <1>1, <2>1, PacketsDiffer, QuietKeeps
<1>4. CASE Lose
  <2>1. toCli' \subseteq toCli /\ toCam' \subseteq toCam /\ cam' = cam
    BY <1>4 DEF Lose
  <2>2. QED
    BY <1>1, <2>1, QuietKeeps
<1>5. ASSUME NEW c \in Commands, CamCommand(c) PROVE SendInv'
  <2>1. /\ mode # "none" /\ Cmd(c) \in toCam /\ cam' = [cam EXCEPT !.got = @ \cup {c}]
        /\ toCli' \subseteq toCli \cup {CmdAck(c)} /\ toCam' \subseteq toCam
    BY <1>5, CarriedIs DEF CamCommand
  <2>2. DOMAIN cam' = DOMAIN cam /\ cam'.got = cam.got \cup {c} /\ cam'.mode = cam.mode
    BY <2>1 DEF SendInv, CamTypes
  <2>3. CamTypes' /\ HandshakeOk'
    BY <1>1, <2>1, <2>2 DEF SendInv, CamTypes, HandshakeOk
  <2>4. AcksOk'
    BY <2>1, <2>2, PacketsDiffer DEF SendInv, AcksOk
  <2>5. WaitOk'
    BY <1>1, <2>1, <2>2, PacketsDiffer DEF SendInv, WaitOk
  <2>6. SentOk'
    BY <1>1, <2>2 DEF SendInv, SentOk
  <2>7. QED
    BY <2>3, <2>4, <2>5, <2>6 DEF SendInv
<1>6. ASSUME NEW k, CamSend(k) PROVE SendInv'
  <2>1. toCli' \subseteq toCli \cup {Drw(2, k)} /\ toCam' = toCam /\ cam' = cam
    BY <1>6, CarriedIs DEF CamSend
  <2>2. QED
    BY <1>1, <2>1, PacketsDiffer, QuietKeeps
<1>7. ASSUME NEW ch, NEW k, CamAck(ch, k) PROVE SendInv'
  <2>1. toCli' \subseteq toCli /\ toCam' \subseteq toCam
    BY <1>7 DEF CamAck
  <2>2. DOMAIN cam' = DOMAIN cam /\ cam'.got = cam.got /\ cam'.mode = cam.mode
    BY <1>7 DEF CamAck, SendInv, CamTypes
  <2>3. QED
    BY <1>1, <2>1, <2>2, QuietKeeps
<1>8. QED
  BY <1>2, <1>3, <1>4, <1>5, <1>6, <1>7 DEF World, Network

LEMMA ThreadKeeps ==
  ASSUME SendInv, Thread
  PROVE  SendInv'
<1>1. UNCHANGED <<pc, sent, stale>>
  BY DEF Thread, mine
<1>2. ASSUME NEW ch, NEW k, RecvUdp(ch, k, Open) \/ RecvTcp(ch, k, Open) PROVE SendInv'
  <2>1. /\ UNCHANGED <<mode, cam>> /\ toCli' \subseteq toCli /\ slot' = slot
        /\ toCam' \subseteq toCam \cup {Ack(ch, k)}
    BY <1>2, CarriedIs DEF RecvUdp, RecvTcp, TakenFrom
  <2>2. QED
    BY <1>1, <2>1, PacketsDiffer, QuietKeeps
<1>3. ASSUME NEW c \in Commands, RecvAck(c) PROVE SendInv'
  <2>1. /\ UNCHANGED <<mode, cam>>
        /\ CmdAck(c) \in toCli /\ toCli' \subseteq toCli /\ toCam' = toCam
        /\ slot' = IF slot = "armed" THEN "fired" ELSE slot
    BY <1>3 DEF RecvAck
  <2>2. c \in cam.got
    BY <2>1 DEF SendInv, AcksOk
  <2>3. WaitOk'
    BY <1>1, <2>1, <2>2 DEF SendInv, WaitOk, CamTypes
  <2>4. QED
    BY <1>1, <2>1, <2>3 DEF SendInv, CamTypes, HandshakeOk, AcksOk, SentOk
<1>4. CASE RecvError
  BY <1>1, <1>4, QuietKeeps DEF RecvError
<1>5. QED
  BY <1>2, <1>3, <1>4 DEF Thread, Worker

LEMMA WriteKeeps ==
  ASSUME SendInv, WriteCommand
  PROVE  SendInv'
<1>1. pc \in Writing /\ mode # "none"
  BY DEF WriteCommand, Writing, SendInv, HandshakeOk
<1>2. CommandOf[pc] \in Commands /\ Waiting[pc] \in Awaits /\ CommandOf[Waiting[pc]] = CommandOf[pc]
      /\ After[pc] \notin Awaits
  BY <1>1 DEF Writing, Awaits, Commands, CommandOf, Waiting, After
<1> DEFINE c == CommandOf[pc]
<1>3. CASE /\ mode = "udp" /\ SendCommand(c)
           /\ pc' = Waiting[pc] /\ left' = Repeats
           /\ stale' = (stale \/ \E d \in Commands :
                                    {CmdAck(d), Cmd(d)} \cap (toCli \cup toCam) # {})
           /\ UNCHANGED sent
  <2>1. /\ UNCHANGED <<mode, cam, toCli, sent>> /\ slot' = "armed" /\ toCam' \subseteq toCam \cup {Cmd(c)}
    BY <1>3, CarriedIs DEF SendCommand
  <2>2. CamTypes' /\ HandshakeOk' /\ AcksOk'
    BY <1>1, <2>1 DEF SendInv, CamTypes, HandshakeOk, AcksOk
  <2>3. ~stale' => ~stale /\ \A d \in Commands : CmdAck(d) \notin toCli /\ Cmd(d) \notin toCam
    BY <1>3
  <2>4. WaitOk'
    BY <1>2, <1>3, <2>1, <2>3, PacketsDiffer DEF WaitOk
  <2>5. SentOk'
    BY <2>1, <2>3 DEF SendInv, SentOk
  <2>6. QED
    BY <2>2, <2>4, <2>5 DEF SendInv
<1>4. CASE mode = "tcp"
  <2>1. /\ UNCHANGED <<mode, cam, toCli, slot>>
    BY <1>4 DEF WriteCommand, SendOnce, cs2vars
  <2>2. QED
    BY <1>4, <2>1 DEF SendInv, CamTypes, HandshakeOk, AcksOk, WaitOk, SentOk
<1>5. CASE mode = "udp" /\ ArmSlot /\ pc' = "ended" /\ UNCHANGED <<left, sent, stale>>
  <2>1. UNCHANGED <<mode, cam, toCli, sent, stale>> /\ slot' = "armed" /\ pc' \notin Awaits
    BY <1>5 DEF ArmSlot, Awaits
  <2>2. QED
    BY <1>1, <1>5, <2>1 DEF SendInv, CamTypes, HandshakeOk, AcksOk, WaitOk, SentOk
<1>6. QED
  BY <1>3, <1>4, <1>5 DEF WriteCommand

LEMMA AwaitKeeps ==
  ASSUME SendInv, CommandAcked \/ CommandTimeout
  PROVE  SendInv'
<1>1. pc \in Awaits /\ mode # "none"
  BY DEF CommandAcked, CommandTimeout, Awaits, SendInv, HandshakeOk
<1>2. CommandOf[pc] \in Commands /\ After[CommandOf[pc]] \notin Awaits \cup Writing /\ "ended" \notin Awaits \cup Writing
  BY <1>1 DEF Awaits, Writing, Commands, CommandOf, After
<1>3. UNCHANGED <<mode, cam, toCli, stale>>
  BY DEF CommandAcked, CommandTimeout, ClearSlot, Resend, cs2vars
<1>4. CASE CommandAcked
  <2>1. /\ slot = "fired" /\ slot' = "none" /\ toCam' = toCam
        /\ pc' = After[CommandOf[pc]] /\ sent' = sent \cup {CommandOf[pc]}
    BY <1>4 DEF CommandAcked, ClearSlot
  <2>2. SentOk'
    BY <1>1, <1>3, <2>1 DEF SendInv, SentOk, WaitOk
  <2>3. QED
    BY <1>1, <1>2, <1>3, <2>1, <2>2 DEF SendInv, CamTypes, HandshakeOk, AcksOk, WaitOk
<1>5. CASE CommandTimeout /\ left > 1 /\ Resend(CommandOf[pc]) /\ UNCHANGED pc
  <2>1. /\ slot = "armed" /\ slot' = slot /\ UNCHANGED <<pc, sent>>
        /\ toCam' \subseteq toCam \cup {Cmd(CommandOf[pc])}
    BY <1>5, CarriedIs DEF CommandTimeout, Resend
  <2>2. WaitOk'
    BY <1>1, <1>2, <1>3, <2>1, PacketsDiffer DEF SendInv, WaitOk
  <2>3. QED
    BY <1>1, <1>3, <2>1, <2>2 DEF SendInv, CamTypes, HandshakeOk, AcksOk, SentOk
<1>6. CASE CommandTimeout /\ ~(left > 1)
  <2>1. slot' = "none" /\ pc' = "ended" /\ sent' = sent /\ toCam' = toCam
    BY <1>6 DEF CommandTimeout, ClearSlot
  <2>2. QED
    BY <1>1, <1>2, <1>3, <2>1 DEF SendInv, CamTypes, HandshakeOk, AcksOk, WaitOk, SentOk
<1>7. CASE CommandTimeout /\ pc' = "ended" /\ UNCHANGED cs2vars
  <2>1. UNCHANGED <<slot, toCam, sent>>
    BY <1>7 DEF CommandTimeout, cs2vars
  <2>2. QED
    BY <1>1, <1>2, <1>3, <1>7, <2>1 DEF SendInv, CamTypes, HandshakeOk, AcksOk, WaitOk, SentOk
<1>8. QED
  BY <1>4, <1>5, <1>6, <1>7 DEF CommandTimeout

LEMMA SendInvariant == XiaomiSpec => []SendInv
<1>1. XiaomiInit => SendInv
  <2> SUFFICES ASSUME XiaomiInit PROVE SendInv
    OBVIOUS
  <2>1. CamTypes /\ toCli = {} /\ sent = {} /\ pc = "tool" /\ mode = "none"
    BY DEF XiaomiInit, Cs2Init, NewCamera, CamTypes
  <2>2. QED
    BY <2>1 DEF SendInv, HandshakeOk, AcksOk, WaitOk, SentOk, Writing, Awaits
<1>2. SendInv /\ [XiaomiNext]_xiaomivars => SendInv'
  <2> SUFFICES ASSUME SendInv, [XiaomiNext]_xiaomivars PROVE SendInv'
    OBVIOUS
  <2>1. ASSUME UNCHANGED <<mode, sent, stale, slot, cam, toCli, toCam>>,
               pc' = pc \/ pc' \notin Awaits,
               mode = "none" => pc' \in {"tool", "token", "resolve", "search", "echo", "ended"}
        PROVE  SendInv'
    BY <2>1 DEF SendInv, CamTypes, HandshakeOk, AcksOk, WaitOk, SentOk
  <2>2. CASE Tool \/ TokenLogin \/ TokenLoggedIn \/ Account \/ Resolve \/ Cancel \/ UNCHANGED xiaomivars
    <3>1. UNCHANGED <<mode, sent, stale, slot, cam, toCli, toCam>>
      BY <2>2 DEF Tool, TokenLogin, TokenLoggedIn, Account, Resolve, Cancel, xiaomivars, mine, cs2vars
    <3>2. pc' = pc \/ pc' \in {"token", "resolve", "search", "ended"}
      BY <2>2 DEF Tool, TokenLogin, TokenLoggedIn, Account, Resolve, Cancel, xiaomivars, mine
    <3>3. QED
      BY <2>1, <3>1, <3>2 DEF Awaits, SendInv, HandshakeOk
  <2>3. CASE ReadReply \/ Loop \/ ReadPacket
    <3>1. UNCHANGED <<mode, sent, stale, slot, cam, toCli, toCam>>
      BY <2>3 DEF ReadReply, Loop, ReadPacket, cs2vars, TakeFrom
    <3>2. pc \in {"reply", "loop", "read"} /\ pc' \in {"start", "stop", "read", "loop", "ended"}
      BY <2>3 DEF ReadReply, Loop, ReadPacket
    <3>3. mode # "none"
      BY <3>2 DEF SendInv, HandshakeOk
    <3>4. QED
      BY <2>1, <3>1, <3>2, <3>3 DEF Awaits
  <2>4. ASSUME NEW x, SendHello(x), UNCHANGED mine PROVE SendInv'
    <3>1. /\ UNCHANGED <<mode, pc, sent, stale, slot, cam, toCli>> /\ toCam' \subseteq toCam \cup {Hello(x)}
      BY <2>4, CarriedIs DEF SendHello, mine
    <3>2. QED
      BY <3>1, PacketsDiffer, QuietKeeps
  <2>5. CASE Search
    <3>1. CASE Punched /\ pc' = "echo" /\ UNCHANGED <<cs2vars, sent, stale>>
      BY <2>1, <3>1 DEF cs2vars, Awaits
    <3>2. CASE pc' = "ended" /\ UNCHANGED <<cs2vars, sent, stale>>
      BY <2>1, <3>2 DEF cs2vars, Awaits
    <3>3. QED
      BY <2>4, <2>5, <3>1, <3>2 DEF Search
  <2>6. CASE Echo
    <3>1. CASE Ready /\ pc' = "auth" /\ UNCHANGED <<sent, stale>>
      <4>1. sent = {} /\ mode' \in {"udp", "tcp"} /\ toCli' = {} /\ toCam' = {} /\ UNCHANGED <<slot, cam>>
        BY <3>1 DEF Ready, SendInv, CamTypes, HandshakeOk
      <4>2. QED
        BY <3>1, <4>1 DEF SendInv, CamTypes, HandshakeOk, AcksOk, WaitOk, SentOk, Awaits
    <3>2. CASE pc' = "ended" /\ UNCHANGED <<cs2vars, sent, stale>>
      BY <2>1, <3>2 DEF cs2vars, Awaits
    <3>3. QED
      BY <2>4, <2>6, <3>1, <3>2 DEF Echo
  <2>7. QED
    BY <2>2, <2>3, <2>5, <2>6, WriteKeeps, AwaitKeeps, ThreadKeeps, WorldKeeps DEF XiaomiNext, Client
<1>3. QED
  BY <1>1, <1>2, PTL DEF XiaomiSpec

\* cs2.rs:293: a command that counts as sent over UDP is with the camera, unless an
\* earlier command or its ack was still about when it was written.
THEOREM SentIsReceivedAlways == XiaomiSpec => []SentIsReceived
<1>1. SendInv => SentIsReceived
  BY DEF SendInv, SentOk, SentIsReceived
<1>2. QED
  BY <1>1, SendInvariant, PTL

\* A set of natural numbers that is not empty has a least element.
LEMMA LeastNat ==
  ASSUME NEW T \in SUBSET Nat, T # {}
  PROVE  \E x \in T : \A y \in T : x <= y
<1> DEFINE I == {0..x : x \in T}
           R == StrictSubsetOrdering(Nat)
<1>1. \A x \in Nat : 0..x \in FiniteSubsetsOf(Nat)
  BY FS_Interval DEF FiniteSubsetsOf
<1>2. I \subseteq FiniteSubsetsOf(Nat) /\ I # {}
  BY <1>1
<1>3. IsWellFoundedOn(R, FiniteSubsetsOf(Nat))
  BY FS_StrictSubsetOrderingWellFounded
<1> HIDE DEF I, R
<1>4. PICK i \in I : \A j \in I : ~ (<<j, i>> \in R)
  BY <1>2, <1>3, WFMin
<1>5. PICK x \in T : i = 0..x
  BY DEF I
<1>6. ASSUME NEW y \in T, y < x PROVE FALSE
  <2>1. /\ 0..y \in I /\ 0..y \subseteq 0..x /\ 0..y # 0..x
        /\ 0..x \in SUBSET Nat /\ 0..y \in SUBSET Nat
    BY <1>6 DEF I
  <2>2. <<0..y, 0..x>> \in R
    BY <2>1 DEF R, StrictSubsetOrdering
  <2>3. QED
    BY <2>1, <2>2, <1>4, <1>5
<1>7. QED
  BY <1>6

-----------------------------------------------------------------------------
(* The command queue of a loop: what its thread mixes once it has caught up. *)

-----------------------------------------------------------------------------
(* The loops of the worker thread, as iterations. *)

\* What holds at 0, and at i whenever at i - 1, holds up to n.
LEMMA UpTo ==
  ASSUME NEW n \in Nat, NEW P, 0 \in P, \A i \in 1..n : i - 1 \in P => i \in P
  PROVE  0..n \subseteq P
<1> DEFINE T == {i \in 0..n : i \notin P}
<1>1. ASSUME T # {} PROVE FALSE
  <2>0. T \in SUBSET Nat
    OBVIOUS
  <2>1. PICK k \in T : \A j \in T : k <= j
    <3> HIDE DEF T
    <3>1. QED
      BY <1>1, <2>0, LeastNat
  <2>2. k \in 1..n /\ k - 1 \in 0..n /\ k - 1 \notin T
    BY <2>1
  <2>3. QED
    BY <2>1, <2>2
<1>2. QED
  BY <1>1

\* f takes n turns of push's loop, starting from st.
Pushes(f, st, open, n) ==
  f = [i \in 0..n |-> IF i = 0 THEN st ELSE TakeRecord(f[i - 1], open)]

PushesAt(f, st, open, i) == f[i] = IF i = 0 THEN st ELSE TakeRecord(f[i - 1], open)

LEMMA PushesPoint ==
  ASSUME NEW f, NEW st, NEW open, NEW n \in Nat, Pushes(f, st, open, n), NEW i \in 0..n
  PROVE  PushesAt(f, st, open, i)
<1> DEFINE E(j) == IF j = 0 THEN st ELSE TakeRecord(f[j - 1], open)
<1>1. f = [j \in 0..n |-> E(j)]
  BY DEF Pushes
<1> HIDE DEF E
<1>2. f[i] = E(i)
  BY <1>1
<1>3. QED
  BY <1>2 DEF E, PushesAt

LEMMA PushesExists ==
  ASSUME NEW st, NEW open, NEW n \in Nat
  PROVE  \E f : Pushes(f, st, open, n)
<1> DEFINE P == {m \in Nat : \E f : Pushes(f, st, open, m)}
<1>1. 0 \in P
  <2>1. Pushes([i \in 0..0 |-> st], st, open, 0)
    BY DEF Pushes
  <2>2. QED
    BY <2>1
<1>2. ASSUME NEW m \in 1..n, m - 1 \in P PROVE m \in P
  <2>1. PICK g : Pushes(g, st, open, m - 1)
    BY <1>2
  <2> DEFINE f == [i \in 0..m |-> IF i < m THEN g[i] ELSE TakeRecord(g[m - 1], open)]
  <2>2. f[m] = TakeRecord(g[m - 1], open) /\ \A i \in 0..(m - 1) : f[i] = g[i]
    OBVIOUS
  <2>3. ASSUME NEW i \in 0..m PROVE PushesAt(f, st, open, i)
    <3>1. CASE i < m
      <4>1. i \in 0..(m - 1) /\ m - 1 \in Nat /\ (i # 0 => i - 1 \in 0..(m - 1))
        BY <3>1
      <4>2. PushesAt(g, st, open, i)
        BY <2>1, <4>1, PushesPoint
      <4>3. f[i] = g[i] /\ (i # 0 => f[i - 1] = g[i - 1])
        BY <2>2, <4>1
      <4> HIDE DEF f
      <4>4. QED
        BY <4>2, <4>3 DEF PushesAt
    <3>2. CASE i = m
      <4>1. i # 0 /\ f[i - 1] = g[m - 1]
        BY <2>2, <3>2
      <4> HIDE DEF f
      <4>2. QED
        BY <2>2, <3>2, <4>1 DEF PushesAt
    <3>3. QED
      BY <3>1, <3>2
  <2> DEFINE E(i) == IF i = 0 THEN st ELSE TakeRecord(f[i - 1], open)
  <2>4. f = [i \in 0..m |-> E(i)]
    <3>1. \A i \in 0..m : f[i] = E(i)
      BY <2>3 DEF PushesAt
    <3>2. f = [i \in 0..m |-> f[i]]
      OBVIOUS
    <3> HIDE DEF f, E
    <3>3. QED
      BY <3>1, <3>2
  <2>5. Pushes(f, st, open, m)
    BY <2>4 DEF Pushes
  <2> HIDE DEF f
  <2>6. QED
    BY <2>5
<1>3. 0..n \subseteq P
  <2> HIDE DEF P
  <2>1. QED
    BY <1>1, <1>2, UpTo
<1>4. QED
  BY <1>3

\* f are the states of push's loop: n turns, from st with the bytes at its end.
PushTurns(f, st, bytes, open, n) ==
  /\ f[0] = [st EXCEPT !.data = st.data \o bytes]
  /\ \A i \in 1..n : f[i] = TakeRecord(f[i - 1], open)

DrainTurns(f, st, open, n) ==
  f[0] = st /\ \A i \in 1..n : f[i] = Drain(f[i - 1], open)

\* Push, turn by turn.
LEMMA PushIs ==
  ASSUME NEW st, NEW bytes, NEW open, NEW n \in Nat, n = Len(st.data \o bytes),
         "data" \in DOMAIN st
  PROVE  \E f : PushTurns(f, st, bytes, open, n) /\ Push(st, bytes, open) = f[n]
<1> DEFINE all == [st EXCEPT !.data = st.data \o bytes]
           f == CHOOSE g : Pushes(g, all, open, Len(all.data))
<1>1. Push(st, bytes, open) = f[Len(all.data)]
  BY Zenon DEF Push, Pushes
<1>2. Len(all.data) = n
  OBVIOUS
<1>3. Pushes(f, all, open, n)
  BY <1>2, PushesExists
<1> HIDE DEF f, all
<1>4. f[0] = all
  BY <1>3, PushesPoint DEF PushesAt
<1>5. ASSUME NEW i \in 1..n PROVE f[i] = TakeRecord(f[i - 1], open)
  <2>1. i \in 0..n /\ i # 0
    OBVIOUS
  <2>2. QED
    BY <1>3, <2>1, PushesPoint DEF PushesAt
<1>6. QED
  BY <1>1, <1>2, <1>4, <1>5 DEF all, PushTurns

\* f takes n turns of push_seq's loop, starting from st.
Drains(f, st, open, n) ==
  f = [i \in 0..n |-> IF i = 0 THEN st ELSE Drain(f[i - 1], open)]

DrainsAt(f, st, open, i) == f[i] = IF i = 0 THEN st ELSE Drain(f[i - 1], open)

LEMMA DrainsPoint ==
  ASSUME NEW f, NEW st, NEW open, NEW n \in Nat, Drains(f, st, open, n), NEW i \in 0..n
  PROVE  DrainsAt(f, st, open, i)
<1> DEFINE E(j) == IF j = 0 THEN st ELSE Drain(f[j - 1], open)
<1>1. f = [j \in 0..n |-> E(j)]
  BY DEF Drains
<1> HIDE DEF E
<1>2. f[i] = E(i)
  BY <1>1
<1>3. QED
  BY <1>2 DEF E, DrainsAt

LEMMA DrainsExists ==
  ASSUME NEW st, NEW open, NEW n \in Nat
  PROVE  \E f : Drains(f, st, open, n)
<1> DEFINE P == {m \in Nat : \E f : Drains(f, st, open, m)}
<1>1. 0 \in P
  <2>1. Drains([i \in 0..0 |-> st], st, open, 0)
    BY DEF Drains
  <2>2. QED
    BY <2>1
<1>2. ASSUME NEW m \in 1..n, m - 1 \in P PROVE m \in P
  <2>1. PICK g : Drains(g, st, open, m - 1)
    BY <1>2
  <2> DEFINE f == [i \in 0..m |-> IF i < m THEN g[i] ELSE Drain(g[m - 1], open)]
  <2>2. f[m] = Drain(g[m - 1], open) /\ \A i \in 0..(m - 1) : f[i] = g[i]
    OBVIOUS
  <2>3. ASSUME NEW i \in 0..m PROVE DrainsAt(f, st, open, i)
    <3>1. CASE i < m
      <4>1. i \in 0..(m - 1) /\ m - 1 \in Nat /\ (i # 0 => i - 1 \in 0..(m - 1))
        BY <3>1
      <4>2. DrainsAt(g, st, open, i)
        BY <2>1, <4>1, DrainsPoint
      <4>3. f[i] = g[i] /\ (i # 0 => f[i - 1] = g[i - 1])
        BY <2>2, <4>1
      <4> HIDE DEF f
      <4>4. QED
        BY <4>2, <4>3 DEF DrainsAt
    <3>2. CASE i = m
      <4>1. i # 0 /\ f[i - 1] = g[m - 1]
        BY <2>2, <3>2
      <4> HIDE DEF f
      <4>2. QED
        BY <2>2, <3>2, <4>1 DEF DrainsAt
    <3>3. QED
      BY <3>1, <3>2
  <2> DEFINE E(i) == IF i = 0 THEN st ELSE Drain(f[i - 1], open)
  <2>4. f = [i \in 0..m |-> E(i)]
    <3>1. \A i \in 0..m : f[i] = E(i)
      BY <2>3 DEF DrainsAt
    <3>2. f = [i \in 0..m |-> f[i]]
      OBVIOUS
    <3> HIDE DEF f, E
    <3>3. QED
      BY <3>1, <3>2
  <2>5. Drains(f, st, open, m)
    BY <2>4 DEF Drains
  <2> HIDE DEF f
  <2>6. QED
    BY <2>5
<1>3. 0..n \subseteq P
  <2> HIDE DEF P
  <2>1. QED
    BY <1>1, <1>2, UpTo
<1>4. QED
  BY <1>3

\* push_seq's loop, turn by turn.
LEMMA DrainedIs ==
  ASSUME NEW st, NEW open
  PROVE  \E f : DrainTurns(f, st, open, PushSize + 1) /\ Drained(st, open) = f[PushSize + 1]
<1> DEFINE n == PushSize + 1
           f == CHOOSE g : Drains(g, st, open, n)
<1>0. n \in Nat
  BY Cs2Assumption
<1>1. Drained(st, open) = f[n]
  BY Zenon DEF Drained, Drains
<1>3. Drains(f, st, open, n)
  BY <1>0, DrainsExists
<1> HIDE DEF f, n
<1>4. f[0] = st
  BY <1>0, <1>3, DrainsPoint DEF DrainsAt
<1>5. ASSUME NEW i \in 1..n PROVE f[i] = Drain(f[i - 1], open)
  <2>1. i \in 0..n /\ i # 0
    BY <1>0
  <2>2. QED
    BY <1>0, <1>3, <2>1, DrainsPoint DEF DrainsAt
<1>6. QED
  BY <1>1, <1>4, <1>5 DEF n, DrainTurns

-----------------------------------------------------------------------------
(* Sequence numbers within a window of half the number space. *)

\* What a positive multiple comes to at least.
LEMMA AtLeastOnce ==
  ASSUME NEW m \in Nat, NEW a \in Nat \ {0}
  PROVE  m * a \in Nat /\ m * a >= m
<1>1. PICK b \in Nat : a = b + 1
  <2>1. a - 1 \in Nat /\ a = (a - 1) + 1
    OBVIOUS
  <2>2. QED
    BY <2>1
<1>2. m * a = m * b + m /\ m * b \in Nat
  BY <1>1
<1>3. QED
  BY <1>2

\* Division with a remainder leaves one remainder.
LEMMA RemainderIs ==
  ASSUME NEW m \in Nat \ {0}, NEW n \in Int, NEW q \in Int, NEW r \in 0..(m - 1), n = m * q + r
  PROVE  n % m = r
<1>1. PICK p \in Int, s \in 0..(m - 1) : n = m * p + s /\ s = n % m
  <2>1. /\ n \div m \in Int /\ n % m \in 0..(m - 1) /\ n = m * (n \div m) + (n % m)
    OBVIOUS
  <2>2. QED
    BY <2>1
<1>2. ASSUME p < q PROVE FALSE
  <2>1. q - p \in Nat \ {0}
    BY <1>2
  <2>2. m * (q - p) >= m
    BY <2>1, AtLeastOnce
  <2>3. m * (q - p) = m * q - m * p
    OBVIOUS
  <2>4. PICK a \in Int, b \in Int : a = m * q /\ b = m * p
    OBVIOUS
  <2>5. a - b >= m /\ a + r = b + s
    BY <1>1, <2>2, <2>3, <2>4
  <2>6. QED
    BY <1>1, <2>5
<1>3. ASSUME q < p PROVE FALSE
  <2>1. p - q \in Nat \ {0}
    BY <1>3
  <2>2. m * (p - q) >= m
    BY <2>1, AtLeastOnce
  <2>3. m * (p - q) = m * p - m * q
    OBVIOUS
  <2>4. PICK a \in Int, b \in Int : a = m * q /\ b = m * p
    OBVIOUS
  <2>5. b - a >= m /\ a + r = b + s
    BY <1>1, <2>2, <2>3, <2>4
  <2>6. QED
    BY <1>1, <2>5
<1>4. p = q
  BY <1>2, <1>3
<1>5. PICK a \in Int : a = m * q /\ a = m * p
  BY <1>4
<1>6. n = a + r
  BY <1>5
<1>7. n = a + s
  BY <1>1, <1>5
<1>8. r = s
  BY <1>5, <1>6, <1>7
<1>9. QED
  BY <1>1, <1>8

\* A number is a multiple of the modulus and its remainder.
LEMMA DivisionIs ==
  ASSUME NEW m \in Nat \ {0}, NEW n \in Int
  PROVE  \E q \in Int : \E r \in 0..(m - 1) : n = m * q + r /\ n % m = r
<1>1. /\ n \div m \in Int /\ n % m \in 0..(m - 1) /\ n = m * (n \div m) + (n % m)
  OBVIOUS
<1>2. QED
  BY <1>1

\* The same, of all of them.
LEMMA DivisionOf ==
  ASSUME NEW m \in Nat \ {0}
  PROVE  \A n \in Int : \E q \in Int : \E r \in 0..(m - 1) : n = m * q + r /\ n % m = r
BY DivisionIs

LEMMA HalfIs ==
  Modulus \div 2 \in Nat \ {0} /\ Modulus = 2 * (Modulus \div 2)
BY Cs2Assumption

LEMMA SeqNext ==
  ASSUME NEW n \in Nat
  PROVE  /\ ((n % Modulus) + 1) % Modulus = (n + 1) % Modulus
         /\ SeqNo(n + 1) = n % Modulus /\ SeqNo(n + 1) \in 0..(Modulus - 1)
<1>1. PICK m \in Nat \ {0} : m = Modulus
  BY Cs2Assumption
<1>2. PICK q \in Int, r \in 0..(m - 1) : n = m * q + r /\ n % m = r
  <2>1. n \in Int
    OBVIOUS
  <2>2. QED
    BY <2>1, DivisionOf
<1>3. ((n % m) + 1) % m = (n + 1) % m
  <2>1. PICK x \in Int, y \in Int : x = r + 1 /\ y = n + 1
    OBVIOUS
  <2>2. PICK p \in Int, s \in 0..(m - 1) : x = m * p + s /\ x % m = s
    BY DivisionIs
  <2>3. PICK z \in Int : z = q + p /\ m * z = m * q + m * p
    OBVIOUS
  <2>4. PICK a \in Int, b \in Int, c \in Int : a = m * q /\ b = m * p /\ c = m * z
    OBVIOUS
  <2>5. y = m * z + s
    BY <1>2, <2>1, <2>2, <2>3, <2>4
  <2>6. y % m = s
    BY <2>5, RemainderIs
  <2>7. QED
    BY <1>2, <2>1, <2>2, <2>6
<1>4. (n + 1) - 1 = n
  OBVIOUS
<1>5. QED
  BY <1>1, <1>2, <1>3, <1>4 DEF SeqNo

\* The difference as a signed word is how far k is ahead of f + 1.
LEMMA AheadIs ==
  ASSUME NEW f \in Nat, NEW k \in Nat \ {0}, NEW h \in Nat, h = Modulus \div 2,
         f + 1 - h <= k, k < f + 1 + h
  PROVE  Ahead(SeqNo(k), f % Modulus) = k - (f + 1)
<1>1. PICK m \in Nat \ {0} : m = Modulus /\ m = 2 * h
  BY Cs2Assumption, HalfIs
<1>2. PICK q \in Int, r \in 0..(m - 1) : k - 1 = m * q + r /\ (k - 1) % m = r
  <2>1. k - 1 \in Int
    OBVIOUS
  <2>2. QED
    BY <2>1, DivisionOf
<1>3. PICK p \in Int, s \in 0..(m - 1) : f = m * p + s /\ f % m = s
  <2>1. f \in Int
    OBVIOUS
  <2>2. QED
    BY <2>1, DivisionOf
<1>4. PICK e \in Int : e = k - (f + 1)
  OBVIOUS
<1>5. -h <= e /\ e < h
  BY <1>4
<1>6. PICK d \in 0..(m - 1) : d = (r - s) % m
  OBVIOUS
<1>7. PICK t \in Int, a \in Int, b \in Int, c \in Int :
        t = p - q /\ a = m * q /\ b = m * p /\ c = m * t /\ c = b - a
  <2>1. m * (p - q) = m * p - m * q
    OBVIOUS
  <2>2. QED
    BY <2>1
<1>8. r - s = c + e
  BY <1>2, <1>3, <1>4, <1>7
<1>9. CASE e >= 0
  <2>1. e \in 0..(m - 1) /\ r - s = m * t + e
    BY <1>1, <1>5, <1>7, <1>8, <1>9
  <2>2. d = e
    <3>1. PICK y \in Int : y = r - s
      OBVIOUS
    <3>2. QED
      BY <1>6, <2>1, <3>1, RemainderIs
  <2>3. QED
    BY <1>1, <1>2, <1>3, <1>4, <1>5, <1>6, <2>2 DEF SeqNo, Ahead
<1>10. CASE e < 0
  <2>1. m * (t - 1) = m * t - m
    OBVIOUS
  <2>2. PICK g \in Int : g = m * (t - 1) /\ g = c - m
    BY <1>7, <2>1
  <2>3. e + m \in 0..(m - 1) /\ r - s = g + (e + m)
    BY <1>1, <1>5, <1>8, <1>10, <2>2
  <2>4. d = e + m
    <3>1. PICK y \in Int, x \in Int, u \in Int : y = r - s /\ x = e + m /\ u = t - 1
      OBVIOUS
    <3>2. y = m * u + x /\ x \in 0..(m - 1)
      BY <2>2, <2>3, <3>1
    <3>3. y % m = x
      BY <3>2, RemainderIs
    <3>4. QED
      BY <1>6, <3>1, <3>3
  <2>5. d >= h /\ d - m = e
    BY <1>1, <1>5, <2>4
  <2>6. QED
    BY <1>1, <1>2, <1>3, <1>4, <1>6, <2>5 DEF SeqNo, Ahead
<1>11. QED
  BY <1>9, <1>10

LEMMA SeqNoDiffer ==
  ASSUME NEW j \in Nat \ {0}, NEW k \in Nat \ {0}, j - k < Modulus, k - j < Modulus,
         SeqNo(j) = SeqNo(k)
  PROVE  j = k
<1>1. PICK m \in Nat \ {0} : m = Modulus
  BY Cs2Assumption
<1>2. PICK q \in Int, r \in 0..(m - 1) : j - 1 = m * q + r /\ (j - 1) % m = r
  <2>1. j - 1 \in Int
    OBVIOUS
  <2>2. QED
    BY <2>1, DivisionOf
<1>3. PICK p \in Int, s \in 0..(m - 1) : k - 1 = m * p + s /\ (k - 1) % m = s
  <2>1. k - 1 \in Int
    OBVIOUS
  <2>2. QED
    BY <2>1, DivisionOf
<1>4. r = s
  BY <1>1, <1>2, <1>3 DEF SeqNo
<1>5. ASSUME q < p PROVE FALSE
  <2>1. m * (p - q) = m * p - m * q /\ m * (p - q) >= m
    <3>1. p - q \in Nat \ {0}
      BY <1>5
    <3>2. m * (p - q) >= m
      BY <3>1, AtLeastOnce
    <3>3. QED
      BY <3>2
  <2>2. PICK a \in Int, b \in Int : a = m * q /\ b = m * p /\ b - a >= m
    BY <2>1
  <2>3. QED
    BY <1>1, <1>2, <1>3, <1>4, <2>2
<1>6. ASSUME p < q PROVE FALSE
  <2>1. m * (q - p) = m * q - m * p /\ m * (q - p) >= m
    <3>1. q - p \in Nat \ {0}
      BY <1>6
    <3>2. m * (q - p) >= m
      BY <3>1, AtLeastOnce
    <3>3. QED
      BY <3>2
  <2>2. PICK a \in Int, b \in Int : a = m * q /\ b = m * p /\ a - b >= m
    BY <2>1
  <2>3. QED
    BY <1>1, <1>2, <1>3, <1>4, <2>2
<1>7. p = q
  BY <1>5, <1>6
<1>8. PICK a \in Int : a = m * q /\ j - 1 = a + r /\ k - 1 = a + s
  BY <1>2, <1>3, <1>7
<1>9. QED
  BY <1>4, <1>8

\* What push handles: bytes of a record under way, records for the reader.
StTypes(st) ==
  /\ {"data", "size", "q", "full"} \subseteq DOMAIN st
  /\ st.data \in Seq(Nat) /\ st.size \in Nat /\ st.q \in Seq(Seq(Nat)) /\ st.full \in BOOLEAN

SameRest(st, t) ==
  /\ DOMAIN t = DOMAIN st
  /\ \A x \in DOMAIN st \ {"data", "size", "q", "full"} : t[x] = st[x]

LEMMA SubSeqTypes ==
  ASSUME NEW S, NEW s \in Seq(S), NEW m \in Nat, NEW n \in Nat, n <= Len(s)
  PROVE  SubSeq(s, m + 1, n) \in Seq(S)
  OBVIOUS

LEMMA TakeRecordTypes ==
  ASSUME NEW st, NEW open, StTypes(st)
  PROVE  StTypes(TakeRecord(st, open)) /\ SameRest(st, TakeRecord(st, open))
<1> DEFINE size == IF st.size = 0 THEN PrefixOf(st.data) ELSE st.size
           data == IF st.size = 0 THEN Tail2(st.data, Hdr) ELSE st.data
<1>1. CASE st.full \/ Len(st.data) <= Hdr
  BY <1>1 DEF TakeRecord, SameRest
<1>2. CASE ~(st.full \/ Len(st.data) <= Hdr)
  <2>1. Hdr = 4 /\ st.data \in Seq(Nat) /\ Len(st.data) \in Nat /\ Len(st.data) > 4 /\ st.size \in Nat
    BY <1>2 DEF StTypes, Hdr
  <2>2. PrefixOf(st.data) \in Nat
    <3>1. \A i \in 1..4 : st.data[i] \in Nat
      BY <2>1
    <3>2. QED
      BY <3>1 DEF PrefixOf
  <2>3. Tail2(st.data, Hdr) \in Seq(Nat)
    BY <2>1 DEF Tail2
  <2>4. size \in Nat /\ data \in Seq(Nat)
    BY <2>1, <2>2, <2>3
  <2>5. TakeRecord(st, open) =
          IF size > Len(data) THEN [st EXCEPT !.data = data, !.size = size]
          ELSE IF ~open \/ Len(st.q) = QueueCap THEN [st EXCEPT !.full = TRUE]
          ELSE [st EXCEPT !.data = Tail2(data, size), !.size = 0,
                          !.q = Append(st.q, SubSeq(data, 1, size))]
    BY <1>2 DEF TakeRecord
  <2> HIDE DEF size, data
  <2>6. CASE size > Len(data)
    BY <2>4, <2>5, <2>6 DEF StTypes, SameRest
  <2>7. CASE ~(size > Len(data))
    <3>1. Tail2(data, size) \in Seq(Nat) /\ SubSeq(data, 1, size) \in Seq(Nat)
      BY <2>4, <2>7 DEF Tail2
    <3>2. Append(st.q, SubSeq(data, 1, size)) \in Seq(Seq(Nat))
      BY <3>1 DEF StTypes
    <3>3. CASE ~open \/ Len(st.q) = QueueCap
      BY <2>5, <2>7, <3>3 DEF StTypes, SameRest
    <3>4. CASE ~(~open \/ Len(st.q) = QueueCap)
      <4>1. PICK D \in Seq(Nat), Q \in Seq(Seq(Nat)) :
              TakeRecord(st, open) = [st EXCEPT !.data = D, !.size = 0, !.q = Q]
        BY <2>5, <2>7, <3>1, <3>2, <3>4
      <4>2. PICK t : t = TakeRecord(st, open)
        OBVIOUS
      <4>3. /\ DOMAIN t = DOMAIN st /\ t.data = D /\ t.size = 0 /\ t.q = Q /\ t.full = st.full
            /\ \A x \in DOMAIN st \ {"data", "size", "q", "full"} : t[x] = st[x]
        BY <4>1, <4>2 DEF StTypes
      <4>4. StTypes(t) /\ SameRest(st, t)
        BY <4>3 DEF StTypes, SameRest
      <4>5. QED
        BY <4>2, <4>4
    <3>5. QED
      BY <3>3, <3>4
  <2>8. QED
    BY <2>6, <2>7
<1>3. QED
  BY <1>1, <1>2

LEMMA PushTypes ==
  ASSUME NEW st, NEW bytes \in Seq(Nat), NEW open, StTypes(st)
  PROVE  StTypes(Push(st, bytes, open)) /\ SameRest(st, Push(st, bytes, open))
<1> DEFINE all == [st EXCEPT !.data = st.data \o bytes]
<1>a. st.data \o bytes \in Seq(Nat) /\ "data" \in DOMAIN st
  BY DEF StTypes
<1>0. PICK n \in Nat : n = Len(st.data \o bytes)
  BY <1>a
<1>1. PICK f : PushTurns(f, st, bytes, open, n) /\ Push(st, bytes, open) = f[n]
  BY <1>a, <1>0, PushIs
<1>2. StTypes(all) /\ SameRest(st, all)
  BY <1>a DEF StTypes, SameRest
<1> HIDE DEF all
<1> DEFINE P == {i \in 0..n : StTypes(f[i]) /\ SameRest(st, f[i])}
<1>3. 0 \in P
  BY <1>0, <1>1, <1>2 DEF PushTurns, all
<1>4. ASSUME NEW i \in 1..n, i - 1 \in P PROVE i \in P
  <2>1. f[i] = TakeRecord(f[i - 1], open) /\ StTypes(f[i - 1]) /\ SameRest(st, f[i - 1])
    BY <1>1, <1>4 DEF PushTurns
  <2>2. StTypes(f[i]) /\ SameRest(f[i - 1], f[i])
    BY <2>1, TakeRecordTypes
  <2>3. SameRest(st, f[i])
    BY <2>1, <2>2 DEF SameRest
  <2>4. i \in 0..n
    BY <1>0
  <2>5. QED
    BY <2>2, <2>3, <2>4
<1>5. n \in P
  <2>0. \A i \in 1..n : i - 1 \in P => i \in P
    BY <1>4
  <2> HIDE DEF P
  <2>1. 0..n \subseteq P
    BY <1>0, <1>3, <2>0, UpTo
  <2>2. QED
    BY <1>0, <2>1
<1>6. QED
  BY <1>1, <1>5

-----------------------------------------------------------------------------
(* push_seq: the datagrams of a channel are g; f of them were taken in order, *)
(* and buf holds some of those from f + 2 to hi.                              *)

BufferOk(buf, g, f, hi) ==
  /\ IsFiniteSet(DOMAIN buf) /\ Cardinality(DOMAIN buf) <= PushSize
  /\ \A x \in DOMAIN buf : \E j \in (f + 2)..hi : x = SeqNo(j) /\ buf[x] = g[j]

\* What is left of the buffer b once m datagrams were taken.
LeftOf(buf, m, b, f, hi) ==
  /\ \A x \in DOMAIN buf : x \in DOMAIN b /\ buf[x] = b[x]
  /\ \A j \in (f + 1)..hi : SeqNo(j) \in DOMAIN buf <=> SeqNo(j) \in DOMAIN b /\ j > f + m

DrainTypes(t) ==
  /\ DOMAIN t = {"wait_seq", "push_buf", "data", "size", "q", "full", "res", "more", "cur"}
  /\ StTypes(t) /\ t.more \in BOOLEAN

\* The state of the loop after i turns.
TurnOk(t, i, b, g, f, hi) ==
  ~t.full =>
    /\ t.more => /\ f + i + 1 <= hi /\ t.res = i /\ t.wait_seq = (f + i) % Modulus
                 /\ t.cur = g[f + i + 1] /\ LeftOf(t.push_buf, i + 1, b, f, hi)
                 /\ IsFiniteSet(DOMAIN t.push_buf)
                 /\ Cardinality(DOMAIN t.push_buf) + i <= PushSize
    /\ ~t.more => /\ t.res \in Nat \ {0} /\ f + t.res <= hi
                  /\ t.wait_seq = (f + t.res) % Modulus
                  /\ LeftOf(t.push_buf, t.res, b, f, hi)
                  /\ SeqNo(f + t.res + 1) \notin DOMAIN t.push_buf

\* Within the window a number stands for one datagram.
LEMMA OneNumber ==
  ASSUME NEW f \in Nat, NEW hi \in Nat, hi - f < Modulus,
         NEW j \in (f + 1)..(hi + 1), NEW k \in (f + 1)..(hi + 1), SeqNo(j) = SeqNo(k)
  PROVE  j = k
<1>1. Modulus \in Nat
  BY Cs2Assumption
<1>2. j \in Nat \ {0} /\ k \in Nat \ {0} /\ j - k < Modulus /\ k - j < Modulus
  BY <1>1
<1>3. QED
  BY <1>2, SeqNoDiffer

LEMMA DrainKeeps ==
  ASSUME NEW f \in Nat, NEW hi \in Nat, hi - f < Modulus, NEW b, NEW g, BufferOk(b, g, f, hi),
         \A j \in (f + 1)..hi : g[j] \in Seq(Nat),
         NEW i \in Nat, NEW t, DrainTypes(t), TurnOk(t, i, b, g, f, hi), NEW open
  PROVE  DrainTypes(Drain(t, open)) /\ TurnOk(Drain(t, open), i + 1, b, g, f, hi)
<1>1. CASE t.full \/ ~t.more
  BY <1>1 DEF Drain, TurnOk
<1>2. CASE ~(t.full \/ ~t.more)
  <2>1. /\ f + i + 1 <= hi /\ t.res = i /\ t.wait_seq = (f + i) % Modulus
        /\ t.cur = g[f + i + 1] /\ LeftOf(t.push_buf, i + 1, b, f, hi)
        /\ IsFiniteSet(DOMAIN t.push_buf) /\ Cardinality(DOMAIN t.push_buf) + i <= PushSize
    BY <1>2 DEF TurnOk
  <2>2. t.cur \in Seq(Nat)
    <3>1. f + i + 1 \in (f + 1)..hi
      BY <2>1
    <3>2. QED
      BY <2>1, <3>1
  <2> DEFINE p == Push(t, t.cur, open)
             next == (t.wait_seq + 1) % Modulus
             found == next \in DOMAIN t.push_buf
  <2>3. StTypes(p) /\ SameRest(t, p)
    BY <2>2, PushTypes DEF DrainTypes
  <2>4. Drain(t, open) =
          IF p.full THEN p
          ELSE [p EXCEPT
                  !.wait_seq = next, !.res = t.res + 1, !.more = found,
                  !.cur = IF found THEN t.push_buf[next] ELSE <<>>,
                  !.push_buf = IF found THEN Without(t.push_buf, next) ELSE t.push_buf]
    BY <1>2 DEF Drain
  <2> HIDE DEF p
  <2>5. DrainTypes(p)
    BY <2>3 DEF DrainTypes, SameRest
  <2>6. CASE p.full
    BY <2>4, <2>5, <2>6 DEF TurnOk
  <2>7. CASE ~p.full
    <3>1. PICK u : u = Drain(t, open)
      OBVIOUS
    <3>2. /\ DOMAIN u = DOMAIN p /\ u.wait_seq = next /\ u.res = i + 1 /\ u.more = found
          /\ u.push_buf = (IF found THEN Without(t.push_buf, next) ELSE t.push_buf)
          /\ u.cur = (IF found THEN t.push_buf[next] ELSE <<>>)
          /\ u.data = p.data /\ u.size = p.size /\ u.q = p.q /\ u.full = p.full
      BY <2>1, <2>4, <2>5, <2>7, <3>1 DEF DrainTypes
    <3>3. DrainTypes(u)
      BY <2>5, <3>2 DEF DrainTypes, StTypes
    <3>4. next = SeqNo(f + i + 2) /\ next = (f + (i + 1)) % Modulus
      <4>1. f + i \in Nat /\ f + i + 1 \in Nat /\ f + i + 1 + 1 = f + i + 2 /\ f + i + 1 = f + (i + 1)
        OBVIOUS
      <4>2. next = (f + i + 1) % Modulus
        BY <2>1, <4>1, SeqNext
      <4>3. SeqNo(f + i + 1 + 1) = (f + i + 1) % Modulus
        BY <4>1, SeqNext
      <4>4. QED
        BY <4>1, <4>2, <4>3
    <3> HIDE DEF next
    <3>5. CASE found
      <4>1. f + i + 2 <= hi /\ t.push_buf[next] = g[f + i + 2]
        <5>1. next \in DOMAIN b /\ t.push_buf[next] = b[next]
          BY <2>1, <3>5 DEF LeftOf
        <5>2. PICK j \in (f + 2)..hi : next = SeqNo(j) /\ b[next] = g[j]
          BY <5>1 DEF BufferOk
        <5>3. j \in (f + 1)..(hi + 1) /\ f + i + 2 \in (f + 1)..(hi + 1)
          BY <2>1
        <5>4. j = f + i + 2
          BY <3>4, <5>2, <5>3, OneNumber
        <5>5. QED
          BY <5>1, <5>2, <5>4
      <4>2. u.push_buf = Without(t.push_buf, next) /\ u.more = TRUE /\ u.cur = g[f + i + 2]
        BY <3>2, <3>5, <4>1
      <4>3. /\ DOMAIN u.push_buf = DOMAIN t.push_buf \ {next}
            /\ \A x \in DOMAIN u.push_buf : u.push_buf[x] = t.push_buf[x]
        BY <4>2 DEF Without
      <4>4. /\ IsFiniteSet(DOMAIN u.push_buf)
            /\ Cardinality(DOMAIN u.push_buf) + (i + 1) <= PushSize
        <5>1. /\ IsFiniteSet(DOMAIN t.push_buf \ {next})
              /\ Cardinality(DOMAIN t.push_buf \ {next}) = Cardinality(DOMAIN t.push_buf) - 1
          BY <2>1, <3>5, FS_RemoveElement
        <5>2. Cardinality(DOMAIN t.push_buf) \in Nat /\ PushSize \in Nat
          BY <2>1, FS_CardinalityType, Cs2Assumption
        <5>3. QED
          BY <2>1, <4>3, <5>1, <5>2
      <4>5. LeftOf(u.push_buf, i + 2, b, f, hi)
        <5>1. \A x \in DOMAIN u.push_buf : x \in DOMAIN b /\ u.push_buf[x] = b[x]
          BY <2>1, <4>3 DEF LeftOf
        <5>2. ASSUME NEW j \in (f + 1)..hi
              PROVE  SeqNo(j) \in DOMAIN u.push_buf <=> SeqNo(j) \in DOMAIN b /\ j > f + (i + 2)
          <6>1. SeqNo(j) = next => j = f + i + 2
            <7>1. j \in (f + 1)..(hi + 1) /\ f + i + 2 \in (f + 1)..(hi + 1)
              BY <2>1
            <7>2. QED
              BY <3>4, <7>1, OneNumber
          <6>2. SeqNo(j) \in DOMAIN t.push_buf <=> SeqNo(j) \in DOMAIN b /\ j > f + (i + 1)
            BY <2>1 DEF LeftOf
          <6>3. j > f + (i + 2) <=> j > f + (i + 1) /\ j # f + i + 2
            OBVIOUS
          <6>4. j = f + i + 2 => SeqNo(j) = next
            BY <3>4
          <6>5. QED
            BY <4>3, <6>1, <6>2, <6>3, <6>4
        <5>3. QED
          BY <5>1, <5>2 DEF LeftOf
      <4>6. TurnOk(u, i + 1, b, g, f, hi)
        <5>1. f + (i + 1) + 1 = f + i + 2 /\ (i + 1) + 1 = i + 2
          OBVIOUS
        <5>2. QED
          BY <3>2, <3>4, <4>1, <4>2, <4>4, <4>5, <5>1 DEF TurnOk
      <4>7. QED
        BY <3>1, <3>3, <4>6
    <3>6. CASE ~found
      <4>1. u.push_buf = t.push_buf /\ ~u.more
        BY <3>2, <3>6
      <4>2. SeqNo(f + (i + 1) + 1) \notin DOMAIN u.push_buf
        <5>1. f + (i + 1) + 1 = f + i + 2
          OBVIOUS
        <5>2. QED
          BY <3>4, <3>6, <4>1, <5>1
      <4>3. i + 1 \in Nat \ {0} /\ f + (i + 1) <= hi
        BY <2>1
      <4>4. TurnOk(u, i + 1, b, g, f, hi)
        BY <2>1, <3>2, <3>4, <4>1, <4>2, <4>3 DEF TurnOk
      <4>5. QED
        BY <3>1, <3>3, <4>4
    <3>7. QED
      BY <3>5, <3>6
  <2>8. QED
    BY <2>6, <2>7
<1>3. QED
  BY <1>1, <1>2

\* Every turn of the loop.
LEMMA DrainTurnsOk ==
  ASSUME NEW f \in Nat, NEW hi \in Nat, hi - f < Modulus, NEW b, NEW g, BufferOk(b, g, f, hi),
         \A j \in (f + 1)..hi : g[j] \in Seq(Nat), NEW n \in Nat,
         NEW st, DrainTypes(st), TurnOk(st, 0, b, g, f, hi), NEW open,
         NEW h, DrainTurns(h, st, open, n)
  PROVE  \A i \in 0..n : DrainTypes(h[i]) /\ TurnOk(h[i], i, b, g, f, hi)
<1> DEFINE P == {i \in 0..n : DrainTypes(h[i]) /\ TurnOk(h[i], i, b, g, f, hi)}
<1>1. 0 \in P
  BY DEF DrainTurns
<1>2. ASSUME NEW i \in 1..n, i - 1 \in P PROVE i \in P
  <2>1. h[i] = Drain(h[i - 1], open) /\ i - 1 \in Nat /\ (i - 1) + 1 = i /\ i \in 0..n
    BY DEF DrainTurns
  <2>2. DrainTypes(h[i - 1]) /\ TurnOk(h[i - 1], i - 1, b, g, f, hi)
    BY <1>2
  <2>3. DrainTypes(h[i]) /\ TurnOk(h[i], (i - 1) + 1, b, g, f, hi)
    BY <2>1, <2>2, DrainKeeps
  <2>4. QED
    BY <2>1, <2>3
<1>3. \A i \in 1..n : i - 1 \in P => i \in P
  BY <1>2
<1>4. 0..n \subseteq P
  <2> HIDE DEF P
  <2>1. QED
    BY <1>1, <1>3, UpTo
<1>5. QED
  BY <1>4

\* The first turn takes the datagram that came.
LEMMA FirstTurn ==
  ASSUME NEW f \in Nat, NEW hi \in Nat, hi - f < Modulus, f + 1 <= hi, NEW b, NEW g,
         BufferOk(b, g, f, hi), NEW st, st.full = FALSE, st.res = 0, st.more = TRUE,
         st.cur = g[f + 1], st.push_buf = b, st.wait_seq = f % Modulus
  PROVE  TurnOk(st, 0, b, g, f, hi)
<1>1. LeftOf(b, 1, b, f, hi)
  <2>1. ASSUME NEW j \in (f + 1)..hi, SeqNo(j) \in DOMAIN b PROVE j > f + 1
    <3>1. PICK i \in (f + 2)..hi : SeqNo(j) = SeqNo(i)
      BY <2>1 DEF BufferOk
    <3>2. i \in (f + 1)..(hi + 1) /\ j \in (f + 1)..(hi + 1)
      OBVIOUS
    <3>3. j = i
      BY <3>1, <3>2, OneNumber
    <3>4. QED
      BY <3>3
  <2>2. QED
    BY <2>1 DEF LeftOf
<1>2. Cardinality(DOMAIN b) + 0 <= PushSize
  <2>1. Cardinality(DOMAIN b) \in Nat
    BY FS_CardinalityType DEF BufferOk
  <2>2. QED
    BY <2>1 DEF BufferOk
<1>3. f + 0 = f /\ f + 0 + 1 = f + 1 /\ 0 + 1 = 1
  OBVIOUS
<1>4. IsFiniteSet(DOMAIN b)
  BY DEF BufferOk
<1>5. QED
  BY <1>1, <1>2, <1>3, <1>4 DEF TurnOk

\* The loop has turns enough: after the last the buffer has no successor left.
LEMMA LoopEnds ==
  ASSUME NEW f, NEW hi, NEW b, NEW g, NEW r, TurnOk(r, PushSize + 1, b, g, f, hi), ~r.full
  PROVE  ~r.more
<1>1. ASSUME r.more PROVE FALSE
  <2>1. IsFiniteSet(DOMAIN r.push_buf) /\ Cardinality(DOMAIN r.push_buf) + (PushSize + 1) <= PushSize
    BY <1>1 DEF TurnOk
  <2>2. Cardinality(DOMAIN r.push_buf) \in Nat /\ PushSize \in Nat
    BY <2>1, FS_CardinalityType, Cs2Assumption
  <2>3. QED
    BY <2>1, <2>2
<1>2. QED
  BY <1>1

\* Datagram k was taken, or waits in the buffer.
KeptIn(buf, g, f, k) == k <= f \/ (SeqNo(k) \in DOMAIN buf /\ buf[SeqNo(k)] = g[k])

\* f datagrams were taken; what may be under way is lo to hi.
WindowOk(f, lo, hi) ==
  /\ f \in Nat /\ lo \in Nat \ {0} /\ hi \in Nat
  /\ lo <= f + 1 /\ f <= hi /\ hi - lo < Modulus \div 2

LEMMA WindowIs ==
  ASSUME NEW f, NEW lo, NEW hi, WindowOk(f, lo, hi)
  PROVE  /\ f \in Nat /\ lo \in Nat \ {0} /\ hi \in Nat /\ hi - f < Modulus
         /\ \A k \in lo..hi : Ahead(SeqNo(k), f % Modulus) = k - (f + 1)
<1>1. Modulus \div 2 \in Nat /\ Modulus \in Nat /\ Modulus \div 2 < Modulus
  BY Cs2Assumption
<1>2. /\ f \in Nat /\ lo \in Nat \ {0} /\ hi \in Nat
      /\ lo <= f + 1 /\ f <= hi /\ hi - lo < Modulus \div 2
  BY DEF WindowOk
<1>3. hi - f < Modulus
  <2>1. hi - f <= hi - lo + 1
    BY <1>2
  <2>2. QED
    BY <1>1, <1>2, <2>1
<1>4. ASSUME NEW k \in lo..hi PROVE Ahead(SeqNo(k), f % Modulus) = k - (f + 1)
  <2>1. PICK h \in Nat : h = Modulus \div 2
    BY <1>1
  <2>2. k \in Nat \ {0} /\ f + 1 - h <= k /\ k < f + 1 + h
    BY <1>2, <2>1
  <2>3. QED
    BY <1>2, <2>1, <2>2, AheadIs
<1>5. QED
  BY <1>2, <1>3, <1>4

\* What push_seq leaves: it advances by what it takes, forgets nothing that was
\* kept, and keeps datagram k unless it says otherwise or fails.
PushedOk(r, b, g, f, hi, k) ==
  ~r.full => \E n \in Nat :
    /\ n = (IF r.res > 0 THEN r.res ELSE 0) /\ f + n <= hi
    /\ r.wait_seq = (f + n) % Modulus /\ BufferOk(r.push_buf, g, f + n, hi)
    /\ \A j \in 1..hi : KeptIn(b, g, f, j) => KeptIn(r.push_buf, g, f + n, j)
    /\ r.res >= 0 => KeptIn(r.push_buf, g, f + n, k)

LEMMA PushSeqKeeps ==
  ASSUME NEW f, NEW lo, NEW hi, WindowOk(f, lo, hi), NEW g, \A j \in 1..hi : g[j] \in Seq(Nat),
         NEW c, c.wait_seq = f % Modulus, BufferOk(c.push_buf, g, f, hi),
         c.data \in Seq(Nat), c.size \in Nat, NEW q \in Seq(Seq(Nat)),
         NEW k \in lo..hi, NEW open, NEW r, r = PushSeq(c, q, SeqNo(k), g[k], open)
  PROVE  DrainTypes(r) /\ PushedOk(r, c.push_buf, g, f, hi, k)
<1> DEFINE d == Ahead(SeqNo(k), c.wait_seq)
           st == [wait_seq |-> c.wait_seq, push_buf |-> c.push_buf, data |-> c.data,
                  size |-> c.size, q |-> q, full |-> FALSE, res |-> 0,
                  more |-> TRUE, cur |-> g[k]]
           b == c.push_buf
<1>0. /\ f \in Nat /\ lo \in Nat \ {0} /\ hi \in Nat /\ hi - f < Modulus /\ d = k - (f + 1)
      /\ lo <= f + 1 /\ f <= hi
  BY WindowIs DEF WindowOk
<1>1. k \in Nat \ {0} /\ k <= hi /\ k \in 1..hi /\ PushSize \in Nat
  BY <1>0, Cs2Assumption
<1>2. DrainTypes(st)
  BY DEF DrainTypes, StTypes
<1>3. r = IF d > 0
          THEN IF SeqNo(k) \in DOMAIN b THEN st
               ELSE IF Cardinality(DOMAIN b) = PushSize THEN [st EXCEPT !.res = -1]
               ELSE [st EXCEPT !.push_buf = With(b, SeqNo(k), g[k])]
          ELSE IF d < 0 THEN st
          ELSE Drained(st, open)
  BY DEF PushSeq
<1>4. st.full = FALSE /\ st.res = 0 /\ st.more = TRUE /\ st.cur = g[k] /\ st.push_buf = b
      /\ st.wait_seq = f % Modulus
  OBVIOUS
<1> HIDE DEF d, st
<1>5. ASSUME r = st, KeptIn(b, g, f, k) PROVE PushedOk(r, b, g, f, hi, k)
  <2>1. f + 0 = f /\ 0 \in Nat
    BY <1>0
  <2>2. QED
    BY <1>0, <1>4, <1>5, <2>1 DEF PushedOk
<1>6. CASE d > 0
  <2>1. f + 0 = f /\ 0 \in Nat /\ k >= f + 2
    BY <1>0, <1>1, <1>6
  <2>2. CASE SeqNo(k) \in DOMAIN b
    <3>1. PICK j \in (f + 2)..hi : SeqNo(k) = SeqNo(j) /\ b[SeqNo(k)] = g[j]
      BY <2>2 DEF BufferOk
    <3>2. j \in (f + 1)..(hi + 1) /\ k \in (f + 1)..(hi + 1)
      BY <1>0, <1>1, <2>1
    <3>3. j = k
      BY <1>0, <3>1, <3>2, OneNumber
    <3>4. KeptIn(b, g, f, k)
      BY <2>2, <3>1, <3>3 DEF KeptIn
    <3>5. r = st
      BY <1>3, <1>6, <2>2
    <3>6. QED
      BY <1>2, <1>5, <3>4, <3>5
  <2>3. CASE SeqNo(k) \notin DOMAIN b /\ Cardinality(DOMAIN b) = PushSize
    <3>1. r = [st EXCEPT !.res = -1]
      BY <1>3, <1>6, <2>3
    <3>2. /\ r.full = FALSE /\ r.res = -1 /\ r.push_buf = b /\ r.wait_seq = f % Modulus
          /\ DOMAIN r = DOMAIN st /\ r.data = st.data /\ r.size = st.size /\ r.q = st.q /\ r.more = st.more
      BY <1>2, <1>4, <3>1 DEF DrainTypes
    <3>3. DrainTypes(r)
      BY <1>2, <3>2 DEF DrainTypes, StTypes
    <3>4. QED
      BY <1>0, <2>1, <3>2, <3>3 DEF PushedOk
  <2>4. CASE SeqNo(k) \notin DOMAIN b /\ Cardinality(DOMAIN b) # PushSize
    <3> DEFINE b2 == With(b, SeqNo(k), g[k])
    <3>1. r = [st EXCEPT !.push_buf = b2]
      BY <1>3, <1>6, <2>4
    <3>2. /\ r.full = st.full /\ r.res = 0 /\ r.push_buf = b2 /\ r.wait_seq = f % Modulus
          /\ DOMAIN r = DOMAIN st /\ r.data = st.data /\ r.size = st.size /\ r.q = st.q /\ r.more = st.more
      BY <1>2, <1>4, <3>1 DEF DrainTypes
    <3>3. DrainTypes(r)
      BY <1>2, <3>2 DEF DrainTypes, StTypes
    <3>4. /\ DOMAIN b2 = DOMAIN b \cup {SeqNo(k)} /\ b2[SeqNo(k)] = g[k]
          /\ \A x \in DOMAIN b : b2[x] = b[x]
      BY <2>4 DEF With
    <3> HIDE DEF b2
    <3>5. BufferOk(b2, g, f, hi)
      <4>1. IsFiniteSet(DOMAIN b2) /\ Cardinality(DOMAIN b2) = Cardinality(DOMAIN b) + 1
        BY <2>4, <3>4, FS_AddElement DEF BufferOk
      <4>2. Cardinality(DOMAIN b2) <= PushSize
        <5>1. Cardinality(DOMAIN b) \in Nat /\ Cardinality(DOMAIN b) <= PushSize
          BY FS_CardinalityType DEF BufferOk
        <5>2. QED
          BY <1>1, <2>4, <4>1, <5>1
      <4>3. k \in (f + 2)..hi
        BY <1>0, <1>1, <2>1
      <4>4. QED
        BY <3>4, <4>1, <4>2, <4>3 DEF BufferOk
    <3>6. /\ KeptIn(b2, g, f, k)
          /\ \A j \in 1..hi : KeptIn(b, g, f, j) => KeptIn(b2, g, f, j)
      BY <3>4 DEF KeptIn
    <3>7. QED
      BY <1>0, <1>4, <2>1, <3>2, <3>3, <3>5, <3>6 DEF PushedOk
  <2>5. QED
    BY <2>2, <2>3, <2>4
<1>7. CASE d < 0
  <2>1. KeptIn(b, g, f, k)
    BY <1>0, <1>1, <1>7 DEF KeptIn
  <2>2. r = st
    BY <1>0, <1>3, <1>7
  <2>3. QED
    BY <1>2, <1>5, <2>1, <2>2
<1>8. CASE d = 0
  <2>1. k = f + 1 /\ r = Drained(st, open)
    BY <1>0, <1>1, <1>3, <1>8
  <2>2. \A j \in (f + 1)..hi : g[j] \in Seq(Nat)
    BY <1>0
  <2>3. TurnOk(st, 0, b, g, f, hi)
    <3>1. f + 1 <= hi
      BY <1>1, <2>1
    <3>2. QED
      BY <1>0, <1>4, <2>1, <3>1, FirstTurn
  <2>4. PICK h : DrainTurns(h, st, open, PushSize + 1) /\ Drained(st, open) = h[PushSize + 1]
    BY DrainedIs
  <2>5. DrainTypes(r) /\ TurnOk(r, PushSize + 1, b, g, f, hi)
    <3>1. PushSize + 1 \in Nat /\ PushSize + 1 \in 0..(PushSize + 1)
      BY <1>1
    <3>2. \A i \in 0..(PushSize + 1) : DrainTypes(h[i]) /\ TurnOk(h[i], i, b, g, f, hi)
      BY <1>0, <1>2, <2>2, <2>3, <2>4, <3>1, DrainTurnsOk
    <3>3. QED
      BY <2>1, <2>4, <3>1, <3>2
  <2>6. ASSUME ~r.full PROVE PushedOk(r, b, g, f, hi, k)
    <3>1. ~r.more
      BY <1>0, <2>5, <2>6, LoopEnds
    <3>2. PICK n \in Nat \ {0} : n = r.res
      BY <2>5, <2>6, <3>1 DEF TurnOk
    <3>3. /\ f + n <= hi /\ r.wait_seq = (f + n) % Modulus /\ LeftOf(r.push_buf, n, b, f, hi)
          /\ SeqNo(f + n + 1) \notin DOMAIN r.push_buf
      BY <2>5, <2>6, <3>1, <3>2 DEF TurnOk
    <3>4. BufferOk(r.push_buf, g, f + n, hi)
      <4>1. DOMAIN r.push_buf \subseteq DOMAIN b
        BY <3>3 DEF LeftOf
      <4>2. IsFiniteSet(DOMAIN r.push_buf) /\ Cardinality(DOMAIN r.push_buf) <= Cardinality(DOMAIN b)
        BY <4>1, FS_Subset DEF BufferOk
      <4>3. Cardinality(DOMAIN r.push_buf) <= PushSize
        <5>1. Cardinality(DOMAIN b) \in Nat /\ Cardinality(DOMAIN r.push_buf) \in Nat
          BY <4>2, FS_CardinalityType DEF BufferOk
        <5>2. QED
          BY <1>1, <4>2, <5>1 DEF BufferOk
      <4>4. ASSUME NEW x \in DOMAIN r.push_buf
            PROVE  \E j \in (f + n + 2)..hi : x = SeqNo(j) /\ r.push_buf[x] = g[j]
        <5>1. PICK j \in (f + 2)..hi : x = SeqNo(j) /\ b[x] = g[j]
          BY <4>1 DEF BufferOk
        <5>2. r.push_buf[x] = g[j]
          BY <3>3, <5>1 DEF LeftOf
        <5>3. j \in (f + 1)..hi
          BY <1>0
        <5>4. j > f + n
          BY <3>3, <5>1, <5>3 DEF LeftOf
        <5>5. j # f + n + 1
          BY <3>3, <5>1
        <5>6. j \in (f + n + 2)..hi
          BY <1>0, <5>4, <5>5
        <5>7. QED
          BY <5>1, <5>2, <5>6
      <4>5. QED
        BY <4>2, <4>3, <4>4 DEF BufferOk
    <3>5. ASSUME NEW j \in 1..hi, KeptIn(b, g, f, j) PROVE KeptIn(r.push_buf, g, f + n, j)
      <4>1. CASE j <= f + n
        BY <4>1 DEF KeptIn
      <4>2. CASE ~(j <= f + n)
        <5>1. j \in (f + 1)..hi /\ j > f + n /\ ~(j <= f)
          BY <1>0, <4>2
        <5>2. SeqNo(j) \in DOMAIN b /\ b[SeqNo(j)] = g[j]
          BY <3>5, <5>1 DEF KeptIn
        <5>3. SeqNo(j) \in DOMAIN r.push_buf /\ r.push_buf[SeqNo(j)] = g[j]
          BY <3>3, <5>1, <5>2 DEF LeftOf
        <5>4. QED
          BY <5>3 DEF KeptIn
      <4>3. QED
        BY <4>1, <4>2
    <3>6. KeptIn(r.push_buf, g, f + n, k)
      <4>1. k <= f + n
        BY <1>0, <2>1
      <4>2. QED
        BY <4>1 DEF KeptIn
    <3>7. n \in Nat /\ n = (IF r.res > 0 THEN r.res ELSE 0)
      BY <3>2
    <3>8. QED
      BY <3>3, <3>4, <3>5, <3>6, <3>7 DEF PushedOk
  <2>7. QED
    BY <2>5, <2>6 DEF PushedOk
<1>9. QED
  BY <1>0, <1>1, <1>6, <1>7, <1>8

-----------------------------------------------------------------------------
(* What the worker thread holds of each channel, and what is about of it.     *)

Datagrams(ch) == IF ch = 2 THEN cam.frags ELSE <<Framed(IF cam.accepts THEN Yes ELSE No)>>

\* The camera's window on a channel.
Bot(ch) == IF ch = 2 THEN cam.low ELSE 1
Top(ch) == IF ch = 2
           THEN IF cam.low + Window - 1 < Len(cam.frags) THEN cam.low + Window - 1 ELSE Len(cam.frags)
           ELSE 1

Kept(ch, k) == KeptIn(chan[ch].push_buf, Datagrams(ch), fed[ch], k)

ChannelTypes ==
  /\ DOMAIN chan = {0, 2} /\ DOMAIN queue = {0, 2} /\ DOMAIN fed = {0, 2}
  /\ cam.frags \in Splits
  /\ \A ch \in {0, 2} :
       /\ DOMAIN chan[ch] = {"wait_seq", "push_buf", "data", "size"}
       /\ chan[ch].data \in Seq(Nat) /\ chan[ch].size \in Nat /\ queue[ch] \in Seq(Seq(Nat))

\* Nothing is received, so nothing acknowledged, before the handshake is over.
NoneOk == mode = "none" =>
  /\ up = FALSE /\ cam.low = 1 /\ cam.acked = {}
  /\ \A ch \in {0, 2}, k \in 1..Len(cam.frags) : Ack(ch, k) \notin toCam

UdpOk(ch) ==
  /\ WindowOk(fed[ch], Bot(ch), Top(ch)) /\ chan[ch].wait_seq = fed[ch] % Modulus
  /\ BufferOk(chan[ch].push_buf, Datagrams(ch), fed[ch], Top(ch))
  /\ \A k \in 1..Len(cam.frags) :
       /\ Drw(ch, k) \in toCli => k \in Bot(ch)..Top(ch)
       /\ Ack(ch, k) \in toCam => k \in 1..Top(ch) /\ Kept(ch, k)
  /\ ch = 2 => \A k \in cam.acked : k \in 1..Top(2) /\ Kept(2, k)

AckInv ==
  /\ ChannelTypes /\ NoneOk
  /\ up /\ mode = "udp" => \A ch \in {0, 2} : UdpOk(ch)

LEMMA DatagramTypes ==
  ASSUME ChannelTypes
  PROVE  /\ cam.frags \in Seq(Seq(Nat)) /\ Len(cam.frags) \in Nat
         /\ \A k \in 1..Len(cam.frags) : Datagrams(2)[k] \in Seq(Nat) /\ Payload(2, k) = Datagrams(2)[k]
         /\ Datagrams(0)[1] \in Seq(Nat) /\ Payload(0, 1) = Datagrams(0)[1]
<1>1. cam.frags \in Seq(Seq(Nat))
  BY Cs2Assumption DEF ChannelTypes
<1>2. /\ Len(cam.frags) \in Nat
      /\ \A k \in 1..Len(cam.frags) : cam.frags[k] \in Seq(Nat)
  BY <1>1
<1>3. \A r \in Seq(Nat) : Framed(r) \in Seq(Nat)
  <2> SUFFICES ASSUME NEW r \in Seq(Nat) PROVE Framed(r) \in Seq(Nat)
    OBVIOUS
  <2>1. <<0, 0, 0, Len(r)>> \in Seq(Nat)
    OBVIOUS
  <2>2. QED
    BY <2>1 DEF Framed
<1>4. Framed(IF cam.accepts THEN Yes ELSE No) \in Seq(Nat)
  BY <1>3, Cs2Assumption
<1>5. QED
  BY <1>1, <1>2, <1>4 DEF Datagrams, Payload

\* The window in numbers.
LEMMA TopIs ==
  ASSUME ChannelTypes, NEW ch \in {0, 2}, UdpOk(ch)
  PROVE  /\ Top(ch) \in Nat /\ Bot(ch) \in Nat \ {0} /\ fed[ch] \in Nat
         /\ ch = 2 => Top(2) <= Len(cam.frags)
         /\ \A k \in 1..Top(ch) : /\ Datagrams(ch)[k] \in Seq(Nat) /\ Payload(ch, k) = Datagrams(ch)[k]
<1>1. Top(ch) \in Nat /\ Bot(ch) \in Nat \ {0} /\ fed[ch] \in Nat
  BY DEF UdpOk, WindowOk
<1>2. CASE ch = 2
  <2>1. cam.low \in Nat /\ Window \in Nat /\ Len(cam.frags) \in Nat
    BY <1>1, <1>2, DatagramTypes, Cs2Assumption DEF Bot
  <2>2. Top(2) <= Len(cam.frags)
    BY <2>1 DEF Top
  <2>3. QED
    BY <1>1, <1>2, <2>1, <2>2, DatagramTypes
<1>3. CASE ch = 0
  BY <1>1, <1>3, DatagramTypes DEF Top
<1>4. QED
  BY <1>2, <1>3

LEMMA DatagramsDiffer ==
  /\ \A c, d, k, j : /\ Ack(c, k) = Ack(d, j) => c = d /\ k = j
                     /\ Drw(c, k) = Drw(d, j) => c = d /\ k = j
                     /\ Drw(c, k) # Ack(d, j)
  /\ \A c, k, d : /\ Hello(d) # Drw(c, k) /\ Hello(d) # Ack(c, k)
                  /\ Cmd(d) # Drw(c, k) /\ Cmd(d) # Ack(c, k)
                  /\ CmdAck(d) # Drw(c, k) /\ CmdAck(d) # Ack(c, k)
<1>1. /\ \A c, k : /\ Ack(c, k).t = "drwack" /\ Ack(c, k).ch = c /\ Ack(c, k).k = k
                   /\ Drw(c, k).t = "drw" /\ Drw(c, k).ch = c /\ Drw(c, k).k = k
      /\ \A c : Cmd(c).t = "cmd" /\ CmdAck(c).t = "cmdack" /\ Hello(c).t = "hello"
  BY DEF Cmd, CmdAck, Hello, Ack, Drw
<1>2. QED
  BY <1>1

\* A channel on which nothing is received, acknowledged or sent anew.
LEMMA UdpQuiet ==
  ASSUME NEW ch \in {0, 2}, UdpOk(ch), chan'[ch] = chan[ch], fed'[ch] = fed[ch],
         cam'.frags = cam.frags, cam'.accepts = cam.accepts, cam'.low = cam.low, cam'.acked = cam.acked,
         \A k \in 1..Len(cam.frags) : Drw(ch, k) \in toCli' => Drw(ch, k) \in toCli,
         \A k \in 1..Len(cam.frags) : Ack(ch, k) \in toCam' => Ack(ch, k) \in toCam
  PROVE  UdpOk(ch)'
<1>1. Bot(ch)' = Bot(ch) /\ Top(ch)' = Top(ch) /\ Top(2)' = Top(2) /\ Datagrams(ch)' = Datagrams(ch)
  BY DEF Bot, Top, Datagrams
<1>2. \A k : Kept(ch, k)' <=> Kept(ch, k)
  BY <1>1 DEF Kept
<1>3. QED
  BY <1>1, <1>2 DEF UdpOk

LEMMA AckQuiet ==
  ASSUME AckInv, UNCHANGED <<mode, chan, fed>>, up' = up \/ up' = FALSE,
         DOMAIN queue' = {0, 2}, \A ch \in {0, 2} : queue'[ch] \in Seq(Seq(Nat)),
         cam'.frags = cam.frags, cam'.accepts = cam.accepts, cam'.low = cam.low, cam'.acked = cam.acked,
         \A ch \in {0, 2}, k \in 1..Len(cam.frags) : Drw(ch, k) \in toCli' => Drw(ch, k) \in toCli,
         \A ch \in {0, 2}, k \in 1..Len(cam.frags) : Ack(ch, k) \in toCam' => Ack(ch, k) \in toCam
  PROVE  AckInv'
<1>1. ChannelTypes'
  BY DEF AckInv, ChannelTypes
<1>2. NoneOk'
  BY DEF AckInv, NoneOk
<1>3. up' /\ mode' = "udp" => \A ch \in {0, 2} : UdpOk(ch)'
  <2> SUFFICES ASSUME up', mode' = "udp", NEW ch \in {0, 2} PROVE UdpOk(ch)'
    OBVIOUS
  <2>1. UdpOk(ch)
    BY DEF AckInv
  <2>2. QED
    BY <2>1, UdpQuiet
<1>4. QED
  BY <1>1, <1>2, <1>3 DEF AckInv

LEMMA RecvUdpAcks ==
  ASSUME AckInv, NEW ch \in {0, 2}, NEW k \in 1..Len(cam.frags), NEW open, RecvUdp(ch, k, open)
  PROVE  AckInv'
<1> DEFINE r == PushSeq(chan[ch], queue[ch], SeqNo(k), Payload(ch, k), open)
           n == IF r.res > 0 THEN r.res ELSE 0
           f == fed[ch]
           g == Datagrams(ch)
<1>1. /\ up /\ mode = "udp" /\ Drw(ch, k) \in toCli /\ UdpOk(ch) /\ UdpOk(0) /\ UdpOk(2)
      /\ chan' = [chan EXCEPT ![ch] = Channel(r)] /\ queue' = [queue EXCEPT ![ch] = r.q]
      /\ up' = ~r.full /\ fed' = [fed EXCEPT ![ch] = @ + n]
      /\ toCam' \subseteq toCam \cup {Ack(ch, k)}
      /\ ~(~r.full /\ r.res >= 0) => toCam' = toCam
      /\ toCli' \subseteq toCli /\ UNCHANGED <<mode, cam>>
  BY CarriedIs DEF RecvUdp, AckInv, TakenFrom
<1> HIDE DEF r, n
<1>2. ChannelTypes /\ NoneOk
  BY DEF AckInv
<1>3. k \in Bot(ch)..Top(ch)
  BY <1>1 DEF UdpOk
<1>4. /\ Bot(ch) \in Nat \ {0} /\ Top(ch) \in Nat /\ f \in Nat
      /\ \A j \in 1..Top(ch) : g[j] \in Seq(Nat) /\ Payload(ch, j) = g[j]
  BY <1>1, <1>2, TopIs
<1>5. k \in 1..Top(ch) /\ Payload(ch, k) = g[k]
  BY <1>3, <1>4
<1>6. DrainTypes(r) /\ PushedOk(r, chan[ch].push_buf, g, f, Top(ch), k)
  <2>1. /\ WindowOk(f, Bot(ch), Top(ch)) /\ chan[ch].wait_seq = f % Modulus
        /\ BufferOk(chan[ch].push_buf, g, f, Top(ch))
    BY <1>1 DEF UdpOk
  <2>2. /\ chan[ch].data \in Seq(Nat) /\ chan[ch].size \in Nat /\ queue[ch] \in Seq(Seq(Nat))
    BY <1>2 DEF ChannelTypes
  <2>3. r = PushSeq(chan[ch], queue[ch], SeqNo(k), g[k], open)
    BY <1>5 DEF r
  <2>4. \A j \in 1..Top(ch) : g[j] \in Seq(Nat)
    BY <1>4
  <2> HIDE DEF f, g
  <2>5. QED
    BY <1>3, <2>1, <2>2, <2>3, <2>4, PushSeqKeeps
<1>7. chan'[ch] = Channel(r) /\ queue'[ch] = r.q /\ fed'[ch] = f + n
  BY <1>1, <1>2 DEF ChannelTypes
<1>8. ChannelTypes'
  <2>1. /\ DOMAIN Channel(r) = {"wait_seq", "push_buf", "data", "size"}
        /\ Channel(r).data \in Seq(Nat) /\ Channel(r).size \in Nat /\ r.q \in Seq(Seq(Nat))
    BY <1>6 DEF Channel, DrainTypes, StTypes
  <2>2. QED
    BY <1>1, <1>2, <2>1 DEF ChannelTypes
<1>9. NoneOk'
  BY <1>1 DEF NoneOk
<1>10. ASSUME up', NEW d \in {0, 2}, d # ch PROVE UdpOk(d)'
  <2>1. chan'[d] = chan[d] /\ fed'[d] = fed[d] /\ UdpOk(d)
    BY <1>1, <1>10
  <2>2. \A j \in 1..Len(cam.frags) : /\ Drw(d, j) \in toCli' => Drw(d, j) \in toCli
                                     /\ Ack(d, j) \in toCam' => Ack(d, j) \in toCam
    BY <1>1, <1>10, DatagramsDiffer
  <2>3. QED
    BY <1>1, <2>1, <2>2, UdpQuiet
<1>11. ASSUME up' PROVE UdpOk(ch)'
  <2>1. ~r.full
    BY <1>1, <1>11
  <2>2. /\ n \in Nat /\ f + n <= Top(ch) /\ r.wait_seq = (f + n) % Modulus
        /\ BufferOk(r.push_buf, g, f + n, Top(ch))
        /\ \A j \in 1..Top(ch) : KeptIn(chan[ch].push_buf, g, f, j) => KeptIn(r.push_buf, g, f + n, j)
        /\ r.res >= 0 => KeptIn(r.push_buf, g, f + n, k)
    BY <1>6, <2>1 DEF PushedOk, n
  <2>3. Channel(r).push_buf = r.push_buf /\ Channel(r).wait_seq = r.wait_seq
    BY DEF Channel
  <2>4. Bot(ch)' = Bot(ch) /\ Top(ch)' = Top(ch) /\ Top(2)' = Top(2) /\ Datagrams(ch)' = g
    BY <1>1 DEF Bot, Top, Datagrams
  <2>5. WindowOk(f + n, Bot(ch), Top(ch))
    <3>1. WindowOk(f, Bot(ch), Top(ch))
      BY <1>1 DEF UdpOk
    <3>2. Bot(ch) <= f + n + 1 /\ f + n \in Nat
      BY <1>4, <2>2, <3>1 DEF WindowOk
    <3>3. QED
      BY <2>2, <3>1, <3>2 DEF WindowOk
  <2>6. \A j : Kept(ch, j)' <=> KeptIn(r.push_buf, g, f + n, j)
    BY <1>7, <2>3, <2>4 DEF Kept
  <2>7. \A j \in 1..Top(ch) : Kept(ch, j) => Kept(ch, j)'
    BY <2>2, <2>6 DEF Kept
  <2>8. ASSUME NEW j \in 1..Len(cam.frags), Ack(ch, j) \in toCam' PROVE j \in 1..Top(ch) /\ Kept(ch, j)'
    <3>1. CASE Ack(ch, j) \in toCam
      BY <1>1, <2>7, <3>1 DEF UdpOk
    <3>2. CASE Ack(ch, j) \notin toCam
      <4>1. j = k /\ r.res >= 0
        BY <1>1, <2>8, <3>2, DatagramsDiffer
      <4>2. QED
        BY <1>5, <2>2, <2>6, <4>1
    <3>3. QED
      BY <3>1, <3>2
  <2>9. ch = 2 => \A j \in cam'.acked : j \in 1..Top(2) /\ Kept(2, j)'
    BY <1>1, <2>7 DEF UdpOk
  <2>10. \A j \in 1..Len(cam'.frags) : Drw(ch, j) \in toCli' => j \in Bot(ch)..Top(ch)
    BY <1>1 DEF UdpOk
  <2>11. chan'[ch].wait_seq = (fed'[ch]) % Modulus /\ BufferOk(chan'[ch].push_buf, g, fed'[ch], Top(ch))
    BY <1>7, <2>2, <2>3
  <2>12. WindowOk(fed'[ch], Bot(ch), Top(ch))
    BY <1>7, <2>5
  <2> HIDE DEF f, g
  <2>13. QED
    BY <1>1, <2>4, <2>8, <2>9, <2>10, <2>11, <2>12 DEF UdpOk
<1>12. QED
  BY <1>8, <1>9, <1>10, <1>11 DEF AckInv

LEMMA RecvTcpAcks ==
  ASSUME AckInv, NEW ch \in {0, 2}, NEW k \in 1..Len(cam.frags), NEW open, RecvTcp(ch, k, open)
  PROVE  AckInv'
<1> DEFINE st == [data |-> chan[ch].data, size |-> chan[ch].size, q |-> queue[ch], full |-> FALSE]
           r == Push(st, Payload(ch, k), open)
<1>1. /\ mode = "tcp" /\ mode' = mode /\ cam' = cam
      /\ chan' = [chan EXCEPT ![ch].data = r.data, ![ch].size = r.size]
      /\ queue' = [queue EXCEPT ![ch] = r.q] /\ fed' = [fed EXCEPT ![ch] = @ + 1]
  BY DEF RecvTcp
<1>2. ChannelTypes
  BY DEF AckInv
<1>3. StTypes(r)
  <2>1. StTypes(st)
    BY <1>2 DEF ChannelTypes, StTypes
  <2>2. Payload(ch, k) \in Seq(Nat)
    BY <1>2, DatagramTypes DEF Payload, Datagrams
  <2> HIDE DEF st
  <2>3. QED
    BY <2>1, <2>2, PushTypes
<1>4. ChannelTypes'
  <2>1. r.data \in Seq(Nat) /\ r.size \in Nat /\ r.q \in Seq(Seq(Nat))
    BY <1>3 DEF StTypes
  <2> HIDE DEF r
  <2>2. QED
    BY <1>1, <1>2, <2>1 DEF ChannelTypes
<1>5. QED
  BY <1>1, <1>4 DEF AckInv, NoneOk

\* The camera sends what is in its window.
LEMMA SendAcks ==
  ASSUME AckInv, NEW ch \in {0, 2}, NEW k \in Nat, UNCHANGED <<mode, chan, queue, fed, up, toCam, cam>>,
         toCli' \subseteq toCli \cup {Drw(ch, k)},
         up /\ mode = "udp" => k \in Bot(ch)..Top(ch)
  PROVE  AckInv'
<1>1. ChannelTypes' /\ NoneOk'
  BY DEF AckInv, ChannelTypes, NoneOk
<1>2. ASSUME up, mode = "udp", NEW d \in {0, 2} PROVE UdpOk(d)'
  <2>1. UdpOk(d)
    BY <1>2 DEF AckInv
  <2>2. Bot(d)' = Bot(d) /\ Top(d)' = Top(d) /\ Top(2)' = Top(2) /\ Datagrams(d)' = Datagrams(d)
    BY DEF Bot, Top, Datagrams
  <2>3. \A j : Kept(d, j)' <=> Kept(d, j)
    BY <2>2 DEF Kept
  <2>4. \A j \in 1..Len(cam.frags) : Drw(d, j) \in toCli' => j \in Bot(d)..Top(d)
    BY <1>2, <2>1, DatagramsDiffer DEF UdpOk
  <2>5. QED
    BY <2>1, <2>2, <2>3, <2>4 DEF UdpOk
<1>3. QED
  BY <1>1, <1>2 DEF AckInv

\* The window moves up to the first datagram that is not acknowledged, which is
\* one the channel still waits for, or one before it.
LEMMA WindowAcks ==
  ASSUME AckInv, SendInv, NEW k \in 1..Len(cam.frags), CamAck(2, k)
  PROVE  AckInv'
<1> DEFINE acked == cam.acked \cup {k}
           Free(l) == l \notin acked /\ \A j \in cam.low..(l - 1) : j \in acked
           low == CHOOSE l \in cam.low..(cam.low + Window) : Free(l)
<1>1. /\ Ack(2, k) \in toCam /\ toCam' \subseteq toCam
      /\ cam' = [cam EXCEPT !.low = low, !.acked = {j \in acked : j > low}]
      /\ toCli' = {p \in toCli : p.t = "drw" /\ p.ch = 2 => p.k >= low}
      /\ UNCHANGED <<mode, chan, queue, fed, up, slot>>
  <2>1. 2 # 0 /\ toCam \ {Ack(2, k)} \subseteq toCam
    OBVIOUS
  <2>2. QED
    BY <2>1, Zenon DEF CamAck
<1>2. cam'.frags = cam.frags /\ cam'.accepts = cam.accepts /\ cam'.low = low
      /\ cam'.acked = {j \in acked : j > low}
  BY <1>1 DEF SendInv, CamTypes
<1> HIDE DEF low
<1>3. ChannelTypes
  BY DEF AckInv
<1>4. ChannelTypes'
  BY <1>1, <1>2, <1>3 DEF ChannelTypes
<1>5. NoneOk'
  BY <1>1 DEF AckInv, NoneOk
<1>6. ASSUME up, mode = "udp" PROVE UdpOk(0)' /\ UdpOk(2)'
  <2> DEFINE f == fed[2]
  <2>1. UdpOk(0) /\ UdpOk(2)
    BY <1>6 DEF AckInv
  <2>2. /\ f \in Nat /\ cam.low \in Nat \ {0} /\ Top(2) \in Nat /\ Top(2) <= Len(cam.frags)
        /\ cam.low <= f + 1 /\ f <= Top(2) /\ Len(cam.frags) \in Nat /\ Window \in Nat
        /\ Top(2) <= cam.low + Window - 1
    <3>1. WindowOk(f, Bot(2), Top(2)) /\ Bot(2) = cam.low
      BY <2>1 DEF UdpOk, Bot
    <3>2. Top(2) <= Len(cam.frags) /\ Len(cam.frags) \in Nat /\ Window \in Nat
      BY <1>3, <2>1, TopIs, DatagramTypes, Cs2Assumption
    <3>3. cam.low \in Nat
      BY <3>1 DEF WindowOk
    <3>4. Top(2) <= cam.low + Window - 1
      BY <3>2, <3>3 DEF Top
    <3>5. QED
      BY <3>1, <3>2, <3>4 DEF WindowOk
  <2>3. \A j \in acked : j \in 1..Top(2) /\ Kept(2, j)
    BY <1>1, <2>1 DEF UdpOk
  <2>4. f + 1 \notin acked
    <3>1. ASSUME f + 1 \in acked PROVE FALSE
      <4>1. f + 1 \in 1..Top(2) /\ Kept(2, f + 1)
        BY <2>3, <3>1
      <4>2. SeqNo(f + 1) \in DOMAIN chan[2].push_buf
        BY <2>2, <4>1 DEF Kept, KeptIn
      <4>3. PICK j \in (f + 2)..Top(2) : SeqNo(f + 1) = SeqNo(j)
        BY <2>1, <4>2 DEF UdpOk, BufferOk
      <4>4. Top(2) - f < Modulus
        BY <2>1, WindowIs DEF UdpOk
      <4>5. j \in (f + 1)..(Top(2) + 1) /\ f + 1 \in (f + 1)..(Top(2) + 1)
        BY <2>2
      <4>6. f + 1 = j
        <5> HIDE DEF f
        <5>1. QED
          BY <2>2, <4>3, <4>4, <4>5, OneNumber
      <4>7. QED
        BY <2>2, <4>6
    <3>2. QED
      BY <3>1
  <2>5. /\ low \in cam.low..(cam.low + Window) /\ low <= f + 1
        /\ \A j \in cam.low..(low - 1) : j \in acked
    <3> DEFINE T == {l \in Nat : l >= cam.low /\ l \notin acked}
    <3>1. f + 1 \in T
      BY <2>2, <2>4
    <3>2. PICK m \in T : \A l \in T : m <= l
      <4> HIDE DEF T
      <4>1. T \in SUBSET Nat
        BY DEF T
      <4>2. QED
        BY <3>1, <4>1, LeastNat
    <3>3. m \in cam.low..(cam.low + Window) /\ Free(m)
      <4>1. m <= f + 1 /\ m \in Nat /\ m >= cam.low /\ m \notin acked
        BY <3>1, <3>2
      <4>2. ASSUME NEW j \in cam.low..(m - 1) PROVE j \in acked
        <5>1. j \in Nat /\ j >= cam.low /\ j < m
          BY <2>2, <4>1
        <5>2. j \notin T
          BY <3>2, <4>1, <5>1
        <5>3. QED
          BY <5>1, <5>2
      <4>3. m \in cam.low..(cam.low + Window)
        BY <2>2, <4>1
      <4>4. QED
        BY <4>1, <4>2, <4>3
    <3>4. low \in cam.low..(cam.low + Window) /\ Free(low)
      <4> HIDE DEF Free
      <4>1. QED
        BY <3>3 DEF low
    <3>5. low <= f + 1
      <4>1. ASSUME low > f + 1 PROVE FALSE
        <5>1. f + 1 \in cam.low..(low - 1)
          BY <2>2, <3>4, <4>1
        <5>2. QED
          BY <2>4, <3>4, <5>1
      <4>2. QED
        BY <2>2, <3>4, <4>1
    <3>6. QED
      BY <3>4, <3>5
  <2>6. UdpOk(0)'
    <3>1. Bot(0)' = Bot(0) /\ Top(0)' = Top(0) /\ Datagrams(0)' = Datagrams(0)
      BY <1>2 DEF Bot, Top, Datagrams
    <3>2. \A j : Kept(0, j)' <=> Kept(0, j)
      BY <1>1, <3>1 DEF Kept
    <3>3. toCli' \subseteq toCli
      BY <1>1
    <3>4. QED
      BY <1>1, <1>2, <2>1, <3>1, <3>2, <3>3 DEF UdpOk
  <2>7. /\ Bot(2)' = low /\ Top(2)' \in Nat /\ Top(2) <= Top(2)' /\ Top(2)' <= Len(cam.frags)
        /\ Top(2)' <= low + Window - 1 /\ Datagrams(2)' = Datagrams(2)
    <3>1. Top(2)' = IF low + Window - 1 < Len(cam.frags) THEN low + Window - 1 ELSE Len(cam.frags)
      BY <1>2 DEF Top
    <3>2. low \in Nat \ {0} /\ cam.low <= low
      BY <2>2, <2>5
    <3>3. Bot(2)' = low /\ Datagrams(2)' = Datagrams(2)
      BY <1>2 DEF Bot, Datagrams
    <3>4. PICK w \in Nat, n \in Nat : w = Window /\ n = Len(cam.frags)
      BY <2>2
    <3>5. /\ Top(2)' \in Nat /\ Top(2) <= Top(2)' /\ Top(2)' <= n
          /\ Top(2)' <= low + w - 1
      <4>1. Top(2)' = IF low + w - 1 < n THEN low + w - 1 ELSE n
        BY <3>1, <3>4
      <4>2. Top(2) \in Nat /\ Top(2) <= n /\ Top(2) <= cam.low + w - 1 /\ cam.low \in Nat \ {0}
        BY <2>2, <3>4
      <4>3. QED
        BY <3>2, <3>4, <4>1, <4>2
    <3>6. QED
      BY <3>3, <3>4, <3>5
  <2>8. \A j : Kept(2, j)' <=> Kept(2, j)
    BY <1>1, <2>7 DEF Kept
  <2>9. WindowOk(f, low, Top(2)')
    <3>1. low \in Nat \ {0} /\ Modulus \div 2 \in Nat /\ Window <= Modulus \div 2
      BY <2>2, <2>5, Cs2Assumption
    <3>2. f <= Top(2)' /\ Top(2)' - low < Modulus \div 2
      <4>1. PICK h \in Nat : h = Modulus \div 2 /\ Window <= h
        BY <3>1
      <4>2. Top(2)' \in Nat /\ Top(2) <= Top(2)' /\ Top(2)' <= low + Window - 1
        BY <2>7
      <4>3. f \in Nat /\ Top(2) \in Nat /\ f <= Top(2) /\ Window \in Nat
        BY <2>2
      <4> HIDE DEF f
      <4>4. QED
        BY <3>1, <4>1, <4>2, <4>3
    <3>3. QED
      BY <2>2, <2>5, <2>7, <3>1, <3>2 DEF WindowOk
  <2>10. BufferOk(chan[2].push_buf, Datagrams(2), f, Top(2)')
    <3>1. \A j \in (f + 2)..Top(2) : j \in (f + 2)..(Top(2)')
      BY <2>2, <2>7
    <3>2. BufferOk(chan[2].push_buf, Datagrams(2), f, Top(2))
      BY <2>1 DEF UdpOk
    <3>3. QED
      BY <3>1, <3>2 DEF BufferOk
  <2>11. \A j \in 1..Len(cam.frags) : Drw(2, j) \in toCli' => j \in low..(Top(2)')
    <3> SUFFICES ASSUME NEW j \in 1..Len(cam.frags), Drw(2, j) \in toCli' PROVE j \in low..(Top(2)')
      OBVIOUS
    <3>1. Drw(2, j) \in toCli /\ j >= low
      <4>1. Drw(2, j).t = "drw" /\ Drw(2, j).ch = 2 /\ Drw(2, j).k = j
        BY DEF Drw
      <4>2. QED
        BY <1>1, <4>1
    <3>2. j <= Top(2)
      BY <2>1, <3>1 DEF UdpOk
    <3>3. QED
      BY <2>2, <2>5, <2>7, <3>1, <3>2
  <2>12. \A j \in 1..Top(2) : j \in 1..(Top(2)')
    BY <2>2, <2>7
  <2>13. \A j \in 1..Len(cam.frags) : Ack(2, j) \in toCam' => j \in 1..(Top(2)') /\ Kept(2, j)'
    BY <1>1, <2>1, <2>8, <2>12 DEF UdpOk
  <2>14. \A j \in cam'.acked : j \in 1..(Top(2)') /\ Kept(2, j)'
    BY <1>2, <2>3, <2>8, <2>12
  <2>15. UdpOk(2)'
    BY <1>1, <1>2, <2>1, <2>7, <2>9, <2>10, <2>11, <2>13, <2>14 DEF UdpOk
  <2>16. QED
    BY <2>6, <2>15
<1>7. QED
  BY <1>1, <1>4, <1>5, <1>6 DEF AckInv

LEMMA AckInvariant == XiaomiSpec => [](SendInv /\ AckInv)
<1>1. XiaomiInit => AckInv
  <2> SUFFICES ASSUME XiaomiInit PROVE AckInv
    OBVIOUS
  <2>1. /\ mode = "none" /\ up = FALSE /\ toCam = {} /\ cam.low = 1 /\ cam.acked = {} /\ cam.frags \in Splits
    BY DEF XiaomiInit, Cs2Init, NewCamera
  <2>2. /\ DOMAIN NewChannel = {"wait_seq", "push_buf", "data", "size"}
        /\ NewChannel.data \in Seq(Nat) /\ NewChannel.size \in Nat /\ <<>> \in Seq(Seq(Nat))
    BY DEF NewChannel
  <2>3. ChannelTypes
    BY <2>1, <2>2 DEF XiaomiInit, Cs2Init, ChannelTypes
  <2>4. QED
    BY <2>1, <2>3 DEF AckInv, NoneOk
<1>2. SendInv /\ AckInv /\ [XiaomiNext]_xiaomivars => AckInv'
  <2> SUFFICES ASSUME SendInv, AckInv, [XiaomiNext]_xiaomivars PROVE AckInv'
    OBVIOUS
  <2>0. /\ DOMAIN queue = {0, 2} /\ \A ch \in {0, 2} : queue[ch] \in Seq(Seq(Nat))
    BY DEF AckInv, ChannelTypes
  <2>1. ASSUME UNCHANGED cs2vars PROVE AckInv'
    BY <2>0, <2>1, AckQuiet DEF cs2vars
  <2>2. CASE Tool \/ TokenLogin \/ TokenLoggedIn \/ Account \/ Resolve \/ Loop \/ Cancel \/ UNCHANGED xiaomivars
    BY <2>1, <2>2 DEF Tool, TokenLogin, TokenLoggedIn, Account, Resolve, Loop, Cancel, xiaomivars
  <2>3. ASSUME NEW x, SendHello(x) PROVE AckInv'
    <3>1. /\ UNCHANGED <<mode, chan, queue, fed, up, toCli, cam>> /\ toCam' \subseteq toCam \cup {Hello(x)}
      BY <2>3, CarriedIs DEF SendHello
    <3>2. QED
      BY <2>0, <3>1, DatagramsDiffer, AckQuiet
  <2>4. ASSUME NEW c, SendCommand(c) \/ SendOnce(c) \/ Resend(c) PROVE AckInv'
    <3>1. /\ UNCHANGED <<mode, chan, queue, fed, up, toCli, cam>> /\ toCam' \subseteq toCam \cup {Cmd(c)}
      BY <2>4, CarriedIs DEF SendCommand, SendOnce, Resend
    <3>2. QED
      BY <2>0, <3>1, DatagramsDiffer, AckQuiet
  <2>5. ASSUME ClearSlot PROVE AckInv'
    BY <2>0, <2>5, AckQuiet DEF ClearSlot
  <2>6. ASSUME NEW ch \in {0, 2}, TakeFrom(ch) PROVE AckInv'
    <3>1. /\ UNCHANGED <<mode, chan, fed, up, toCli, toCam, cam>>
          /\ queue[ch] # <<>> /\ queue' = [queue EXCEPT ![ch] = Tail(@)]
      BY <2>6 DEF TakeFrom
    <3>2. Tail(queue[ch]) \in Seq(Seq(Nat))
      BY <2>0, <3>1
    <3>3. /\ DOMAIN queue' = {0, 2} /\ \A d \in {0, 2} : queue'[d] \in Seq(Seq(Nat))
      BY <2>0, <3>1, <3>2
    <3>4. QED
      BY <3>1, <3>3, AckQuiet
  <2>7. ASSUME Ready PROVE AckInv'
    <3>1. /\ mode = "none" /\ mode' = cam.mode /\ mode' \in {"udp", "tcp"} /\ up' = TRUE /\ cam' = cam
          /\ chan' = [ch \in {0, 2} |-> NewChannel] /\ queue' = [ch \in {0, 2} |-> <<>>]
          /\ fed' = [ch \in {0, 2} |-> 0] /\ toCli' = {} /\ toCam' = {}
      BY <2>7 DEF Ready, SendInv, CamTypes
    <3>2. /\ DOMAIN NewChannel = {"wait_seq", "push_buf", "data", "size"}
          /\ NewChannel.data \in Seq(Nat) /\ NewChannel.size \in Nat /\ <<>> \in Seq(Seq(Nat))
          /\ NewChannel.wait_seq = 0 /\ NewChannel.push_buf = <<>>
      BY DEF NewChannel
    <3>3. ChannelTypes'
      BY <3>1, <3>2 DEF AckInv, ChannelTypes
    <3>4. NoneOk'
      BY <3>1 DEF NoneOk
    <3>5. ASSUME NEW ch \in {0, 2} PROVE UdpOk(ch)'
      <4>1. cam.low = 1 /\ cam.acked = {} /\ Len(cam.frags) \in Nat
        BY <3>1, DatagramTypes DEF AckInv, NoneOk
      <4>2. Bot(ch)' = 1 /\ Top(ch)' \in Nat /\ Top(ch)' - 1 < Modulus \div 2
        BY <3>1, <4>1, Cs2Assumption DEF Bot, Top
      <4>3. WindowOk(0, 1, Top(ch)')
        BY <4>2 DEF WindowOk
      <4>4. BufferOk(<<>>, Datagrams(ch)', 0, Top(ch)')
        <5>1. DOMAIN <<>> = {}
          OBVIOUS
        <5>2. QED
          BY <5>1, FS_EmptySet, Cs2Assumption DEF BufferOk
      <4>5. 0 = 0 % Modulus
        BY Cs2Assumption
      <4>6. QED
        BY <3>1, <3>2, <4>1, <4>2, <4>3, <4>4, <4>5 DEF UdpOk
    <3>6. QED
      BY <3>3, <3>4, <3>5 DEF AckInv
  <2>8. CASE Search \/ Echo
    BY <2>1, <2>3, <2>7, <2>8 DEF Search, Echo
  <2>9. CASE WriteCommand
    <3>1. ArmSlot => AckInv'
      BY <2>0, AckQuiet DEF ArmSlot
    <3>2. QED
      BY <2>1, <2>4, <2>9, <3>1 DEF WriteCommand
  <2>10. CASE CommandAcked \/ CommandTimeout
    BY <2>1, <2>4, <2>5, <2>10 DEF CommandAcked, CommandTimeout
  <2>11. CASE ReadReply \/ ReadPacket
    BY <2>1, <2>6, <2>11 DEF ReadReply, ReadPacket
  <2>12. CASE Thread
    <3>1. ASSUME NEW c, RecvAck(c) PROVE AckInv'
      BY <2>0, <3>1, AckQuiet DEF RecvAck
    <3>2. CASE RecvError
      BY <2>0, <3>2, AckQuiet DEF RecvError
    <3>3. QED
      BY <2>12, <3>1, <3>2, RecvUdpAcks, RecvTcpAcks DEF Thread, Worker
  <2>13. CASE World
    <3>1. CASE CamHello
      <4>1. toCli' \subseteq toCli \cup {Hello("punch"), Hello("ready")}
            /\ UNCHANGED <<mode, chan, queue, fed, up, toCam, cam>>
        BY <3>1, CarriedIs DEF CamHello
      <4>2. QED
        BY <2>0, <4>1, DatagramsDiffer, AckQuiet
    <3>2. CASE CamReply
      <4>1. toCli' \subseteq toCli \cup {Drw(0, 1)} /\ UNCHANGED <<mode, chan, queue, fed, up, toCam, cam>>
        BY <3>2, CarriedIs DEF CamReply
      <4>2. 1 \in Bot(0)..Top(0)
        BY DEF Bot, Top
      <4>3. QED
        BY <4>1, <4>2, SendAcks
    <3>3. CASE Lose
      BY <2>0, <3>3, AckQuiet DEF Lose
    <3>4. ASSUME NEW c \in Commands, CamCommand(c) PROVE AckInv'
      <4>1. /\ toCli' \subseteq toCli \cup {CmdAck(c)} /\ toCam' \subseteq toCam
            /\ UNCHANGED <<mode, chan, queue, fed, up>> /\ cam' = [cam EXCEPT !.got = @ \cup {c}]
        BY <3>4, CarriedIs DEF CamCommand
      <4>2. /\ cam'.frags = cam.frags /\ cam'.accepts = cam.accepts
            /\ cam'.low = cam.low /\ cam'.acked = cam.acked
        BY <4>1
      <4>3. QED
        BY <2>0, <4>1, <4>2, DatagramsDiffer, AckQuiet
    <3>5. ASSUME NEW k \in 1..Len(cam.frags), CamSend(k) PROVE AckInv'
      <4>1. toCli' \subseteq toCli \cup {Drw(2, k)} /\ UNCHANGED <<mode, chan, queue, fed, up, toCam, cam>>
        BY <3>5, CarriedIs DEF CamSend
      <4>2. ASSUME up, mode = "udp" PROVE k \in Bot(2)..Top(2)
        <5>1. k \in cam.low..(cam.low + Window - 1) /\ cam.low \in Nat /\ Window \in Nat
          BY <3>5, <4>2, Cs2Assumption DEF CamSend, AckInv, UdpOk, WindowOk, Bot
        <5>2. Len(cam.frags) \in Nat
          BY DatagramTypes DEF AckInv
        <5>3. QED
          BY <5>1, <5>2 DEF Bot, Top
      <4>3. QED
        BY <4>1, <4>2, SendAcks
    <3>6. ASSUME NEW k \in 1..Len(cam.frags), CamAck(0, k) PROVE AckInv'
      <4>1. /\ toCam' \subseteq toCam /\ UNCHANGED <<mode, chan, queue, fed, up, toCli>>
            /\ cam' = [cam EXCEPT !.replied = TRUE]
        BY <3>6 DEF CamAck
      <4>2. QED
        BY <2>0, <4>1, AckQuiet
    <3>7. QED
      BY <2>13, <3>1, <3>2, <3>3, <3>4, <3>5, <3>6, WindowAcks DEF World, Network
  <2>14. QED
    BY <2>2, <2>8, <2>9, <2>10, <2>11, <2>12, <2>13 DEF XiaomiNext, Client
<1>3. QED
  BY <1>1, <1>2, SendInvariant, PTL DEF XiaomiSpec

\* cs2.rs:261: what the worker acknowledges it keeps, in the channel or its buffer.
THEOREM AckedIsKeptAlways == XiaomiSpec => []AckedIsKept
<1>1. SendInv /\ AckInv => AckedIsKept
  <2> SUFFICES ASSUME SendInv, AckInv, NEW ch \in {0, 2}, NEW k \in 1..Len(cam.frags), up, mode # "tcp",
                      Ack(ch, k) \in toCam \/ (ch = 2 /\ (k \in cam.acked \/ k < cam.low))
               PROVE  \/ k <= fed[ch]
                      \/ /\ SeqNo(k) \in DOMAIN chan[ch].push_buf
                         /\ chan[ch].push_buf[SeqNo(k)] = Payload(ch, k)
    BY DEF AckedIsKept
  <2>1. UdpOk(ch)
    <3>1. mode = "udp"
      BY DEF SendInv, CamTypes, AckInv, NoneOk
    <3>2. QED
      BY <3>1 DEF AckInv
  <2>2. CASE k \in 1..Top(ch) /\ Kept(ch, k)
    <3>1. Payload(ch, k) = Datagrams(ch)[k]
      BY <2>1, <2>2, TopIs DEF AckInv
    <3>2. QED
      BY <2>2, <3>1 DEF Kept, KeptIn
  <2>3. CASE ch = 2 /\ k < cam.low
    <3>1. cam.low \in Nat /\ fed[ch] \in Nat /\ cam.low <= fed[ch] + 1
      BY <2>1, <2>3 DEF UdpOk, WindowOk, Bot
    <3>2. QED
      BY <2>3, <3>1
  <2>4. QED
    BY <2>1, <2>2, <2>3 DEF UdpOk
<1>2. QED
  BY <1>1, AckInvariant, PTL

\* The function that FlattenSeq defines over the first n members of s.
Flattens(f, s, n) ==
  f = [i \in 1..n |-> IF i = 1 THEN s[i] ELSE f[i - 1] \o s[i]]

\* What it computes for the i-th member.
LEMMA FlattensAt ==
  ASSUME NEW f, NEW s, NEW n \in Nat, Flattens(f, s, n), NEW i \in 1..n
  PROVE  f[i] = IF i = 1 THEN s[i] ELSE f[i - 1] \o s[i]
<1> DEFINE F(g, j) == IF j = 1 THEN s[j] ELSE g[j - 1] \o s[j]
<1>1. f = [j \in 1..n |-> F(f, j)]
  BY DEF Flattens
<1> HIDE DEF F
<1>2. f[i] = F(f, i)
  BY <1>1
<1>3. QED
  BY <1>2 DEF F

\* It exists.
LEMMA FlattensExists ==
  ASSUME NEW s, NEW n \in Nat
  PROVE  \E f : Flattens(f, s, n)
<1> DEFINE T == {m \in Nat : ~ \E f : Flattens(f, s, m)}
<1>1. ASSUME T # {} PROVE FALSE
  <2>1. PICK m \in T : \A k \in T : m <= k
    BY <1>1, LeastNat
  <2>2. CASE m = 0
    <3>1. Flattens([i \in 1..0 |-> 0], s, 0)
      BY DEF Flattens
    <3>2. QED
      BY <2>1, <2>2, <3>1
  <2>3. CASE m > 0
    <3>1. m - 1 \in Nat /\ m - 1 \notin T
      BY <2>1, <2>3
    <3>2. PICK g : Flattens(g, s, m - 1)
      BY <3>1
    <3> DEFINE f == [i \in 1..m |-> IF i < m THEN g[i]
                                    ELSE IF i = 1 THEN s[i] ELSE g[i - 1] \o s[i]]
    <3>3. ASSUME NEW i \in 1..m
          PROVE  f[i] = IF i = 1 THEN s[i] ELSE f[i - 1] \o s[i]
      <4>1. CASE i < m
        <5>1. i \in 1..(m - 1) /\ f[i] = g[i]
          BY <4>1, <3>1
        <5>2. g[i] = IF i = 1 THEN s[i] ELSE g[i - 1] \o s[i]
          BY <5>1, <3>2, FlattensAt
        <5>3. i # 1 => i - 1 \in 1..m /\ i - 1 < m
          BY <4>1, <3>1
        <5>4. i # 1 => f[i - 1] = g[i - 1]
          BY <5>3
        <5>5. QED
          BY <5>1, <5>2, <5>4
      <4>2. CASE i = m
        <5>1. i # 1 => i - 1 \in 1..m /\ i - 1 < m
          BY <4>2, <3>1
        <5>2. i # 1 => f[i - 1] = g[i - 1]
          BY <5>1
        <5>3. QED
          BY <4>2, <5>2
      <4>3. QED
        BY <4>1, <4>2, <3>1
    <3>4. f = [i \in 1..m |-> f[i]]
      OBVIOUS
    <3> HIDE DEF f
    <3>5. Flattens(f, s, m)
      BY <3>3, <3>4 DEF Flattens
    <3>6. QED
      BY <2>1, <3>5
  <2>4. QED
    BY <2>1, <2>2, <2>3
<1>2. QED
  BY <1>1

SameUpTo(s, t, n) == \A i \in 1..n : s[i] = t[i]

\* What it computes does not depend on the members after n.
LEMMA FlattensAgree ==
  ASSUME NEW s, NEW t, NEW n \in Nat, NEW m \in Nat, n <= m, SameUpTo(s, t, n),
         NEW f, NEW g, Flattens(f, s, n), Flattens(g, t, m)
  PROVE  SameUpTo(f, g, n)
<1> USE DEF SameUpTo
<1> DEFINE T == {i \in 1..n : f[i] # g[i]}
<1>1. ASSUME T # {} PROVE FALSE
  <2>0. T \in SUBSET Nat
    OBVIOUS
  <2>1. PICK k \in T : \A j \in T : k <= j
    <3> HIDE DEF T
    <3>1. QED
      BY <1>1, <2>0, LeastNat
  <2>2. f[k] = IF k = 1 THEN s[k] ELSE f[k - 1] \o s[k]
    BY <2>1, FlattensAt
  <2>3. g[k] = IF k = 1 THEN t[k] ELSE g[k - 1] \o t[k]
    <3>1. k \in 1..m
      BY <2>1
    <3>2. QED
      BY <3>1, FlattensAt
  <2>4. k # 1 => k - 1 \in 1..n /\ k - 1 \notin T
    BY <2>1
  <2>5. QED
    BY <2>1, <2>2, <2>3, <2>4
<1>2. QED
  BY <1>1

\* It computes sequences of the members' members.
LEMMA FlattensType ==
  ASSUME NEW X, NEW s \in Seq(Seq(X)), NEW f, Flattens(f, s, Len(s))
  PROVE  \A i \in 1..Len(s) : f[i] \in Seq(X)
<1> DEFINE T == {i \in 1..Len(s) : f[i] \notin Seq(X)}
<1>1. ASSUME T # {} PROVE FALSE
  <2>0. T \in SUBSET Nat
    OBVIOUS
  <2>1. PICK k \in T : \A j \in T : k <= j
    <3> HIDE DEF T
    <3>1. QED
      BY <1>1, <2>0, LeastNat
  <2>2. f[k] = IF k = 1 THEN s[k] ELSE f[k - 1] \o s[k]
    BY <2>1, FlattensAt
  <2>3. k # 1 => k - 1 \in 1..Len(s) /\ k - 1 \notin T
    BY <2>1
  <2>4. s[k] \in Seq(X) /\ f[k] \notin Seq(X)
    BY <2>1
  <2>5. k # 1 => f[k - 1] \in Seq(X)
    BY <2>3
  <2>6. k # 1 => f[k - 1] \o s[k] \in Seq(X)
    BY <2>4, <2>5
  <2>7. QED
    BY <2>2, <2>4, <2>6
<1>2. QED
  BY <1>1

\* FlattenSeq is its value at the end.
LEMMA FlattenSeqIs ==
  ASSUME NEW s, Len(s) \in Nat \ {0}
  PROVE  \E f : Flattens(f, s, Len(s)) /\ FlattenSeq(s) = f[Len(s)]
<1> DEFINE f == CHOOSE g : Flattens(g, s, Len(s))
<1>1. Flattens(f, s, Len(s))
  BY FlattensExists
<1>2. FlattenSeq(s) = f[Len(s)]
  BY Zenon DEF FlattenSeq, Flattens
<1>3. QED
  BY <1>1, <1>2

\* Flattening yields a sequence, and a file more comes at its end.
LEMMA FlattenAppend ==
  ASSUME NEW X, NEW s \in Seq(Seq(X)), NEW x \in Seq(X)
  PROVE  /\ FlattenSeq(s) \in Seq(X)
         /\ FlattenSeq(Append(s, x)) = FlattenSeq(s) \o x
<1> DEFINE t == Append(s, x)
           n == Len(s)
<1>1. /\ n \in Nat /\ t \in Seq(Seq(X)) /\ Len(t) = n + 1 /\ t[n + 1] = x
      /\ \A i \in 1..n : t[i] = s[i]
  OBVIOUS
<1> HIDE DEF t, n
<1>2. PICK g : Flattens(g, t, n + 1) /\ FlattenSeq(t) = g[n + 1]
  <2>1. Len(t) \in Nat \ {0}
    BY <1>1
  <2>2. QED
    BY <1>1, <2>1, FlattenSeqIs
<1>3. g[n + 1] = IF n + 1 = 1 THEN t[n + 1] ELSE g[(n + 1) - 1] \o t[n + 1]
  <2>1. n + 1 \in Nat /\ n + 1 \in 1..(n + 1)
    BY <1>1
  <2>2. QED
    BY <1>2, <2>1, FlattensAt
<1>4. CASE n = 0
  <2>1. s = <<>> /\ FlattenSeq(s) = s
    BY <1>4 DEF FlattenSeq, n
  <2>2. g[n + 1] = x
    BY <1>1, <1>3, <1>4
  <2>3. <<>> \o x = x /\ <<>> \in Seq(X)
    OBVIOUS
  <2>4. QED
    BY <1>2, <2>1, <2>2, <2>3 DEF t
<1>5. CASE n # 0
  <2>1. PICK f : Flattens(f, s, n) /\ FlattenSeq(s) = f[n]
    BY <1>1, <1>5, FlattenSeqIs DEF n
  <2>2. SameUpTo(f, g, n)
    <3> DEFINE m == n + 1
    <3>1. m \in Nat /\ n <= m /\ Flattens(g, t, m)
      BY <1>1, <1>2
    <3>2. SameUpTo(s, t, n)
      BY <1>1 DEF SameUpTo
    <3> HIDE DEF m
    <3>3. n \in Nat /\ Flattens(f, s, n)
      BY <1>1, <2>1
    <3>4. QED
      BY <3>1, <3>2, <3>3, FlattensAgree
  <2>3. f[n] = g[n]
    BY <1>1, <1>5, <2>2 DEF SameUpTo
  <2>4. f[n] \in Seq(X)
    BY <1>1, <1>5, <2>1, FlattensType DEF n
  <2>5. g[n + 1] = g[n] \o x
    BY <1>1, <1>3, <1>5
  <2>6. QED
    BY <1>2, <2>1, <2>3, <2>4, <2>5 DEF t
<1>6. QED
  BY <1>4, <1>5

\* Where the i-th member of s ends in the flattening of s.
Cut(s, i) == Len(FlattenSeq(SubSeq(s, 1, i)))

\* The members of s lie one after the other in its flattening.
CutsOk(s) ==
  /\ Cut(s, 0) = 0 /\ Cut(s, Len(s)) = Len(FlattenSeq(s))
  /\ \A i \in 0..Len(s) : Cut(s, i) \in Nat
  /\ \A i \in 1..Len(s) : Cut(s, i) = Cut(s, i - 1) + Len(s[i])
  /\ \A i \in 0..Len(s) : \A j \in i..Len(s) : Cut(s, i) <= Cut(s, j)
  /\ \A i \in 1..Len(s) : \A p \in 1..Len(s[i]) : FlattenSeq(s)[Cut(s, i - 1) + p] = s[i][p]

LEMMA CutsAre ==
  ASSUME NEW X, NEW s \in Seq(Seq(X))
  PROVE  CutsOk(s)
<1> DEFINE F(i) == FlattenSeq(SubSeq(s, 1, i))
<1>1. PICK n \in Nat : n = Len(s)
  OBVIOUS
<1>2. \A i \in 0..n : SubSeq(s, 1, i) \in Seq(Seq(X)) /\ Len(SubSeq(s, 1, i)) = i
  BY <1>1
<1>3. \A i \in 0..n : F(i) \in Seq(X) /\ Cut(s, i) \in Nat
  <2> SUFFICES ASSUME NEW i \in 0..n PROVE F(i) \in Seq(X) /\ Cut(s, i) \in Nat
    OBVIOUS
  <2>1. <<>> \in Seq(X)
    OBVIOUS
  <2>2. F(i) \in Seq(X)
    BY <1>2, <2>1, FlattenAppend
  <2>3. QED
    BY <2>2 DEF Cut
<1>4. F(0) = <<>> /\ Cut(s, 0) = 0
  <2>1. PICK e : e = SubSeq(s, 1, 0)
    OBVIOUS
  <2>2. e \in Seq(Seq(X)) /\ Len(e) = 0
    BY <1>2, <2>1
  <2>3. FlattenSeq(e) = e
    BY <2>2 DEF FlattenSeq
  <2>4. e = <<>>
    BY <2>2
  <2>5. F(0) = e /\ Cut(s, 0) = Len(e)
    BY <2>1, <2>3 DEF Cut
  <2>6. QED
    BY <2>2, <2>4, <2>5
<1>5. F(n) = FlattenSeq(s) /\ Cut(s, n) = Len(FlattenSeq(s))
  <2>1. SubSeq(s, 1, n) = s
    BY <1>1
  <2>2. QED
    BY <2>1 DEF Cut
<1>6. ASSUME NEW i \in 1..n PROVE F(i) = F(i - 1) \o s[i] /\ s[i] \in Seq(X)
  <2>1. i - 1 \in 0..n /\ s[i] \in Seq(X)
    BY <1>1
  <2>2. SubSeq(s, 1, i) = Append(SubSeq(s, 1, i - 1), s[i])
    BY <1>1
  <2>3. QED
    BY <1>2, <2>1, <2>2, FlattenAppend
<1> HIDE DEF F
<1>7. \A i \in 1..n : /\ Cut(s, i) = Cut(s, i - 1) + Len(s[i])
                      /\ Len(F(i)) = Cut(s, i) /\ Len(F(i - 1)) = Cut(s, i - 1) /\ Len(s[i]) \in Nat
                      /\ \A p \in 1..Len(F(i - 1)) : F(i)[p] = F(i - 1)[p]
                      /\ \A p \in 1..Len(s[i]) : F(i)[Cut(s, i - 1) + p] = s[i][p]
  <2> SUFFICES ASSUME NEW i \in 1..n
               PROVE  /\ Cut(s, i) = Cut(s, i - 1) + Len(s[i])
                      /\ Len(F(i)) = Cut(s, i) /\ Len(F(i - 1)) = Cut(s, i - 1) /\ Len(s[i]) \in Nat
                      /\ \A p \in 1..Len(F(i - 1)) : F(i)[p] = F(i - 1)[p]
                      /\ \A p \in 1..Len(s[i]) : F(i)[Cut(s, i - 1) + p] = s[i][p]
    OBVIOUS
  <2>0. i - 1 \in 0..n
    OBVIOUS
  <2>1. F(i) = F(i - 1) \o s[i] /\ F(i - 1) \in Seq(X) /\ s[i] \in Seq(X)
    BY <1>3, <1>6, <2>0
  <2>2. Len(F(i)) = Cut(s, i) /\ Len(F(i - 1)) = Cut(s, i - 1)
    BY DEF F, Cut
  <2>3. PICK a \in Seq(X), b \in Seq(X) : a = F(i - 1) /\ b = s[i]
    BY <2>1
  <2>4. /\ Len(a \o b) = Len(a) + Len(b) /\ Len(b) \in Nat
        /\ \A p \in 1..Len(a) : (a \o b)[p] = a[p]
        /\ \A p \in 1..Len(b) : (a \o b)[Len(a) + p] = b[p]
    OBVIOUS
  <2>5. QED
    BY <2>1, <2>2, <2>3, <2>4
<1>8. ASSUME NEW i \in 0..n
      PROVE  \A j \in i..n : /\ Cut(s, i) <= Cut(s, j)
                             /\ \A p \in 1..Cut(s, i) : F(j)[p] = F(i)[p]
  <2> DEFINE P == {d \in Nat : i + d <= n => /\ Cut(s, i) <= Cut(s, i + d)
                                             /\ \A p \in 1..Cut(s, i) : F(i + d)[p] = F(i)[p]}
  <2>1. 0 \in P
    BY <1>3
  <2>2. ASSUME NEW d \in 1..n, d - 1 \in P PROVE d \in P
    <3>1. SUFFICES ASSUME i + d <= n
                   PROVE  /\ Cut(s, i) <= Cut(s, i + d)
                          /\ \A p \in 1..Cut(s, i) : F(i + d)[p] = F(i)[p]
      OBVIOUS
    <3>2. /\ Cut(s, i) <= Cut(s, i + (d - 1)) /\ \A p \in 1..Cut(s, i) : F(i + (d - 1))[p] = F(i)[p]
      BY <2>2, <3>1
    <3>3. i + d \in 1..n /\ (i + d) - 1 = i + (d - 1) /\ i + (d - 1) \in 0..n
      BY <3>1
    <3>4. /\ Cut(s, i + d) = Cut(s, i + (d - 1)) + Len(s[i + d]) /\ Len(s[i + d]) \in Nat
          /\ Len(F(i + (d - 1))) = Cut(s, i + (d - 1))
          /\ \A p \in 1..Len(F(i + (d - 1))) : F(i + d)[p] = F(i + (d - 1))[p]
      BY <1>7, <3>3
    <3>5. Cut(s, i) \in Nat /\ Cut(s, i + (d - 1)) \in Nat
      BY <1>3, <3>3
    <3>6. QED
      BY <3>2, <3>4, <3>5
  <2>3. \A d \in 1..n : d - 1 \in P => d \in P
    BY <2>2
  <2>4. 0..n \subseteq P
    <3> HIDE DEF P
    <3>1. QED
      BY <2>1, <2>3, UpTo
  <2>5. ASSUME NEW j \in i..n PROVE /\ Cut(s, i) <= Cut(s, j) /\ \A p \in 1..Cut(s, i) : F(j)[p] = F(i)[p]
    <3>1. j - i \in 0..n /\ i + (j - i) = j
      OBVIOUS
    <3>2. j - i \in P
      BY <2>4, <3>1
    <3>3. QED
      BY <3>1, <3>2
  <2>6. QED
    BY <2>5
<1>9. ASSUME NEW i \in 1..n, NEW p \in 1..Len(s[i])
      PROVE  FlattenSeq(s)[Cut(s, i - 1) + p] = s[i][p]
  <2>1. /\ Cut(s, i - 1) \in Nat /\ Cut(s, i) = Cut(s, i - 1) + Len(s[i]) /\ Len(s[i]) \in Nat
        /\ F(i)[Cut(s, i - 1) + p] = s[i][p]
    BY <1>3, <1>7
  <2>2. Cut(s, i - 1) + p \in 1..Cut(s, i) /\ i \in 0..n /\ n \in i..n
    BY <2>1
  <2>3. F(n)[Cut(s, i - 1) + p] = F(i)[Cut(s, i - 1) + p]
    BY <1>8, <2>2
  <2>4. QED
    BY <1>5, <2>1, <2>3
<1>10. QED
  BY <1>1, <1>3, <1>4, <1>5, <1>7, <1>8, <1>9 DEF CutsOk

-----------------------------------------------------------------------------
(* The stream: bytes to records.                                              *)

FramedRecords == [i \in 1..Len(Records) |-> Framed(Records[i])]

\* Where record m ends on the wire.
RCut(m) == Cut(FramedRecords, m)

LEMMA SameSeq ==
  ASSUME NEW S, NEW s \in Seq(S), NEW t \in Seq(S), Len(s) = Len(t),
         \A i \in 1..Len(s) : s[i] = t[i]
  PROVE  s = t
  OBVIOUS

\* t are the k members of s after the first n.
TailOk(t, s, n, k) == t \in Seq(Nat) /\ Len(t) = k /\ \A i \in 1..k : t[i] = s[n + i]

LEMMA Tail2Is ==
  ASSUME NEW s, s \in Seq(Nat), NEW n, n \in Nat, NEW k, k \in Nat, n + k = Len(s)
  PROVE  TailOk(Tail2(s, n), s, n, k)
  BY DEF Tail2, TailOk

LEMMA FrontIs ==
  ASSUME NEW s \in Seq(Nat), NEW n \in Nat, NEW l \in Nat, l = Len(s), n <= l
  PROVE  /\ SubSeq(s, 1, n) \in Seq(Nat) /\ Len(SubSeq(s, 1, n)) = n
         /\ \A i \in 1..n : SubSeq(s, 1, n)[i] = s[i]
  OBVIOUS

LEMMA FramedIs ==
  ASSUME NEW r \in Seq(Nat)
  PROVE  /\ Framed(r) \in Seq(Nat) /\ Len(Framed(r)) = 4 + Len(r)
         /\ Framed(r)[1] = 0 /\ Framed(r)[2] = 0 /\ Framed(r)[3] = 0
         /\ Framed(r)[4] = Len(r)
         /\ \A j \in 1..Len(r) : Framed(r)[4 + j] = r[j]
<1>1. PICK l \in Nat : l = Len(r)
  OBVIOUS
<1>2. PICK h : h = <<0, 0, 0, l>>
  OBVIOUS
<1>3. h \in Seq(Nat) /\ Len(h) = 4 /\ h[1] = 0 /\ h[2] = 0 /\ h[3] = 0 /\ h[4] = l
  BY <1>2
<1>4. Framed(r) = h \o r
  BY <1>1, <1>2 DEF Framed
<1>5. /\ h \o r \in Seq(Nat) /\ Len(h \o r) = Len(h) + l
      /\ \A i \in 1..Len(h) : (h \o r)[i] = h[i]
      /\ \A j \in 1..l : (h \o r)[Len(h) + j] = r[j]
  <2> SUFFICES ASSUME NEW g \in Seq(Nat), g = h
               PROVE  /\ g \o r \in Seq(Nat) /\ Len(g \o r) = Len(g) + Len(r)
                      /\ \A i \in 1..Len(g) : (g \o r)[i] = g[i]
                      /\ \A j \in 1..Len(r) : (g \o r)[Len(g) + j] = r[j]
    BY <1>1, <1>3
  <2>1. QED
    OBVIOUS
<1>6. 1 \in 1..4 /\ 2 \in 1..4 /\ 3 \in 1..4 /\ 4 \in 1..4
  OBVIOUS
<1>7. QED
  BY <1>1, <1>3, <1>4, <1>5, <1>6

LEMMA WireIs ==
  /\ Len(Records) \in Nat /\ Len(Wire) \in Nat /\ RCut(0) = 0
  /\ \A m \in 0..Len(Records) :
       /\ RCut(m) \in Nat /\ RCut(m) <= Len(Wire)
       /\ m = Len(Records) => RCut(m) = Len(Wire)
       /\ m < Len(Records) =>
            /\ Records[m + 1] \in Seq(Nat) /\ RCut(m + 1) = RCut(m) + 4 + Len(Records[m + 1])
            /\ Wire[RCut(m) + 1] = 0 /\ Wire[RCut(m) + 2] = 0 /\ Wire[RCut(m) + 3] = 0
             /\ Wire[RCut(m) + 4] = Len(Records[m + 1])
            /\ \A j \in 1..Len(Records[m + 1]) : Wire[RCut(m) + 4 + j] = Records[m + 1][j]
<1>1. PICK n \in Nat : n = Len(Records)
  BY Cs2Assumption
<1>2. \A i \in 1..n : Records[i] \in Seq(Nat)
  BY <1>1, Cs2Assumption
<1>3. FramedRecords \in Seq(Seq(Nat)) /\ Len(FramedRecords) = n
      /\ \A i \in 1..n : FramedRecords[i] = Framed(Records[i])
  <2>1. \A i \in 1..n : Framed(Records[i]) \in Seq(Nat)
    BY <1>2, FramedIs
  <2>2. QED
    BY <1>1, <2>1 DEF FramedRecords
<1>4. CutsOk(FramedRecords)
  BY <1>3, CutsAre
<1>5. Wire = FlattenSeq(FramedRecords)
  BY DEF Wire, FramedRecords
<1>6. RCut(0) = 0 /\ RCut(n) = Len(Wire) /\ \A m \in 0..n : RCut(m) \in Nat /\ RCut(m) <= RCut(n)
  BY <1>3, <1>4, <1>5 DEF CutsOk, RCut
<1>7. ASSUME NEW m \in 0..n, m < n
      PROVE  /\ Records[m + 1] \in Seq(Nat) /\ RCut(m + 1) = RCut(m) + 4 + Len(Records[m + 1])
             /\ Wire[RCut(m) + 1] = 0 /\ Wire[RCut(m) + 2] = 0 /\ Wire[RCut(m) + 3] = 0
             /\ Wire[RCut(m) + 4] = Len(Records[m + 1])
             /\ \A j \in 1..Len(Records[m + 1]) : Wire[RCut(m) + 4 + j] = Records[m + 1][j]
  <2>1. m + 1 \in 1..n /\ (m + 1) - 1 = m
    BY <1>7
  <2>2. PICK r \in Seq(Nat) : r = Records[m + 1] /\ FramedRecords[m + 1] = Framed(r)
    BY <1>2, <1>3, <2>1
  <2>3. /\ RCut(m + 1) = RCut(m) + Len(Framed(r))
        /\ \A p \in 1..Len(Framed(r)) : Wire[RCut(m) + p] = Framed(r)[p]
    BY <1>3, <1>4, <1>5, <2>1, <2>2 DEF CutsOk, RCut
  <2>4. PICK l \in Nat, a \in Nat : l = Len(r) /\ a = RCut(m)
    BY <1>6
  <2>5. PICK w : w = Framed(r)
    OBVIOUS
  <2>6. /\ Len(w) = 4 + l /\ w[1] = 0 /\ w[2] = 0 /\ w[3] = 0 /\ w[4] = l /\ \A j \in 1..l : w[4 + j] = r[j]
    BY <2>4, <2>5, FramedIs
  <2>7. RCut(m + 1) = a + (4 + l) /\ \A p \in 1..(4 + l) : Wire[a + p] = w[p]
    BY <2>3, <2>4, <2>5, <2>6
  <2>8. /\ {1, 2, 3, 4} \subseteq 1..(4 + l) /\ a + (4 + l) = a + 4 + l
        /\ \A j \in 1..l : 4 + j \in 1..(4 + l) /\ a + (4 + j) = a + 4 + j
    OBVIOUS
  <2>9. RCut(m + 1) = a + 4 + l /\ Wire[a + 1] = 0 /\ Wire[a + 2] = 0 /\ Wire[a + 3] = 0
         /\ Wire[a + 4] = l
    BY <2>6, <2>7, <2>8
  <2>10. \A j \in 1..l : Wire[a + 4 + j] = r[j]
    <3> SUFFICES ASSUME NEW j \in 1..l PROVE Wire[a + 4 + j] = r[j]
      OBVIOUS
    <3>1. Wire[a + (4 + j)] = w[4 + j]
      BY <2>7, <2>8
    <3>2. QED
      BY <2>6, <2>8, <3>1
  <2>11. QED
    BY <2>2, <2>4, <2>9, <2>10
<1>8. QED
  BY <1>1, <1>6, <1>7

\* data are the bytes of the wire up to e that no record of the first m holds;
\* size is the length of the next one, once it was read.
Assembled(data, size, m, e) ==
  /\ e <= Len(Wire)
  /\ \E p \in Nat :
       /\ p + Len(data) = e /\ \A i \in 1..Len(data) : data[i] = Wire[p + i]
       /\ \/ size = 0 /\ p = RCut(m)
          \/ /\ size # 0 /\ m < Len(Records) /\ size = Len(Records[m + 1])
             /\ p = RCut(m) + 4

\* The reader took n records, m are whole, the queue holds those in between.
Queued(q, n, m) == Len(q) = m - n /\ \A i \in 1..(m - n) : q[i] = Records[n + i]

StreamAt(st, n, e) ==
  \E m \in n..Len(Records) :
    Queued(st.q, n, m) /\ (~st.full => Assembled(st.data, st.size, m, e))

LEMMA TakeRecordStream ==
  ASSUME NEW st, NEW open, StTypes(st), NEW n \in Nat, NEW e \in Nat, StreamAt(st, n, e)
  PROVE  StreamAt(TakeRecord(st, open), n, e)
<1>1. CASE st.full \/ Len(st.data) <= Hdr
  BY <1>1 DEF TakeRecord
<1>2. CASE ~(st.full \/ Len(st.data) <= Hdr)
  <2>1. PICK m \in n..Len(Records) : Queued(st.q, n, m) /\ Assembled(st.data, st.size, m, e)
    BY <1>2 DEF StreamAt
  <2>2. PICK L \in Nat, W \in Nat : L = Len(Records) /\ W = Len(Wire)
    BY WireIs
  <2>3. PICK D \in Seq(Nat), z0 \in Nat, Q \in Seq(Seq(Nat)) : D = st.data /\ z0 = st.size /\ Q = st.q
    BY DEF StTypes
  <2>4. PICK d \in Nat : d = Len(D)
    OBVIOUS
  <2>5. PICK a \in Nat : a = RCut(m) /\ a <= W /\ (m = L => a = W)
    BY <2>1, <2>2, WireIs
  <2>6. PICK p \in Nat :
          /\ p + d = e /\ \A i \in 1..d : D[i] = Wire[p + i]
          /\ \/ z0 = 0 /\ p = a
             \/ z0 # 0 /\ m < L /\ z0 = Len(Records[m + 1]) /\ p = a + 4
    BY <2>1, <2>2, <2>3, <2>4, <2>5 DEF Assembled
  <2>7. Hdr = 4 /\ d > 4 /\ e <= W /\ m \in 0..L /\ m \in Nat /\ n <= m
    BY <1>2, <2>1, <2>2, <2>3, <2>4 DEF Assembled, Hdr
  <2>8. m < L
    BY <2>2, <2>5, <2>6, <2>7
  <2>9. PICK r \in Seq(Nat) : r = Records[m + 1]
    BY <2>2, <2>7, <2>8, WireIs
  <2>10. PICK l \in Nat : l = Len(r)
    OBVIOUS
  <2>11. /\ RCut(m + 1) = a + 4 + l /\ Wire[a + 1] = 0 /\ Wire[a + 2] = 0 /\ Wire[a + 3] = 0
         /\ Wire[a + 4] = l
         /\ \A j \in 1..l : Wire[a + 4 + j] = r[j]
    BY <2>2, <2>5, <2>7, <2>8, <2>9, <2>10, WireIs
  <2> DEFINE size == IF z0 = 0 THEN PrefixOf(D) ELSE z0
             data == IF z0 = 0 THEN Tail2(D, Hdr) ELSE D
  <2>12. PICK t : t = TakeRecord(st, open)
    OBVIOUS
  <2>13. t = IF size > Len(data) THEN [st EXCEPT !.data = data, !.size = size]
             ELSE IF ~open \/ Len(st.q) = QueueCap THEN [st EXCEPT !.full = TRUE]
             ELSE [st EXCEPT !.data = Tail2(data, size), !.size = 0,
                             !.q = Append(st.q, SubSeq(data, 1, size))]
    BY <1>2, <2>3, <2>12 DEF TakeRecord
  <2>14. PICK E \in Seq(Nat), x \in Nat :
           /\ E = data /\ x = Len(E) /\ size = l /\ a + 4 + x = e
           /\ \A i \in 1..x : E[i] = Wire[a + 4 + i]
    <3>1. CASE z0 = 0
      <4>1. p = a
        BY <2>6, <3>1
      <4>2. D[1] = 0 /\ D[2] = 0 /\ D[3] = 0 /\ D[4] = l
        <5>1. 1 \in 1..d /\ 2 \in 1..d /\ 3 \in 1..d /\ 4 \in 1..d
          BY <2>7
        <5>2. D[1] = Wire[a + 1] /\ D[2] = Wire[a + 2] /\ D[3] = Wire[a + 3] /\ D[4] = Wire[a + 4]
          BY <2>6, <4>1, <5>1
        <5>3. QED
          BY <2>11, <5>2
      <4>3. PrefixOf(D) = l
        BY <4>2 DEF PrefixOf
      <4>4. PICK E : E = Tail2(D, Hdr)
        OBVIOUS
      <4>5. E \in Seq(Nat) /\ Len(E) = d - 4 /\ \A i \in 1..(d - 4) : E[i] = D[4 + i]
        <5>1. 4 \in Nat /\ E = Tail2(D, 4)
          BY <2>7, <4>4
        <5>2. PICK k \in Nat : 4 + k = d /\ k = d - 4
          BY <2>7
        <5>3. D \in Seq(Nat) /\ k \in Nat /\ 4 + k = Len(D)
          BY <2>3, <2>4, <5>2
        <5>4. TailOk(Tail2(D, 4), D, 4, k)
          BY <5>1, <5>3, Tail2Is
        <5>5. E \in Seq(Nat) /\ Len(E) = k /\ \A i \in 1..k : E[i] = D[4 + i]
          BY <5>1, <5>4 DEF TailOk
        <5>6. QED
          BY <5>2, <5>5
      <4>6. d - 4 \in Nat /\ a + 4 + (d - 4) = e
        BY <2>6, <2>7, <4>1
      <4>7. \A i \in 1..(d - 4) : E[i] = Wire[a + 4 + i]
        <5> SUFFICES ASSUME NEW i \in 1..(d - 4) PROVE E[i] = Wire[a + 4 + i]
          OBVIOUS
        <5>1. 4 + i \in 1..d /\ a + (4 + i) = a + 4 + i
          BY <2>7
        <5>2. D[4 + i] = Wire[a + (4 + i)]
          BY <2>6, <4>1, <5>1
        <5>3. QED
          BY <4>5, <5>1, <5>2
      <4>8. data = E /\ size = l
        BY <3>1, <4>3, <4>4
      <4> HIDE DEF size, data
      <4>9. QED
        BY <4>5, <4>6, <4>7, <4>8
    <3>2. CASE z0 # 0
      <4>1. p = a + 4 /\ z0 = l
        BY <2>6, <2>9, <2>10, <3>2
      <4>2. data = D /\ size = l
        BY <3>2, <4>1
      <4> HIDE DEF size, data
      <4>3. QED
        BY <2>4, <2>6, <4>1, <4>2
    <3>3. QED
      BY <3>1, <3>2
  <2> HIDE DEF size, data
  <2>14a. x \in Nat /\ l \in Nat /\ a \in Nat /\ a + 4 + x = e
    BY <2>5, <2>10, <2>14
  <2>14b. E \in Seq(Nat) /\ x = Len(E)
    BY <2>14
  <2>15. CASE l > x
    <3>1. t.q = Q /\ t.data = E /\ t.size = l
      BY <2>3, <2>13, <2>14, <2>15 DEF StTypes
    <3>2. l # 0 /\ a + 4 \in Nat
      BY <2>15
    <3>3. Assembled(E, l, m, e)
      BY <2>2, <2>5, <2>7, <2>8, <2>9, <2>10, <2>14, <3>2 DEF Assembled
    <3>4. QED
      BY <2>1, <2>3, <2>12, <3>1, <3>3 DEF StreamAt
  <2>16. CASE ~(l > x) /\ (~open \/ Len(st.q) = QueueCap)
    <3>1. t.q = Q /\ t.full = TRUE
      BY <2>3, <2>13, <2>14, <2>16 DEF StTypes
    <3>2. QED
      BY <2>1, <2>3, <2>12, <3>1 DEF StreamAt
  <2>17. CASE ~(l > x) /\ ~(~open \/ Len(st.q) = QueueCap)
    <3>0. l <= x
      BY <2>17
    <3>1. SubSeq(E, 1, l) = r
      <4>1. PICK s : s = SubSeq(E, 1, l)
        OBVIOUS
      <4>2. s \in Seq(Nat) /\ Len(s) = l /\ \A j \in 1..l : s[j] = E[j]
        BY <2>14a, <2>14b, <3>0, <4>1, FrontIs
      <4>3. \A j \in 1..l : s[j] = r[j]
        BY <2>5, <2>10, <2>11, <2>14, <3>0, <4>2
      <4>4. s = r
        BY <2>10, <4>2, <4>3, SameSeq
      <4>5. QED
        BY <4>1, <4>4
    <3>2. PICK tl : tl = Tail2(E, l)
      OBVIOUS
    <3>3. PICK y \in Nat : l + y = x
      <4>1. x - l \in Nat /\ l + (x - l) = x
        BY <2>14a, <3>0
      <4>2. QED
        BY <4>1
    <3>3a. tl \in Seq(Nat) /\ Len(tl) = y /\ \A i \in 1..y : tl[i] = E[l + i]
      <4>1. E \in Seq(Nat) /\ l \in Nat /\ y \in Nat /\ l + y = Len(E)
        BY <2>14a, <2>14b, <3>3
      <4>2. TailOk(Tail2(E, l), E, l, y)
        BY <4>1, Tail2Is
      <4>3. QED
        BY <3>2, <4>2 DEF TailOk
    <3>4. PICK R : R = Append(Q, r)
      OBVIOUS
    <3>5. t.q = R /\ t.data = tl /\ t.size = 0
      BY <2>3, <2>13, <2>14, <2>17, <3>1, <3>2, <3>4 DEF StTypes
    <3>6. Queued(R, n, m + 1)
      <4>1. PICK c \in Nat : c = Len(Q)
        OBVIOUS
      <4>2. c = m - n /\ \A i \in 1..(m - n) : Q[i] = Records[n + i]
        BY <2>1, <2>3, <4>1 DEF Queued
      <4>3. Len(R) = c + 1 /\ R[c + 1] = r /\ \A i \in 1..c : R[i] = Q[i]
        BY <3>4, <4>1
      <4>4. ASSUME NEW i \in 1..(m + 1 - n) PROVE R[i] = Records[n + i]
        <5>1. CASE i = c + 1
          <6>1. n + i = m + 1
            BY <2>7, <4>2, <5>1
          <6>2. QED
            BY <2>9, <4>3, <5>1, <6>1
        <5>2. CASE i # c + 1
          <6>1. i \in 1..(m - n) /\ i \in 1..c
            BY <2>7, <4>2, <5>2
          <6>2. QED
            BY <4>2, <4>3, <6>1
        <5>3. QED
          BY <5>1, <5>2
      <4>5. Len(R) = m + 1 - n
        BY <2>7, <4>2, <4>3
      <4>5a. \A i \in 1..(m + 1 - n) : R[i] = Records[n + i]
        BY <4>4
      <4>6. QED
        BY <2>7, <4>5, <4>5a DEF Queued
    <3>7. Assembled(tl, 0, m + 1, e)
      <4>1. PICK b \in Nat : b = a + 4 + l
        BY <2>14a
      <4>2. b = RCut(m + 1)
        BY <2>11, <4>1
      <4>3. b + y = e
        BY <2>14a, <3>3, <4>1
      <4>4. \A i \in 1..y : tl[i] = Wire[b + i]
        <5> SUFFICES ASSUME NEW i \in 1..y PROVE tl[i] = Wire[b + i]
          OBVIOUS
        <5>1. l + i \in 1..x /\ a + 4 + (l + i) = b + i
          BY <2>14a, <3>3, <4>1
        <5>2. E[l + i] = Wire[a + 4 + (l + i)]
          BY <2>14, <5>1
        <5>3. QED
          BY <3>3a, <5>1, <5>2
      <4>5. QED
        BY <2>2, <2>7, <3>3a, <4>2, <4>3, <4>4 DEF Assembled
    <3>8. m + 1 \in n..Len(Records)
      BY <2>2, <2>7, <2>8
    <3>9. QED
      BY <2>12, <3>5, <3>6, <3>7, <3>8 DEF StreamAt
  <2>18. QED
    BY <2>15, <2>16, <2>17
<1>3. QED
  BY <1>1, <1>2

\* The bytes the channel gets next are those that follow on the wire.
NextBytes(bytes, e) ==
  e + Len(bytes) <= Len(Wire) /\ \A i \in 1..Len(bytes) : bytes[i] = Wire[e + i]

LEMMA AppendBytes ==
  ASSUME NEW data \in Seq(Nat), NEW size, NEW m, NEW e \in Nat, NEW bytes \in Seq(Nat),
         Assembled(data, size, m, e), NextBytes(bytes, e)
  PROVE  Assembled(data \o bytes, size, m, e + Len(bytes))
<1>1. PICK d \in Nat, l \in Nat : d = Len(data) /\ l = Len(bytes)
  OBVIOUS
<1>2. PICK p \in Nat :
        /\ p + d = e /\ \A i \in 1..d : data[i] = Wire[p + i]
        /\ \/ size = 0 /\ p = RCut(m)
           \/ /\ size # 0 /\ m < Len(Records) /\ size = Len(Records[m + 1])
              /\ p = RCut(m) + 4
  BY <1>1 DEF Assembled
<1>2a. p \in Nat /\ p + d = e
  BY <1>2
<1>3. PICK c \in Seq(Nat) : c = data \o bytes
  <2>1. data \o bytes \in Seq(Nat)
    OBVIOUS
  <2>2. QED
    BY <2>1
<1>4. /\ Len(c) = d + l /\ \A i \in 1..d : c[i] = data[i]
      /\ \A i \in 1..l : c[d + i] = bytes[i]
  <2>1. /\ Len(data \o bytes) = Len(data) + Len(bytes)
        /\ \A i \in 1..Len(data) : (data \o bytes)[i] = data[i]
        /\ \A i \in 1..Len(bytes) : (data \o bytes)[Len(data) + i] = bytes[i]
    OBVIOUS
  <2>2. QED
    BY <1>1, <1>3, <2>1
<1>5. e + l <= Len(Wire) /\ \A i \in 1..l : bytes[i] = Wire[e + i]
  BY <1>1 DEF NextBytes
<1>6. p + (d + l) = e + l
  BY <1>2a
<1>7. ASSUME NEW i \in 1..(d + l) PROVE c[i] = Wire[p + i]
  <2>1. CASE i <= d
    BY <1>2, <1>4, <2>1
  <2>2. CASE i > d
    <3>1. PICK j \in 1..l : i = d + j
      <4>1. i - d \in 1..l /\ i = d + (i - d)
        BY <2>2
      <4>2. QED
        BY <4>1
    <3>2. p + i = e + j
      BY <1>2a, <3>1
    <3>3. QED
      BY <1>4, <1>5, <3>1, <3>2
  <2>3. QED
    BY <2>1, <2>2
<1>8. \A i \in 1..(d + l) : c[i] = Wire[p + i]
  BY <1>7
<1>9. Assembled(c, size, m, e + l)
  BY <1>2, <1>4, <1>5, <1>6, <1>8 DEF Assembled
<1>10. QED
  BY <1>1, <1>3, <1>9

\* push cuts the stream at the ends of its records.
LEMMA PushStream ==
  ASSUME NEW st, NEW open, StTypes(st), NEW n \in Nat, NEW e \in Nat, StreamAt(st, n, e),
         NEW bytes \in Seq(Nat), NextBytes(bytes, e)
  PROVE  StreamAt(Push(st, bytes, open), n, e + Len(bytes))
<1> DEFINE all == [st EXCEPT !.data = st.data \o bytes]
<1>a. st.data \in Seq(Nat) /\ st.data \o bytes \in Seq(Nat) /\ "data" \in DOMAIN st
  BY DEF StTypes
<1>0. PICK k \in Nat : k = Len(st.data \o bytes)
  BY <1>a
<1>1. PICK f : PushTurns(f, st, bytes, open, k) /\ Push(st, bytes, open) = f[k]
  BY <1>a, <1>0, PushIs
<1>2. /\ StTypes(all) /\ all.data = st.data \o bytes /\ all.size = st.size
      /\ all.q = st.q /\ all.full = st.full
  BY <1>a DEF StTypes
<1> HIDE DEF all
<1>b. PICK x \in Nat : x = e + Len(bytes)
  OBVIOUS
<1>3. StreamAt(all, n, x)
  <2>1. PICK m \in n..Len(Records) :
          Queued(st.q, n, m) /\ (~st.full => Assembled(st.data, st.size, m, e))
    BY DEF StreamAt
  <2>2. ~st.full => Assembled(st.data \o bytes, st.size, m, x)
    BY <1>a, <1>b, <2>1, AppendBytes
  <2>3. QED
    BY <1>2, <2>1, <2>2 DEF StreamAt
<1> DEFINE P == {i \in 0..k : StTypes(f[i]) /\ StreamAt(f[i], n, x)}
<1>4. 0 \in P
  BY <1>0, <1>1, <1>2, <1>3 DEF PushTurns, all
<1>5. ASSUME NEW i \in 1..k, i - 1 \in P PROVE i \in P
  <2>1. f[i] = TakeRecord(f[i - 1], open) /\ StTypes(f[i - 1]) /\ StreamAt(f[i - 1], n, x)
    BY <1>1, <1>5 DEF PushTurns
  <2>2. StTypes(f[i]) /\ StreamAt(f[i], n, x)
    BY <1>b, <2>1, TakeRecordTypes, TakeRecordStream
  <2>3. i \in 0..k
    BY <1>0
  <2>4. QED
    BY <2>2, <2>3
<1>6. k \in P
  <2>1. \A i \in 1..k : i - 1 \in P => i \in P
    BY <1>5
  <2> HIDE DEF P
  <2>2. 0..k \subseteq P
    BY <1>0, <1>4, <2>1, UpTo
  <2>3. QED
    BY <1>0, <2>2
<1>7. QED
  BY <1>1, <1>b, <1>6

\* The pieces the camera cuts the wire into.
LEMMA PiecesAre ==
  ASSUME NEW g \in Splits
  PROVE  /\ Cut(g, 0) = 0 /\ g \in Seq(Seq(Nat)) /\ Len(g) \in Nat
         /\ \A i \in 0..Len(g) : Cut(g, i) \in Nat
         /\ \A i \in 1..Len(g) : /\ g[i] \in Seq(Nat) /\ NextBytes(g[i], Cut(g, i - 1))
                                 /\ Cut(g, i) = Cut(g, i - 1) + Len(g[i])
<1>1. g \in Seq(Seq(Nat)) /\ FlattenSeq(g) = Wire
  BY Cs2Assumption, SplitsCoverTheWire
<1>2. CutsOk(g)
  BY <1>1, CutsAre
<1>3. PICK n \in Nat : n = Len(g)
  BY <1>1
<1>4. /\ Cut(g, 0) = 0 /\ Cut(g, n) = Len(Wire)
      /\ \A i \in 0..n : Cut(g, i) \in Nat /\ Cut(g, i) <= Cut(g, n)
  BY <1>1, <1>2, <1>3 DEF CutsOk
<1>5. ASSUME NEW i \in 1..n
      PROVE  /\ g[i] \in Seq(Nat) /\ NextBytes(g[i], Cut(g, i - 1))
             /\ Cut(g, i) = Cut(g, i - 1) + Len(g[i])
  <2>1. g[i] \in Seq(Nat)
    BY <1>1, <1>3
  <2>2. Cut(g, i) = Cut(g, i - 1) + Len(g[i])
    BY <1>2, <1>3 DEF CutsOk
  <2>3. \A p \in 1..Len(g[i]) : g[i][p] = Wire[Cut(g, i - 1) + p]
    BY <1>1, <1>2, <1>3 DEF CutsOk
  <2>4. i \in 0..n /\ Cut(g, i) <= Len(Wire)
    BY <1>4
  <2>5. QED
    BY <2>1, <2>2, <2>3, <2>4 DEF NextBytes
<1>6. QED
  BY <1>1, <1>3, <1>4, <1>5

\* The bytes a state of push_seq's loop has taken end with datagram f + Took(t, i).
Took(t, i) == IF t.more THEN i ELSE t.res

LEMMA DrainStream ==
  ASSUME NEW f \in Nat, NEW hi \in Nat, NEW b, NEW g \in Splits, hi <= Len(g), NEW n \in Nat,
         NEW i \in Nat, NEW t, DrainTypes(t), TurnOk(t, i, b, g, f, hi), NEW open,
         ~t.full /\ ~t.more => f + t.res <= hi,
         StreamAt(t, n, Cut(g, f + Took(t, i)))
  PROVE  StreamAt(Drain(t, open), n, Cut(g, f + Took(Drain(t, open), i + 1)))
<1>1. CASE t.full
  <2>1. Drain(t, open) = t
    BY <1>1 DEF Drain
  <2>2. QED
    BY <1>1, <2>1 DEF StreamAt
<1>2. CASE ~t.full /\ ~t.more
  <2>1. Drain(t, open) = t /\ Took(t, i + 1) = Took(t, i)
    BY <1>2 DEF Drain, Took
  <2>2. QED
    BY <2>1
<1>3. CASE ~t.full /\ t.more
  <2>1. f + i + 1 <= hi /\ t.res = i /\ t.cur = g[f + i + 1] /\ Took(t, i) = i
    BY <1>3 DEF TurnOk, Took
  <2>2. PICK j \in 1..Len(g) : j = f + i + 1 /\ j - 1 = f + i
    <3>1. Len(g) \in Nat
      BY PiecesAre
    <3>2. f + i + 1 \in 1..Len(g) /\ (f + i + 1) - 1 = f + i
      BY <2>1, <3>1
    <3>3. QED
      BY <3>2
  <2>3. /\ t.cur \in Seq(Nat) /\ NextBytes(t.cur, Cut(g, f + i))
        /\ Cut(g, f + i) \in Nat /\ Cut(g, f + i + 1) = Cut(g, f + i) + Len(t.cur)
    <3>1. j - 1 \in 0..Len(g)
      BY PiecesAre
    <3>2. QED
      BY <2>1, <2>2, <3>1, PiecesAre
  <2> DEFINE p == Push(t, t.cur, open)
             next == (t.wait_seq + 1) % Modulus
             found == next \in DOMAIN t.push_buf
  <2>4. StTypes(p) /\ SameRest(t, p)
    BY <2>3, PushTypes DEF DrainTypes
  <2>5. StreamAt(p, n, Cut(g, f + i + 1))
    <3>1. StreamAt(t, n, Cut(g, f + i)) /\ StTypes(t)
      BY <2>1 DEF DrainTypes
    <3>2. QED
      BY <2>3, <3>1, PushStream
  <2>6. Drain(t, open) =
          IF p.full THEN p
          ELSE [p EXCEPT
                  !.wait_seq = next, !.res = t.res + 1, !.more = found,
                  !.cur = IF found THEN t.push_buf[next] ELSE <<>>,
                  !.push_buf = IF found THEN Without(t.push_buf, next) ELSE t.push_buf]
    BY <1>3 DEF Drain
  <2>7. DOMAIN p = DOMAIN t
    BY <2>4 DEF SameRest
  <2> HIDE DEF p
  <2>8. CASE p.full
    BY <2>5, <2>6, <2>8 DEF StreamAt
  <2>9. CASE ~p.full
    <3>1. PICK u : u = Drain(t, open)
      OBVIOUS
    <3>2. /\ u.res = i + 1 /\ u.more = found
          /\ u.data = p.data /\ u.size = p.size /\ u.q = p.q /\ u.full = p.full
      BY <2>1, <2>6, <2>7, <2>9, <3>1 DEF DrainTypes
    <3>3. Took(u, i + 1) = i + 1
      BY <3>2 DEF Took
    <3>4. f + (i + 1) = f + i + 1
      OBVIOUS
    <3>5. StreamAt(u, n, Cut(g, f + i + 1))
      BY <2>5, <3>2 DEF StreamAt
    <3>6. QED
      BY <3>1, <3>3, <3>4, <3>5
  <2>10. QED
    BY <2>8, <2>9
<1>4. QED
  BY <1>1, <1>2, <1>3

\* What push_seq leaves of the stream.
LEMMA PushSeqStream ==
  ASSUME NEW f, NEW lo, NEW hi, WindowOk(f, lo, hi), NEW g \in Splits, hi <= Len(g),
         NEW c, c.wait_seq = f % Modulus, BufferOk(c.push_buf, g, f, hi),
         c.data \in Seq(Nat), c.size \in Nat, NEW q \in Seq(Seq(Nat)),
         NEW n \in Nat,
         StreamAt([data |-> c.data, size |-> c.size, q |-> q, full |-> FALSE], n, Cut(g, f)),
         NEW k \in lo..hi, NEW open, NEW r, r = PushSeq(c, q, SeqNo(k), g[k], open)
  PROVE  StreamAt(r, n, Cut(g, f + (IF r.res > 0 THEN r.res ELSE 0)))
<1> DEFINE d == Ahead(SeqNo(k), c.wait_seq)
           st == [wait_seq |-> c.wait_seq, push_buf |-> c.push_buf, data |-> c.data,
                  size |-> c.size, q |-> q, full |-> FALSE, res |-> 0,
                  more |-> TRUE, cur |-> g[k]]
           b == c.push_buf
<1>0. /\ f \in Nat /\ lo \in Nat \ {0} /\ hi \in Nat /\ hi - f < Modulus /\ d = k - (f + 1)
      /\ lo <= f + 1 /\ f <= hi
  BY WindowIs DEF WindowOk
<1>1. k \in Nat \ {0} /\ k <= hi /\ k \in 1..hi /\ PushSize \in Nat
  BY <1>0, Cs2Assumption
<1>2. \A j \in 1..hi : g[j] \in Seq(Nat)
  <2>1. \A j \in 1..hi : j \in 1..Len(g)
    BY <1>0, PiecesAre
  <2>2. QED
    BY <2>1, PiecesAre
<1>3. DrainTypes(st)
  BY <1>1, <1>2 DEF DrainTypes, StTypes
<1>4. StreamAt(st, n, Cut(g, f))
  BY DEF StreamAt
<1>5. /\ st.full = FALSE /\ st.res = 0 /\ st.more = TRUE /\ st.cur = g[k] /\ st.push_buf = b
      /\ st.wait_seq = f % Modulus
      /\ f + 0 = f
  BY <1>0
<1>6. r = IF d > 0
          THEN IF SeqNo(k) \in DOMAIN b THEN st
               ELSE IF Cardinality(DOMAIN b) = PushSize THEN [st EXCEPT !.res = -1]
               ELSE [st EXCEPT !.push_buf = With(b, SeqNo(k), g[k])]
          ELSE IF d < 0 THEN st
          ELSE Drained(st, open)
  BY DEF PushSeq
<1> HIDE DEF d, st
<1>7. CASE d # 0
  <2>1. \/ r = st \/ r = [st EXCEPT !.res = -1]
        \/ r = [st EXCEPT !.push_buf = With(b, SeqNo(k), g[k])]
    BY <1>0, <1>1, <1>6, <1>7
  <2>2. /\ r.data = st.data /\ r.size = st.size /\ r.q = st.q /\ r.full = st.full
        /\ r.res = 0 \/ r.res = -1
    BY <1>3, <1>5, <2>1 DEF DrainTypes
  <2>3. (IF r.res > 0 THEN r.res ELSE 0) = 0
    BY <2>2
  <2>4. StreamAt(r, n, Cut(g, f))
    BY <1>4, <2>2 DEF StreamAt
  <2>5. QED
    BY <1>5, <2>3, <2>4
<1>8. CASE d = 0
  <2>1. k = f + 1 /\ r = Drained(st, open)
    BY <1>0, <1>1, <1>6, <1>8
  <2>2. TurnOk(st, 0, b, g, f, hi)
    <3>1. f + 1 <= hi
      BY <1>1, <2>1
    <3>2. QED
      BY <1>0, <1>5, <2>1, <3>1, FirstTurn
  <2>3. PICK z \in Nat : z = PushSize + 1
    BY <1>1
  <2>4. PICK h : DrainTurns(h, st, open, z) /\ r = h[z]
    BY <2>1, <2>3, DrainedIs
  <2>5. \A i \in 0..z : DrainTypes(h[i]) /\ TurnOk(h[i], i, b, g, f, hi)
    <3>1. \A j \in (f + 1)..hi : g[j] \in Seq(Nat)
      BY <1>0, <1>2
    <3>2. QED
      BY <1>0, <1>3, <2>2, <2>3, <2>4, <3>1, DrainTurnsOk
  <2> DEFINE P == {i \in 0..z : StreamAt(h[i], n, Cut(g, f + Took(h[i], i)))}
  <2>6. 0 \in P
    <3>1. h[0] = st /\ Took(st, 0) = 0 /\ 0 \in 0..z
      BY <1>5, <2>3, <2>4 DEF DrainTurns, Took
    <3>2. QED
      BY <1>4, <1>5, <3>1
  <2>7. ASSUME NEW i \in 1..z, i - 1 \in P PROVE i \in P
    <3>1. h[i] = Drain(h[i - 1], open) /\ i - 1 \in Nat /\ i - 1 \in 0..z /\ (i - 1) + 1 = i /\ i \in 0..z
      BY <2>3, <2>4 DEF DrainTurns
    <3>2. /\ DrainTypes(h[i - 1]) /\ TurnOk(h[i - 1], i - 1, b, g, f, hi)
          /\ StreamAt(h[i - 1], n, Cut(g, f + Took(h[i - 1], i - 1)))
      BY <2>5, <2>7, <3>1
    <3>3. ~h[i - 1].full /\ ~h[i - 1].more => f + h[i - 1].res <= hi
      BY <3>2 DEF TurnOk
    <3>4. PICK t : t = h[i - 1]
      OBVIOUS
    <3>5. PICK y \in Nat : y = i - 1
      BY <3>1
    <3>6. StreamAt(Drain(t, open), n, Cut(g, f + Took(Drain(t, open), y + 1)))
      BY <1>0, <3>2, <3>3, <3>4, <3>5, DrainStream
    <3>7. QED
      BY <3>1, <3>4, <3>5, <3>6
  <2>8. z \in P
    <3>1. \A i \in 1..z : i - 1 \in P => i \in P
      BY <2>7
    <3> HIDE DEF P
    <3>2. 0..z \subseteq P
      BY <2>3, <2>6, <3>1, UpTo
    <3>3. QED
      BY <2>3, <3>2
  <2>9. StreamAt(r, n, Cut(g, f + Took(r, z)))
    BY <2>4, <2>8
  <2>10. CASE r.full
    BY <2>9, <2>10 DEF StreamAt
  <2>11. CASE ~r.full
    <3>1. TurnOk(r, z, b, g, f, hi) /\ DrainTypes(r)
      BY <2>3, <2>4, <2>5
    <3>2. ~r.more
      BY <2>3, <2>11, <3>1, LoopEnds
    <3>3. r.res \in Nat \ {0} /\ Took(r, z) = r.res
      BY <2>11, <3>1, <3>2 DEF TurnOk, Took
    <3>4. QED
      BY <2>9, <3>3
  <2>12. QED
    BY <2>10, <2>11
<1>9. QED
  BY <1>0, <1>1, <1>7, <1>8

-----------------------------------------------------------------------------
(* The reader: the frames are those of the records it took.                   *)

Pictures == [i \in DOMAIN Records |-> IF IsVideo(Records[i]) THEN <<Records[i]>> ELSE <<>>]

\* How many frames the first n records make.
Shown(n) == Cut(Pictures, n)

LEMMA ShownIs ==
  /\ Len(Videos) \in Nat /\ Len(Records) \in Nat /\ Shown(0) = 0
  /\ \A n \in 0..Len(Records) : Shown(n) \in Nat
  /\ \A n \in 0..Len(Records) : n < Len(Records) =>
       /\ Records[n + 1] \in Seq(Nat)
       /\ IsVideo(Records[n + 1]) =>
            /\ Shown(n + 1) = Shown(n) + 1 /\ Shown(n) < Len(Videos)
            /\ Videos[Shown(n) + 1] = Records[n + 1]
       /\ ~IsVideo(Records[n + 1]) => Shown(n + 1) = Shown(n)
<1>1. PICK l \in Nat : l = Len(Records)
  BY Cs2Assumption
<1>2. \A i \in 1..l : Records[i] \in Seq(Nat)
  BY <1>1, Cs2Assumption
<1>3. /\ Pictures \in Seq(Seq(Seq(Nat))) /\ Len(Pictures) = l
      /\ \A i \in 1..l : Pictures[i] = IF IsVideo(Records[i]) THEN <<Records[i]>> ELSE <<>>
  <2>1. DOMAIN Records = 1..l
    BY <1>1, Cs2Assumption
  <2>2. \A i \in 1..l : (IF IsVideo(Records[i]) THEN <<Records[i]>> ELSE <<>>) \in Seq(Seq(Nat))
    BY <1>2
  <2>3. QED
    BY <2>1, <2>2 DEF Pictures
<1>4. CutsOk(Pictures) /\ Videos = FlattenSeq(Pictures)
  BY <1>3, CutsAre DEF Videos, Pictures
<1>5. /\ Shown(0) = 0 /\ Shown(l) = Len(Videos)
      /\ \A n \in 0..l : Shown(n) \in Nat /\ Shown(n) <= Shown(l)
  BY <1>3, <1>4 DEF CutsOk, Shown
<1>6. ASSUME NEW n \in 0..l, n < l
      PROVE  /\ Records[n + 1] \in Seq(Nat)
             /\ IsVideo(Records[n + 1]) =>
                  /\ Shown(n + 1) = Shown(n) + 1 /\ Shown(n) < Len(Videos)
                  /\ Videos[Shown(n) + 1] = Records[n + 1]
             /\ ~IsVideo(Records[n + 1]) => Shown(n + 1) = Shown(n)
  <2>1. n + 1 \in 1..l /\ n + 1 \in 0..l /\ (n + 1) - 1 = n
    BY <1>6
  <2>2. PICK P : P = Pictures[n + 1]
    OBVIOUS
  <2>3. /\ Shown(n + 1) = Shown(n) + Len(P)
        /\ \A p \in 1..Len(P) : Videos[Shown(n) + p] = P[p]
    BY <1>3, <1>4, <2>1, <2>2 DEF CutsOk, Shown
  <2>4. PICK a \in Nat, c \in Nat : a = Shown(n) /\ c = Shown(n + 1) /\ c <= Len(Videos)
    BY <1>5, <2>1
  <2>5. CASE IsVideo(Records[n + 1])
    <3>1. P = <<Records[n + 1]>>
      BY <1>3, <2>1, <2>2, <2>5
    <3>2. Len(P) = 1 /\ P[1] = Records[n + 1]
      BY <3>1
    <3>3. c = a + 1 /\ Videos[a + 1] = Records[n + 1]
      BY <2>3, <2>4, <3>2
    <3>4. QED
      BY <1>2, <1>5, <2>1, <2>4, <2>5, <3>3
  <2>6. CASE ~IsVideo(Records[n + 1])
    <3>1. P = <<>>
      BY <1>3, <2>1, <2>2, <2>6
    <3>2. Len(P) = 0
      BY <3>1
    <3>3. c = a
      BY <2>3, <2>4, <3>2
    <3>4. QED
      BY <1>2, <2>1, <2>4, <2>6, <3>3
  <2>7. QED
    BY <2>5, <2>6
<1>7. QED
  BY <1>1, <1>5, <1>6

\* The reader took n records; the bytes taken from the datagrams are in the
\* queue and in the channel.
ReaderAt(n) ==
  /\ Len(frames) = Shown(n)
  /\ mode # "none" =>
       \E m \in n..Len(Records) :
         /\ Queued(queue[2], n, m)
         /\ up => Assembled(chan[2].data, chan[2].size, m, Cut(cam.frags, fed[2]))

FramesInv ==
  /\ frames \in Seq(Seq(Nat))
  /\ mode = "none" => frames = <<>> /\ queue[2] = <<>>
  /\ \E n \in 0..Len(Records) : ReaderAt(n)
  /\ mode # "none" /\ up => fed[2] \in 0..Len(cam.frags)
  /\ mode = "tcp" => \A k \in 1..Len(cam.frags) : Drw(2, k) \in toCli => k = fed[2] + 1

\* Nothing is received on the media channel.
LEMMA FramesQuiet ==
  ASSUME FramesInv, UNCHANGED <<mode, frames>>, up' = up \/ up' = FALSE,
         chan'[2] = chan[2], queue'[2] = queue[2], fed'[2] = fed[2], cam'.frags = cam.frags,
         \A k \in 1..Len(cam.frags) : Drw(2, k) \in toCli' => Drw(2, k) \in toCli
  PROVE  FramesInv'
<1>1. \A n : ReaderAt(n) => ReaderAt(n)'
  BY DEF ReaderAt
<1>2. QED
  BY <1>1 DEF FramesInv

\* The stream as push sees it.
LEMMA MediaStream ==
  ASSUME FramesInv, AckInv, up, mode # "none"
  PROVE  \E n \in 0..Len(Records) :
           /\ Len(frames) = Shown(n) /\ n \in Nat
           /\ StreamAt([data |-> chan[2].data, size |-> chan[2].size, q |-> queue[2], full |-> FALSE],
                       n, Cut(cam.frags, fed[2]))
<1>1. PICK n \in 0..Len(Records) : ReaderAt(n)
  BY DEF FramesInv
<1>2. PICK m \in n..Len(Records) :
        /\ Queued(queue[2], n, m) /\ Assembled(chan[2].data, chan[2].size, m, Cut(cam.frags, fed[2]))
  BY <1>1 DEF ReaderAt
<1>3. QED
  BY <1>1, <1>2 DEF StreamAt, ReaderAt

\* What push left of the stream is what the reader finds.
LEMMA ReaderFinds ==
  ASSUME mode' # "none", NEW n \in 0..Len(Records), Len(frames') = Shown(n), NEW r,
         StreamAt(r, n, Cut(cam'.frags, fed'[2])), queue'[2] = r.q, up' = ~r.full, r.full \in BOOLEAN,
         chan'[2].data = r.data, chan'[2].size = r.size
  PROVE  \E k \in 0..Len(Records) : ReaderAt(k)'
<1>1. PICK m \in n..Len(Records) :
        Queued(r.q, n, m) /\ (~r.full => Assembled(r.data, r.size, m, Cut(cam'.frags, fed'[2])))
  BY DEF StreamAt
<1>2. ReaderAt(n)'
  BY <1>1 DEF ReaderAt
<1>3. QED
  BY <1>2

LEMMA RecvUdpFrames ==
  ASSUME FramesInv, AckInv, NEW k \in 1..Len(cam.frags), NEW open, RecvUdp(2, k, open),
         UNCHANGED frames
  PROVE  FramesInv'
<1> DEFINE r == PushSeq(chan[2], queue[2], SeqNo(k), Payload(2, k), open)
           z == IF r.res > 0 THEN r.res ELSE 0
           f == fed[2]
           g == cam.frags
<1>1. /\ up /\ mode = "udp" /\ Drw(2, k) \in toCli /\ UdpOk(2)
      /\ chan' = [chan EXCEPT ![2] = Channel(r)] /\ queue' = [queue EXCEPT ![2] = r.q]
      /\ up' = ~r.full /\ fed' = [fed EXCEPT ![2] = @ + z]
      /\ toCli' \subseteq toCli /\ UNCHANGED <<mode, cam>>
  BY DEF RecvUdp, AckInv, TakenFrom
<1>2. ChannelTypes /\ g \in Splits /\ Datagrams(2) = g /\ Payload(2, k) = g[k]
  BY DEF AckInv, ChannelTypes, Datagrams, Payload
<1>3. k \in Bot(2)..Top(2)
  BY <1>1 DEF UdpOk
<1>4. Top(2) <= Len(g) /\ Top(2) \in Nat /\ f \in Nat
  BY <1>1, <1>2, TopIs
<1>5. r = PushSeq(chan[2], queue[2], SeqNo(k), g[k], open)
  BY <1>2
<1> HIDE DEF r, z
<1>6. /\ WindowOk(f, Bot(2), Top(2)) /\ chan[2].wait_seq = f % Modulus
      /\ BufferOk(chan[2].push_buf, g, f, Top(2))
  BY <1>1, <1>2 DEF UdpOk
<1>7. chan[2].data \in Seq(Nat) /\ chan[2].size \in Nat /\ queue[2] \in Seq(Seq(Nat))
  BY <1>2 DEF ChannelTypes
<1>8. PICK n \in 0..Len(Records) :
        /\ Len(frames) = Shown(n) /\ n \in Nat
        /\ StreamAt([data |-> chan[2].data, size |-> chan[2].size, q |-> queue[2], full |-> FALSE],
                    n, Cut(g, f))
  BY <1>1, MediaStream
<1>9. DrainTypes(r) /\ PushedOk(r, chan[2].push_buf, g, f, Top(2), k)
  <2>1. \A j \in 1..Top(2) : g[j] \in Seq(Nat)
    BY <1>1, <1>2, TopIs
  <2> HIDE DEF f, g
  <2>2. QED
    BY <1>3, <1>5, <1>6, <1>7, <2>1, PushSeqKeeps
<1>10. StreamAt(r, n, Cut(g, f + z))
  <2>1. StreamAt(r, n, Cut(g, f + (IF r.res > 0 THEN r.res ELSE 0)))
    <3> HIDE DEF f, g
    <3>1. QED
      BY <1>2, <1>3, <1>4, <1>5, <1>6, <1>7, <1>8, PushSeqStream
  <2>2. QED
    BY <2>1 DEF z
<1>11. chan'[2] = Channel(r) /\ queue'[2] = r.q /\ fed'[2] = f + z
  BY <1>1, <1>2 DEF ChannelTypes
<1>12. Channel(r).data = r.data /\ Channel(r).size = r.size
  BY DEF Channel
<1>13. r.full \in BOOLEAN
  BY <1>9 DEF DrainTypes, StTypes
<1>14. \E j \in 0..Len(Records) : ReaderAt(j)'
  BY <1>1, <1>8, <1>10, <1>11, <1>12, <1>13, ReaderFinds
<1>15. up' => fed'[2] \in 0..Len(cam'.frags)
  <2> SUFFICES ASSUME up' PROVE fed'[2] \in 0..Len(cam'.frags)
    OBVIOUS
  <2>1. z \in Nat /\ f + z <= Top(2)
    BY <1>1, <1>9 DEF PushedOk, z
  <2>2. PICK l \in Nat : l = Len(g)
    BY <1>2, PiecesAre
  <2>3. f + z \in 0..l
    BY <1>4, <2>1, <2>2
  <2>4. QED
    BY <1>1, <1>11, <2>2, <2>3
<1>16. QED
  BY <1>1, <1>14, <1>15 DEF FramesInv

LEMMA RecvTcpFrames ==
  ASSUME FramesInv, AckInv, NEW k \in 1..Len(cam.frags), NEW open, RecvTcp(2, k, open),
         UNCHANGED frames
  PROVE  FramesInv'
<1> DEFINE st == [data |-> chan[2].data, size |-> chan[2].size, q |-> queue[2], full |-> FALSE]
           r == Push(st, Payload(2, k), open)
           f == fed[2]
           g == cam.frags
<1>1. /\ up /\ mode = "tcp" /\ mode' = mode /\ cam' = cam /\ Drw(2, k) \in toCli
      /\ chan' = [chan EXCEPT ![2].data = r.data, ![2].size = r.size]
      /\ queue' = [queue EXCEPT ![2] = r.q] /\ fed' = [fed EXCEPT ![2] = @ + 1]
      /\ up' = ~r.full /\ toCli' = toCli \ {Drw(2, k)}
  BY DEF RecvTcp
<1>2. ChannelTypes /\ g \in Splits /\ Payload(2, k) = g[k]
  BY DEF AckInv, ChannelTypes, Payload
<1>3. k = f + 1 /\ f \in Nat /\ k - 1 = f
  BY <1>1 DEF FramesInv
<1>4. /\ g[k] \in Seq(Nat) /\ NextBytes(g[k], Cut(g, f)) /\ Cut(g, f) \in Nat
      /\ Cut(g, f + 1) = Cut(g, f) + Len(g[k])
  <2>1. f \in 0..Len(g)
    BY <1>1 DEF FramesInv
  <2>2. QED
    BY <1>2, <1>3, <2>1, PiecesAre
<1>5. StTypes(st)
  BY <1>2 DEF ChannelTypes, StTypes
<1>6. PICK n \in 0..Len(Records) :
        Len(frames) = Shown(n) /\ n \in Nat /\ StreamAt(st, n, Cut(g, f))
  BY <1>1, MediaStream
<1>7. r = Push(st, g[k], open)
  BY <1>2
<1> HIDE DEF r, st
<1>8. StTypes(r) /\ StreamAt(r, n, Cut(g, f + 1))
  BY <1>4, <1>5, <1>6, <1>7, PushTypes, PushStream
<1>9. chan'[2].data = r.data /\ chan'[2].size = r.size /\ queue'[2] = r.q /\ fed'[2] = f + 1
  BY <1>1, <1>2 DEF ChannelTypes
<1>10. r.full \in BOOLEAN
  BY <1>8 DEF StTypes
<1>11. \E j \in 0..Len(Records) : ReaderAt(j)'
  BY <1>1, <1>6, <1>8, <1>9, <1>10, ReaderFinds
<1>12. fed'[2] \in 0..Len(cam'.frags)
  <2>1. Len(g) \in Nat
    BY <1>2, PiecesAre
  <2>2. QED
    BY <1>1, <1>3, <1>9, <2>1
<1>13. \A j \in 1..Len(cam'.frags) : Drw(2, j) \notin toCli'
  <2> SUFFICES ASSUME NEW j \in 1..Len(cam.frags), Drw(2, j) \in toCli' PROVE FALSE
    BY <1>1
  <2>1. j = f + 1
    BY <1>1 DEF FramesInv
  <2>2. QED
    BY <1>1, <1>3, <2>1
<1>14. QED
  BY <1>1, <1>11, <1>12, <1>13 DEF FramesInv

LEMMA QueuedTail ==
  ASSUME NEW q \in Seq(Seq(Nat)), NEW n \in Nat, NEW m \in Nat, n <= m, Queued(q, n, m), q # <<>>
  PROVE  n < m /\ Head(q) = Records[n + 1] /\ Queued(Tail(q), n + 1, m)
<1>1. PICK l \in Nat : l = Len(q)
  OBVIOUS
<1>2. l = m - n /\ \A i \in 1..l : q[i] = Records[n + i]
  BY <1>1 DEF Queued
<1>3. l # 0
  <2>1. Len(q) # 0
    OBVIOUS
  <2>2. QED
    BY <1>1, <2>1
<1>4. n < m /\ 1 \in 1..l
  BY <1>2, <1>3
<1>5. Head(q) = q[1]
  OBVIOUS
<1>6. PICK t : t = Tail(q)
  OBVIOUS
<1>7. PICK k \in Nat : k = l - 1
  <2>1. l - 1 \in Nat
    BY <1>3
  <2>2. QED
    BY <2>1
<1>8. Len(t) = k /\ \A i \in 1..k : t[i] = q[i + 1]
  <2>1. Len(Tail(q)) = Len(q) - 1 /\ \A i \in 1..(Len(q) - 1) : Tail(q)[i] = q[i + 1]
    BY <1>1, <1>3
  <2>2. QED
    BY <1>1, <1>6, <1>7, <2>1
<1>9. k = m - (n + 1)
  BY <1>2, <1>7
<1>10. ASSUME NEW i \in 1..k PROVE t[i] = Records[(n + 1) + i]
  <2>1. i + 1 \in 1..l /\ n + (i + 1) = (n + 1) + i
    BY <1>7
  <2>2. q[i + 1] = Records[n + (i + 1)]
    BY <1>2, <2>1
  <2>3. QED
    BY <1>8, <2>1, <2>2
<1>11. Queued(t, n + 1, m)
  BY <1>8, <1>9, <1>10 DEF Queued
<1>12. QED
  BY <1>2, <1>4, <1>5, <1>6, <1>11

\* A record that is read is the next the camera sent; a frame is the next of its
\* videos.
LEMMA ReadFrames ==
  ASSUME FramesInv, AckInv, TakeFrom(2), pc = "read", pc' = "loop",
         IF IsVideo(Head(queue[2])) THEN frames' = Append(frames, Head(queue[2]))
         ELSE frames' = frames
  PROVE  FramesInv' /\ (frames' = frames \/ Reader!Deliver)
<1>1. /\ queue[2] # <<>> /\ queue' = [queue EXCEPT ![2] = Tail(@)]
      /\ UNCHANGED <<mode, chan, fed, up, toCli, cam>>
  BY DEF TakeFrom
<1>2. mode # "none" /\ DOMAIN queue = {0, 2} /\ queue[2] \in Seq(Seq(Nat))
  BY <1>1 DEF FramesInv, AckInv, ChannelTypes
<1>3. PICK n \in 0..Len(Records) : ReaderAt(n)
  BY DEF FramesInv
<1>4. PICK m \in n..Len(Records) :
        /\ Queued(queue[2], n, m)
        /\ up => Assembled(chan[2].data, chan[2].size, m, Cut(cam.frags, fed[2]))
  BY <1>2, <1>3 DEF ReaderAt
<1>5. Len(Records) \in Nat
  BY ShownIs
<1>6. n < m /\ Head(queue[2]) = Records[n + 1] /\ Queued(Tail(queue[2]), n + 1, m)
  <2>1. n \in Nat /\ m \in Nat /\ n <= m
    BY <1>5
  <2>2. QED
    BY <1>1, <1>2, <1>4, <2>1, QueuedTail
<1>7. n < Len(Records) /\ n + 1 \in 0..Len(Records) /\ m \in (n + 1)..Len(Records)
  BY <1>5, <1>6
<1>8. queue'[2] = Tail(queue[2])
  BY <1>1, <1>2
<1>9. /\ Records[n + 1] \in Seq(Nat)
      /\ IsVideo(Records[n + 1]) =>
           /\ Shown(n + 1) = Shown(n) + 1 /\ Shown(n) < Len(Videos)
           /\ Videos[Shown(n) + 1] = Records[n + 1]
      /\ ~IsVideo(Records[n + 1]) => Shown(n + 1) = Shown(n)
  BY <1>7, ShownIs
<1>10. frames \in Seq(Seq(Nat)) /\ Len(frames) = Shown(n)
  BY <1>3 DEF FramesInv, ReaderAt
<1>11. frames' \in Seq(Seq(Nat)) /\ Len(frames') = Shown(n + 1)
  <2>1. CASE IsVideo(Records[n + 1])
    <3>1. frames' = Append(frames, Records[n + 1])
      BY <1>6, <2>1
    <3>2. /\ Append(frames, Records[n + 1]) \in Seq(Seq(Nat))
          /\ Len(Append(frames, Records[n + 1])) = Len(frames) + 1
      BY <1>9, <1>10
    <3>3. QED
      BY <1>9, <1>10, <2>1, <3>1, <3>2
  <2>2. CASE ~IsVideo(Records[n + 1])
    BY <1>6, <1>9, <1>10, <2>2
  <2>3. QED
    BY <2>1, <2>2
<1>12. ReaderAt(n + 1)'
  BY <1>1, <1>4, <1>6, <1>7, <1>8, <1>11 DEF ReaderAt
<1>13. FramesInv'
  BY <1>1, <1>2, <1>7, <1>11, <1>12 DEF FramesInv
<1>14. ASSUME IsVideo(Records[n + 1]) PROVE Reader!Deliver
  <2>1. frames' = Append(frames, Videos[Len(frames) + 1]) /\ Len(frames) < Len(Videos)
    BY <1>6, <1>9, <1>10, <1>14
  <2>2. QED
    BY <2>1 DEF Reader!Deliver
<1>15. QED
  BY <1>6, <1>13, <1>14

LEMMA FramesInit == XiaomiInit => FramesInv
<1> SUFFICES ASSUME XiaomiInit PROVE FramesInv
  OBVIOUS
<1>1. mode = "none" /\ frames = <<>> /\ queue[2] = <<>>
  BY DEF XiaomiInit, Cs2Init
<1>2. Len(frames) = 0 /\ frames \in Seq(Seq(Nat))
  BY <1>1
<1>3. 0 \in 0..Len(Records) /\ ReaderAt(0)
  BY <1>1, <1>2, ShownIs DEF ReaderAt
<1>4. QED
  BY <1>1, <1>2, <1>3 DEF FramesInv

LEMMA ReadyFrames ==
  ASSUME FramesInv, AckInv, Ready, UNCHANGED frames
  PROVE  FramesInv'
<1>1. /\ mode = "none" /\ frames = <<>> /\ chan' = [ch \in {0, 2} |-> NewChannel]
      /\ queue' = [ch \in {0, 2} |-> <<>>] /\ fed' = [ch \in {0, 2} |-> 0]
      /\ toCli' = {} /\ cam' = cam
  BY DEF Ready, FramesInv
<1>2. Len(frames) = 0 /\ Len(Records) \in Nat /\ RCut(0) = 0 /\ Len(Wire) \in Nat /\ Shown(0) = 0
  BY <1>1, ShownIs, WireIs
<1>3. cam.frags \in Splits /\ Len(cam.frags) \in Nat /\ Cut(cam.frags, 0) = 0
  BY PiecesAre DEF AckInv, ChannelTypes
<1>4. /\ queue'[2] = <<>> /\ fed'[2] = 0
      /\ chan'[2].data = <<>> /\ chan'[2].size = 0
  BY <1>1 DEF NewChannel
<1>5. Assembled(<<>>, 0, 0, 0)
  <2>1. Len(<<>>) = 0 /\ 0 + 0 = 0 /\ 0 \in Nat /\ \A i \in 1..0 : FALSE
    OBVIOUS
  <2>2. QED
    BY <1>2, <2>1 DEF Assembled
<1>6. Queued(<<>>, 0, 0)
  BY DEF Queued
<1>7. 0 \in 0..Len(Records) /\ ReaderAt(0)'
  BY <1>1, <1>2, <1>3, <1>4, <1>5, <1>6 DEF ReaderAt
<1>8. QED
  BY <1>1, <1>3, <1>4, <1>7 DEF FramesInv

\* A packet of another sort, or of the other channel, that is put on the network.
LEMMA CarryFrames ==
  ASSUME FramesInv, UNCHANGED <<mode, frames, up, chan, queue, fed>>, cam'.frags = cam.frags,
         NEW p, \A k : p # Drw(2, k), toCli' \subseteq toCli \cup {p}
  PROVE  FramesInv'
<1>1. \A k \in 1..Len(cam.frags) : Drw(2, k) \in toCli' => Drw(2, k) \in toCli
  OBVIOUS
<1>2. QED
  BY <1>1, FramesQuiet

LEMMA ThreadFrames ==
  ASSUME FramesInv, AckInv, Thread
  PROVE  FramesInv' /\ UNCHANGED <<frames, pc>>
<1>1. UNCHANGED <<frames, pc>> /\ Worker(Open)
  BY DEF Thread, mine
<1>2. ASSUME NEW c, RecvAck(c) PROVE FramesInv'
  BY <1>1, <1>2, FramesQuiet DEF RecvAck
<1>3. CASE RecvError
  BY <1>1, <1>3, FramesQuiet DEF RecvError
<1>4. ASSUME NEW k \in 1..Len(cam.frags), RecvUdp(0, k, Open) PROVE FramesInv'
  <2> DEFINE r == PushSeq(chan[0], queue[0], SeqNo(k), Payload(0, k), Open)
  <2>1. /\ up /\ toCli' \subseteq toCli /\ UNCHANGED <<mode, cam>> /\ up' = ~r.full
        /\ chan'[2] = chan[2] /\ queue'[2] = queue[2] /\ fed'[2] = fed[2]
    BY <1>4 DEF RecvUdp, TakenFrom, AckInv, ChannelTypes
  <2>2. FramesInv /\ up => up' = up \/ up' = FALSE
    BY <2>1
  <2>3. QED
    BY <1>1, <2>1, <2>2, FramesQuiet
<1>5. ASSUME NEW k \in 1..Len(cam.frags), RecvTcp(0, k, Open) PROVE FramesInv'
  <2> DEFINE r == Push([data |-> chan[0].data, size |-> chan[0].size, q |-> queue[0], full |-> FALSE],
                       Payload(0, k), Open)
  <2>0. /\ up /\ toCli' = toCli \ {Drw(0, k)} /\ UNCHANGED <<mode, cam>> /\ up' = ~r.full
        /\ chan' = [chan EXCEPT ![0].data = r.data, ![0].size = r.size]
        /\ queue' = [queue EXCEPT ![0] = r.q] /\ fed' = [fed EXCEPT ![0] = @ + 1]
    BY <1>5 DEF RecvTcp
  <2> HIDE DEF r
  <2>1. /\ toCli' \subseteq toCli
        /\ chan'[2] = chan[2] /\ queue'[2] = queue[2] /\ fed'[2] = fed[2]
    <3>1. DOMAIN chan = {0, 2} /\ DOMAIN queue = {0, 2} /\ DOMAIN fed = {0, 2} /\ 2 # 0
      BY DEF AckInv, ChannelTypes
    <3>2. chan'[2] = chan[2]
      BY <2>0, <3>1
    <3>3. queue'[2] = queue[2] /\ fed'[2] = fed[2]
      BY <2>0, <3>1
    <3>4. QED
      BY <2>0, <3>2, <3>3
  <2>2. FramesInv /\ up => up' = up \/ up' = FALSE
    BY <2>0
  <2>3. QED
    BY <1>1, <2>0, <2>1, <2>2, FramesQuiet
<1>6. QED
  BY <1>1, <1>2, <1>3, <1>4, <1>5, RecvUdpFrames, RecvTcpFrames DEF Worker

LEMMA WorldFrames ==
  ASSUME FramesInv, SendInv, World
  PROVE  FramesInv' /\ UNCHANGED <<frames, pc>>
<1>1. UNCHANGED <<frames, pc>> /\ Network
  BY DEF World, mine
<1>2. CASE CamHello
  <2>1. /\ mode = "none" /\ UNCHANGED <<mode, chan, queue, fed, up, toCam, cam>>
    BY <1>2 DEF CamHello
  <2>2. \A n : ReaderAt(n) => ReaderAt(n)'
    BY <1>1, <2>1 DEF ReaderAt
  <2>3. QED
    BY <1>1, <2>1, <2>2 DEF FramesInv
<1>3. CASE CamReply
  <2>1. toCli' \subseteq toCli \cup {Drw(0, 1)} /\ UNCHANGED <<mode, chan, queue, fed, up, toCam, cam>>
    BY <1>3, CarriedIs DEF CamReply
  <2>2. \A k : Drw(0, 1) # Drw(2, k)
    BY DatagramsDiffer
  <2>3. QED
    BY <1>1, <2>1, <2>2, CarryFrames
<1>4. CASE Lose
  <2>1. toCli' \subseteq toCli /\ UNCHANGED <<mode, chan, queue, fed, up, cam>>
    BY <1>4 DEF Lose
  <2>2. QED
    BY <1>1, <2>1, FramesQuiet
<1>5. ASSUME NEW c \in Commands, CamCommand(c) PROVE FramesInv'
  <2>1. /\ toCli' \subseteq toCli \cup {CmdAck(c)} /\ UNCHANGED <<mode, chan, queue, fed, up>>
        /\ cam' = [cam EXCEPT !.got = @ \cup {c}]
    BY <1>5, CarriedIs DEF CamCommand
  <2>2. cam'.frags = cam.frags /\ \A k : CmdAck(c) # Drw(2, k)
    BY <2>1, DatagramsDiffer
  <2>3. QED
    BY <1>1, <2>1, <2>2, CarryFrames
<1>6. ASSUME NEW k \in 1..Len(cam.frags), CamSend(k) PROVE FramesInv'
  <2>1. /\ toCli' \subseteq toCli \cup {Drw(2, k)} /\ UNCHANGED <<mode, chan, queue, fed, up, toCam, cam>>
        /\ mode = "tcp" => k = fed[2] + 1
    BY <1>6, CarriedIs DEF CamSend
  <2>2. \A n : ReaderAt(n) => ReaderAt(n)'
    BY <1>1, <2>1 DEF ReaderAt
  <2>3. mode = "tcp" => \A j \in 1..Len(cam.frags) : Drw(2, j) \in toCli' => j = fed[2] + 1
    BY <2>1, DatagramsDiffer DEF FramesInv
  <2>4. QED
    BY <1>1, <2>1, <2>2, <2>3 DEF FramesInv
<1>7. ASSUME NEW ch \in {0, 2}, NEW k \in 1..Len(cam.frags), CamAck(ch, k) PROVE FramesInv'
  <2>1. /\ toCli' \subseteq toCli /\ UNCHANGED <<mode, chan, queue, fed, up>>
        /\ \E x, y, z : cam' = [cam EXCEPT !.replied = x] \/ cam' = [cam EXCEPT !.low = y, !.acked = z]
    BY <1>7, Zenon DEF CamAck
  <2>2. cam'.frags = cam.frags
    BY <2>1 DEF SendInv, CamTypes
  <2>3. QED
    BY <1>1, <2>1, <2>2, FramesQuiet
<1>8. QED
  BY <1>1, <1>2, <1>3, <1>4, <1>5, <1>6, <1>7 DEF Network

\* What the steps of the tool and of the worker do to the reader's side.
LEMMA ClientFrames ==
  ASSUME FramesInv, AckInv, Tool \/ Account \/ Client \/ Cancel
  PROVE  FramesInv' /\ (frames' = frames \/ (Reader!Deliver /\ pc' = "loop"))
<1>1. ASSUME UNCHANGED <<cs2vars, frames>> PROVE FramesInv'
  BY <1>1, FramesQuiet DEF cs2vars
<1>2. CASE Tool \/ Account \/ TokenLogin \/ TokenLoggedIn \/ Resolve \/ Loop \/ Cancel
  BY <1>1, <1>2 DEF Tool, Account, TokenLogin, TokenLoggedIn, Resolve, Loop, Cancel, mine
<1>3. ASSUME NEW x, SendHello(x), UNCHANGED frames PROVE FramesInv'
  BY <1>3, FramesQuiet DEF SendHello
<1>4. CASE Search \/ Echo
  BY <1>1, <1>3, <1>4, ReadyFrames DEF Search, Echo, mine
<1>5. ASSUME NEW c, SendCommand(c) \/ SendOnce(c) \/ Resend(c) \/ ClearSlot \/ ArmSlot,
             UNCHANGED frames
      PROVE  FramesInv'
  BY <1>5, FramesQuiet DEF SendCommand, SendOnce, Resend, ClearSlot, ArmSlot
<1>6. CASE WriteCommand \/ CommandAcked \/ CommandTimeout
  <2>1. UNCHANGED frames
    BY <1>6 DEF WriteCommand, CommandAcked, CommandTimeout
  <2>2. CASE WriteCommand
    BY <1>1, <1>5, <2>1, <2>2 DEF WriteCommand
  <2>3. CASE CommandAcked
    BY <1>5, <2>1, <2>3 DEF CommandAcked
  <2>4. CASE CommandTimeout
    BY <1>1, <1>5, <2>1, <2>4 DEF CommandTimeout
  <2>5. QED
    BY <1>6, <2>1, <2>2, <2>3, <2>4
<1>7. CASE ReadReply
  <2>1. UNCHANGED frames
    BY <1>7 DEF ReadReply
  <2>2. CASE UNCHANGED cs2vars
    BY <1>1, <2>1, <2>2
  <2>3. CASE TakeFrom(0)
    <3>1. /\ UNCHANGED <<mode, chan, fed, up, toCli, cam>> /\ queue' = [queue EXCEPT ![0] = Tail(@)]
      BY <2>3 DEF TakeFrom
    <3>2. queue'[2] = queue[2]
      BY <3>1 DEF AckInv, ChannelTypes
    <3>3. QED
      BY <2>1, <3>1, <3>2, FramesQuiet
  <2>4. QED
    BY <1>7, <2>1, <2>2, <2>3 DEF ReadReply
<1>8. CASE ReadPacket
  <2>1. CASE UNCHANGED <<cs2vars, frames>>
    BY <1>1, <2>1
  <2>2. CASE /\ TakeFrom(2) /\ pc' = "loop"
             /\ IF IsVideo(Head(queue[2]))
                THEN frames' = Append(frames, Head(queue[2])) /\ track' = TRUE
                ELSE UNCHANGED <<frames, track>>
    <3>1. /\ pc = "read"
          /\ IF IsVideo(Head(queue[2])) THEN frames' = Append(frames, Head(queue[2]))
             ELSE frames' = frames
      BY <1>8, <2>2 DEF ReadPacket
    <3>2. QED
      BY <2>2, <3>1, ReadFrames
  <2>3. QED
    BY <1>8, <2>1, <2>2 DEF ReadPacket
<1>9. QED
  BY <1>2, <1>4, <1>6, <1>7, <1>8 DEF Client

\* A worker that has ended does nothing more.
LEMMA EndedStays ==
  ASSUME pc = "ended", XiaomiNext
  PROVE  UNCHANGED <<frames, pc>>
<1>1. ~Tool /\ ~Cancel /\ ~Client
  BY DEF Tool, Cancel, Client, TokenLogin, TokenLoggedIn, Resolve, Search, Echo, WriteCommand,
         CommandAcked, CommandTimeout, ReadReply, Loop, ReadPacket
<1>2. QED
  BY <1>1 DEF XiaomiNext, Account, Thread, World, mine

LEMMA FramesStep ==
  ASSUME FramesInv, AckInv, SendInv, [XiaomiNext]_xiaomivars
  PROVE  FramesInv' /\ [Reader!Next]_<<frames, pc = "ended">>
<1>1. CASE UNCHANGED xiaomivars
  BY <1>1, FramesQuiet DEF xiaomivars, cs2vars
<1>2. CASE Thread \/ World
  BY <1>2, ThreadFrames, WorldFrames
<1>3. CASE Tool \/ Account \/ Client \/ Cancel
  <2>1. FramesInv' /\ (frames' = frames \/ (Reader!Deliver /\ pc' = "loop"))
    BY <1>3, ClientFrames
  <2>2. CASE pc = "ended"
    BY <1>3, <2>1, <2>2, EndedStays DEF XiaomiNext
  <2>3. CASE pc # "ended" /\ frames' = frames
    <3>1. CASE pc' = "ended"
      BY <2>1, <2>3, <3>1 DEF Reader!Next, Reader!Finish
    <3>2. CASE pc' # "ended"
      BY <2>1, <2>3, <3>2
    <3>3. QED
      BY <3>1, <3>2
  <2>4. CASE Reader!Deliver
    BY <2>1, <2>4 DEF Reader!Next
  <2>5. QED
    BY <2>1, <2>2, <2>3, <2>4
<1>4. QED
  BY <1>1, <1>2, <1>3 DEF XiaomiNext

LEMMA FramesInvariant == XiaomiSpec => []FramesInv
<1>1. FramesInv /\ AckInv /\ SendInv /\ [XiaomiNext]_xiaomivars => FramesInv'
  BY FramesStep
<1>2. QED
  BY <1>1, FramesInit, AckInvariant, PTL DEF XiaomiSpec

\* xiaomi.rs:147: the frames given to ZLMediaKit are the camera's H264 records, in
\* order, whole and once each, and none comes after the worker has ended.
THEOREM FramesInOrderAlways == XiaomiSpec => FramesInOrder
<1>1. XiaomiInit => Reader!Init
  BY DEF XiaomiInit, Reader!Init
<1>2. FramesInv /\ AckInv /\ SendInv /\ [XiaomiNext]_xiaomivars
        => [Reader!Next]_<<frames, pc = "ended">>
  BY FramesStep
<1>3. QED
  BY <1>1, <1>2, FramesInvariant, AckInvariant, PTL DEF XiaomiSpec, FramesInOrder, Reader!Spec

=============================================================================
