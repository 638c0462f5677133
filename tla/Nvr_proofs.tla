----------------------------- MODULE Nvr_proofs -----------------------------
(***************************************************************************)
(* Proofs about the modules of the nvr crate: Api, with the devices' calls *)
(* by the invariant DevInv and the users' sessions by AccInv, each half    *)
(* seeing of the other only that a request was let in and that the process *)
(* ended; and Archive, with the recordings by ArcInv, what is cleaned up   *)
(* by DueInv, the copies by DoneInv and playback by PlayInv.               *)
(***************************************************************************)
EXTENDS Api, Archive, WellFoundedInduction, NaturalsInduction, FiniteSetTheorems, TLAPS

-----------------------------------------------------------------------------
(* The devices: what the calls have still to do fits what is there. *)

\* Something at a place of a list.
Has(list, x) == \E n \in DOMAIN list : list[n] = x

DbSteps == {"read", "look", "put", "delete"}
Steps   == DbSteps \cup {"add", "fail", "map", "reg", "upsert", "unpipe", "unmap", "unreg"}

DevCall == [st : {"never", "due", "run", "done", "error"}, todo : Seq(Steps),
            old : Cfgs \cup {NoCfg}, found : BOOLEAN]

DevTypes ==
  /\ rows \in [Ids -> Seq(Cfgs)] /\ mixed \in SUBSET Ids /\ down \in SUBSET Ids
  /\ source \in [Ids -> Cfgs \cup {NoCfg}]
  /\ mapping \in [Ids -> Cfgs \cup {NoCfg}] /\ registry \in [Ids -> Cfgs \cup {NoCfg}]
  /\ dcall \in [DevReqs -> DevCall]
  /\ \A r \in DevReqs : dcall[r].st = "run" <=> dcall[r].todo # <<>>
  /\ boot \in Seq([id : Ids, cfg : Cfgs]) \cup {NotListed}

\* A device the start-up could not list is down: what its row says need not run.
Up(i) == IF i \in down THEN "down" ELSE "up"

\* What runs fits the rows rw of a device: nothing of another type, and all of it if the
\* config is good and the device is not down.
Fits(rw, s, m, g, u) ==
  /\ Len(rw) <= 1
  /\ rw = <<>> => s = NoCfg /\ m = NoCfg /\ g = NoCfg
  /\ Len(rw) = 1 => LET c == rw[1] IN
       /\ c.type # "gb28181" => m = NoCfg
       /\ c.type = "gb28181" => s = NoCfg
       /\ c.type # "onvif" => g = NoCfg
       /\ c.ok /\ u # "down" => s = Wanted(c).source /\ m = Wanted(c).mapping /\ g = Wanted(c).registry
  /\ ~GbOn => m = NoCfg

FitsNow(i) == Fits(rows[i], source[i], mapping[i], registry[i], Up(i))

\* What will run when call r has done all of todo.
Source2(r, todo, s) ==
  IF Has(todo, "upsert") THEN r.cfg ELSE IF Has(todo, "unpipe") THEN NoCfg ELSE s
Mapping2(r, todo, m) ==
  IF Has(todo, "map") /\ GbOn THEN r.cfg ELSE IF Has(todo, "unmap") THEN NoCfg ELSE m
Registry2(r, todo, g) ==
  IF Has(todo, "reg") THEN r.cfg ELSE IF Has(todo, "unreg") THEN NoCfg ELSE g

\* Steps after the row was written: none takes down what another sets up.
Ordered(todo) ==
  /\ \A n \in DOMAIN todo : todo[n] \notin DbSteps \cup {"add"}
  /\ \A n \in DOMAIN todo : todo[n] = "fail" => n = Len(todo)
  /\ ~(Has(todo, "upsert") /\ Has(todo, "unpipe"))
  /\ ~(Has(todo, "map") /\ Has(todo, "unmap"))
  /\ ~(Has(todo, "reg") /\ Has(todo, "unreg"))

\* Call r, at c, has not written its row: the one there fits, and the call knows it.
Early(r, c, rw, s, m, g, u) ==
  /\ Fits(rw, s, m, g, u)
  /\ \/ /\ r.op = "add" /\ (rw # <<>> => Head(rw).type = r.cfg.type)
        /\ \/ c.todo = <<"look", "put">> \o Ensure(r.cfg)
           \/ c.todo = <<"put">> \o Ensure(r.cfg) /\ (c.found <=> rw # <<>>)
     \/ /\ r.op = "update"
        /\ \/ c.todo = <<"read", "look", "put">>
           \/ c.todo = <<"look", "put">> /\ rw # <<>> /\ c.old = Head(rw)
           \/ c.todo = <<"put">> /\ rw # <<>> /\ c.old = Head(rw) /\ c.found
     \/ r.op = "remove" /\ c.todo = <<"delete", "unpipe", "unmap", "unreg">>

\* It has: what will run fits.
LateOn(r, c, rw, s, m, g, u) ==
  /\ Ordered(c.todo)
  /\ Fits(rw, Source2(r, c.todo, s), Mapping2(r, c.todo, m), Registry2(r, c.todo, g), u)

UnderWay(r, c, rw, s, m, g, u) == Early(r, c, rw, s, m, g, u) \/ LateOn(r, c, rw, s, m, g, u)

Runs(r, i) == r.id = i /\ dcall[r].st = "run"

\* The start-up has not come to device i, or it has.
Booting(i) ==
  /\ Len(rows[i]) <= 1
  /\ boot = NotListed => source[i] = NoCfg /\ mapping[i] = NoCfg /\ registry[i] = NoCfg
  /\ boot # NotListed =>
       /\ \A n \in DOMAIN boot : boot[n].id = i => rows[i] = <<boot[n].cfg>>
       /\ \/ FitsNow(i)
          \/ /\ source[i] = NoCfg /\ mapping[i] = NoCfg /\ registry[i] = NoCfg
             /\ \E n \in DOMAIN boot : boot[n].id = i

DeviceOk(i) ==
  /\ \A r, q \in DevReqs : Runs(r, i) /\ Runs(q, i) => r = q
  /\ boot # <<>> => (\A r \in DevReqs : ~Runs(r, i)) /\ Booting(i)
  /\ boot = <<>> =>
       /\ (\A r \in DevReqs : ~Runs(r, i)) => FitsNow(i)
       /\ \A r \in DevReqs : Runs(r, i) =>
            UnderWay(r, dcall[r], rows[i], source[i], mapping[i], registry[i], Up(i))

DevInv == DevTypes /\ \A i \in Ids : i \notin mixed => DeviceOk(i)

\* Only a removal deletes, and first.
Removal  == <<"delete", "unpipe", "unmap", "unreg">>
Removals == \A r \in DevReqs : Has(dcall[r].todo, "delete") => dcall[r].todo = Removal

\* Of one list after the other.
LEMMA HasCat ==
  ASSUME NEW S, NEW s \in Seq(S), NEW t \in Seq(S), NEW x
  PROVE  Has(s \o t, x) <=> Has(s, x) \/ Has(t, x)
<1>1. /\ DOMAIN s = 1..Len(s) /\ DOMAIN t = 1..Len(t) /\ Len(s) \in Nat /\ Len(t) \in Nat
      /\ DOMAIN (s \o t) = 1..(Len(s) + Len(t))
  OBVIOUS
<1>2. \A n \in 1..Len(s) : (s \o t)[n] = s[n]
  OBVIOUS
<1>3. \A n \in (Len(s) + 1)..(Len(s) + Len(t)) : (s \o t)[n] = t[n - Len(s)]
  OBVIOUS
<1>4. ASSUME Has(s \o t, x) PROVE Has(s, x) \/ Has(t, x)
  <2>1. PICK n \in 1..(Len(s) + Len(t)) : (s \o t)[n] = x
    BY <1>1, <1>4 DEF Has
  <2>2. n \in 1..Len(s) \/ (n \in (Len(s) + 1)..(Len(s) + Len(t)) /\ n - Len(s) \in 1..Len(t))
    <3>1. \A a, b \in Nat : n \in 1..(a + b) =>
            n \in 1..a \/ (n \in (a + 1)..(a + b) /\ n - a \in 1..b)
      OBVIOUS
    <3> QED
      BY <1>1, <2>1, <3>1
  <2> QED
    BY <1>1, <1>2, <1>3, <2>1, <2>2 DEF Has
<1>5. ASSUME Has(s, x) PROVE Has(s \o t, x)
  <2>1. PICK n \in 1..Len(s) : s[n] = x
    BY <1>1, <1>5 DEF Has
  <2> QED
    BY <1>1, <1>2, <2>1 DEF Has
<1>6. ASSUME Has(t, x) PROVE Has(s \o t, x)
  <2>1. PICK n \in 1..Len(t) : t[n] = x
    BY <1>1, <1>6 DEF Has
  <2>2. n + Len(s) \in (Len(s) + 1)..(Len(s) + Len(t)) /\ (n + Len(s)) - Len(s) = n
    BY <1>1
  <2>3. (s \o t)[n + Len(s)] = x
    BY <1>3, <2>1, <2>2
  <2> QED
    BY <1>1, <2>2, <2>3 DEF Has
<1> QED
  BY <1>4, <1>5, <1>6

LEMMA HasFew ==
  ASSUME NEW x
  PROVE  /\ ~Has(<<>>, x)
         /\ \A a : Has(<<a>>, x) <=> x = a
         /\ \A a, b : Has(<<a, b>>, x) <=> x = a \/ x = b
BY DEF Has

LEMMA HasTail ==
  ASSUME NEW S, NEW t \in Seq(S), t # <<>>, NEW x
  PROVE  Has(t, x) <=> x = Head(t) \/ Has(Tail(t), x)
<1>1. /\ Head(t) = t[1] /\ 1 \in DOMAIN t
      /\ \A n \in DOMAIN Tail(t) : n + 1 \in DOMAIN t /\ Tail(t)[n] = t[n + 1]
      /\ \A n \in DOMAIN t : n = 1 \/ (n - 1 \in DOMAIN Tail(t) /\ t[n] = Tail(t)[n - 1])
  OBVIOUS
<1> QED
  BY <1>1 DEF Has

\* What is left of a call's steps is in order.
LEMMA OrderedTail ==
  ASSUME NEW t \in Seq(Steps), t # <<>>, Ordered(t)
  PROVE  Ordered(Tail(t)) /\ Head(t) \notin DbSteps \cup {"add"} /\ Tail(t) \in Seq(Steps)
<1>1. /\ Head(t) = t[1] /\ 1 \in DOMAIN t /\ Tail(t) \in Seq(Steps) /\ Len(Tail(t)) = Len(t) - 1
      /\ \A n \in DOMAIN Tail(t) : n + 1 \in DOMAIN t /\ Tail(t)[n] = t[n + 1]
  OBVIOUS
<1>2. \A x : Has(Tail(t), x) => Has(t, x)
  BY HasTail
<1>3. \A n \in DOMAIN Tail(t) : Tail(t)[n] = "fail" => n = Len(Tail(t))
  <2> SUFFICES ASSUME NEW n \in DOMAIN Tail(t), Tail(t)[n] = "fail" PROVE n = Len(Tail(t))
    OBVIOUS
  <2>1. n + 1 = Len(t)
    BY <1>1 DEF Ordered
  <2> QED
    BY <1>1, <2>1
<1>4. \A n \in DOMAIN Tail(t) : Tail(t)[n] \notin DbSteps \cup {"add"}
  BY <1>1 DEF Ordered
<1> QED
  BY <1>1, <1>2, <1>3, <1>4 DEF Ordered

\* ensure_device_pipe sets up what is wanted.
LEMMA EnsureIs ==
  ASSUME NEW c \in Cfgs
  PROVE  /\ Ensure(c) \in Seq(Steps) /\ Ensure(c) # <<>> /\ Ordered(Ensure(c))
         /\ Has(Ensure(c), "upsert") <=> c.ok /\ c.type # "gb28181"
         /\ Has(Ensure(c), "map") <=> c.ok /\ c.type = "gb28181"
         /\ Has(Ensure(c), "reg") <=> c.ok /\ c.type = "onvif"
         /\ ~Has(Ensure(c), "unpipe") /\ ~Has(Ensure(c), "unmap") /\ ~Has(Ensure(c), "unreg")
<1>1. c.type \in {"net", "gb28181", "onvif", "other"} /\ c.ok \in BOOLEAN
  BY DevicesAssumption
<1>2. \/ Ensure(c) = <<"fail">> /\ ~c.ok
      \/ Ensure(c) = <<"map">> /\ c.ok /\ c.type = "gb28181"
      \/ Ensure(c) = <<"reg", "upsert">> /\ c.ok /\ c.type = "onvif"
      \/ Ensure(c) = <<"upsert">> /\ c.ok /\ c.type \notin {"gb28181", "onvif"}
  BY <1>1 DEF Ensure
<1>3. ASSUME NEW e, e \in {<<"fail">>, <<"map">>, <<"reg", "upsert">>, <<"upsert">>}
      PROVE  /\ e \in Seq(Steps) /\ e # <<>>
             /\ \A n \in DOMAIN e : e[n] \notin DbSteps \cup {"add"}
             /\ \A n \in DOMAIN e : e[n] = "fail" => n = Len(e)
  <2>1. CASE e = <<"fail">>
    BY <2>1 DEF Steps, DbSteps
  <2>2. CASE e = <<"map">>
    BY <2>2 DEF Steps, DbSteps
  <2>3. CASE e = <<"reg", "upsert">>
    BY <2>3 DEF Steps, DbSteps
  <2>4. CASE e = <<"upsert">>
    BY <2>4 DEF Steps, DbSteps
  <2> QED
    BY <1>3, <2>1, <2>2, <2>3, <2>4
<1>4. Ensure(c) \in {<<"fail">>, <<"map">>, <<"reg", "upsert">>, <<"upsert">>}
  BY <1>2
<1>5. \A x : /\ Has(<<"fail">>, x) <=> x = "fail"
             /\ Has(<<"map">>, x) <=> x = "map"
             /\ Has(<<"reg", "upsert">>, x) <=> x = "reg" \/ x = "upsert"
             /\ Has(<<"upsert">>, x) <=> x = "upsert"
  BY HasFew
<1>6. \A x : Has(Ensure(c), x) <=> \/ x = "fail" /\ ~c.ok
                                   \/ x = "map" /\ c.ok /\ c.type = "gb28181"
                                   \/ x = "reg" /\ c.ok /\ c.type = "onvif"
                                   \/ x = "upsert" /\ c.ok /\ c.type # "gb28181"
  <2> HIDE DEF Ensure, Has
  <2>1. CASE Ensure(c) = <<"fail">> /\ ~c.ok
    BY <1>5, <2>1
  <2>2. CASE Ensure(c) = <<"map">> /\ c.ok /\ c.type = "gb28181"
    BY <1>5, <2>2
  <2>3. CASE Ensure(c) = <<"reg", "upsert">> /\ c.ok /\ c.type = "onvif"
    BY <1>5, <2>3
  <2>4. CASE Ensure(c) = <<"upsert">> /\ c.ok /\ c.type \notin {"gb28181", "onvif"}
    BY <1>1, <1>5, <2>4
  <2> QED
    BY <1>2, <2>1, <2>2, <2>3, <2>4
<1>7. /\ Ensure(c) \in Seq(Steps) /\ Ensure(c) # <<>>
      /\ \A n \in DOMAIN Ensure(c) : Ensure(c)[n] \notin DbSteps \cup {"add"}
      /\ \A n \in DOMAIN Ensure(c) : Ensure(c)[n] = "fail" => n = Len(Ensure(c))
  BY <1>3, <1>4
<1> QED
  BY <1>6, <1>7 DEF Ordered

\* update_device takes down what the type of before had, and no more.
LEMMA CleanupIs ==
  ASSUME NEW o \in Cfgs, NEW c \in Cfgs
  PROVE  /\ Cleanup(o, c) \in Seq({"unmap", "unreg", "unpipe"})
         /\ Has(Cleanup(o, c), "unmap") <=> o.type # c.type /\ o.type = "gb28181"
         /\ Has(Cleanup(o, c), "unreg") <=> o.type # c.type /\ o.type = "onvif"
         /\ Has(Cleanup(o, c), "unpipe") <=> o.type # c.type /\ c.type = "gb28181"
<1> DEFINE S == {"unmap", "unreg", "unpipe"}
           u == IF o.type = "gb28181" THEN <<"unmap">> ELSE <<>>
           v == IF o.type = "onvif" THEN <<"unreg">> ELSE <<>>
           w == IF c.type = "gb28181" THEN <<"unpipe">> ELSE <<>>
<1>1. u \in Seq(S) /\ v \in Seq(S) /\ w \in Seq(S)
  <2>1. <<>> \in Seq(S) /\ <<"unmap">> \in Seq(S) /\ <<"unreg">> \in Seq(S) /\ <<"unpipe">> \in Seq(S)
    OBVIOUS
  <2> QED
    BY <2>1
<1>2. \A x : /\ Has(u, x) <=> x = "unmap" /\ o.type = "gb28181"
             /\ Has(v, x) <=> x = "unreg" /\ o.type = "onvif"
             /\ Has(w, x) <=> x = "unpipe" /\ c.type = "gb28181"
  BY HasFew
<1>3. Cleanup(o, c) = IF o.type = c.type THEN <<>> ELSE u \o v \o w
  BY DEF Cleanup
<1> HIDE DEF u, v, w
<1>4. u \o v \in Seq(S)
  BY <1>1
<1>7. u \o v \o w \in Seq(S)
  BY <1>1, <1>4
<1>5. \A x : Has(u \o v \o w, x) <=> Has(u, x) \/ Has(v, x) \/ Has(w, x)
  <2>1. \A x : Has(u \o v, x) <=> Has(u, x) \/ Has(v, x)
    BY <1>1, HasCat
  <2>2. \A x : Has((u \o v) \o w, x) <=> Has(u \o v, x) \/ Has(w, x)
    <3> HIDE DEF S
    <3> QED
      BY <1>1, <1>4, HasCat
  <2> QED
    BY <2>1, <2>2
<1> QED
  BY <1>2, <1>3, <1>5, <1>7, HasFew

\* Both together.
LEMMA EditIs ==
  ASSUME NEW o \in Cfgs, NEW c \in Cfgs
  PROVE  LET t == Cleanup(o, c) \o Ensure(c) IN
         /\ t \in Seq(Steps) /\ t # <<>> /\ Ordered(t)
         /\ Has(t, "upsert") <=> c.ok /\ c.type # "gb28181"
         /\ Has(t, "map") <=> c.ok /\ c.type = "gb28181"
         /\ Has(t, "reg") <=> c.ok /\ c.type = "onvif"
         /\ Has(t, "unmap") <=> o.type # c.type /\ o.type = "gb28181"
         /\ Has(t, "unreg") <=> o.type # c.type /\ o.type = "onvif"
         /\ Has(t, "unpipe") <=> o.type # c.type /\ c.type = "gb28181"
<1> DEFINE u == Cleanup(o, c)
           e == Ensure(c)
<1>1. u \in Seq({"unmap", "unreg", "unpipe"}) /\ u \in Seq(Steps)
  BY CleanupIs DEF Steps
<1>2. e \in Seq(Steps) /\ e # <<>> /\ Ordered(e)
  BY EnsureIs
<1>3. \A x : Has(u \o e, x) <=> Has(u, x) \/ Has(e, x)
  BY <1>1, <1>2, HasCat
<1>4. \A x : Has(u, x) => x \in {"unmap", "unreg", "unpipe"}
  BY <1>1 DEF Has
<1>8. /\ Has(u, "unmap") <=> o.type # c.type /\ o.type = "gb28181"
      /\ Has(u, "unreg") <=> o.type # c.type /\ o.type = "onvif"
      /\ Has(u, "unpipe") <=> o.type # c.type /\ c.type = "gb28181"
  BY CleanupIs
<1>9. /\ Has(e, "upsert") <=> c.ok /\ c.type # "gb28181"
      /\ Has(e, "map") <=> c.ok /\ c.type = "gb28181"
      /\ Has(e, "reg") <=> c.ok /\ c.type = "onvif"
      /\ ~Has(e, "unpipe") /\ ~Has(e, "unmap") /\ ~Has(e, "unreg")
  BY EnsureIs
<1> HIDE DEF u, e
<1>5. /\ Has(u \o e, "upsert") <=> c.ok /\ c.type # "gb28181"
      /\ Has(u \o e, "map") <=> c.ok /\ c.type = "gb28181"
      /\ Has(u \o e, "reg") <=> c.ok /\ c.type = "onvif"
      /\ Has(u \o e, "unmap") <=> o.type # c.type /\ o.type = "gb28181"
      /\ Has(u \o e, "unreg") <=> o.type # c.type /\ o.type = "onvif"
      /\ Has(u \o e, "unpipe") <=> o.type # c.type /\ c.type = "gb28181"
  <2>1. ~Has(u, "upsert") /\ ~Has(u, "map") /\ ~Has(u, "reg")
    BY <1>4
  <2> QED
    BY <1>3, <1>8, <1>9, <2>1
<1>6. /\ u \o e \in Seq(Steps) /\ u \o e # <<>> /\ Len(u \o e) = Len(u) + Len(e)
      /\ \A n \in DOMAIN (u \o e) : \/ n \in DOMAIN u /\ (u \o e)[n] = u[n]
                                    \/ n - Len(u) \in DOMAIN e /\ (u \o e)[n] = e[n - Len(u)]
  BY <1>1, <1>2
<1>7. \A n \in DOMAIN (u \o e) : /\ (u \o e)[n] \notin DbSteps \cup {"add"}
                                 /\ (u \o e)[n] = "fail" => n = Len(u \o e)
  <2> SUFFICES ASSUME NEW n \in DOMAIN (u \o e)
               PROVE  /\ (u \o e)[n] \notin DbSteps \cup {"add"}
                      /\ (u \o e)[n] = "fail" => n = Len(u \o e)
    OBVIOUS
  <2>1. CASE n \in DOMAIN u /\ (u \o e)[n] = u[n]
    BY <1>1, <2>1 DEF DbSteps
  <2>2. CASE n - Len(u) \in DOMAIN e /\ (u \o e)[n] = e[n - Len(u)]
    <3>1. n \in Nat /\ Len(u) \in Nat /\ Len(e) \in Nat
      BY <1>1, <1>2, <1>6
    <3>2. \A k \in DOMAIN e : /\ e[k] \notin DbSteps \cup {"add"}
                              /\ e[k] = "fail" => k = Len(e)
      BY <1>2 DEF Ordered
    <3>3. (u \o e)[n] \notin DbSteps \cup {"add"}
      BY <2>2, <3>2
    <3>4. ASSUME (u \o e)[n] = "fail" PROVE n = Len(u \o e)
      <4>1. n - Len(u) = Len(e)
        BY <2>2, <3>2, <3>4
      <4> QED
        BY <1>6, <3>1, <4>1
    <3> QED
      BY <3>3, <3>4
  <2> QED
    BY <1>6, <2>1, <2>2
<1> QED
  BY <1>5, <1>6, <1>7 DEF Ordered, u, e

-----------------------------------------------------------------------------
(* The calls, step by step.                                                *)

\* On to the next steps.
LEMMA GotoIs ==
  ASSUME DevTypes, NEW r \in DevReqs, NEW todo \in Seq(Steps)
  PROVE  LET d == Goto(r, todo) IN
         /\ d \in [DevReqs -> DevCall]
         /\ d[r].todo = todo /\ d[r].old = dcall[r].old /\ d[r].found = dcall[r].found
         /\ d[r].st = "run" <=> todo # <<>>
         /\ \A q \in DevReqs : q # r => d[q] = dcall[q]
<1>1. dcall \in [DevReqs -> DevCall]
  BY DEF DevTypes
<1> DEFINE st == IF todo = <<>> THEN "done" ELSE "run"
<1>2. st \in {"never", "due", "run", "done", "error"} /\ (st = "run" <=> todo # <<>>)
  OBVIOUS
<1>3. Goto(r, todo) = [dcall EXCEPT ![r] = [dcall[r] EXCEPT !.todo = todo, !.st = st]]
  BY <1>1 DEF Goto, DevCall
<1> HIDE DEF st
<1> DEFINE c == [dcall[r] EXCEPT !.todo = todo, !.st = st]
<1>4. /\ c \in DevCall /\ c.todo = todo /\ c.old = dcall[r].old /\ c.found = dcall[r].found
      /\ c.st = st
  BY <1>1, <1>2 DEF DevCall
<1>5. Goto(r, todo) = [dcall EXCEPT ![r] = c]
  BY <1>3
<1> HIDE DEF c, DevCall
<1> QED
  BY <1>1, <1>2, <1>4, <1>5

\* The call ends at an error.
LEMMA ErrorIs ==
  ASSUME DevTypes, NEW r \in DevReqs, Error(r)
  PROVE  /\ dcall' \in [DevReqs -> DevCall]
         /\ dcall'[r].st = "error" /\ dcall'[r].todo = <<>>
         /\ \A q \in DevReqs : q # r => dcall'[q] = dcall[q]
<1>1. dcall \in [DevReqs -> DevCall]
  BY DEF DevTypes
<1>2. dcall' = [dcall EXCEPT ![r] = [dcall[r] EXCEPT !.st = "error", !.todo = <<>>]]
  BY <1>1 DEF Error, DevCall
<1>3. <<>> \in Seq(Steps)
  OBVIOUS
<1> QED
  BY <1>1, <1>2, <1>3 DEF DevCall

\* What a running call knows of its steps.
LEMMA RunningIs ==
  ASSUME DevTypes, NEW r \in DevReqs, dcall[r].st = "run"
  PROVE  /\ dcall[r].todo \in Seq(Steps) /\ dcall[r].todo # <<>>
         /\ Tail(dcall[r].todo) \in Seq(Steps) /\ Head(dcall[r].todo) \in Steps
         /\ r.id \in Ids /\ r.cfg \in Cfgs /\ r.op \in DevOps
         /\ rows[r.id] \in Seq(Cfgs)
<1>1. dcall[r].todo \in Seq(Steps) /\ dcall[r].todo # <<>>
  BY DEF DevTypes, DevCall
<1>2. r.id \in Ids /\ r.cfg \in Cfgs /\ r.op \in DevOps
  BY DevicesAssumption
<1>3. rows[r.id] \in Seq(Cfgs)
  BY <1>2 DEF DevTypes
<1> QED
  BY <1>1, <1>2, <1>3

\* What a call with a row to write has left begins with a step on the table.
LEMMA EarlyHead ==
  ASSUME NEW r \in DevReqs, NEW c, NEW rw, NEW s, NEW m, NEW g, NEW u, Early(r, c, rw, s, m, g, u)
  PROVE  /\ Fits(rw, s, m, g, u)
         /\ Head(c.todo) \in DbSteps
         /\ Head(c.todo) = "read" => r.op = "update" /\ Tail(c.todo) = <<"look", "put">>
         /\ Head(c.todo) = "look" =>
              \/ /\ r.op = "add" /\ (rw # <<>> => Head(rw).type = r.cfg.type)
                 /\ Tail(c.todo) = <<"put">> \o Ensure(r.cfg)
              \/ r.op = "update" /\ Tail(c.todo) = <<"put">> /\ rw # <<>> /\ c.old = Head(rw)
         /\ Head(c.todo) = "put" =>
              /\ (c.found <=> rw # <<>>)
              /\ \/ /\ r.op = "add" /\ (rw # <<>> => Head(rw).type = r.cfg.type)
                    /\ Tail(c.todo) = Ensure(r.cfg)
                 \/ r.op = "update" /\ rw # <<>> /\ c.old = Head(rw)
         /\ Head(c.todo) = "delete" => r.op = "remove" /\ Tail(c.todo) = <<"unpipe", "unmap", "unreg">>
<1>1. Ensure(r.cfg) \in Seq(Steps)
  BY EnsureIs, DevicesAssumption
<1> HIDE DEF Ensure
<1>2. /\ Head(<<"look", "put">> \o Ensure(r.cfg)) = "look"
      /\ Tail(<<"look", "put">> \o Ensure(r.cfg)) = <<"put">> \o Ensure(r.cfg)
      /\ Head(<<"put">> \o Ensure(r.cfg)) = "put"
      /\ Tail(<<"put">> \o Ensure(r.cfg)) = Ensure(r.cfg)
  <2>1. \A e \in Seq(Steps) : /\ Head(<<"look", "put">> \o e) = "look"
                              /\ Tail(<<"look", "put">> \o e) = <<"put">> \o e
                              /\ Head(<<"put">> \o e) = "put" /\ Tail(<<"put">> \o e) = e
    OBVIOUS
  <2> QED
    BY <1>1, <2>1
<1>3. CASE r.op = "add" /\ c.todo = <<"look", "put">> \o Ensure(r.cfg)
  BY <1>2, <1>3 DEF Early, DbSteps
<1>4. CASE r.op = "add" /\ c.todo = <<"put">> \o Ensure(r.cfg)
  BY <1>2, <1>4 DEF Early, DbSteps
<1>5. CASE r.op = "update" /\ c.todo = <<"read", "look", "put">>
  BY <1>5 DEF Early, DbSteps
<1>6. CASE r.op = "update" /\ c.todo = <<"look", "put">>
  BY <1>6 DEF Early, DbSteps
<1>7. CASE r.op = "update" /\ c.todo = <<"put">>
  BY <1>7 DEF Early, DbSteps
<1>8. CASE r.op = "remove" /\ c.todo = <<"delete", "unpipe", "unmap", "unreg">>
  BY <1>8 DEF Early, DbSteps
<1> QED
  BY <1>3, <1>4, <1>5, <1>6, <1>7, <1>8 DEF Early

\* A step on what runs brings it nearer to what will run.
LEMMA LateNext ==
  ASSUME NEW r \in DevReqs, NEW t \in Seq(Steps), t # <<>>, Ordered(t), NEW s, NEW m, NEW g
  PROVE  /\ Source2(r, Tail(t), IF Head(t) = "upsert" THEN r.cfg ELSE IF Head(t) = "unpipe" THEN NoCfg ELSE s)
              = Source2(r, t, s)
         /\ Mapping2(r, Tail(t), IF Head(t) = "map" /\ GbOn THEN r.cfg
                                 ELSE IF Head(t) = "unmap" THEN NoCfg ELSE m) = Mapping2(r, t, m)
         /\ Registry2(r, Tail(t), IF Head(t) = "reg" THEN r.cfg ELSE IF Head(t) = "unreg" THEN NoCfg ELSE g)
              = Registry2(r, t, g)
<1>1. \A x : Has(t, x) <=> x = Head(t) \/ Has(Tail(t), x)
  BY HasTail
<1>2. /\ ~(Has(t, "upsert") /\ Has(t, "unpipe")) /\ ~(Has(t, "map") /\ Has(t, "unmap"))
      /\ ~(Has(t, "reg") /\ Has(t, "unreg"))
  BY DEF Ordered
<1> DEFINE h == Head(t)
           u == Tail(t)
<1>3. \A x : Has(t, x) <=> x = h \/ Has(u, x)
  BY <1>1
<1> HIDE DEF h, u, Has
<1>4. Source2(r, u, IF h = "upsert" THEN r.cfg ELSE IF h = "unpipe" THEN NoCfg ELSE s) = Source2(r, t, s)
  BY <1>2, <1>3 DEF Source2
<1>5. Mapping2(r, u, IF h = "map" /\ GbOn THEN r.cfg ELSE IF h = "unmap" THEN NoCfg ELSE m) = Mapping2(r, t, m)
  BY <1>2, <1>3 DEF Mapping2
<1>6. Registry2(r, u, IF h = "reg" THEN r.cfg ELSE IF h = "unreg" THEN NoCfg ELSE g) = Registry2(r, t, g)
  BY <1>2, <1>3 DEF Registry2
<1> QED
  BY <1>4, <1>5, <1>6 DEF h, u

\* With nothing left, what runs is what will run.
LEMMA LateLast ==
  ASSUME NEW r \in DevReqs, NEW s, NEW m, NEW g
  PROVE  Source2(r, <<>>, s) = s /\ Mapping2(r, <<>>, m) = m /\ Registry2(r, <<>>, g) = g
BY HasFew DEF Source2, Mapping2, Registry2

\* A step of call r leaves the other devices as they are.
LEMMA OtherDevicesKeep ==
  ASSUME DevInv, NEW r \in DevReqs, boot' = boot,
         \A q \in DevReqs : q # r => dcall'[q] = dcall[q],
         NEW i \in Ids, i # r.id, i \notin mixed,
         rows'[i] = rows[i], source'[i] = source[i], mapping'[i] = mapping[i],
         registry'[i] = registry[i], Up(i)' = Up(i)
  PROVE  DeviceOk(i)'
<1>1. DeviceOk(i)
  BY DEF DevInv
<1> HIDE DEF UnderWay, Fits, Up
<1>2. \A q \in DevReqs : Runs(q, i)' <=> Runs(q, i)
  BY DEF Runs
<1>3. \A q \in DevReqs : Runs(q, i) => dcall'[q] = dcall[q]
  BY DEF Runs
<1>4. FitsNow(i)' <=> FitsNow(i)
  BY DEF FitsNow
<1>5. Booting(i)' <=> Booting(i)
  BY <1>4 DEF Booting
<1>6. boot' # <<>> => (\A q \in DevReqs : ~Runs(q, i)') /\ Booting(i)'
  BY <1>1, <1>2, <1>5 DEF DeviceOk
<1>7. boot' = <<>> => (\A q \in DevReqs : Runs(q, i)' =>
          UnderWay(q, dcall'[q], rows'[i], source'[i], mapping'[i], registry'[i], Up(i)'))
  BY <1>1, <1>2, <1>3 DEF DeviceOk
<1>8. \A a, b \in DevReqs : Runs(a, i)' /\ Runs(b, i)' => a = b
  BY <1>1, <1>2 DEF DeviceOk
<1>9. boot' = <<>> => ((\A q \in DevReqs : ~Runs(q, i)') => FitsNow(i)')
  BY <1>1, <1>2, <1>4 DEF DeviceOk
<1> QED
  BY <1>6, <1>7, <1>8, <1>9 DEF DeviceOk

\* A step of call r, which runs alone, leaves its own device right, or under way to it.
LEMMA OwnKeeps ==
  ASSUME NEW r \in DevReqs, boot' = <<>>,
         \A q \in DevReqs : q.id = r.id /\ dcall[q].st = "run" => q = r,
         \A q \in DevReqs : q # r => dcall'[q] = dcall[q],
         IF dcall'[r].st = "run"
         THEN UnderWay(r, dcall'[r], rows'[r.id], source'[r.id], mapping'[r.id], registry'[r.id], Up(r.id)')
         ELSE Fits(rows'[r.id], source'[r.id], mapping'[r.id], registry'[r.id], Up(r.id)')
  PROVE  DeviceOk(r.id)'
<1> DEFINE i == r.id
<1> HIDE DEF UnderWay, Fits, Up
<1>3. \A q \in DevReqs : Runs(q, i)' => q = r
  BY DEF Runs
<1>4. CASE dcall'[r].st = "run"
  <2>1. UnderWay(r, dcall'[r], rows'[i], source'[i], mapping'[i], registry'[i], Up(i)') /\ Runs(r, i)'
    BY <1>4 DEF Runs
  <2>2. \A q \in DevReqs : Runs(q, i)' =>
          UnderWay(q, dcall'[q], rows'[i], source'[i], mapping'[i], registry'[i], Up(i)')
    BY <1>3, <2>1
  <2> QED
    BY <1>3, <2>1, <2>2 DEF DeviceOk
<1>5. CASE dcall'[r].st # "run"
  <2>1. \A q \in DevReqs : ~Runs(q, i)'
    BY <1>3, <1>5 DEF Runs
  <2>2. FitsNow(i)'
    BY <1>5 DEF FitsNow
  <2> QED
    BY <2>1, <2>2 DEF DeviceOk
<1> QED
  BY <1>4, <1>5

\* A step of call r keeps the invariant if it leaves its own device under way, or right.
LEMMA StepKeeps ==
  ASSUME DevInv, DevTypes', NEW r \in DevReqs, dcall[r].st = "run", boot' = boot, mixed' = mixed,
         \A q \in DevReqs : q # r => dcall'[q] = dcall[q],
         \A i \in Ids : i # r.id => /\ rows'[i] = rows[i] /\ source'[i] = source[i]
                                    /\ mapping'[i] = mapping[i] /\ registry'[i] = registry[i],
         \A i \in Ids : i # r.id => Up(i)' = Up(i),
         UnderWay(r, dcall[r], rows[r.id], source[r.id], mapping[r.id], registry[r.id], Up(r.id)) =>
           IF dcall'[r].st = "run"
           THEN UnderWay(r, dcall'[r], rows'[r.id], source'[r.id], mapping'[r.id], registry'[r.id], Up(r.id)')
           ELSE Fits(rows'[r.id], source'[r.id], mapping'[r.id], registry'[r.id], Up(r.id)')
  PROVE  DevInv'
<1> SUFFICES ASSUME NEW i \in Ids, i \notin mixed' PROVE DeviceOk(i)'
  BY DEF DevInv
<1> HIDE DEF UnderWay, Fits, Up
<1>1. DeviceOk(i)
  BY DEF DevInv
<1>2. CASE i # r.id
  BY <1>2, OtherDevicesKeep
<1>3. CASE i = r.id
  <2>1. Runs(r, i)
    BY <1>3 DEF Runs
  <2>2. boot = <<>> /\ UnderWay(r, dcall[r], rows[i], source[i], mapping[i], registry[i], Up(i))
    BY <1>1, <2>1 DEF DeviceOk
  <2>3. \A q \in DevReqs : q.id = r.id /\ dcall[q].st = "run" => q = r
    BY <1>1, <1>3, <2>1 DEF DeviceOk, Runs
  <2> QED
    BY <1>3, <2>2, <2>3, OwnKeeps
<1> QED
  BY <1>2, <1>3

\* The next steps are what comes after the first.
LEMMA GotoNext ==
  ASSUME DevTypes, NEW r \in DevReqs, dcall[r].st = "run"
  PROVE  LET d == Goto(r, Tail(dcall[r].todo)) IN
         /\ d \in [DevReqs -> DevCall]
         /\ d[r].todo = Tail(dcall[r].todo) /\ d[r].old = dcall[r].old
         /\ d[r].found = dcall[r].found
         /\ d[r].st = "run" <=> d[r].todo # <<>>
         /\ \A q \in DevReqs : q # r => d[q] = dcall[q]
<1> DEFINE t == Tail(dcall[r].todo)
<1>1. t \in Seq(Steps)
  BY RunningIs
<1> HIDE DEF t
<1>2. LET d == Goto(r, t) IN
      /\ d \in [DevReqs -> DevCall]
      /\ d[r].todo = t /\ d[r].old = dcall[r].old
      /\ d[r].found = dcall[r].found
      /\ d[r].st = "run" <=> t # <<>>
      /\ \A q \in DevReqs : q # r => d[q] = dcall[q]
  BY <1>1, GotoIs
<1> QED
  BY <1>2 DEF t

\* One step with a call's head at the front: what it is, and what the others are.
LEMMA NextStepIs ==
  ASSUME DevTypes, NEW r \in DevReqs, dcall[r].st = "run", NextStep(r)
  PROVE  /\ dcall' \in [DevReqs -> DevCall]
         /\ dcall'[r].todo = Tail(dcall[r].todo) /\ dcall'[r].old = dcall[r].old
         /\ dcall'[r].found = dcall[r].found
         /\ dcall'[r].st = "run" <=> dcall'[r].todo # <<>>
         /\ \A q \in DevReqs : q # r => dcall'[q] = dcall[q]
BY GotoNext DEF NextStep

LEMMA ReadRowKeeps ==
  ASSUME DevInv, NEW r \in DevReqs, ReadRow(r)
  PROVE  DevInv'
<1> USE DEF DevAt
<1>1. DevTypes /\ dcall[r].st = "run" /\ Head(dcall[r].todo) = "read"
  BY DEF DevInv, ReadRow
<1>2. /\ boot' = boot /\ mixed' = mixed /\ down' = down /\ rows' = rows /\ source' = source
      /\ mapping' = mapping /\ registry' = registry
  BY DEF ReadRow
<1>3. ~LateOn(r, dcall[r], rows[r.id], source[r.id], mapping[r.id], registry[r.id], Up(r.id))
  BY <1>1, RunningIs, OrderedTail DEF LateOn, DbSteps
<1>4. CASE rows[r.id] = <<>>
  <2>1. Error(r)
    BY <1>4 DEF ReadRow
  <2>2. DevTypes'
    BY <1>1, <1>2, <2>1, ErrorIs DEF DevTypes
  <2> HIDE DEF UnderWay, Fits
  <2> QED
    BY <1>1, <1>2, <1>3, <2>1, <2>2, ErrorIs, EarlyHead, StepKeeps DEF Up, UnderWay
<1>5. CASE rows[r.id] # <<>>
  <2> DEFINE d == Goto(r, Tail(dcall[r].todo))
  <2>1. dcall' = [d EXCEPT ![r].old = Head(rows[r.id])]
    BY <1>5 DEF ReadRow
  <2>2. /\ d \in [DevReqs -> DevCall] /\ d[r].todo = Tail(dcall[r].todo)
        /\ d[r].st = "run" <=> d[r].todo # <<>>
        /\ \A q \in DevReqs : q # r => d[q] = dcall[q]
    BY <1>1, GotoNext
  <2>3. Head(rows[r.id]) \in Cfgs
    BY <1>1, <1>5, RunningIs
  <2> HIDE DEF d
  <2>4. /\ dcall' \in [DevReqs -> DevCall] /\ dcall'[r].todo = Tail(dcall[r].todo)
        /\ dcall'[r].old = Head(rows[r.id])
        /\ dcall'[r].st = "run" <=> dcall'[r].todo # <<>>
        /\ \A q \in DevReqs : q # r => dcall'[q] = dcall[q]
    BY <2>1, <2>2, <2>3 DEF DevCall
  <2>5. DevTypes'
    BY <1>1, <1>2, <2>4 DEF DevTypes
  <2>6. ASSUME Early(r, dcall[r], rows[r.id], source[r.id], mapping[r.id], registry[r.id], Up(r.id))
        PROVE  dcall'[r].st = "run" /\
               Early(r, dcall'[r], rows[r.id], source[r.id], mapping[r.id], registry[r.id], Up(r.id))
    <3>1. /\ Fits(rows[r.id], source[r.id], mapping[r.id], registry[r.id], Up(r.id))
          /\ r.op = "update" /\ dcall'[r].todo = <<"look", "put">>
      BY <1>1, <2>4, <2>6, EarlyHead
    <3>2. dcall'[r].st = "run"
      <4>1. <<"look", "put">> # <<>>
        OBVIOUS
      <4> QED
        BY <2>4, <3>1, <4>1
    <3> HIDE DEF Fits
    <3> QED
      BY <1>5, <2>4, <3>1, <3>2 DEF Early
  <2> QED
    BY <1>1, <1>2, <1>3, <2>4, <2>5, <2>6, StepKeeps DEF Up, UnderWay
<1> QED
  BY <1>4, <1>5

LEMMA LookRowKeeps ==
  ASSUME DevInv, NEW r \in DevReqs, LookRow(r)
  PROVE  DevInv'
<1> USE DEF DevAt
<1>1. DevTypes /\ dcall[r].st = "run" /\ Head(dcall[r].todo) = "look"
  BY DEF DevInv, LookRow
<1>2. /\ boot' = boot /\ mixed' = mixed /\ down' = down /\ rows' = rows /\ source' = source
      /\ mapping' = mapping /\ registry' = registry
  BY DEF LookRow
<1>3. ~LateOn(r, dcall[r], rows[r.id], source[r.id], mapping[r.id], registry[r.id], Up(r.id))
  BY <1>1, RunningIs, OrderedTail DEF LateOn, DbSteps
<1> DEFINE d == Goto(r, Tail(dcall[r].todo))
<1>4. dcall' = [d EXCEPT ![r].found = (rows[r.id] # <<>>)]
  BY DEF LookRow
<1>5. /\ d \in [DevReqs -> DevCall] /\ d[r].todo = Tail(dcall[r].todo)
      /\ d[r].st = "run" <=> d[r].todo # <<>>
      /\ d[r].old = dcall[r].old
      /\ \A q \in DevReqs : q # r => d[q] = dcall[q]
  BY <1>1, GotoNext
<1> HIDE DEF d
<1>6. /\ dcall' \in [DevReqs -> DevCall] /\ dcall'[r].todo = Tail(dcall[r].todo)
      /\ dcall'[r].old = dcall[r].old /\ dcall'[r].found = (rows[r.id] # <<>>)
      /\ dcall'[r].st = "run" <=> dcall'[r].todo # <<>>
      /\ \A q \in DevReqs : q # r => dcall'[q] = dcall[q]
  <2> DEFINE b == rows[r.id] # <<>>
  <2>1. b \in BOOLEAN
    OBVIOUS
  <2>2. dcall' = [d EXCEPT ![r].found = b]
    BY <1>4
  <2> HIDE DEF b
  <2>3. /\ dcall' \in [DevReqs -> DevCall] /\ dcall'[r].todo = Tail(dcall[r].todo)
        /\ dcall'[r].old = dcall[r].old /\ dcall'[r].found = b
        /\ dcall'[r].st = "run" <=> dcall'[r].todo # <<>>
        /\ \A q \in DevReqs : q # r => dcall'[q] = dcall[q]
    BY <1>5, <2>1, <2>2 DEF DevCall
  <2> QED
    BY <2>3 DEF b
<1>7. DevTypes'
  BY <1>1, <1>2, <1>6 DEF DevTypes
<1>8. ASSUME Early(r, dcall[r], rows[r.id], source[r.id], mapping[r.id], registry[r.id], Up(r.id))
      PROVE  dcall'[r].st = "run" /\
             Early(r, dcall'[r], rows[r.id], source[r.id], mapping[r.id], registry[r.id], Up(r.id))
  <2>1. /\ Fits(rows[r.id], source[r.id], mapping[r.id], registry[r.id], Up(r.id))
        /\ \/ /\ r.op = "add" /\ (rows[r.id] # <<>> => Head(rows[r.id]).type = r.cfg.type)
              /\ dcall'[r].todo = <<"put">> \o Ensure(r.cfg)
           \/ /\ r.op = "update" /\ dcall'[r].todo = <<"put">> /\ rows[r.id] # <<>>
              /\ dcall[r].old = Head(rows[r.id])
    <3> HIDE DEF Fits
    <3>1. /\ Fits(rows[r.id], source[r.id], mapping[r.id], registry[r.id], Up(r.id))
          /\ Head(dcall[r].todo) = "look" =>
              \/ /\ r.op = "add" /\ (rows[r.id] # <<>> => Head(rows[r.id]).type = r.cfg.type)
                 /\ Tail(dcall[r].todo) = <<"put">> \o Ensure(r.cfg)
              \/ /\ r.op = "update" /\ Tail(dcall[r].todo) = <<"put">> /\ rows[r.id] # <<>>
                 /\ dcall[r].old = Head(rows[r.id])
      BY <1>8, EarlyHead
    <3> QED
      BY <1>1, <1>6, <3>1
  <2>2. \A e \in Seq(Steps) : <<"put">> \o e # <<>> /\ <<"put">> # <<>>
    OBVIOUS
  <2>3. dcall'[r].todo # <<>>
    BY <2>1, <2>2, RunningIs, EnsureIs, <1>1
  <2> HIDE DEF Fits
  <2> QED
    BY <1>6, <2>1, <2>3 DEF Early
<1> QED
  BY <1>1, <1>2, <1>3, <1>6, <1>7, <1>8, StepKeeps DEF Up, UnderWay

\* What PutRow leaves to be done, from a row that fits, makes the new row fit.
LEMMA PutFits ==
  ASSUME NEW r \in DevReqs, NEW rw \in Seq(Cfgs), NEW s, NEW m, NEW g, NEW u, NEW v,
         Fits(rw, s, m, g, u),
         NEW t \in Seq(Steps), r.cfg \in Cfgs,
         \/ t = Ensure(r.cfg) /\ (rw # <<>> => Head(rw).type = r.cfg.type)
         \/ rw # <<>> /\ t = Cleanup(Head(rw), r.cfg) \o Ensure(r.cfg)
  PROVE  /\ Ordered(t) /\ t # <<>>
         /\ Fits(<<r.cfg>>, Source2(r, t, s), Mapping2(r, t, m), Registry2(r, t, g), v)
<1> DEFINE c == r.cfg
           o == Head(rw)
<1>1. rw # <<>> => Len(rw) = 1 /\ o = rw[1] /\ o \in Cfgs
  <2>1. Len(rw) <= 1
    BY DEF Fits
  <2>2. ASSUME rw # <<>> PROVE Len(rw) \in Nat /\ Len(rw) >= 1 /\ Head(rw) = rw[1] /\ Head(rw) \in Cfgs
    BY <2>2
  <2>3. \A k \in Nat : k <= 1 /\ k >= 1 => k = 1
    OBVIOUS
  <2> QED
    BY <2>1, <2>2, <2>3
<1>2. \A x \in Cfgs : x.ok \in BOOLEAN
  BY DevicesAssumption
<1>3. /\ ~GbOn => m = NoCfg
      /\ rw = <<>> => s = NoCfg /\ m = NoCfg /\ g = NoCfg
      /\ rw # <<>> => /\ o.type # "gb28181" => m = NoCfg
                      /\ o.type = "gb28181" => s = NoCfg
                      /\ o.type # "onvif" => g = NoCfg
  BY <1>1 DEF Fits
<1>4. /\ Has(t, "upsert") <=> c.ok /\ c.type # "gb28181"
      /\ Has(t, "map") <=> c.ok /\ c.type = "gb28181"
      /\ Has(t, "reg") <=> c.ok /\ c.type = "onvif"
      /\ Ordered(t) /\ t # <<>>
      /\ \/ /\ ~Has(t, "unpipe") /\ ~Has(t, "unmap") /\ ~Has(t, "unreg")
            /\ rw # <<>> => o.type = c.type
         \/ /\ rw # <<>>
            /\ Has(t, "unmap") <=> o.type # c.type /\ o.type = "gb28181"
            /\ Has(t, "unreg") <=> o.type # c.type /\ o.type = "onvif"
            /\ Has(t, "unpipe") <=> o.type # c.type /\ c.type = "gb28181"
  <2>1. CASE t = Ensure(c) /\ (rw # <<>> => o.type = c.type)
    BY <2>1, EnsureIs
  <2>2. CASE rw # <<>> /\ t = Cleanup(o, c) \o Ensure(c)
    BY <1>1, <2>2, EditIs
  <2> QED
    BY <2>1, <2>2
<1> DEFINE s2 == Source2(r, t, s)
           m2 == Mapping2(r, t, m)
           g2 == Registry2(r, t, g)
<1> HIDE DEF o, Has
<1>5. c.type # "gb28181" => m2 = NoCfg
  BY <1>3, <1>4 DEF Mapping2
<1>6. c.type = "gb28181" => s2 = NoCfg
  BY <1>3, <1>4 DEF Source2
<1>7. c.type # "onvif" => g2 = NoCfg
  BY <1>3, <1>4 DEF Registry2
<1>8. c.ok => s2 = Wanted(c).source
  BY <1>4, <1>6 DEF Source2, Wanted
<1>9. c.ok => m2 = Wanted(c).mapping
  BY <1>3, <1>4, <1>5 DEF Mapping2, Wanted
<1>10. c.ok => g2 = Wanted(c).registry
  BY <1>4, <1>7 DEF Registry2, Wanted
<1>11. ~GbOn => m2 = NoCfg
  BY <1>3, <1>4 DEF Mapping2
<1> HIDE DEF s2, m2, g2
<1>12. Len(<<c>>) = 1 /\ <<c>>[1] = c /\ <<c>> # <<>>
  OBVIOUS
<1>13. Fits(<<c>>, s2, m2, g2, v)
  BY <1>5, <1>6, <1>7, <1>8, <1>9, <1>10, <1>11, <1>12 DEF Fits
<1> QED
  BY <1>4, <1>13 DEF s2, m2, g2

LEMMA PutRowKeeps ==
  ASSUME DevInv, NEW r \in DevReqs, PutRow(r)
  PROVE  DevInv'
<1> USE DEF DevAt
<1> DEFINE rw == rows[r.id]
           t  == IF r.op = "update" THEN Cleanup(dcall[r].old, r.cfg) \o Ensure(r.cfg) ELSE Tail(dcall[r].todo)
           late == UnderWay(r, dcall[r], rw, source[r.id], mapping[r.id], registry[r.id], Up(r.id))
<1>1. DevTypes /\ dcall[r].st = "run" /\ Head(dcall[r].todo) = "put"
  BY DEF DevInv, PutRow
<1>2. /\ boot' = boot /\ mixed' = mixed /\ source' = source
      /\ mapping' = mapping /\ registry' = registry /\ down' = down \ {r.id}
      /\ rows' = [rows EXCEPT ![r.id] = Put(r)] /\ dcall' = Goto(r, t)
  BY DEF PutRow
<1>3. /\ r.id \in Ids /\ r.cfg \in Cfgs /\ rw \in Seq(Cfgs) /\ Tail(dcall[r].todo) \in Seq(Steps)
      /\ rows \in [Ids -> Seq(Cfgs)]
  BY <1>1, RunningIs DEF DevTypes
<1>4. ~LateOn(r, dcall[r], rw, source[r.id], mapping[r.id], registry[r.id], Up(r.id))
  BY <1>1, RunningIs, OrderedTail DEF LateOn, DbSteps
<1>5. Put(r) \in Seq(Cfgs) /\ (Len(rw) <= 1 /\ (dcall[r].found <=> rw # <<>>) => Put(r) = <<r.cfg>>)
  <2> DEFINE c == r.cfg
  <2>1. c \in Cfgs
    BY <1>3
  <2>2. [n \in DOMAIN rw |-> c] \in Seq(Cfgs) /\ Append(rw, c) \in Seq(Cfgs)
    BY <1>3, <2>1
  <2>3. ASSUME Len(rw) <= 1, rw # <<>> PROVE [n \in DOMAIN rw |-> c] = <<c>>
    <3>1. Len(rw) \in Nat /\ Len(rw) >= 1 /\ DOMAIN rw = 1..Len(rw)
      BY <1>3, <2>3
    <3>2. Len(rw) = 1
      <4>1. \A k \in Nat : k <= 1 /\ k >= 1 => k = 1
        OBVIOUS
      <4> QED
        BY <2>3, <3>1, <4>1
    <3>3. DOMAIN rw = 1..1
      BY <3>1, <3>2
    <3> QED
      BY <3>3
  <2>4. Append(<<>>, c) = <<c>>
    OBVIOUS
  <2>5. rw = <<>> => Append(rw, c) = <<c>>
    BY <2>4
  <2>6. Put(r) = IF dcall[r].found THEN [n \in DOMAIN rw |-> c] ELSE Append(rw, c)
    BY DEF Put
  <2> HIDE DEF rw, c
  <2>7. Put(r) \in Seq(Cfgs)
    BY <2>2, <2>6
  <2>8. Len(rw) <= 1 /\ (dcall[r].found <=> rw # <<>>) => Put(r) = <<c>>
    BY <2>3, <2>5, <2>6
  <2> QED
    BY <2>7, <2>8 DEF rw, c
<1> HIDE DEF rw
<1>6. dcall[r].old \in Cfgs \cup {NoCfg}
  BY <1>1 DEF DevTypes, DevCall
<1>7. late => /\ Fits(rw, source[r.id], mapping[r.id], registry[r.id], Up(r.id))
              /\ dcall[r].found <=> rw # <<>>
              /\ \/ t = Ensure(r.cfg) /\ (rw # <<>> => Head(rw).type = r.cfg.type)
                 \/ rw # <<>> /\ t = Cleanup(Head(rw), r.cfg) \o Ensure(r.cfg)
  <2> SUFFICES ASSUME late
               PROVE  /\ Fits(rw, source[r.id], mapping[r.id], registry[r.id], Up(r.id))
                      /\ dcall[r].found <=> rw # <<>>
                      /\ \/ t = Ensure(r.cfg) /\ (rw # <<>> => Head(rw).type = r.cfg.type)
                         \/ rw # <<>> /\ t = Cleanup(Head(rw), r.cfg) \o Ensure(r.cfg)
    OBVIOUS
  <2>1. Early(r, dcall[r], rw, source[r.id], mapping[r.id], registry[r.id], Up(r.id))
    BY <1>4 DEF UnderWay
  <2> HIDE DEF Fits, Ensure, Cleanup
  <2>2. /\ Fits(rw, source[r.id], mapping[r.id], registry[r.id], Up(r.id))
        /\ Head(dcall[r].todo) = "put" =>
              /\ dcall[r].found <=> (rw # <<>>)
              /\ \/ /\ r.op = "add" /\ (rw # <<>> => Head(rw).type = r.cfg.type)
                    /\ Tail(dcall[r].todo) = Ensure(r.cfg)
                 \/ r.op = "update" /\ rw # <<>> /\ dcall[r].old = Head(rw)
    BY <2>1, EarlyHead
  <2> QED
    BY <1>1, <2>2
<1>8. t \in Seq(Steps)
  <2>1. CASE r.op = "update" /\ dcall[r].old \in Cfgs
    BY <1>3, <2>1, EditIs
  <2>2. CASE r.op = "update" /\ dcall[r].old \notin Cfgs
    <3>1. /\ <<"unreg">> \in Seq(Steps) /\ <<"unmap">> \in Seq(Steps) /\ <<"unpipe">> \in Seq(Steps)
          /\ <<>> \in Seq(Steps)
      BY DEF Steps
    <3>2. \A a, b, c \in Seq(Steps) : a \o b \o c \in Seq(Steps)
      OBVIOUS
    <3>3. Cleanup(dcall[r].old, r.cfg) \in Seq(Steps)
      BY <3>1, <3>2 DEF Cleanup
    <3>4. Ensure(r.cfg) \in Seq(Steps)
      BY <1>3, EnsureIs
    <3> HIDE DEF Cleanup, Ensure
    <3> QED
      BY <2>2, <3>3, <3>4
  <2>3. CASE r.op # "update"
    BY <1>3, <2>3
  <2> QED
    BY <2>1, <2>2, <2>3
<1> HIDE DEF t, late
<1>9. /\ dcall' \in [DevReqs -> DevCall] /\ dcall'[r].todo = t
      /\ dcall'[r].st = "run" <=> t # <<>>
      /\ \A q \in DevReqs : q # r => dcall'[q] = dcall[q]
  BY <1>1, <1>2, <1>8, GotoIs
<1>10. rows' \in [Ids -> Seq(Cfgs)] /\ rows'[r.id] = Put(r) /\ \A i \in Ids : i # r.id => rows'[i] = rows[i]
  BY <1>2, <1>3, <1>5
<1>11. DevTypes'
  <2>1. \A q \in DevReqs : dcall[q].st = "run" <=> dcall[q].todo # <<>>
    BY <1>1 DEF DevTypes
  <2>2. \A q \in DevReqs : dcall'[q].st = "run" <=> dcall'[q].todo # <<>>
    BY <1>9, <2>1
  <2>3. /\ rows' \in [Ids -> Seq(Cfgs)] /\ dcall' \in [DevReqs -> DevCall]
        /\ UNCHANGED <<source, mapping, registry, boot, mixed>> /\ down' \in SUBSET Ids
    BY <1>1, <1>2, <1>9, <1>10 DEF DevTypes
  <2> HIDE DEF DevCall, Put
  <2> QED
    BY <1>1, <2>2, <2>3 DEF DevTypes
<1>12. ASSUME late
       PROVE  dcall'[r].st = "run" /\
              LateOn(r, dcall'[r], rows'[r.id], source[r.id], mapping[r.id], registry[r.id], Up(r.id)')
  <2>1. Len(rw) <= 1
    BY <1>7, <1>12 DEF Fits
  <2>2. rows'[r.id] = <<r.cfg>>
    BY <1>5, <1>7, <1>10, <1>12, <2>1
  <2>3. /\ Ordered(t) /\ t # <<>>
        /\ Fits(<<r.cfg>>, Source2(r, t, source[r.id]), Mapping2(r, t, mapping[r.id]),
                Registry2(r, t, registry[r.id]), Up(r.id)')
    BY <1>3, <1>7, <1>8, <1>12, PutFits
  <2> QED
    BY <1>9, <2>2, <2>3 DEF LateOn
<1>13. \A i \in Ids : i # r.id => Up(i)' = Up(i)
  BY <1>2 DEF Up
<1> QED
  BY <1>1, <1>2, <1>9, <1>10, <1>11, <1>12, <1>13, StepKeeps DEF Up, UnderWay, late, rw

\* After the rows are gone a removal takes down all that runs, whatever it is.
LEMMA RemovalClears ==
  ASSUME NEW r \in DevReqs, NEW c, c.todo = <<"unpipe", "unmap", "unreg">>,
         NEW s, NEW m, NEW g, NEW u
  PROVE  LateOn(r, c, <<>>, s, m, g, u)
<1> DEFINE t == <<"unpipe", "unmap", "unreg">>
<1>1. \A n \in DOMAIN t : t[n] \in {"unpipe", "unmap", "unreg"}
  OBVIOUS
<1>2. \A x : Has(t, x) <=> x \in {"unpipe", "unmap", "unreg"}
  <2>1. t[1] = "unpipe" /\ t[2] = "unmap" /\ t[3] = "unreg" /\ DOMAIN t = 1..3
    OBVIOUS
  <2> QED
    BY <1>1, <2>1 DEF Has
<1>3. c.todo = t
  OBVIOUS
<1> HIDE DEF t
<1>4. Ordered(t)
  BY <1>1, <1>2 DEF Ordered, DbSteps
<1>5. /\ Source2(r, t, s) = NoCfg /\ Registry2(r, t, g) = NoCfg /\ Mapping2(r, t, m) = NoCfg
  BY <1>2 DEF Source2, Mapping2, Registry2
<1>6. Fits(<<>>, NoCfg, NoCfg, NoCfg, u)
  <2>1. Len(<<>>) = 0
    OBVIOUS
  <2> QED
    BY <2>1 DEF Fits
<1> QED
  BY <1>3, <1>4, <1>5, <1>6 DEF LateOn

LEMMA RemovalTail ==
  ASSUME DevTypes, Removals, NEW r \in DevReqs, dcall[r].st = "run", Head(dcall[r].todo) = "delete"
  PROVE  Tail(dcall[r].todo) = <<"unpipe", "unmap", "unreg">>
<1>1. Has(dcall[r].todo, "delete")
  BY RunningIs, HasTail
<1>2. dcall[r].todo = Removal
  BY <1>1 DEF Removals
<1> QED
  BY <1>2 DEF Removal

LEMMA DeleteDeviceKeeps ==
  ASSUME DevInv, Removals, NEW r \in DevReqs, DeleteDevice(r)
  PROVE  DevInv'
<1> USE DEF DevAt
<1>1. DevTypes /\ dcall[r].st = "run" /\ Head(dcall[r].todo) = "delete"
  BY DEF DevInv, DeleteDevice
<1>2. /\ boot' = boot /\ mixed' = (IF OnlyCall(r) THEN mixed \ {r.id} ELSE mixed) /\ source' = source
      /\ mapping' = mapping /\ registry' = registry /\ down' = down \ {r.id}
      /\ rows' = [rows EXCEPT ![r.id] = <<>>] /\ NextStep(r)
  BY DEF DeleteDevice
<1>3. r.id \in Ids /\ <<>> \in Seq(Cfgs) /\ rows \in [Ids -> Seq(Cfgs)]
  BY <1>1, RunningIs DEF DevTypes
<1>5. rows' \in [Ids -> Seq(Cfgs)] /\ rows'[r.id] = <<>> /\ \A i \in Ids : i # r.id => rows'[i] = rows[i]
  BY <1>2, <1>3
<1>6. /\ dcall' \in [DevReqs -> DevCall]
      /\ dcall'[r].todo = Tail(dcall[r].todo)
      /\ dcall'[r].st = "run" <=> dcall'[r].todo # <<>>
      /\ \A q \in DevReqs : q # r => dcall'[q] = dcall[q]
  BY <1>1, <1>2, NextStepIs
<1>7. DevTypes'
  BY <1>1, <1>2, <1>5, <1>6 DEF DevTypes
<1>8. \A i \in Ids : i # r.id => Up(i)' = Up(i)
  BY <1>2 DEF Up
<1>9. ASSUME r.id \notin mixed' PROVE OnlyCall(r)
  <2>1. CASE r.id \notin mixed
    <3>1. DeviceOk(r.id) /\ Runs(r, r.id)
      BY <1>1, <1>3, <2>1 DEF DevInv, Runs
    <3> QED
      BY <3>1 DEF DeviceOk, Runs, OnlyCall
  <2>2. CASE r.id \in mixed
    BY <1>2, <1>9, <2>2
  <2> QED
    BY <2>1, <2>2
<1>10. ASSUME NEW i \in Ids, i \notin mixed', i # r.id PROVE DeviceOk(i)'
  <2>1. i \notin mixed
    BY <1>2, <1>10
  <2> QED
    BY <1>2, <1>5, <1>6, <1>8, <1>10, <2>1, OtherDevicesKeep
<1>11. ASSUME r.id \notin mixed' PROVE DeviceOk(r.id)'
  <2>1. boot = <<>> /\ \A q \in DevReqs : q.id = r.id /\ dcall[q].st = "run" => q = r
    BY <1>9, <1>11 DEF OnlyCall
  <2>2. dcall'[r].todo = <<"unpipe", "unmap", "unreg">>
    BY <1>1, <1>6, RemovalTail
  <2>3. dcall'[r].st = "run"
    <3>1. <<"unpipe", "unmap", "unreg">> # <<>>
      OBVIOUS
    <3> QED
      BY <1>6, <2>2, <3>1
  <2> HIDE DEF Fits, LateOn, Early, Up
  <2>4. UnderWay(r, dcall'[r], rows'[r.id], source'[r.id], mapping'[r.id], registry'[r.id], Up(r.id)')
    BY <1>5, <2>2, RemovalClears DEF UnderWay
  <2> QED
    BY <1>2, <1>6, <2>1, <2>3, <2>4, OwnKeeps
<1> QED
  BY <1>7, <1>10, <1>11 DEF DevInv

LEMMA DbErrorKeeps ==
  ASSUME DevInv, NEW r \in DevReqs, DbError(r)
  PROVE  DevInv'
<1>1. DevTypes /\ dcall[r].st = "run" /\ Head(dcall[r].todo) \in DbSteps
  BY DEF DevInv, DbError, DbSteps
<1>2. /\ boot' = boot /\ mixed' = mixed /\ down' = down /\ rows' = rows /\ source' = source
      /\ mapping' = mapping /\ registry' = registry /\ Error(r)
  BY DEF DbError
<1>3. ~LateOn(r, dcall[r], rows[r.id], source[r.id], mapping[r.id], registry[r.id], Up(r.id))
  BY <1>1, RunningIs, OrderedTail DEF LateOn
<1>4. DevTypes'
  BY <1>1, <1>2, ErrorIs DEF DevTypes
<1> HIDE DEF UnderWay, Fits
<1> QED
  BY <1>1, <1>2, <1>3, <1>4, ErrorIs, EarlyHead, StepKeeps DEF Up, UnderWay

\* What the head of a call's steps does to what runs.
Moved(r) ==
  LET h == Head(dcall[r].todo) IN
  /\ source' = [source EXCEPT ![r.id] = IF h = "upsert" THEN r.cfg
                                         ELSE IF h = "unpipe" THEN NoCfg ELSE source[r.id]]
  /\ mapping' = [mapping EXCEPT ![r.id] = IF h = "map" /\ GbOn THEN r.cfg
                                           ELSE IF h = "unmap" THEN NoCfg ELSE mapping[r.id]]
  /\ registry' = [registry EXCEPT ![r.id] = IF h = "reg" THEN r.cfg
                                             ELSE IF h = "unreg" THEN NoCfg ELSE registry[r.id]]

LEMMA MovedIs ==
  ASSUME DevTypes, NEW r \in DevReqs, Moved(r)
  PROVE  LET h == Head(dcall[r].todo) IN
         /\ source' \in [Ids -> Cfgs \cup {NoCfg}] /\ mapping' \in [Ids -> Cfgs \cup {NoCfg}]
         /\ registry' \in [Ids -> Cfgs \cup {NoCfg}]
         /\ \A i \in Ids : i # r.id => /\ source'[i] = source[i] /\ mapping'[i] = mapping[i]
                                       /\ registry'[i] = registry[i]
         /\ source'[r.id] = IF h = "upsert" THEN r.cfg ELSE IF h = "unpipe" THEN NoCfg ELSE source[r.id]
         /\ mapping'[r.id] = IF h = "map" /\ GbOn THEN r.cfg
                             ELSE IF h = "unmap" THEN NoCfg ELSE mapping[r.id]
         /\ registry'[r.id] = IF h = "reg" THEN r.cfg ELSE IF h = "unreg" THEN NoCfg ELSE registry[r.id]
<1>1. r.id \in Ids /\ r.cfg \in Cfgs
  BY DevicesAssumption
<1> QED
  BY <1>1 DEF Moved, DevTypes

\* A step that is not on the table: the row is written.
LEMMA LateKeeps ==
  ASSUME DevInv, NEW r \in DevReqs, dcall[r].st = "run",
         Head(dcall[r].todo) \notin DbSteps \cup {"add", "fail"},
         NextStep(r), rows' = rows, boot' = boot, mixed' = mixed, down' = down,
         Moved(r)
  PROVE  DevInv'
<1> DEFINE t == dcall[r].todo
           s == source'[r.id]
           m == mapping'[r.id]
           g == registry'[r.id]
<1>1. DevTypes
  BY DEF DevInv
<1>2. /\ t \in Seq(Steps) /\ t # <<>> /\ r.id \in Ids /\ r.cfg \in Cfgs
      /\ Tail(t) \in Seq(Steps)
  BY <1>1, RunningIs
<1>3. /\ dcall' \in [DevReqs -> DevCall]
      /\ dcall'[r].todo = Tail(t)
      /\ dcall'[r].st = "run" <=> Tail(t) # <<>>
      /\ \A q \in DevReqs : q # r => dcall'[q] = dcall[q]
  BY <1>1, NextStepIs
<1>5. /\ source' \in [Ids -> Cfgs \cup {NoCfg}] /\ mapping' \in [Ids -> Cfgs \cup {NoCfg}]
      /\ registry' \in [Ids -> Cfgs \cup {NoCfg}]
      /\ \A i \in Ids : i # r.id => /\ source'[i] = source[i] /\ mapping'[i] = mapping[i]
                                    /\ registry'[i] = registry[i]
  BY <1>1, MovedIs
<1>6. DevTypes'
  <2>1. \A q \in DevReqs : dcall'[q].st = "run" <=> dcall'[q].todo # <<>>
    BY <1>1, <1>3 DEF DevTypes
  <2> HIDE DEF t
  <2> QED
    BY <1>1, <1>3, <1>5, <2>1 DEF DevTypes
<1>7. ~Early(r, dcall[r], rows[r.id], source[r.id], mapping[r.id], registry[r.id], Up(r.id))
  BY EarlyHead
<1>8. ASSUME LateOn(r, dcall[r], rows[r.id], source[r.id], mapping[r.id], registry[r.id], Up(r.id))
      PROVE  LateOn(r, dcall'[r], rows[r.id], s, m, g, Up(r.id))
  <2>1. Ordered(t) /\ Fits(rows[r.id], Source2(r, t, source[r.id]), Mapping2(r, t, mapping[r.id]),
                           Registry2(r, t, registry[r.id]), Up(r.id))
    BY <1>8 DEF LateOn
  <2>2. Ordered(Tail(t))
    BY <1>2, <2>1, OrderedTail
  <2>3. /\ Source2(r, Tail(t), s) = Source2(r, t, source[r.id])
        /\ Mapping2(r, Tail(t), m) = Mapping2(r, t, mapping[r.id])
        /\ Registry2(r, Tail(t), g) = Registry2(r, t, registry[r.id])
    <3>1. /\ s = IF Head(t) = "upsert" THEN r.cfg ELSE IF Head(t) = "unpipe" THEN NoCfg ELSE source[r.id]
          /\ m = IF Head(t) = "map" /\ GbOn THEN r.cfg
                 ELSE IF Head(t) = "unmap" THEN NoCfg ELSE mapping[r.id]
          /\ g = IF Head(t) = "reg" THEN r.cfg ELSE IF Head(t) = "unreg" THEN NoCfg ELSE registry[r.id]
      BY <1>1, MovedIs
    <3> HIDE DEF s, m, g, t
    <3> QED
      BY <1>2, <2>1, <3>1, LateNext
  <2> HIDE DEF t
  <2> QED
    BY <1>3, <2>1, <2>2, <2>3 DEF LateOn
<1>9. LateOn(r, dcall'[r], rows[r.id], s, m, g, Up(r.id)) /\ dcall'[r].st # "run" =>
        Fits(rows[r.id], s, m, g, Up(r.id))
  BY <1>3, LateLast DEF LateOn
<1> HIDE DEF t, Fits, LateOn
<1>11. \A i : Up(i)' = Up(i)
  BY DEF Up
<1>10. UnderWay(r, dcall[r], rows[r.id], source[r.id], mapping[r.id], registry[r.id], Up(r.id)) =>
           IF dcall'[r].st = "run"
           THEN UnderWay(r, dcall'[r], rows'[r.id], source'[r.id], mapping'[r.id], registry'[r.id], Up(r.id)')
           ELSE Fits(rows'[r.id], source'[r.id], mapping'[r.id], registry'[r.id], Up(r.id)')
  BY <1>5, <1>7, <1>8, <1>9, <1>11 DEF UnderWay
<1> QED
  BY <1>3, <1>5, <1>6, <1>10, <1>11, StepKeeps

LEMMA Same ==
  ASSUME DevTypes, NEW r \in DevReqs
  PROVE  /\ source = [source EXCEPT ![r.id] = source[r.id]]
         /\ mapping = [mapping EXCEPT ![r.id] = mapping[r.id]]
         /\ registry = [registry EXCEPT ![r.id] = registry[r.id]]
BY DEF DevTypes

LEMMA SourceKeeps ==
  ASSUME DevInv, NEW r \in DevReqs, Source(r)
  PROVE  DevInv'
<1> USE DEF DevAt
<1>1. /\ DevTypes /\ dcall[r].st = "run" /\ Head(dcall[r].todo) \in {"upsert", "add"}
      /\ boot' = boot /\ mixed' = mixed /\ down' = down /\ rows' = rows
      /\ mapping' = mapping /\ registry' = registry /\ NextStep(r)
  BY DEF DevInv, Source
<1>2. CASE Head(dcall[r].todo) = "upsert"
  <2>1. source' = [source EXCEPT ![r.id] = r.cfg]
    BY <1>2 DEF Source
  <2>2. /\ mapping' = [mapping EXCEPT ![r.id] = mapping[r.id]]
        /\ registry' = [registry EXCEPT ![r.id] = registry[r.id]]
    BY <1>1, Same
  <2>3. Moved(r)
    BY <1>2, <2>1, <2>2 DEF Moved
  <2> QED
    BY <1>1, <1>2, <2>3, LateKeeps DEF DbSteps
<1>3. CASE Head(dcall[r].todo) = "add"
  <2>1. ~UnderWay(r, dcall[r], rows[r.id], source[r.id], mapping[r.id], registry[r.id], Up(r.id))
    BY <1>1, <1>3, RunningIs, OrderedTail, EarlyHead DEF UnderWay, LateOn, DbSteps
  <2>2. r.id \in Ids /\ r.cfg \in Cfgs
    BY <1>1, RunningIs
  <2>3. source' = source \/ source' = [source EXCEPT ![r.id] = r.cfg]
    BY DEF Source
  <2>4. /\ source' \in [Ids -> Cfgs \cup {NoCfg}]
        /\ \A i \in Ids : i # r.id => source'[i] = source[i]
    BY <1>1, <2>2, <2>3 DEF DevTypes
  <2>5. /\ dcall' \in [DevReqs -> DevCall]
        /\ dcall'[r].st = "run" <=> dcall'[r].todo # <<>>
        /\ \A q \in DevReqs : q # r => dcall'[q] = dcall[q]
    BY <1>1, NextStepIs
  <2>6. DevTypes'
    BY <1>1, <2>4, <2>5 DEF DevTypes
  <2> HIDE DEF UnderWay, Fits
  <2> QED
    BY <1>1, <2>1, <2>4, <2>5, <2>6, StepKeeps DEF Up
<1> QED
  BY <1>1, <1>2, <1>3

LEMMA MapKeeps ==
  ASSUME DevInv, NEW r \in DevReqs, Map(r)
  PROVE  DevInv'
<1>1. /\ DevTypes /\ dcall[r].st = "run" /\ Head(dcall[r].todo) = "map"
      /\ boot' = boot /\ mixed' = mixed /\ down' = down /\ rows' = rows
      /\ source' = source /\ registry' = registry /\ NextStep(r)
      /\ mapping' = IF GbOn THEN [mapping EXCEPT ![r.id] = r.cfg] ELSE mapping
  BY DEF DevInv, Map, DevAt
<1>2. Moved(r)
  BY <1>1, Same DEF Moved
<1>3. Head(dcall[r].todo) \notin DbSteps \cup {"add", "fail"}
  BY <1>1 DEF DbSteps
<1> QED
  BY <1>1, <1>2, <1>3, LateKeeps

LEMMA RegisterKeeps ==
  ASSUME DevInv, NEW r \in DevReqs, Register(r)
  PROVE  DevInv'
<1>1. /\ DevTypes /\ dcall[r].st = "run" /\ Head(dcall[r].todo) = "reg"
      /\ boot' = boot /\ mixed' = mixed /\ down' = down /\ rows' = rows
      /\ source' = source /\ mapping' = mapping /\ NextStep(r)
      /\ registry' = [registry EXCEPT ![r.id] = r.cfg]
  BY DEF DevInv, Register, DevAt
<1>2. Moved(r)
  BY <1>1, Same DEF Moved
<1>3. Head(dcall[r].todo) \notin DbSteps \cup {"add", "fail"}
  BY <1>1 DEF DbSteps
<1> QED
  BY <1>1, <1>2, <1>3, LateKeeps

LEMMA TakeDownKeeps ==
  ASSUME DevInv, NEW r \in DevReqs, TakeDown(r)
  PROVE  DevInv'
<1> DEFINE h == Head(dcall[r].todo)
<1>1. /\ DevTypes /\ dcall[r].st = "run" /\ h \in {"unpipe", "unmap", "unreg"}
      /\ boot' = boot /\ mixed' = mixed /\ down' = down /\ rows' = rows /\ NextStep(r)
      /\ source'   = IF h = "unpipe" THEN [source EXCEPT ![r.id] = NoCfg] ELSE source
      /\ mapping'  = IF h = "unmap" THEN [mapping EXCEPT ![r.id] = NoCfg] ELSE mapping
      /\ registry' = IF h = "unreg" THEN [registry EXCEPT ![r.id] = NoCfg] ELSE registry
  BY DEF DevInv, TakeDown, DevAt
<1>2. Moved(r)
  BY <1>1, Same DEF Moved
<1>3. h \notin DbSteps \cup {"add", "fail"}
  BY <1>1 DEF DbSteps
<1> QED
  BY <1>1, <1>2, <1>3, LateKeeps

LEMMA EnsureFailsKeeps ==
  ASSUME DevInv, NEW r \in DevReqs, EnsureFails(r)
  PROVE  DevInv'
<1>1. /\ DevTypes /\ dcall[r].st = "run" /\ Head(dcall[r].todo) = "fail" /\ Error(r)
      /\ boot' = boot /\ mixed' = mixed /\ down' = down /\ rows' = rows /\ source' = source
      /\ mapping' = mapping /\ registry' = registry
  BY DEF DevInv, EnsureFails, DevAt
<1>2. DevTypes'
  BY <1>1, ErrorIs DEF DevTypes
<1>3. ~Early(r, dcall[r], rows[r.id], source[r.id], mapping[r.id], registry[r.id], Up(r.id))
  BY <1>1, EarlyHead DEF DbSteps
<1>4. ASSUME LateOn(r, dcall[r], rows[r.id], source[r.id], mapping[r.id], registry[r.id], Up(r.id))
      PROVE  Fits(rows[r.id], source[r.id], mapping[r.id], registry[r.id], Up(r.id))
  <2> DEFINE t == dcall[r].todo
  <2>1. Ordered(t) /\ t \in Seq(Steps) /\ t # <<>>
    BY <1>1, <1>4, RunningIs DEF LateOn
  <2>2. Len(t) = 1 /\ \A n \in DOMAIN t : n = 1
    <3>1. t[1] = "fail" /\ 1 \in DOMAIN t /\ DOMAIN t = 1..Len(t)
      BY <1>1, <2>1
    <3>2. Len(t) = 1
      BY <2>1, <3>1 DEF Ordered
    <3> QED
      BY <3>1, <3>2
  <2>3. \A x : Has(t, x) => x = "fail"
    BY <1>1, <2>1, <2>2 DEF Has
  <2> HIDE DEF t, Fits, Has
  <2>4. /\ Source2(r, t, source[r.id]) = source[r.id] /\ Mapping2(r, t, mapping[r.id]) = mapping[r.id]
        /\ Registry2(r, t, registry[r.id]) = registry[r.id]
    BY <2>3 DEF Source2, Mapping2, Registry2
  <2> QED
    BY <1>4, <2>4 DEF LateOn, t
<1> HIDE DEF LateOn, Fits
<1> QED
  BY <1>1, <1>2, <1>3, <1>4, ErrorIs, StepKeeps DEF Up, UnderWay

\* The client of call r is gone: its device is out of the promise's reach.
LEMMA DropCallKeeps ==
  ASSUME DevInv, NEW r \in DevReqs, DropCall(r)
  PROVE  DevInv'
<1>1. /\ DevTypes /\ dcall[r].st = "run" /\ Error(r) /\ boot' = boot /\ rows' = rows
      /\ registry' = registry /\ down' = down /\ mixed' = mixed \cup {r.id}
  BY DEF DevInv, DropCall
<1>2. r.id \in Ids /\ source \in [Ids -> Cfgs \cup {NoCfg}] /\ mapping \in [Ids -> Cfgs \cup {NoCfg}]
  BY <1>1, RunningIs DEF DevTypes
<1>3. /\ source' \in [Ids -> Cfgs \cup {NoCfg}] /\ \A i \in Ids : i # r.id => source'[i] = source[i]
      /\ mapping' \in [Ids -> Cfgs \cup {NoCfg}] /\ \A i \in Ids : i # r.id => mapping'[i] = mapping[i]
  BY <1>2 DEF DropCall
<1>4. /\ dcall' \in [DevReqs -> DevCall]
      /\ dcall'[r].st = "error" /\ dcall'[r].todo = <<>>
      /\ \A q \in DevReqs : q # r => dcall'[q] = dcall[q]
  BY <1>1, ErrorIs
<1>5. DevTypes'
  BY <1>1, <1>2, <1>3, <1>4 DEF DevTypes
<1>6. ASSUME NEW i \in Ids, i \notin mixed' PROVE DeviceOk(i)'
  <2>1. i \notin mixed /\ i # r.id /\ Up(i)' = Up(i)
    BY <1>1, <1>6 DEF Up
  <2> QED
    BY <1>1, <1>3, <1>4, <2>1, OtherDevicesKeep
<1> QED
  BY <1>5, <1>6 DEF DevInv

LEMMA DevStepKeeps ==
  ASSUME DevInv, Removals, NEW r \in DevReqs, DevStep(r)
  PROVE  DevInv'
BY ReadRowKeeps, LookRowKeeps, PutRowKeeps, DeleteDeviceKeeps, DbErrorKeeps, SourceKeeps, MapKeeps,
   RegisterKeeps, TakeDownKeeps, EnsureFailsKeeps, DropCallKeeps DEF DevStep

\* What an edit has to do is no removal.
LEMMA EditHas ==
  ASSUME NEW o, NEW c \in Cfgs
  PROVE  ~Has(Cleanup(o, c) \o Ensure(c), "delete")
<1>1. /\ <<"unreg">> \in Seq(Steps) /\ <<"unmap">> \in Seq(Steps) /\ <<"unpipe">> \in Seq(Steps)
      /\ <<>> \in Seq(Steps)
  BY DEF Steps
<1> DEFINE L == Steps \ {"delete"}
<1>2. /\ <<"unreg">> \in Seq(L) /\ <<"unmap">> \in Seq(L) /\ <<"unpipe">> \in Seq(L)
      /\ <<>> \in Seq(L)
  BY DEF Steps, DbSteps
<1>3. \A a, b, d \in Seq(L) : a \o b \o d \in Seq(L)
  <2> HIDE DEF L
  <2> QED
    OBVIOUS
<1>4. Cleanup(o, c) \in Seq(L)
  <2> HIDE DEF L
  <2> QED
    BY <1>2, <1>3 DEF Cleanup
<1>5. \A n \in DOMAIN Cleanup(o, c) : Cleanup(o, c)[n] \in L
  <2> HIDE DEF L, Cleanup
  <2> QED
    BY <1>4
<1>6. ~Has(Cleanup(o, c), "delete")
  <2> HIDE DEF Cleanup
  <2> QED
    BY <1>5 DEF Has
<1>7. ~Has(Ensure(c), "delete") /\ Ensure(c) \in Seq(Steps)
  <2>1. \A n \in DOMAIN Ensure(c) : Ensure(c)[n] \notin DbSteps
    BY EnsureIs DEF Ordered
  <2> HIDE DEF Ensure
  <2> QED
    BY <2>1, EnsureIs DEF Has, DbSteps
<1>8. Cleanup(o, c) \in Seq(Steps)
  <2>1. \A a, b, d \in Seq(Steps) : a \o b \o d \in Seq(Steps)
    OBVIOUS
  <2> QED
    BY <1>1, <2>1 DEF Cleanup
<1> HIDE DEF Cleanup, Ensure, Has
<1> QED
  BY <1>6, <1>7, <1>8, HasCat

\* What a step leaves of the steps of a call.
LEMMA TodoMoves ==
  ASSUME DevTypes, NEW r \in DevReqs, DevStep(r)
  PROVE  /\ \A q \in DevReqs : q # r => dcall'[q] = dcall[q]
         /\ dcall[r].st = "run"
         /\ \/ dcall'[r].todo = Tail(dcall[r].todo)
            \/ dcall'[r].todo = <<>>
            \/ dcall'[r].todo = Cleanup(dcall[r].old, r.cfg) \o Ensure(r.cfg)
<1> USE DEF DevAt
<1> HIDE DEF Cleanup, Ensure
<1>1. CASE Error(r) /\ dcall[r].st = "run"
  BY <1>1, ErrorIs
<1>2. CASE NextStep(r) /\ dcall[r].st = "run"
  BY <1>2, NextStepIs
<1> DEFINE d == Goto(r, Tail(dcall[r].todo))
<1>3. ASSUME dcall[r].st = "run"
      PROVE  /\ d \in [DevReqs -> DevCall] /\ d[r].todo = Tail(dcall[r].todo)
             /\ \A q \in DevReqs : q # r => d[q] = dcall[q]
  BY <1>3, GotoNext
<1>4. CASE ReadRow(r)
  <2>1. dcall[r].st = "run" /\ (Error(r) \/ dcall' = [d EXCEPT ![r].old = Head(rows[r.id])])
    BY <1>4 DEF ReadRow
  <2> HIDE DEF d
  <2>2. CASE dcall' = [d EXCEPT ![r].old = Head(rows[r.id])]
    BY <1>3, <2>1, <2>2 DEF DevCall
  <2> QED
    BY <1>1, <2>1, <2>2
<1>5. CASE LookRow(r)
  <2>1. dcall[r].st = "run" /\ dcall' = [d EXCEPT ![r].found = (rows[r.id] # <<>>)]
    BY <1>5 DEF LookRow
  <2> HIDE DEF d
  <2> QED
    BY <1>3, <2>1 DEF DevCall
<1>6. CASE PutRow(r)
  <2> DEFINE t == IF r.op = "update" THEN Cleanup(dcall[r].old, r.cfg) \o Ensure(r.cfg) ELSE Tail(dcall[r].todo)
  <2>1. dcall[r].st = "run" /\ dcall' = Goto(r, t)
    BY <1>6 DEF PutRow
  <2>2. dcall' = [dcall EXCEPT ![r].todo = t, ![r].st = IF t = <<>> THEN "done" ELSE "run"]
    BY <2>1 DEF Goto
  <2> HIDE DEF t
  <2>3. dcall'[r].todo = t /\ \A q \in DevReqs : q # r => dcall'[q] = dcall[q]
    BY <2>2 DEF DevTypes, DevCall
  <2> QED
    BY <2>1, <2>3 DEF t
<1>7. CASE DeleteDevice(r) \/ Source(r) \/ Map(r) \/ Register(r) \/ TakeDown(r)
  BY <1>2, <1>7 DEF DeleteDevice, Source, Map, Register, TakeDown
<1>8. CASE DbError(r) \/ EnsureFails(r) \/ DropCall(r)
  BY <1>1, <1>8 DEF DbError, EnsureFails, DropCall
<1> QED
  BY <1>4, <1>5, <1>6, <1>7, <1>8 DEF DevStep

LEMMA RemovalsStep ==
  ASSUME DevTypes, Removals, NEW r \in DevReqs, DevStep(r)
  PROVE  Removals'
<1> HIDE DEF Cleanup, Ensure
<1>1. /\ \A q \in DevReqs : q # r => dcall'[q] = dcall[q]
      /\ dcall[r].st = "run"
      /\ \/ dcall'[r].todo = Tail(dcall[r].todo)
         \/ dcall'[r].todo = <<>>
         \/ dcall'[r].todo = Cleanup(dcall[r].old, r.cfg) \o Ensure(r.cfg)
  BY TodoMoves
<1>2. ~Has(dcall'[r].todo, "delete")
  <2>1. CASE dcall'[r].todo = Tail(dcall[r].todo)
    <3>1. SUFFICES ASSUME Has(Tail(dcall[r].todo), "delete") PROVE FALSE
      BY <2>1
    <3>2. Has(dcall[r].todo, "delete")
      BY <1>1, <3>1, RunningIs, HasTail
    <3>3. Tail(dcall[r].todo) = <<"unpipe", "unmap", "unreg">>
      <4>1. Tail(Removal) = <<"unpipe", "unmap", "unreg">>
        BY DEF Removal
      <4> HIDE DEF Removal, Has
      <4> QED
        BY <3>2, <4>1 DEF Removals
    <3>4. ~Has(<<"unpipe", "unmap", "unreg">>, "delete")
      BY DEF Has
    <3> QED
      BY <3>1, <3>3, <3>4
  <2>2. CASE dcall'[r].todo = <<>>
    BY <2>2, HasFew
  <2>3. CASE dcall'[r].todo = Cleanup(dcall[r].old, r.cfg) \o Ensure(r.cfg)
    BY <2>3, EditHas, DevicesAssumption
  <2> QED
    BY <1>1, <2>1, <2>2, <2>3
<1> HIDE DEF Has
<1> QED
  BY <1>1, <1>2 DEF Removals

\* A call that begins.
LEMMA ProgramHas ==
  ASSUME NEW r \in DevReqs, Has(Program(r), "delete")
  PROVE  Program(r) = Removal
<1>1. r.op \in DevOps /\ r.cfg \in Cfgs
  BY DevicesAssumption
<1>2. CASE r.op = "add"
  <2> DEFINE e == Ensure(r.cfg)
             l == <<"look", "put">>
  <2>1. l \in Seq(Steps) /\ ~Has(l, "delete")
    <3>1. l \in Seq(Steps)
      BY DEF Steps, DbSteps
    <3>2. ~Has(l, "delete")
      BY DEF Has
    <3> QED
      BY <3>1, <3>2
  <2>2. e \in Seq(Steps) /\ \A n \in DOMAIN e : e[n] \notin DbSteps
    BY <1>1, EnsureIs DEF Ordered
  <2>3. Program(r) = l \o e
    BY <1>2 DEF Program
  <2> HIDE DEF e, l
  <2>4. ~Has(e, "delete")
    BY <2>2 DEF Has, DbSteps
  <2>5. ~Has(l \o e, "delete")
    BY <2>1, <2>2, <2>4, HasCat
  <2> QED
    BY <2>3, <2>5
<1>3. CASE r.op = "remove"
  BY <1>3 DEF Program, Removal
<1>4. CASE r.op \in {"update", "pipe", "unpipe"}
  <2>1. Program(r) \in {<<"read", "look", "put">>, <<"add">>, <<"unpipe">>}
    BY <1>4 DEF Program
  <2>2. ASSUME NEW t \in {<<"read", "look", "put">>, <<"add">>, <<"unpipe">>} PROVE ~Has(t, "delete")
    <3>1. CASE t = <<"read", "look", "put">>
      BY <3>1 DEF Has
    <3>2. CASE t = <<"add">> \/ t = <<"unpipe">>
      BY <3>2 DEF Has
    <3> QED
      BY <2>2, <3>1, <3>2
  <2> QED
    BY <2>1, <2>2
<1> QED
  BY <1>1, <1>2, <1>3, <1>4 DEF DevOps

LEMMA RemovalsBegin ==
  ASSUME DevTypes, Removals, NEW r \in DevReqs, DevBegin(r)
  PROVE  Removals'
<1> DEFINE t == Program(r)
<1>1. dcall' = [dcall EXCEPT ![r].st = "run", ![r].todo = t] /\ dcall \in [DevReqs -> DevCall]
  BY DEF DevBegin, DevTypes
<1> HIDE DEF t
<1>2. dcall'[r].todo = t /\ \A q \in DevReqs : q # r => dcall'[q] = dcall[q]
  BY <1>1 DEF DevCall
<1> HIDE DEF Has
<1> QED
  BY <1>2, ProgramHas DEF Removals, t

\* Nothing to do, nothing to delete.
LEMMA RemovalsNone ==
  ASSUME \A r \in DevReqs : dcall[r].todo = <<>>
  PROVE  Removals
BY HasFew DEF Removals

-----------------------------------------------------------------------------
(* A call begins, the start-up, the process ends.                          *)

LEMMA DevBeginKeeps ==
  ASSUME DevInv, NEW r \in DevReqs, DevBegin(r)
  PROVE  DevInv'
<1>1. /\ DevTypes /\ dcall[r].st = "due" /\ boot' = boot /\ down' = down /\ rows' = rows /\ source' = source
      /\ mapping' = mapping /\ registry' = registry
      /\ dcall' = [dcall EXCEPT ![r].st = "run", ![r].todo = Program(r)]
  BY DEF DevInv, DevBegin
<1>2. r.id \in Ids /\ r.cfg \in Cfgs /\ r.op \in DevOps
  BY DevicesAssumption
<1>3. Program(r) \in Seq(Steps) /\ Program(r) # <<>>
  <2>1. CASE r.op = "add"
    <3>1. \A e \in Seq(Steps) : <<"look", "put">> \o e \in Seq(Steps) /\ <<"look", "put">> \o e # <<>>
      <4>1. <<"look", "put">> \in Seq(Steps)
        BY DEF Steps, DbSteps
      <4> QED
        BY <4>1
    <3>2. Ensure(r.cfg) \in Seq(Steps)
      BY <1>2, EnsureIs
    <3> HIDE DEF Ensure
    <3> QED
      BY <2>1, <3>1, <3>2 DEF Program
  <2>2. CASE r.op = "update"
    BY <2>2 DEF Program, Steps, DbSteps
  <2>3. CASE r.op = "remove"
    BY <2>3 DEF Program, Steps, DbSteps
  <2>4. CASE r.op = "pipe"
    BY <2>4 DEF Program, Steps, DbSteps
  <2>5. CASE r.op = "unpipe"
    BY <2>5 DEF Program, Steps, DbSteps
  <2> QED
    BY <1>2, <2>1, <2>2, <2>3, <2>4, <2>5 DEF DevOps
<1> DEFINE t == Program(r)
<1>4. /\ dcall' \in [DevReqs -> DevCall]
      /\ dcall'[r].st = "run" /\ dcall'[r].todo = t
      /\ \A q \in DevReqs : q # r => dcall'[q] = dcall[q]
  <2>1. dcall' = [dcall EXCEPT ![r] = [dcall[r] EXCEPT !.st = "run", !.todo = t]]
    BY <1>1 DEF DevTypes, DevCall
  <2>2. dcall \in [DevReqs -> DevCall] /\ t \in Seq(Steps)
    BY <1>1, <1>3 DEF DevTypes
  <2> HIDE DEF t
  <2> QED
    BY <2>1, <2>2 DEF DevCall
<1> DEFINE odd == \/ Running(r.id) \/ boot # <<>> \/ r.op \in {"pipe", "unpipe"}
                  \/ r.op = "add" /\ rows[r.id] # <<>> /\ Head(rows[r.id]).type # r.cfg.type
<1>5. mixed' = IF odd THEN mixed \cup {r.id} ELSE mixed
  BY DEF DevBegin
<1>6. DevTypes'
  <2>1. mixed' \in SUBSET Ids
    BY <1>1, <1>2, <1>5 DEF DevTypes
  <2>2. \A q \in DevReqs : dcall'[q].st = "run" <=> dcall'[q].todo # <<>>
    BY <1>1, <1>3, <1>4 DEF DevTypes
  <2> QED
    BY <1>1, <1>4, <2>1, <2>2 DEF DevTypes
<1>7. ASSUME NEW i \in Ids, i \notin mixed' PROVE DeviceOk(i)'
  <2>1. DeviceOk(i)
    <3>1. i \notin mixed
      BY <1>5, <1>7
    <3> QED
      BY <3>1 DEF DevInv
  <2>2. CASE i # r.id
    <3> HIDE DEF UnderWay, Fits
    <3>1. \A q \in DevReqs : Runs(q, i)' <=> Runs(q, i)
      BY <1>4, <2>2 DEF Runs
    <3>2. \A q \in DevReqs : Runs(q, i) => dcall'[q] = dcall[q]
      BY <1>4, <2>2 DEF Runs
    <3>5. Up(i)' = Up(i)
      BY <1>1 DEF Up
    <3>3. (FitsNow(i)' <=> FitsNow(i)) /\ (Booting(i)' <=> Booting(i))
      BY <1>1, <3>5 DEF FitsNow, Booting
    <3>4. boot = <<>> => (\A q \in DevReqs : Runs(q, i)' =>
            UnderWay(q, dcall'[q], rows[i], source[i], mapping[i], registry[i], Up(i)))
      BY <2>1, <3>1, <3>2 DEF DeviceOk
    <3> QED
      BY <1>1, <2>1, <3>1, <3>3, <3>4, <3>5 DEF DeviceOk
  <2>3. CASE i = r.id
    <3>1. ~odd
      BY <1>1, <1>2, <1>5, <1>7, <2>3 DEF DevTypes
    <3>2. \A q \in DevReqs : ~Runs(q, i)
      BY <2>3, <3>1 DEF Runs, Running
    <3>3. Fits(rows[i], source[i], mapping[i], registry[i], Up(i)) /\ boot = <<>>
      BY <2>1, <3>1, <3>2 DEF DeviceOk, FitsNow
    <3>4. Early(r, dcall'[r], rows[i], source[i], mapping[i], registry[i], Up(i))
      <4> HIDE DEF Fits, Ensure
      <4>1. CASE r.op = "add"
        BY <1>4, <2>3, <3>1, <3>3, <4>1 DEF Early, Program
      <4>2. CASE r.op = "update"
        BY <1>4, <3>3, <4>2 DEF Early, Program
      <4>3. CASE r.op = "remove"
        BY <1>4, <3>3, <4>3 DEF Early, Program
      <4> QED
        BY <1>2, <3>1, <4>1, <4>2, <4>3 DEF DevOps
    <3>5. \A q \in DevReqs : Runs(q, i)' => q = r
      BY <1>4, <3>2 DEF Runs
    <3>6. Runs(r, i)'
      BY <1>4, <2>3 DEF Runs
    <3>8. Up(i)' = Up(i)
      BY <1>1 DEF Up
    <3> HIDE DEF Early, Fits
    <3>7. \A q \in DevReqs : Runs(q, i)' =>
            UnderWay(q, dcall'[q], rows[i], source[i], mapping[i], registry[i], Up(i))
      BY <3>4, <3>5 DEF UnderWay
    <3> QED
      BY <1>1, <3>3, <3>5, <3>6, <3>7, <3>8 DEF DeviceOk
  <2> QED
    BY <2>2, <2>3
<1> QED
  BY <1>6, <1>7 DEF DevInv

\* Nothing that was listed is the mark of a list to come.
LEMMA ListedNow ==
  ASSUME NEW s \in Seq([id : Ids, cfg : Cfgs])
  PROVE  s # NotListed
<1> SUFFICES ASSUME s = NotListed PROVE FALSE
  OBVIOUS
<1>1. s[1] = NoCfg /\ Len(s) = 1
  BY DEF NotListed
<1>2. s[1] \in [id : Ids, cfg : Cfgs]
  <2> DEFINE R == [id : Ids, cfg : Cfgs]
  <2>1. s \in Seq(R) /\ 1 \in 1..Len(s)
    BY <1>1
  <2> HIDE DEF R
  <2>2. s[1] \in R
    BY <2>1
  <2> QED
    BY <2>2 DEF R
<1> QED
  BY <1>1, <1>2, DevicesAssumption

LEMMA ListedFinite ==
  ASSUME DevTypes
  PROVE  IsFiniteSet(Listed) /\ Listed \subseteq [id : Ids, cfg : Cfgs]
<1> DEFINE of(i) == {[id |-> i, cfg |-> rows[i][n]] : n \in DOMAIN rows[i]}
<1>1. \A i \in Ids : rows[i] \in Seq(Cfgs)
  BY DEF DevTypes
<1>2. ASSUME NEW i \in Ids PROVE IsFiniteSet(of(i)) /\ of(i) \subseteq [id : Ids, cfg : Cfgs]
  <2>1. DOMAIN rows[i] = 1..Len(rows[i]) /\ Len(rows[i]) \in Int
    BY <1>1
  <2>2. IsFiniteSet(DOMAIN rows[i])
    BY <2>1, FS_Interval
  <2>3. \A n \in DOMAIN rows[i] : rows[i][n] \in Cfgs
    BY <1>1
  <2> DEFINE f == [n \in DOMAIN rows[i] |-> [id |-> i, cfg |-> rows[i][n]]]
  <2>4. f \in Surjection(DOMAIN rows[i], of(i))
    BY DEF Surjection
  <2>5. IsFiniteSet(of(i))
    BY <2>2, <2>4, FS_Surjection
  <2> QED
    BY <2>3, <2>5
<1> DEFINE S == {of(i) : i \in Ids}
           g == [i \in Ids |-> of(i)]
<1>3. IsFiniteSet(S)
  <2>1. g \in Surjection(Ids, S)
    BY DEF Surjection
  <2> HIDE DEF g, S
  <2> QED
    BY <2>1, DevicesAssumption, FS_Surjection
<1>4. IsFiniteSet(UNION S)
  <2>1. \A T \in S : IsFiniteSet(T)
    BY <1>2
  <2> HIDE DEF S
  <2> QED
    BY <1>3, <2>1, FS_UNION
<1>5. Listed = UNION S
  BY DEF Listed
<1>6. UNION S \subseteq [id : Ids, cfg : Cfgs]
  BY <1>2
<1> QED
  BY <1>4, <1>5, <1>6

LEMMA BootListKeeps ==
  ASSUME DevInv, BootList
  PROVE  DevInv'
<1> DEFINE R == [id : Ids, cfg : Cfgs]
<1>1. /\ DevTypes /\ boot = NotListed /\ rows' = rows /\ source' = source
      /\ mapping' = mapping /\ registry' = registry /\ dcall' = dcall
      /\ mixed' = mixed \cup {r.id : r \in {q \in DevReqs : dcall[q].st = "run"}} /\ down' = down
  BY DEF DevInv, BootList
<1>2. PICK s \in [1..Cardinality(Listed) -> Listed] : {s[n] : n \in DOMAIN s} = Listed /\ boot' = s
  BY DEF BootList
<1>3. s \in Seq(R) /\ s # NotListed
  <2>1. Cardinality(Listed) \in Nat /\ Listed \subseteq R
    BY <1>1, ListedFinite, FS_CardinalityType
  <2> HIDE DEF R
  <2>2. s \in Seq(R)
    BY <2>1
  <2> QED
    BY <2>2, ListedNow DEF R
<1>4. DevTypes'
  <2>1. mixed' \in SUBSET Ids
    BY <1>1, DevicesAssumption DEF DevTypes
  <2> QED
    BY <1>1, <1>2, <1>3, <2>1 DEF DevTypes
<1>5. ASSUME NEW i \in Ids, i \notin mixed' PROVE DeviceOk(i)'
  <2>1. DeviceOk(i) /\ \A r \in DevReqs : ~Runs(r, i)
    BY <1>1, <1>5 DEF DevInv, Runs
  <2>2. NotListed # <<>>
    BY DEF NotListed
  <2>3. Len(rows[i]) <= 1 /\ source[i] = NoCfg /\ mapping[i] = NoCfg /\ registry[i] = NoCfg
    BY <1>1, <2>1, <2>2 DEF DeviceOk, Booting
  <2>4. rows[i] \in Seq(Cfgs)
    BY <1>1 DEF DevTypes
  <2>5. \A n \in DOMAIN s : s[n].id = i => rows[i] = <<s[n].cfg>>
    <3> SUFFICES ASSUME NEW n \in DOMAIN s, s[n].id = i PROVE rows[i] = <<s[n].cfg>>
      OBVIOUS
    <3>1. s[n] \in Listed
      BY <1>2
    <3>2. PICK k \in DOMAIN rows[i] : s[n] = [id |-> i, cfg |-> rows[i][k]]
      BY <3>1 DEF Listed
    <3>3. DOMAIN rows[i] = 1..Len(rows[i]) /\ Len(rows[i]) \in Nat
      BY <2>4
    <3>4. k = 1 /\ Len(rows[i]) = 1
      <4>1. \A a, b \in Nat : a <= 1 /\ b \in 1..a => b = 1 /\ a = 1
        OBVIOUS
      <4>2. k \in Nat /\ k \in 1..Len(rows[i])
        BY <3>2, <3>3
      <4> QED
        BY <2>3, <3>3, <4>1, <4>2
    <3>5. rows[i] = <<rows[i][1]>>
      BY <2>4, <3>4
    <3> QED
      BY <3>2, <3>4, <3>5
  <2>6. rows[i] # <<>> => \E n \in DOMAIN s : s[n].id = i
    <3> SUFFICES ASSUME rows[i] # <<>> PROVE \E n \in DOMAIN s : s[n].id = i
      OBVIOUS
    <3>1. 1 \in DOMAIN rows[i]
      BY <2>4
    <3>2. [id |-> i, cfg |-> rows[i][1]] \in Listed
      BY <3>1 DEF Listed
    <3>3. PICK n \in DOMAIN s : s[n] = [id |-> i, cfg |-> rows[i][1]]
      BY <1>2, <3>2
    <3> QED
      BY <3>3
  <2>7. rows[i] = <<>> => Fits(rows[i], source[i], mapping[i], registry[i], Up(i))
    <3>1. Len(<<>>) = 0
      OBVIOUS
    <3> QED
      BY <2>3, <3>1 DEF Fits
  <2>11. Up(i)' = Up(i)
    BY <1>1 DEF Up
  <2> HIDE DEF Fits, Up
  <2>8. Booting(i)'
    BY <1>1, <1>2, <1>3, <2>3, <2>5, <2>6, <2>7, <2>11 DEF Booting, FitsNow
  <2>9. s = <<>> => FitsNow(i)'
    <3>1. DOMAIN <<>> = {}
      OBVIOUS
    <3> QED
      BY <1>1, <2>6, <2>7, <2>11, <3>1 DEF FitsNow
  <2>10. \A r \in DevReqs : ~Runs(r, i)'
    BY <1>1, <2>1 DEF Runs
  <2> QED
    BY <1>2, <2>8, <2>9, <2>10 DEF DeviceOk
<1> QED
  BY <1>4, <1>5 DEF DevInv

LEMMA BootListFailsKeeps ==
  ASSUME DevInv, BootListFails
  PROVE  DevInv'
<1>1. /\ DevTypes /\ boot = NotListed /\ boot' = <<>> /\ rows' = rows /\ source' = source
      /\ mapping' = mapping /\ registry' = registry /\ dcall' = dcall
      /\ mixed' = mixed \cup {r.id : r \in {q \in DevReqs : dcall[q].st = "run"}}
      /\ down' = {i \in Ids : rows[i] # <<>>}
  BY DEF DevInv, BootListFails
<1>2. DevTypes'
  <2>1. mixed' \in SUBSET Ids /\ boot' \in Seq([id : Ids, cfg : Cfgs])
    BY <1>1, DevicesAssumption DEF DevTypes
  <2> QED
    BY <1>1, <2>1 DEF DevTypes
<1>3. ASSUME NEW i \in Ids, i \notin mixed' PROVE DeviceOk(i)'
  <2>1. DeviceOk(i) /\ \A r \in DevReqs : ~Runs(r, i)
    BY <1>1, <1>3 DEF DevInv, Runs
  <2>2. NotListed # <<>>
    BY DEF NotListed
  <2>3. Len(rows[i]) <= 1 /\ source[i] = NoCfg /\ mapping[i] = NoCfg /\ registry[i] = NoCfg
    BY <1>1, <2>1, <2>2 DEF DeviceOk, Booting
  <2>4. Up(i)' = IF rows[i] # <<>> THEN "down" ELSE "up"
    BY <1>1 DEF Up
  <2>5. Fits(rows[i], NoCfg, NoCfg, NoCfg, Up(i)')
    <3>1. Len(<<>>) = 0
      OBVIOUS
    <3> QED
      BY <2>3, <2>4, <3>1 DEF Fits
  <2>6. FitsNow(i)'
    <3> HIDE DEF Fits, Up
    <3> QED
      BY <1>1, <2>3, <2>5 DEF FitsNow
  <2>7. \A r \in DevReqs : ~Runs(r, i)'
    BY <1>1, <2>1 DEF Runs
  <2> QED
    BY <1>1, <2>6, <2>7 DEF DeviceOk
<1> QED
  BY <1>2, <1>3 DEF DevInv

\* What the start-up does for one device, from what is or from nothing.
LEMMA BootFits ==
  ASSUME NEW c \in Cfgs, NEW s, NEW m, NEW g, NEW u, NEW v,
         \/ Fits(<<c>>, s, m, g, u)
         \/ s = NoCfg /\ m = NoCfg /\ g = NoCfg
  PROVE  Fits(<<c>>, IF Has(Ensure(c), "upsert") THEN c ELSE s,
              IF Has(Ensure(c), "map") /\ GbOn THEN c ELSE m,
              IF Has(Ensure(c), "reg") THEN c ELSE g, v)
<1>1. /\ Has(Ensure(c), "upsert") <=> c.ok /\ c.type # "gb28181"
      /\ Has(Ensure(c), "map") <=> c.ok /\ c.type = "gb28181"
      /\ Has(Ensure(c), "reg") <=> c.ok /\ c.type = "onvif"
  BY EnsureIs
<1>2. Len(<<c>>) = 1 /\ <<c>>[1] = c /\ <<c>> # <<>>
  OBVIOUS
<1>3. /\ c.type # "gb28181" => m = NoCfg
      /\ c.type = "gb28181" => s = NoCfg
      /\ c.type # "onvif" => g = NoCfg
      /\ ~GbOn => m = NoCfg
  BY <1>2 DEF Fits
<1> DEFINE s2 == IF Has(Ensure(c), "upsert") THEN c ELSE s
           m2 == IF Has(Ensure(c), "map") /\ GbOn THEN c ELSE m
           g2 == IF Has(Ensure(c), "reg") THEN c ELSE g
<1>4. /\ c.type # "gb28181" => m2 = NoCfg
      /\ c.type = "gb28181" => s2 = NoCfg
      /\ c.type # "onvif" => g2 = NoCfg
      /\ ~GbOn => m2 = NoCfg
  BY <1>1, <1>3
<1>5. c.ok => s2 = Wanted(c).source /\ m2 = Wanted(c).mapping /\ g2 = Wanted(c).registry
  BY <1>1, <1>4 DEF Wanted
<1> HIDE DEF s2, m2, g2
<1>6. Fits(<<c>>, s2, m2, g2, v)
  BY <1>2, <1>4, <1>5 DEF Fits
<1> QED
  BY <1>6 DEF s2, m2, g2

LEMMA BootDeviceKeeps ==
  ASSUME DevInv, BootDevice
  PROVE  DevInv'
<1> DEFINE R == [id : Ids, cfg : Cfgs]
           j == Head(boot).id
           c == Head(boot).cfg
<1>1. /\ DevTypes /\ boot # NotListed /\ boot # <<>> /\ rows' = rows /\ dcall' = dcall
      /\ mixed' = mixed /\ down' = down /\ boot' = Tail(boot)
  BY DEF DevInv, BootDevice
<1>2. boot \in Seq(R)
  BY <1>1 DEF DevTypes
<1>3. /\ Head(boot) = boot[1] /\ 1 \in DOMAIN boot /\ Head(boot) \in R /\ Tail(boot) \in Seq(R)
      /\ \A n \in DOMAIN Tail(boot) : n + 1 \in DOMAIN boot /\ Tail(boot)[n] = boot[n + 1]
      /\ \A n \in DOMAIN boot : n = 1 \/ (n - 1 \in DOMAIN Tail(boot) /\ boot[n] = Tail(boot)[n - 1])
  <2> HIDE DEF R
  <2> QED
    BY <1>1, <1>2
<1>4. j \in Ids /\ c \in Cfgs
  BY <1>3
<1>5. \A x : x \in {Ensure(c)[n] : n \in DOMAIN Ensure(c)} <=> Has(Ensure(c), x)
  BY DEF Has
<1>6. /\ source'   = IF Has(Ensure(c), "upsert") THEN [source EXCEPT ![j] = c] ELSE source
      /\ mapping'  = IF Has(Ensure(c), "map") /\ GbOn THEN [mapping EXCEPT ![j] = c] ELSE mapping
      /\ registry' = IF Has(Ensure(c), "reg") THEN [registry EXCEPT ![j] = c] ELSE registry
  BY <1>5 DEF BootDevice
<1> HIDE DEF c, j, Has
<1>7. /\ source' \in [Ids -> Cfgs \cup {NoCfg}] /\ mapping' \in [Ids -> Cfgs \cup {NoCfg}]
      /\ registry' \in [Ids -> Cfgs \cup {NoCfg}]
      /\ \A i \in Ids : i # j => /\ source'[i] = source[i] /\ mapping'[i] = mapping[i]
                                 /\ registry'[i] = registry[i]
      /\ source'[j] = IF Has(Ensure(c), "upsert") THEN c ELSE source[j]
      /\ mapping'[j] = IF Has(Ensure(c), "map") /\ GbOn THEN c ELSE mapping[j]
      /\ registry'[j] = IF Has(Ensure(c), "reg") THEN c ELSE registry[j]
  BY <1>1, <1>4, <1>6 DEF DevTypes
<1>8. DevTypes'
  BY <1>1, <1>3, <1>7 DEF DevTypes
<1>9. boot' # NotListed
  BY <1>1, <1>3, ListedNow
<1>10. ASSUME NEW i \in Ids, i \notin mixed' PROVE DeviceOk(i)'
  <2>1. Booting(i) /\ \A r \in DevReqs : ~Runs(r, i)
    BY <1>1, <1>10 DEF DevInv, DeviceOk
  <2>2. \A n \in DOMAIN boot' : boot'[n].id = i => rows'[i] = <<boot'[n].cfg>>
    BY <1>1, <1>3, <2>1 DEF Booting
  <2>3. \/ FitsNow(i)'
        \/ /\ source'[i] = NoCfg /\ mapping'[i] = NoCfg /\ registry'[i] = NoCfg
           /\ \E n \in DOMAIN boot' : boot'[n].id = i
    <3>1. \/ FitsNow(i)
          \/ /\ source[i] = NoCfg /\ mapping[i] = NoCfg /\ registry[i] = NoCfg
             /\ \E n \in DOMAIN boot : boot[n].id = i
      BY <1>1, <2>1 DEF Booting
    <3>2. CASE i = j
      <4>1. rows[i] = <<c>>
        BY <1>1, <1>3, <2>1, <3>2 DEF Booting, c, j
      <4>2. \/ Fits(<<c>>, source[i], mapping[i], registry[i], Up(i))
            \/ source[i] = NoCfg /\ mapping[i] = NoCfg /\ registry[i] = NoCfg
        <5> HIDE DEF Fits
        <5> QED
          BY <3>1, <4>1 DEF FitsNow
      <4>3. Fits(<<c>>, source'[i], mapping'[i], registry'[i], Up(i)')
        <5> HIDE DEF Fits
        <5> QED
          BY <1>4, <1>7, <3>2, <4>2, BootFits
      <4> QED
        BY <1>1, <4>1, <4>3 DEF FitsNow
    <3>3. CASE i # j
      <4>1. FitsNow(i)' <=> FitsNow(i)
        <5>1. Up(i)' = Up(i)
          BY <1>1 DEF Up
        <5> QED
          BY <1>1, <1>7, <3>3, <5>1 DEF FitsNow
      <4>2. (\E n \in DOMAIN boot : boot[n].id = i) => \E n \in DOMAIN boot' : boot'[n].id = i
        BY <1>1, <1>3, <3>3 DEF j
      <4> QED
        BY <1>7, <3>1, <3>3, <4>1, <4>2
    <3> QED
      BY <3>2, <3>3
  <2>4. Booting(i)'
    BY <1>1, <1>9, <2>1, <2>2, <2>3 DEF Booting
  <2>5. boot' = <<>> => FitsNow(i)'
    <3>1. DOMAIN <<>> = {}
      OBVIOUS
    <3> QED
      BY <2>3, <3>1
  <2>6. \A r \in DevReqs : ~Runs(r, i)'
    BY <1>1, <2>1 DEF Runs
  <2> QED
    BY <2>4, <2>5, <2>6 DEF DeviceOk
<1> QED
  BY <1>8, <1>10 DEF DevInv

\* The calls that ran have ended.
LEMMA DevRestartCalls ==
  ASSUME DevTypes, DevRestart
  PROVE  /\ dcall' \in [DevReqs -> DevCall]
         /\ \A r \in DevReqs : dcall'[r].st # "run" /\ dcall'[r].todo = <<>>
<1>1. dcall \in [DevReqs -> DevCall] /\ \A r \in DevReqs : dcall[r].st = "run" <=> dcall[r].todo # <<>>
  BY DEF DevTypes
<1>2. \A r \in DevReqs : dcall'[r] = IF dcall[r].st = "run"
                                     THEN [dcall[r] EXCEPT !.st = "error", !.todo = <<>>] ELSE dcall[r]
  BY DEF DevRestart
<1>3. <<>> \in Seq(Steps)
  OBVIOUS
<1>4. ASSUME NEW r \in DevReqs
      PROVE  dcall'[r] \in DevCall /\ dcall'[r].st # "run" /\ dcall'[r].todo = <<>>
  <2>1. CASE dcall[r].st = "run"
    <3>1. dcall'[r] = [dcall[r] EXCEPT !.st = "error", !.todo = <<>>] /\ dcall[r] \in DevCall
      BY <1>1, <1>2, <2>1
    <3> QED
      BY <1>3, <3>1 DEF DevCall
  <2>2. CASE dcall[r].st # "run"
    BY <1>1, <1>2, <2>2
  <2> QED
    BY <2>1, <2>2
<1>5. \E f : dcall' = [r \in DevReqs |-> f[r]]
  <2> DEFINE h == [r \in DevReqs |-> IF dcall[r].st = "run"
                               THEN [dcall[r] EXCEPT !.st = "error", !.todo = <<>>] ELSE dcall[r]]
  <2>1. dcall' = h
    BY DEF DevRestart
  <2>2. h = [r \in DevReqs |-> h[r]]
    OBVIOUS
  <2> QED
    BY <2>1, <2>2
<1> QED
  BY <1>4, <1>5

LEMMA DevRestartKeeps ==
  ASSUME DevInv, DevRestart
  PROVE  DevInv'
<1>1. /\ DevTypes /\ rows' = rows /\ source' = Nothing /\ mapping' = Nothing /\ registry' = Nothing
      /\ boot' = NotListed /\ mixed' = {i \in Ids : Len(rows[i]) > 1} /\ down' = {}
  BY DEF DevInv, DevRestart
<1>2. /\ dcall' \in [DevReqs -> DevCall]
      /\ \A r \in DevReqs : dcall'[r].st # "run" /\ dcall'[r].todo = <<>>
  BY <1>1, DevRestartCalls
<1>3. DevTypes'
  <2>1. mixed' \in SUBSET Ids
    BY <1>1
  <2>2. Nothing \in [Ids -> Cfgs \cup {NoCfg}]
    BY DEF Nothing
  <2> QED
    BY <1>1, <1>2, <2>1, <2>2 DEF DevTypes
<1>4. ASSUME NEW i \in Ids, i \notin mixed' PROVE DeviceOk(i)'
  <2>1. \A r \in DevReqs : ~Runs(r, i)'
    BY <1>2 DEF Runs
  <2>2. NotListed # <<>>
    BY DEF NotListed
  <2>3. Len(rows[i]) <= 1
    <3>1. Len(rows[i]) \in Nat /\ ~(Len(rows[i]) > 1)
      BY <1>1, <1>4 DEF DevTypes
    <3> QED
      BY <3>1
  <2>4. source'[i] = NoCfg /\ mapping'[i] = NoCfg /\ registry'[i] = NoCfg
    BY <1>1 DEF Nothing
  <2> QED
    BY <1>1, <2>1, <2>2, <2>3, <2>4 DEF DeviceOk, Booting
<1> QED
  BY <1>3, <1>4 DEF DevInv

LEMMA DevInitKeeps ==
  ASSUME NEW reqs, NEW table \in [Ids -> Seq(Cfgs)], DevInit(reqs, table)
  PROVE  DevInv
<1>1. /\ rows = table /\ source = Nothing /\ mapping = Nothing /\ registry = Nothing
      /\ boot = NotListed /\ mixed = {i \in Ids : Len(rows[i]) > 1} /\ down = {}
      /\ dcall = [r \in DevReqs |-> IF r \in reqs THEN [NotMade EXCEPT !.st = "due"] ELSE NotMade]
  BY DEF DevInit
<1>2. /\ dcall \in [DevReqs -> DevCall]
      /\ \A r \in DevReqs : dcall[r].st # "run" /\ dcall[r].todo = <<>>
  <2>1. <<>> \in Seq(Steps)
    OBVIOUS
  <2>2. NotMade \in DevCall /\ NotMade.st = "never" /\ NotMade.todo = <<>>
    BY <2>1 DEF NotMade, DevCall
  <2> DEFINE due == [NotMade EXCEPT !.st = "due"]
  <2>3. due \in DevCall /\ due.st = "due" /\ due.todo = <<>>
    BY <2>2 DEF DevCall
  <2> HIDE DEF due
  <2>4. dcall = [r \in DevReqs |-> IF r \in reqs THEN due ELSE NotMade]
    BY <1>1 DEF due
  <2> QED
    BY <2>2, <2>3, <2>4
<1>3. DevTypes
  <2>1. Nothing \in [Ids -> Cfgs \cup {NoCfg}]
    BY DEF Nothing
  <2> QED
    BY <1>1, <1>2, <2>1 DEF DevTypes
<1>4. ASSUME NEW i \in Ids, i \notin mixed PROVE DeviceOk(i)
  <2>1. \A r \in DevReqs : ~Runs(r, i)
    BY <1>2 DEF Runs
  <2>2. NotListed # <<>>
    BY DEF NotListed
  <2>3. Len(rows[i]) <= 1
    <3>1. Len(rows[i]) \in Nat /\ ~(Len(rows[i]) > 1)
      BY <1>1, <1>4
    <3> QED
      BY <3>1
  <2>4. source[i] = NoCfg /\ mapping[i] = NoCfg /\ registry[i] = NoCfg
    BY <1>1 DEF Nothing
  <2> QED
    BY <1>1, <2>1, <2>2, <2>3, <2>4 DEF DeviceOk, Booting
<1> QED
  BY <1>3, <1>4 DEF DevInv

\* Every step of the API and of the devices keeps it.
LEMMA DevInvInitially == ApiInit => DevInv /\ Removals
<1> SUFFICES ASSUME ApiInit PROVE DevInv /\ Removals
  OBVIOUS
<1>1. PICK s \in Cases : DevInit(s.dev, s.rows)
  BY DEF ApiInit
<1>2. s.rows \in [Ids -> Seq(Cfgs)]
  BY ApiAssumption
<1>3. \A r \in DevReqs : dcall[r].todo = <<>>
  <2> DEFINE due == [NotMade EXCEPT !.st = "due"]
  <2>1. NotMade.todo = <<>> /\ due.todo = <<>>
    BY DEF NotMade
  <2> HIDE DEF due
  <2>2. dcall = [r \in DevReqs |-> IF r \in s.dev THEN due ELSE NotMade]
    BY <1>1 DEF DevInit, due
  <2> QED
    BY <2>1, <2>2
<1> QED
  BY <1>1, <1>2, <1>3, DevInitKeeps, RemovalsNone

LEMMA DevInvKept == DevInv /\ Removals /\ [ApiNext]_apivars => DevInv' /\ Removals'
<1> SUFFICES ASSUME DevInv, Removals, [ApiNext]_apivars PROVE DevInv' /\ Removals'
  OBVIOUS
<1>1. CASE UNCHANGED dvars
  <2>1. DevInv'
    <3> HIDE DEF Fits, UnderWay
    <3>1. \A i : Up(i)' = Up(i)
      BY <1>1 DEF dvars, Up
    <3> HIDE DEF Up
    <3>2. \A i : FitsNow(i)' = FitsNow(i)
      BY <1>1, <3>1 DEF dvars, FitsNow
    <3>3. \A i : Booting(i)' <=> Booting(i)
      BY <1>1, <3>2 DEF dvars, Booting
    <3>4. \A i : DeviceOk(i) => DeviceOk(i)'
      BY <1>1, <3>1, <3>2, <3>3 DEF dvars, DeviceOk, Runs
    <3> QED
      BY <1>1, <3>4 DEF dvars, DevInv, DevTypes
  <2> QED
    BY <1>1, <2>1 DEF dvars, Removals
<1>2. ASSUME NEW r \in AccReqs, Serve(r) PROVE DevInv' /\ Removals'
  <2>1. r.dev \in DevReqs /\ DevBegin(r.dev)
    BY <1>2, ApiAssumption DEF Serve
  <2> QED
    BY <2>1, DevBeginKeeps, RemovalsBegin DEF DevInv
<1>3. ASSUME NEW r \in DevReqs, DevStep(r) PROVE DevInv' /\ Removals'
  BY <1>3, DevStepKeeps, RemovalsStep DEF DevInv
<1>4. CASE Boot
  <2>1. Removals'
    BY <1>4 DEF Boot, BootList, BootListFails, BootDevice, Removals
  <2> QED
    BY <1>4, <2>1, BootListKeeps, BootListFailsKeeps, BootDeviceKeeps DEF Boot
<1>5. CASE Restart
  <2>1. Removals'
    <3>1. \A r \in DevReqs : dcall'[r].todo = <<>>
      BY <1>5, DevRestartCalls DEF Restart, DevInv
    <3> QED
      BY <3>1, HasFew DEF Removals
  <2> QED
    BY <1>5, <2>1, DevRestartKeeps DEF Restart
<1> QED
  BY <1>1, <1>2, <1>3, <1>4, <1>5 DEF ApiNext, apivars

\* DevicesAgree (handler/device.rs, init/device.rs): whatever calls were made, whatever writes
\* failed and whenever the process ended, a device no call is at work on runs as its row says,
\* and nothing runs without a row.  The exceptions are the ones DevicesAgree names: calls that
\* overlap or are dropped after the row was written (until a removal runs alone or the process
\* starts again), and a start-up that could not list the rows (until the device is edited).
THEOREM DevicesAgreeAlways == ApiSpec => []DevicesAgree
<1>1. DevInv => DevicesAgree
  <2> SUFFICES ASSUME DevInv, NEW i \in Ids, ~Running(i), boot = <<>>, i \notin mixed
               PROVE  /\ Len(rows[i]) <= 1
                      /\ rows[i] = <<>> => source[i] = NoCfg /\ mapping[i] = NoCfg /\ registry[i] = NoCfg
                      /\ Len(rows[i]) = 1 /\ rows[i][1].ok /\ i \notin down =>
                           Wanted(rows[i][1]) = [source |-> source[i], mapping |-> mapping[i],
                                                 registry |-> registry[i]]
    BY DEF DevicesAgree
  <2>1. \A r \in DevReqs : ~Runs(r, i)
    BY DEF Running, Runs
  <2>2. Fits(rows[i], source[i], mapping[i], registry[i], Up(i))
    BY <2>1 DEF DevInv, DeviceOk, FitsNow
  <2>3. ASSUME Len(rows[i]) = 1, rows[i][1].ok, i \notin down
        PROVE  Wanted(rows[i][1]) = [source |-> source[i], mapping |-> mapping[i],
                                     registry |-> registry[i]]
    <3> DEFINE w == Wanted(rows[i][1])
    <3>1. w.source = source[i] /\ w.mapping = mapping[i] /\ w.registry = registry[i]
      BY <2>2, <2>3 DEF Fits, Up
    <3>2. w = [source |-> w.source, mapping |-> w.mapping, registry |-> w.registry]
      BY DEF Wanted
    <3> HIDE DEF w
    <3> QED
      BY <3>1, <3>2 DEF w
  <2> QED
    BY <2>2, <2>3 DEF Fits
<1> QED
  BY <1>1, DevInvInitially, DevInvKept, PTL DEF ApiSpec

-----------------------------------------------------------------------------
(* Users and sessions.  A token has one owner for good; for a user whose   *)
(* revocations overlapped nothing, what every request has read still holds. *)

Pcs == {"never", "due", "row", "keep", "drop", "401", "in", "done", "error", "purge", "insert", "cache",
        "delete", "update", "unuser", "revoke", "revokerows", "newuser"}

AccTypes ==
  /\ users \in [Users -> Seq([pw : Passwords, gen : Nat])]
  /\ session \in [Tokens -> Users \cup {Nobody}] /\ cache \in [Tokens -> Users \cup {Nobody}]
  /\ expired \in SUBSET Tokens
  /\ acall \in [AccReqs -> [pc : Pcs, user : Users \cup {Nobody}]]
  /\ gen \in [Tokens -> Nat] /\ version \in [Users -> Nat] /\ clean \in [Users -> BOOLEAN]

\* of: whose each token is.
Owners(of) ==
  /\ of \in [Tokens -> Users \cup {Nobody}]
  /\ \A r \in AccReqs : IF r.op = "login" THEN of[r] = r.user
                        ELSE acall[r].user \in {Nobody, of[r.tok]}
  /\ \A t \in Tokens : session[t] \in {Nobody, of[t]} /\ cache[t] \in {Nobody, of[t]}

\* Where a request can be, let in as w or not yet.
Place(r, pc, w) ==
  /\ r.op = "login" => pc \in {"never", "due", "purge", "insert", "cache", "done", "error"}
  /\ pc \in {"purge", "insert", "cache"} => r.op = "login"
  /\ pc = "delete" => r.op = "logout"
  /\ pc = "update" => r.op = "password"
  /\ pc = "unuser" => r.op = "removeuser"
  /\ pc \in {"revoke", "revokerows"} => r.op \in {"password", "removeuser"}
  /\ pc = "newuser" => r.op = "adduser"
  /\ pc \in {"never", "due", "row", "purge", "insert", "cache"} => w = Nobody
  /\ pc \in {"keep", "drop", "in", "delete", "update", "unuser", "revoke", "revokerows", "newuser"}
       => w # Nobody
  /\ pc = "drop" => r.tok \in expired

\* A login before its session is written.
Unopened == {"never", "due", "purge", "insert"}

\* Nobody has used the token of a login to come.
Fresh(r) ==
  r.op = "login" /\ acall[r].pc \in Unopened =>
    /\ session[r] = Nobody /\ cache[r] = Nobody
    /\ \A q \in AccReqs : q.op # "login" /\ q.tok = r => acall[q].user = Nobody

Alone(u) == \A r, s \in Open : r # s /\ u \in About(r) /\ u \in About(s) => ~Changing(r)

Mid(u) == \E c \in AccReqs : acall[c].pc \in {"revoke", "revokerows"} /\ Victim(c) = u

\* A session of u's that lets in.
Sound(t, u) ==
  t \notin expired /\ (cache[t] = u \/ session[t] = u) =>
    users[u] # <<>> /\ gen[t] = version[u] /\ session[t] = u

\* What request r, about u, relies on.
Relies(r, u) ==
  /\ acall[r].pc = "keep" /\ acall[r].user = u /\ r.tok \notin expired => session[r.tok] = u
  /\ acall[r].pc \in {"purge", "insert", "cache"} /\ r.user = u =>
       users[u] # <<>> /\ gen[r] = version[u]
  /\ acall[r].pc = "cache" /\ r.user = u /\ r \notin expired => session[r] = u
  /\ acall[r].pc = "delete" /\ acall[r].user = u => cache[r.tok] # u
  /\ acall[r].pc = "update" /\ acall[r].user = u => users[u] # <<>>
  /\ acall[r].pc = "newuser" /\ r.user = u => users[u] = <<>>
  /\ acall[r].pc \in {"revoke", "revokerows"} /\ r.op = "password" /\ acall[r].user = u =>
       /\ users[u] # <<>> /\ gen[r.tok] = version[u]
       /\ r.tok \notin expired /\ cache[r.tok] = u => session[r.tok] = u
  /\ acall[r].pc = "revokerows" /\ Victim(r) = u => \A t \in Tokens \ Spared(r) : cache[t] # u

UserOk(u) ==
  /\ Alone(u)
  /\ \A n \in DOMAIN users[u] : users[u][n].gen = version[u]
  /\ ~Mid(u) => \A t \in Tokens : Sound(t, u)
  /\ \A r \in AccReqs : Relies(r, u)

Base(of) ==
  /\ AccTypes /\ Owners(of)
  /\ \A r \in AccReqs : Place(r, acall[r].pc, acall[r].user) /\ Fresh(r)

AccInv(of) ==
  /\ Base(of)
  /\ \A u \in Users : clean[u] => UserOk(u)

-----------------------------------------------------------------------------
(* Steps, and what every step keeps.                                       *)

\* Request r goes on to pc, let in as w.
Moves(r, pc, w) ==
  /\ acall' \in [AccReqs -> [pc : Pcs, user : Users \cup {Nobody}]]
  /\ acall'[r].pc = pc /\ acall'[r].user = w
  /\ \A q \in AccReqs : q # r => acall'[q] = acall[q]

LEMMA ToIs ==
  ASSUME AccTypes, NEW r \in AccReqs, NEW pc \in Pcs, To(r, pc)
  PROVE  Moves(r, pc, acall[r].user)
<1>1. acall \in [AccReqs -> [pc : Pcs, user : Users \cup {Nobody}]]
  BY DEF AccTypes
<1>2. acall' = [acall EXCEPT ![r] = [acall[r] EXCEPT !.pc = pc]]
  BY DEF To
<1> HIDE DEF Pcs
<1> QED
  BY <1>1, <1>2 DEF Moves

LEMMA SetIs ==
  ASSUME AccTypes, NEW r \in AccReqs, NEW pc \in Pcs, NEW w \in Users \cup {Nobody},
         acall' = [acall EXCEPT ![r] = [pc |-> pc, user |-> w]]
  PROVE  Moves(r, pc, w)
<1>1. acall \in [AccReqs -> [pc : Pcs, user : Users \cup {Nobody}]]
  BY DEF AccTypes
<1> HIDE DEF Pcs
<1> QED
  BY <1>1 DEF Moves

\* What is clean after a step was clean before, and its user is alone.
LEMMA WatchIs ==
  ASSUME AccTypes, NEW bad, Watch(bad)
  PROVE  /\ clean' \in [Users -> BOOLEAN]
         /\ \A u \in Users : clean'[u] => clean[u] /\ u \notin bad /\ Alone(u)'
<1>1. clean' = [u \in Users |-> clean[u] /\ u \notin Overlap' \cup bad]
  BY DEF Watch
<1>2. clean' \in [Users -> BOOLEAN]
  BY <1>1
<1>3. ASSUME NEW u \in Users, u \notin Overlap' PROVE Alone(u)'
  BY <1>3 DEF Overlap, Alone
<1>4. \A u \in Users : clean'[u] => clean[u] /\ u \notin Overlap' \cup bad
  BY <1>1
<1> QED
  BY <1>2, <1>3, <1>4

\* The types, from those of what a step of r changes.
LEMMA TypesStep ==
  ASSUME AccTypes, NEW r, NEW pc, NEW w, Moves(r, pc, w), expired' = expired,
         users' \in [Users -> Seq([pw : Passwords, gen : Nat])],
         gen' \in [Tokens -> Nat], version' \in [Users -> Nat], NEW bad, Watch(bad),
         session' \in [Tokens -> Users \cup {Nobody}], cache' \in [Tokens -> Users \cup {Nobody}]
  PROVE  AccTypes'
<1>1. clean' \in [Users -> BOOLEAN]
  BY WatchIs
<1> QED
  BY <1>1 DEF AccTypes, Moves

\* Types, owners, places and fresh tokens, after any step of r.
LEMMA BaseStep ==
  ASSUME NEW of, Base(of), NEW r \in AccReqs, NEW pc, NEW w, Moves(r, pc, w), AccTypes',
         \A t \in Tokens : /\ session'[t] # session[t] => session'[t] \in {Nobody, of[t]}
                           /\ cache'[t] # cache[t] => cache'[t] \in {Nobody, of[t]},
         expired \subseteq expired',
         Place(r, pc, w), r.op = "login" \/ w \in {Nobody, of[r.tok]},
         \A q \in AccReqs : q.op = "login" /\ acall'[q].pc \in Unopened =>
            /\ acall[q].pc \in Unopened
            /\ session'[q] # session[q] => session'[q] = Nobody
            /\ cache'[q] # cache[q] => cache'[q] = Nobody
            /\ r.op # "login" /\ r.tok = q => w = Nobody
  PROVE  Base(of)'
<1>1. AccTypes'
  OBVIOUS
<1>2. Owners(of)'
  <2>1. /\ of \in [Tokens -> Users \cup {Nobody}]
        /\ \A q \in AccReqs : IF q.op = "login" THEN of[q] = q.user ELSE acall[q].user \in {Nobody, of[q.tok]}
        /\ \A t \in Tokens : session[t] \in {Nobody, of[t]} /\ cache[t] \in {Nobody, of[t]}
    BY DEF Base, Owners
  <2>2. \A t \in Tokens : session'[t] \in {Nobody, of[t]} /\ cache'[t] \in {Nobody, of[t]}
    BY <2>1
  <2>3. \A q \in AccReqs : IF q.op = "login" THEN of[q] = q.user ELSE acall'[q].user \in {Nobody, of[q.tok]}
    BY <2>1 DEF Moves
  <2> QED
    BY <2>1, <2>2, <2>3 DEF Owners
<1>3. \A q \in AccReqs : Place(q, acall[q].pc, acall[q].user)'
  <2>1. \A q \in AccReqs : Place(q, acall'[q].pc, acall'[q].user)
    BY DEF Moves, Base
  <2> QED
    BY <2>1 DEF Place
<1>4. ASSUME NEW q \in AccReqs PROVE Fresh(q)'
  <2> SUFFICES ASSUME q.op = "login", acall'[q].pc \in Unopened
               PROVE  /\ session'[q] = Nobody /\ cache'[q] = Nobody
                      /\ \A p \in AccReqs : p.op # "login" /\ p.tok = q => acall'[p].user = Nobody
    BY DEF Fresh
  <2>1. /\ session[q] = Nobody /\ cache[q] = Nobody
        /\ \A p \in AccReqs : p.op # "login" /\ p.tok = q => acall[p].user = Nobody
    BY DEF Base, Fresh
  <2> QED
    BY <2>1 DEF Moves
<1> QED
  BY <1>1, <1>2, <1>3, <1>4 DEF Base

\* Where a request is tells whom it is about.
LEMMA AboutIs ==
  ASSUME NEW q \in AccReqs, Place(q, acall[q].pc, acall[q].user), NEW u \in Users
  PROVE  /\ acall[q].pc \in {"keep", "drop"} /\ acall[q].user = u => q \in Open /\ u \in About(q)
         /\ acall[q].pc \in {"purge", "insert", "cache"} /\ q.user = u => q \in Open /\ u \in About(q)
         /\ acall[q].pc \in {"delete", "update"} /\ acall[q].user = u =>
              q \in Open /\ u \in About(q) /\ Changing(q)
         /\ acall[q].pc \in {"newuser", "unuser"} /\ q.user = u =>
              q \in Open /\ u \in About(q) /\ Changing(q)
         /\ acall[q].pc \in {"revoke", "revokerows"} /\ Victim(q) = u =>
              q \in Open /\ u \in About(q) /\ Changing(q)
<1>1. u # Nobody
  BY AccountsAssumption
<1>2. acall[q].pc \in {"keep", "drop", "delete", "update", "newuser", "unuser", "revoke", "revokerows",
                       "purge", "insert", "cache"} => q \in Open
  BY DEF Open, Resting
<1>3. acall[q].pc \in {"keep", "drop"} /\ acall[q].user = u => u \in About(q)
  BY <1>1 DEF About
<1>4. acall[q].pc \in {"purge", "insert", "cache"} /\ q.user = u => u \in About(q)
  BY DEF About, Place
<1>5. acall[q].pc \in {"delete", "update"} /\ acall[q].user = u => u \in About(q) /\ Changing(q)
  BY DEF About, Place, Changing
<1>6. acall[q].pc \in {"newuser", "unuser"} /\ q.user = u => u \in About(q) /\ Changing(q)
  BY DEF About, Place, Changing
<1>7. acall[q].pc \in {"revoke", "revokerows"} /\ Victim(q) = u => u \in About(q) /\ Changing(q)
  BY DEF About, Place, Victim, Changing
<1> QED
  BY <1>2, <1>3, <1>4, <1>5, <1>6, <1>7

\* A step that takes away no more than entries of the cache and rows past their time, and gives a
\* token that nobody has used its version, leaves a user as he was.
LEMMA UserFrame ==
  ASSUME NEW of, Base(of), Base(of)', NEW r \in AccReqs, NEW pc, NEW w, Moves(r, pc, w),
         expired' = expired, users' = users, version' = version,
         \A t \in Tokens : session'[t] # session[t] => session'[t] = Nobody /\ t \in expired,
         \A t \in Tokens : cache'[t] # cache[t] => cache'[t] = Nobody,
         \A t \in Tokens : gen'[t] # gen[t] =>
            /\ t = r /\ session[t] = Nobody /\ cache[t] = Nobody
            /\ \A q \in AccReqs : q.op # "login" /\ q.tok = t => acall[q].user = Nobody,
         NEW u \in Users, UserOk(u), Alone(u)', Relies(r, u)',
         acall[r].pc \in {"revoke", "revokerows"} /\ Victim(r) = u => Mid(u)'
  PROVE  UserOk(u)'
<1>1. u # Nobody
  BY AccountsAssumption
<1>2. Mid(u) => Mid(u)'
  <2> SUFFICES ASSUME NEW c \in AccReqs, acall[c].pc \in {"revoke", "revokerows"}, Victim(c) = u
               PROVE  Mid(u)'
    BY DEF Mid
  <2>1. CASE c = r
    BY <2>1
  <2>2. CASE c # r
    BY <2>2 DEF Mid, Moves, Victim
  <2> QED
    BY <2>1, <2>2
<1>3. ASSUME ~Mid(u)', NEW t \in Tokens PROVE Sound(t, u)'
  <2>1. Sound(t, u)
    BY <1>2, <1>3 DEF UserOk
  <2> QED
    BY <1>1, <2>1 DEF Sound
<1>4. \A n \in DOMAIN users'[u] : users'[u][n].gen = version'[u]
  BY DEF UserOk
<1>5. ASSUME NEW q \in AccReqs PROVE Relies(q, u)'
  <2>1. CASE q = r
    BY <2>1
  <2>2. CASE q # r
    <3>1. Relies(q, u) /\ acall'[q] = acall[q] /\ Place(q, acall[q].pc, acall[q].user)
      BY <2>2 DEF UserOk, Moves, Base
    <3>2. (q.op = "login" => q \in Tokens) /\ (q.op # "login" => q.tok \in Tokens)
      BY AccountsAssumption
    <3>3. q.op = "login" => gen'[q] = gen[q]
      BY <2>2, <3>2
    <3>4. q.op # "login" /\ acall[q].user # Nobody => gen'[q.tok] = gen[q.tok]
      BY <3>2
    <3>5. q.op = "login" /\ q \notin expired => session'[q] = session[q]
      BY <3>2
    <3>6. q.op # "login" /\ q.tok \notin expired => session'[q.tok] = session[q.tok]
      BY <3>2
    <3>7. \A t \in Tokens : cache'[t] = u => cache[t] = u
      BY <1>1
    <3>8. acall[q].pc \in {"keep", "delete", "revoke", "revokerows"} => q.op # "login" /\ acall[q].user # Nobody
      BY <3>1 DEF Place
    <3>9. acall[q].pc \in {"purge", "insert", "cache"} => q.op = "login"
      BY <3>1 DEF Place
    <3> QED
      BY <1>1, <3>1, <3>2, <3>3, <3>4, <3>5, <3>6, <3>7, <3>8, <3>9 DEF Relies, Victim, Spared
  <2> QED
    BY <2>1, <2>2
<1> QED
  BY <1>3, <1>4, <1>5 DEF UserOk

\* A step of that kind, whole.
LEMMA StepFrame ==
  ASSUME NEW of, AccInv(of), Base(of)', NEW r \in AccReqs, NEW pc, NEW w, Moves(r, pc, w),
         expired' = expired, users' = users, version' = version, NEW bad, Watch(bad),
         \A t \in Tokens : session'[t] # session[t] => session'[t] = Nobody /\ t \in expired,
         \A t \in Tokens : cache'[t] # cache[t] => cache'[t] = Nobody,
         \A t \in Tokens : gen'[t] # gen[t] =>
            /\ t = r /\ session[t] = Nobody /\ cache[t] = Nobody
            /\ \A q \in AccReqs : q.op # "login" /\ q.tok = t => acall[q].user = Nobody,
         \A u \in Users : UserOk(u) /\ clean[u] /\ Alone(u)' /\ u \notin bad =>
            /\ Relies(r, u)'
            /\ acall[r].pc \in {"revoke", "revokerows"} /\ Victim(r) = u => Mid(u)'
  PROVE  AccInv(of)'
<1>1. ASSUME NEW u \in Users, clean'[u] PROVE UserOk(u)'
  <2>1. clean[u] /\ u \notin bad /\ Alone(u)'
    BY <1>1, WatchIs DEF AccInv, Base
  <2>2. UserOk(u)
    BY <2>1 DEF AccInv
  <2> HIDE DEF UserOk, Base, Watch, Relies
  <2>3. Base(of)
    BY DEF AccInv
  <2> QED
    BY <2>1, <2>2, <2>3, UserFrame
<1> QED
  BY <1>1 DEF AccInv

\* The same, from what an action says of itself.
LEMMA QuietStep ==
  ASSUME NEW of, AccInv(of), NEW r \in AccReqs, NEW pc, NEW w, Moves(r, pc, w),
         expired' = expired, users' = users, version' = version, gen' \in [Tokens -> Nat],
         session' \in [Tokens -> Users \cup {Nobody}], cache' \in [Tokens -> Users \cup {Nobody}],
         NEW bad, Watch(bad),
         \A t \in Tokens : session'[t] # session[t] => session'[t] = Nobody /\ t \in expired,
         \A t \in Tokens : cache'[t] # cache[t] => cache'[t] = Nobody,
         \A t \in Tokens : gen'[t] # gen[t] =>
            /\ t = r /\ session[t] = Nobody /\ cache[t] = Nobody
            /\ \A q \in AccReqs : q.op # "login" /\ q.tok = t => acall[q].user = Nobody,
         Place(r, pc, w), r.op = "login" \/ w \in {acall[r].user, session[r.tok], cache[r.tok]},
         r.op = "login" /\ pc \in Unopened => acall[r].pc \in Unopened,
         \A u \in Users : UserOk(u) /\ clean[u] /\ Alone(u)' /\ u \notin bad =>
            /\ Relies(r, u)'
            /\ acall[r].pc \in {"revoke", "revokerows"} /\ Victim(r) = u => Mid(u)'
  PROVE  AccInv(of)'
<1>1. Base(of) /\ AccTypes /\ Owners(of)
  BY DEF AccInv, Base
<1>3. r.op # "login" => r.tok \in Tokens
  BY AccountsAssumption
<1>4. r.op = "login" \/ w \in {Nobody, of[r.tok]}
  BY <1>1, <1>3 DEF Owners
<1>5. ASSUME NEW q \in AccReqs, q.op = "login", acall'[q].pc \in Unopened
      PROVE  acall[q].pc \in Unopened /\ (r.op # "login" /\ r.tok = q => w = Nobody)
  <2>1. acall[q].pc \in Unopened
    BY <1>5 DEF Moves
  <2>2. /\ session[q] = Nobody /\ cache[q] = Nobody
        /\ \A p \in AccReqs : p.op # "login" /\ p.tok = q => acall[p].user = Nobody
    BY <1>1, <1>5, <2>1 DEF Base, Fresh
  <2> QED
    BY <2>1, <2>2
<1>6. users' \in [Users -> Seq([pw : Passwords, gen : Nat])] /\ version' \in [Users -> Nat]
  BY <1>1 DEF AccTypes
<1>7. \A q \in AccReqs : q.op = "login" => q \in Tokens
  BY AccountsAssumption
<1> HIDE DEF Base, Moves, Place, Unopened, Watch, UserOk, Relies, Mid, Alone
<1>2. AccTypes'
  BY <1>1, <1>6, TypesStep
<1>8. Base(of)'
  BY <1>1, <1>2, <1>4, <1>5, <1>7, BaseStep
<1> QED
  BY <1>8, StepFrame

-----------------------------------------------------------------------------
(* The steps that take nothing away but what is past its time.             *)

\* Changes of one entry, and none.
LEMMA NobodyAt ==
  ASSUME NEW f \in [Tokens -> Users \cup {Nobody}], NEW t \in Tokens
  PROVE  LET h == [f EXCEPT ![t] = Nobody] IN
         /\ h \in [Tokens -> Users \cup {Nobody}] /\ h[t] = Nobody
         /\ \A s \in Tokens : h[s] # f[s] => s = t /\ h[s] = Nobody
OBVIOUS

LEMMA ValidateKeeps ==
  ASSUME NEW of, AccInv(of), NEW r \in AccReqs, Validate(r)
  PROVE  AccInv(of)'
<1> DEFINE pc == IF cache[r.tok] = Nobody THEN "row" ELSE IF r.tok \in expired THEN "drop" ELSE "in"
           w == IF cache[r.tok] = Nobody THEN Nobody ELSE cache[r.tok]
<1>1. AccTypes /\ r.op # "login" /\ r.tok \in Tokens /\ acall[r].pc = "due"
  BY AccountsAssumption DEF AccInv, Base, Validate, AccAt
<1>2. /\ expired' = expired /\ users' = users /\ version' = version /\ gen' = gen /\ session' = session
      /\ cache' = IF r.tok \in expired THEN [cache EXCEPT ![r.tok] = Nobody] ELSE cache
      /\ Watch({})
  BY DEF Validate, Unseen
<1>3. cache \in [Tokens -> Users \cup {Nobody}] /\ session \in [Tokens -> Users \cup {Nobody}]
      /\ gen \in [Tokens -> Nat]
  BY <1>1 DEF AccTypes
<1>4. acall' = [acall EXCEPT ![r] = [pc |-> pc, user |-> w]]
  BY DEF Validate
<1>5. pc \in Pcs /\ w \in Users \cup {Nobody} /\ w \in {acall[r].user, session[r.tok], cache[r.tok]}
  BY <1>1, <1>3 DEF Pcs
<1>6. Place(r, pc, w)
  BY <1>1 DEF Place
<1>7. pc \in {"row", "drop", "in"}
  OBVIOUS
<1> HIDE DEF pc, w
<1>8. Moves(r, pc, w)
  BY <1>1, <1>4, <1>5, SetIs
<1>9. \A u \in Users : Relies(r, u)'
  BY <1>7, <1>8 DEF Relies, Moves
<1>10. cache' \in [Tokens -> Users \cup {Nobody}] /\ \A t \in Tokens : cache'[t] # cache[t] => cache'[t] = Nobody
  BY <1>1, <1>2, <1>3, NobodyAt
<1> HIDE DEF Watch, Place, Moves, Relies, UserOk, Alone
<1> QED
  BY <1>1, <1>2, <1>3, <1>5, <1>6, <1>8, <1>9, <1>10, QuietStep

LEMMA ReadSessionKeeps ==
  ASSUME NEW of, AccInv(of), NEW r \in AccReqs, ReadSession(r)
  PROVE  AccInv(of)'
<1> DEFINE pc == IF session[r.tok] = Nobody THEN "401" ELSE IF r.tok \in expired THEN "drop" ELSE "keep"
           w == IF session[r.tok] = Nobody THEN Nobody ELSE session[r.tok]
<1>1. /\ AccTypes /\ r.op # "login" /\ r.tok \in Tokens /\ acall[r].pc = "row"
  BY AccountsAssumption DEF AccInv, Base, ReadSession, AccAt, Place
<1>2. /\ expired' = expired /\ users' = users /\ version' = version /\ gen' = gen /\ session' = session
      /\ cache' = cache /\ Watch({})
  BY DEF ReadSession, Unseen
<1>3. cache \in [Tokens -> Users \cup {Nobody}] /\ session \in [Tokens -> Users \cup {Nobody}]
      /\ gen \in [Tokens -> Nat]
  BY <1>1 DEF AccTypes
<1>4. acall' = [acall EXCEPT ![r] = [pc |-> pc, user |-> w]]
  BY DEF ReadSession
<1>5. pc \in Pcs /\ w \in Users \cup {Nobody} /\ w \in {acall[r].user, session[r.tok], cache[r.tok]}
  BY <1>1, <1>3 DEF Pcs
<1>6. Place(r, pc, w)
  BY <1>1 DEF Place
<1>7. pc \in {"401", "drop", "keep"} /\ (pc = "keep" => w = session[r.tok])
  OBVIOUS
<1> HIDE DEF pc, w
<1>8. Moves(r, pc, w)
  BY <1>1, <1>4, <1>5, SetIs
<1>9. \A u \in Users : Relies(r, u)'
  BY <1>2, <1>7, <1>8 DEF Relies, Moves
<1> HIDE DEF Watch, Place, Moves, Relies, UserOk, Alone
<1> QED
  BY <1>1, <1>2, <1>3, <1>5, <1>6, <1>8, <1>9, QuietStep

LEMMA DropExpiredKeeps ==
  ASSUME NEW of, AccInv(of), NEW r \in AccReqs, DropExpired(r)
  PROVE  AccInv(of)'
<1>1. /\ AccTypes /\ r.op # "login" /\ r.tok \in Tokens /\ acall[r].pc = "drop" /\ r.tok \in expired
  BY AccountsAssumption DEF AccInv, Base, DropExpired, AccAt, Place
<1>2. /\ expired' = expired /\ users' = users /\ version' = version /\ gen' = gen /\ cache' = cache
      /\ session' = [session EXCEPT ![r.tok] = Nobody] /\ Watch({}) /\ To(r, "401")
  BY DEF DropExpired, Unseen
<1>3. cache \in [Tokens -> Users \cup {Nobody}] /\ session \in [Tokens -> Users \cup {Nobody}]
      /\ gen \in [Tokens -> Nat]
  BY <1>1 DEF AccTypes
<1>4. "401" \in Pcs /\ Place(r, "401", acall[r].user)
  BY <1>1 DEF Place, Pcs
<1>5. Moves(r, "401", acall[r].user)
  BY <1>1, <1>2, <1>4, ToIs
<1>6. \A u \in Users : Relies(r, u)'
  BY <1>5 DEF Relies, Moves
<1>7. /\ session' \in [Tokens -> Users \cup {Nobody}]
      /\ \A t \in Tokens : session'[t] # session[t] => session'[t] = Nobody /\ t \in expired
  BY <1>1, <1>2, <1>3, NobodyAt
<1> HIDE DEF Watch, Place, Moves, Relies, UserOk, Alone
<1> QED
  BY <1>1, <1>2, <1>3, <1>4, <1>5, <1>6, <1>7, QuietStep

\* A step that only moves a request on.
LEMMA PlainStep ==
  ASSUME NEW of, AccInv(of), NEW r \in AccReqs, NEW pc \in Pcs, To(r, pc),
         UNCHANGED <<users, session, cache, expired, gen, version>>, NEW bad, Watch(bad),
         Place(r, pc, acall[r].user), r.op = "login" /\ pc \in Unopened => acall[r].pc \in Unopened,
         \A u \in Users : UserOk(u) /\ clean[u] /\ Alone(u)' /\ u \notin bad =>
            /\ Relies(r, u)'
            /\ acall[r].pc \in {"revoke", "revokerows"} /\ Victim(r) = u => Mid(u)'
  PROVE  AccInv(of)'
<1>1. AccTypes
  BY DEF AccInv, Base
<1>2. /\ cache \in [Tokens -> Users \cup {Nobody}] /\ session \in [Tokens -> Users \cup {Nobody}]
      /\ gen \in [Tokens -> Nat]
  BY <1>1 DEF AccTypes
<1>3. Moves(r, pc, acall[r].user)
  BY <1>1, ToIs
<1> HIDE DEF Watch, Place, Moves, Relies, UserOk, Alone, Mid, Unopened, To
<1> QED
  BY <1>2, <1>3, QuietStep

LEMMA VerifyKeeps ==
  ASSUME NEW of, AccInv(of), NEW r \in AccReqs, Verify(r)
  PROVE  AccInv(of)'
<1> DEFINE good == users[r.user] # <<>> /\ Current(r.user).pw = r.pw
           pc == IF good THEN "purge" ELSE "error"
<1>1. /\ AccTypes /\ r.op = "login" /\ r \in Tokens /\ acall[r].pc = "due" /\ r.user \in Users
      /\ Place(r, acall[r].pc, acall[r].user) /\ Fresh(r)
  BY AccountsAssumption DEF AccInv, Base, Verify, AccAt
<1>2. /\ expired' = expired /\ users' = users /\ version' = version /\ cache' = cache
      /\ session' = session /\ Watch({}) /\ To(r, pc)
      /\ gen' = IF good THEN [gen EXCEPT ![r] = Current(r.user).gen] ELSE gen
  BY DEF Verify
<1>3. cache \in [Tokens -> Users \cup {Nobody}] /\ session \in [Tokens -> Users \cup {Nobody}]
      /\ gen \in [Tokens -> Nat] /\ users[r.user] \in Seq([pw : Passwords, gen : Nat])
  BY <1>1 DEF AccTypes
<1>4. good => /\ Current(r.user) \in [pw : Passwords, gen : Nat] /\ Current(r.user) = users[r.user][1]
              /\ 1 \in DOMAIN users[r.user]
  <2> DEFINE put == [pw : Passwords, gen : Nat]
             l == users[r.user]
  <2>1. l \in Seq(put)
    BY <1>3
  <2> HIDE DEF put, l
  <2>2. l # <<>> => Head(l) \in put /\ Head(l) = l[1] /\ 1 \in DOMAIN l
    BY <2>1
  <2> QED
    BY <2>2 DEF Current, put, l
<1>5. pc \in Pcs /\ Place(r, pc, acall[r].user) /\ acall[r].pc \in Unopened
  BY <1>1 DEF Place, Pcs, Unopened
<1>6. /\ gen' \in [Tokens -> Nat]
      /\ good => gen'[r] = Current(r.user).gen
      /\ \A t \in Tokens : gen'[t] # gen[t] => t = r
  <2>1. good => Current(r.user).gen \in Nat
    BY <1>4
  <2> HIDE DEF good
  <2> QED
    BY <1>1, <1>2, <1>3, <2>1
<1>7. /\ session[r] = Nobody /\ cache[r] = Nobody
      /\ \A q \in AccReqs : q.op # "login" /\ q.tok = r => acall[q].user = Nobody
  BY <1>1, <1>5 DEF Fresh
<1>8. Moves(r, pc, acall[r].user)
  <2> HIDE DEF pc
  <2> QED
    BY <1>1, <1>2, <1>5, ToIs
<1>9. \A u \in Users : UserOk(u) => Relies(r, u)'
  <2> SUFFICES ASSUME NEW u \in Users, UserOk(u) PROVE Relies(r, u)'
    OBVIOUS
  <2>1. CASE good
    <3>1. r.user = u => users[u] # <<>> /\ gen'[r] = version[u]
      BY <1>4, <1>6, <2>1 DEF UserOk
    <3>2. acall'[r].pc = "purge"
      BY <1>8, <2>1 DEF Moves
    <3> QED
      BY <1>2, <3>1, <3>2 DEF Relies
  <2>2. CASE ~good
    <3>1. acall'[r].pc = "error"
      BY <1>8, <2>2 DEF Moves
    <3> QED
      BY <3>1 DEF Relies
  <2> QED
    BY <2>1, <2>2
<1>10. \A t \in Tokens : gen'[t] # gen[t] =>
         /\ t = r /\ session[t] = Nobody /\ cache[t] = Nobody
         /\ \A q \in AccReqs : q.op # "login" /\ q.tok = t => acall[q].user = Nobody
  BY <1>6, <1>7
<1>11. /\ \A t \in Tokens : session'[t] # session[t] => session'[t] = Nobody /\ t \in expired
       /\ \A t \in Tokens : cache'[t] # cache[t] => cache'[t] = Nobody
       /\ acall[r].pc \notin {"revoke", "revokerows"}
       /\ session' \in [Tokens -> Users \cup {Nobody}] /\ cache' \in [Tokens -> Users \cup {Nobody}]
  BY <1>1, <1>2, <1>3
<1> HIDE DEF Watch, Place, Moves, Relies, UserOk, Alone, pc, good, Mid, To
<1> QED
  BY <1>1, <1>2, <1>5, <1>6, <1>8, <1>9, <1>10, <1>11, QuietStep

LEMMA PurgeKeeps ==
  ASSUME NEW of, AccInv(of), NEW r \in AccReqs, Purge(r)
  PROVE  AccInv(of)'
<1>1. /\ AccTypes /\ r.op = "login" /\ acall[r].pc = "purge" /\ Place(r, acall[r].pc, acall[r].user)
  BY DEF AccInv, Base, Purge, AccAt, Place
<1>2. /\ expired' = expired /\ users' = users /\ version' = version /\ cache' = cache /\ gen' = gen
      /\ Watch({}) /\ To(r, "insert")
      /\ session' = [t \in Tokens |-> IF t \in expired THEN Nobody ELSE session[t]]
  BY DEF Purge, Unseen
<1>3. cache \in [Tokens -> Users \cup {Nobody}] /\ session \in [Tokens -> Users \cup {Nobody}]
      /\ gen \in [Tokens -> Nat]
  BY <1>1 DEF AccTypes
<1>4. "insert" \in Pcs /\ Place(r, "insert", acall[r].user) /\ acall[r].pc \in Unopened
  BY <1>1 DEF Place, Pcs, Unopened
<1>5. Moves(r, "insert", acall[r].user)
  BY <1>1, <1>2, <1>4, ToIs
<1>6. /\ session' \in [Tokens -> Users \cup {Nobody}]
      /\ \A t \in Tokens : session'[t] # session[t] => session'[t] = Nobody /\ t \in expired
  BY <1>2, <1>3
<1>7. \A u \in Users : UserOk(u) => Relies(r, u)'
  BY <1>1, <1>2, <1>5 DEF UserOk, Relies, Moves
<1> HIDE DEF Watch, Place, Moves, Relies, UserOk, Alone, Mid, To
<1> QED
  BY <1>1, <1>2, <1>3, <1>4, <1>5, <1>6, <1>7, QuietStep

LEMMA LogoutKeeps ==
  ASSUME NEW of, AccInv(of), NEW r \in AccReqs, Logout(r)
  PROVE  AccInv(of)'
<1>1. /\ AccTypes /\ r.op = "logout" /\ r.tok \in Tokens /\ acall[r].pc = "in"
      /\ Place(r, acall[r].pc, acall[r].user)
  BY AccountsAssumption DEF AccInv, Base, Logout, AccAt
<1>2. /\ expired' = expired /\ users' = users /\ version' = version /\ gen' = gen /\ session' = session
      /\ cache' = [cache EXCEPT ![r.tok] = Nobody] /\ Watch({}) /\ To(r, "delete")
  BY DEF Logout, Unseen
<1>3. cache \in [Tokens -> Users \cup {Nobody}] /\ session \in [Tokens -> Users \cup {Nobody}]
      /\ gen \in [Tokens -> Nat]
  BY <1>1 DEF AccTypes
<1>4. "delete" \in Pcs /\ Place(r, "delete", acall[r].user)
  BY <1>1 DEF Place, Pcs
<1>5. Moves(r, "delete", acall[r].user)
  BY <1>1, <1>2, <1>4, ToIs
<1>6. /\ cache' \in [Tokens -> Users \cup {Nobody}] /\ cache'[r.tok] = Nobody
      /\ \A t \in Tokens : cache'[t] # cache[t] => cache'[t] = Nobody
  BY <1>1, <1>2, <1>3, NobodyAt
<1>7. \A u \in Users : Relies(r, u)'
  BY <1>5, <1>6, AccountsAssumption DEF Relies, Moves
<1> HIDE DEF Watch, Place, Moves, Relies, UserOk, Alone, Mid, To
<1> QED
  BY <1>1, <1>2, <1>3, <1>4, <1>5, <1>6, <1>7, QuietStep

LEMMA RevokeCacheKeeps ==
  ASSUME NEW of, AccInv(of), NEW r \in AccReqs, RevokeCache(r)
  PROVE  AccInv(of)'
<1>1. /\ AccTypes /\ r.op # "login" /\ r.tok \in Tokens /\ acall[r].pc = "revoke"
      /\ Place(r, acall[r].pc, acall[r].user)
  BY AccountsAssumption DEF AccInv, Base, RevokeCache, AccAt, Place
<1>2. /\ expired' = expired /\ users' = users /\ version' = version /\ gen' = gen /\ session' = session
      /\ cache' = Uncached(r) /\ Watch({}) /\ To(r, "revokerows")
  BY DEF RevokeCache, Unseen
<1>3. cache \in [Tokens -> Users \cup {Nobody}] /\ session \in [Tokens -> Users \cup {Nobody}]
      /\ gen \in [Tokens -> Nat]
  BY <1>1 DEF AccTypes
<1>4. "revokerows" \in Pcs /\ Place(r, "revokerows", acall[r].user)
  BY <1>1 DEF Place, Pcs
<1>5. Moves(r, "revokerows", acall[r].user)
  BY <1>1, <1>2, <1>4, ToIs
<1>6. /\ cache' \in [Tokens -> Users \cup {Nobody}]
      /\ \A t \in Tokens : cache'[t] # cache[t] => cache'[t] = Nobody
      /\ \A t \in Tokens \ Spared(r) : cache[t] = Victim(r) => cache'[t] = Nobody
  BY <1>2, <1>3 DEF Uncached
<1>7. Victim(r)' = Victim(r)
  BY <1>5 DEF Victim, Moves
<1>8. ASSUME NEW u \in Users, UserOk(u)
      PROVE  Relies(r, u)' /\ (Victim(r) = u => Mid(u)')
  <2>1. u # Nobody
    BY AccountsAssumption
  <2>2. acall'[r].pc = "revokerows" /\ acall'[r].user = acall[r].user
    BY <1>5 DEF Moves
  <2>3. Victim(r) = u => Mid(u)'
    BY <1>7, <2>2 DEF Mid
  <2>4. Relies(r, u)
    BY <1>8 DEF UserOk
  <2>5. Victim(r) = u => \A t \in Tokens \ Spared(r) : cache'[t] # u
    BY <1>6, <2>1
  <2>6. cache'[r.tok] = u => cache[r.tok] = u
    BY <1>1, <1>6, <2>1
  <2>7. r.op = "password" /\ acall[r].user = u =>
       /\ users'[u] # <<>> /\ gen'[r.tok] = version'[u]
       /\ r.tok \notin expired' /\ cache'[r.tok] = u => session'[r.tok] = u
    BY <1>1, <1>2, <2>4, <2>6 DEF Relies
  <2> HIDE DEF Victim
  <2>8. Relies(r, u)'
    BY <1>7, <2>2, <2>5, <2>7 DEF Relies, Spared
  <2> QED
    BY <2>3, <2>8
<1> HIDE DEF Watch, Place, Moves, Relies, UserOk, Alone, Mid, To
<1> QED
  BY <1>1, <1>2, <1>3, <1>4, <1>5, <1>6, <1>8, QuietStep

LEMMA PlainKeeps ==
  ASSUME NEW of, AccInv(of), NEW r \in AccReqs,
         \/ Info(r) \/ CheckOld(r) \/ RemoveUser(r) \/ AddUser(r)
         \/ InsertSession(r, FALSE) \/ DeleteSession(r, FALSE) \/ UpdateUser(r, FALSE)
         \/ DeleteUser(r, FALSE) \/ RevokeRows(r, FALSE) \/ InsertUser(r, FALSE)
         \/ /\ r.op = "device" /\ acall[r].pc = "in" /\ To(r, "done") /\ Watch({})
            /\ UNCHANGED <<users, session, cache, expired, gen, version>>
  PROVE  AccInv(of)'
<1>1. AccTypes /\ Place(r, acall[r].pc, acall[r].user)
  BY DEF AccInv, Base
<1>2. \A pc \in Pcs : To(r, pc) => acall'[r].pc = pc /\ acall'[r].user = acall[r].user
  BY <1>1, ToIs DEF Moves
<1>3. \A pc \in {"done", "error", "unuser"} : To(r, pc) =>
        pc \in Pcs /\ \A u \in Users : Relies(r, u)'
  <2> SUFFICES ASSUME NEW pc \in {"done", "error", "unuser"}, To(r, pc)
               PROVE  pc \in Pcs /\ \A u \in Users : Relies(r, u)'
    OBVIOUS
  <2>1. pc \in Pcs
    BY DEF Pcs
  <2>2. acall'[r].pc = pc
    BY <1>2, <2>1
  <2> QED
    BY <2>1, <2>2 DEF Relies
<1>4. ASSUME NEW pc \in {"done", "error", "unuser"}, To(r, pc), NEW bad, Watch(bad),
             UNCHANGED <<users, session, cache, expired, gen, version>>,
             Place(r, pc, acall[r].user), acall[r].pc \notin {"revoke", "revokerows"} \/ Victim(r) \in bad
      PROVE  AccInv(of)'
  <2>1. pc \notin Unopened
    BY DEF Unopened
  <2> HIDE DEF AccInv, Watch, Place, Relies, UserOk, Alone, Mid, To, Unopened, Victim
  <2> QED
    BY <1>3, <1>4, <2>1, PlainStep
<1>5. CASE Info(r)
  BY <1>1, <1>4, <1>5 DEF Info, AccAt, Unseen, Place
<1>6. CASE CheckOld(r)
  <2> DEFINE u == acall[r].user
             good == users[u] # <<>> /\ Current(u).pw = r.pw
  <2>1. CASE good
    <3>1. /\ To(r, "update") /\ Watch({}) /\ acall[r].pc = "in" /\ r.op = "password"
          /\ UNCHANGED <<users, session, cache, expired, gen, version>>
      BY <1>6, <2>1 DEF CheckOld, AccAt, Unseen
    <3>2. "update" \in Pcs /\ Place(r, "update", acall[r].user) /\ "update" \notin Unopened
      BY <1>1, <3>1 DEF Place, Pcs, Unopened
    <3>3. acall'[r].pc = "update" /\ acall'[r].user = acall[r].user
      BY <1>2, <3>1, <3>2
    <3>4. \A x \in Users : Relies(r, x)'
      BY <2>1, <3>1, <3>3 DEF Relies
    <3> HIDE DEF AccInv, Watch, Place, Relies, UserOk, Alone, Mid, To, Unopened, Victim, good, u
    <3> QED
      BY <3>1, <3>2, <3>4, PlainStep
  <2>2. CASE ~good
    <3>1. /\ To(r, "error") /\ Watch({}) /\ acall[r].pc = "in" /\ r.op = "password"
          /\ UNCHANGED <<users, session, cache, expired, gen, version>>
      BY <1>6, <2>2 DEF CheckOld, AccAt, Unseen
    <3> QED
      BY <1>1, <1>4, <3>1 DEF Place
  <2> QED
    BY <2>1, <2>2
<1>7. CASE RemoveUser(r)
  <2>1. /\ To(r, "error") \/ To(r, "unuser")
        /\ Watch({}) /\ acall[r].pc = "in" /\ r.op = "removeuser"
        /\ UNCHANGED <<users, session, cache, expired, gen, version>>
    BY <1>7 DEF RemoveUser, AccAt, Unseen
  <2> QED
    BY <1>1, <1>4, <2>1 DEF Place
<1>8. CASE AddUser(r)
  <2>1. CASE users[r.user] = <<>>
    <3>1. /\ To(r, "newuser") /\ Watch({}) /\ acall[r].pc = "in" /\ r.op = "adduser"
          /\ UNCHANGED <<users, session, cache, expired, gen, version>>
      BY <1>8, <2>1 DEF AddUser, AccAt, Unseen
    <3>2. "newuser" \in Pcs /\ Place(r, "newuser", acall[r].user) /\ "newuser" \notin Unopened
      BY <1>1, <3>1 DEF Place, Pcs, Unopened
    <3>3. acall'[r].pc = "newuser"
      BY <1>2, <3>1, <3>2
    <3>4. \A x \in Users : Relies(r, x)'
      BY <2>1, <3>1, <3>3 DEF Relies
    <3> HIDE DEF AccInv, Watch, Place, Relies, UserOk, Alone, Mid, To, Unopened, Victim
    <3> QED
      BY <3>1, <3>2, <3>4, PlainStep
  <2>2. CASE users[r.user] # <<>>
    <3>1. /\ To(r, "error") /\ Watch({}) /\ acall[r].pc = "in" /\ r.op = "adduser"
          /\ UNCHANGED <<users, session, cache, expired, gen, version>>
      BY <1>8, <2>2 DEF AddUser, AccAt, Unseen
    <3> QED
      BY <1>1, <1>4, <3>1 DEF Place
  <2> QED
    BY <2>1, <2>2
<1>9. CASE InsertSession(r, FALSE)
  <2>1. /\ To(r, "error") /\ Watch({}) /\ acall[r].pc = "insert"
        /\ UNCHANGED <<users, session, cache, expired, gen, version>>
    BY <1>9 DEF InsertSession, AccAt, Unseen
  <2> QED
    BY <1>1, <1>4, <2>1 DEF Place
<1>10. CASE DeleteSession(r, FALSE)
  <2>1. /\ To(r, "error") /\ Watch({acall[r].user}) /\ acall[r].pc = "delete"
        /\ UNCHANGED <<users, session, cache, expired, gen, version>>
    BY <1>10 DEF DeleteSession, AccAt, Unseen
  <2> QED
    BY <1>1, <1>4, <2>1 DEF Place
<1>11. CASE UpdateUser(r, FALSE)
  <2>1. /\ To(r, "error") /\ Watch({}) /\ acall[r].pc = "update"
        /\ UNCHANGED <<users, session, cache, expired, gen, version>>
    BY <1>11 DEF UpdateUser, AccAt, Unseen
  <2> QED
    BY <1>1, <1>4, <2>1 DEF Place
<1>12. CASE DeleteUser(r, FALSE)
  <2>1. /\ To(r, "error") /\ Watch({}) /\ acall[r].pc = "unuser"
        /\ UNCHANGED <<users, session, cache, expired, gen, version>>
    BY <1>12 DEF DeleteUser, AccAt, Unseen
  <2> QED
    BY <1>1, <1>4, <2>1 DEF Place
<1>13. CASE RevokeRows(r, FALSE)
  <2>1. /\ To(r, "error") /\ Watch({Victim(r)}) /\ acall[r].pc = "revokerows"
        /\ UNCHANGED <<users, session, cache, expired, gen, version>>
    BY <1>13 DEF RevokeRows, AccAt, Unseen
  <2> QED
    BY <1>1, <1>4, <2>1 DEF Place
<1>14. CASE InsertUser(r, FALSE)
  <2>1. /\ To(r, "error") /\ Watch({}) /\ acall[r].pc = "newuser"
        /\ UNCHANGED <<users, session, cache, expired, gen, version>>
    BY <1>14 DEF InsertUser, AccAt, Unseen
  <2> QED
    BY <1>1, <1>4, <2>1 DEF Place
<1>15. CASE /\ r.op = "device" /\ acall[r].pc = "in" /\ To(r, "done") /\ Watch({})
            /\ UNCHANGED <<users, session, cache, expired, gen, version>>
  BY <1>1, <1>4, <1>15 DEF Place
<1> QED
  BY <1>5, <1>6, <1>7, <1>8, <1>9, <1>10, <1>11, <1>12, <1>13, <1>14, <1>15

-----------------------------------------------------------------------------
(* The steps that change a user, or give a token out.                      *)

\* What request q, at c, relies on is about u.
Uses(q, c, u) ==
  \/ c.pc \in {"keep", "delete", "update"} /\ c.user = u
  \/ c.pc \in {"purge", "insert", "cache", "newuser"} /\ q.user = u
  \/ c.pc \in {"revoke", "revokerows"} /\ (IF q.op = "password" THEN c.user ELSE q.user) = u

LEMMA UnusedThen ==
  ASSUME NEW q \in AccReqs, NEW u \in Users, ~Uses(q, acall'[q], u)
  PROVE  Relies(q, u)'
BY DEF Relies, Uses, Victim

LEMMA UsesAbout ==
  ASSUME NEW q \in AccReqs, Place(q, acall[q].pc, acall[q].user), NEW u \in Users, Uses(q, acall[q], u)
  PROVE  q \in Open /\ u \in About(q)
BY AboutIs DEF Uses, Victim

\* While one request changes a user, no other relies on anything of his.
LEMMA OneOnly ==
  ASSUME NEW u \in Users, Alone(u), NEW r \in AccReqs, Place(r, acall[r].pc, acall[r].user),
         Uses(r, acall[r], u) \/ (acall[r].pc = "unuser" /\ r.user = u),
         acall[r].pc \in {"delete", "update", "newuser", "revoke", "revokerows", "unuser"},
         NEW q \in AccReqs, q # r, Place(q, acall[q].pc, acall[q].user)
  PROVE  ~Uses(q, acall[q], u)
<1>1. r \in Open /\ u \in About(r) /\ Changing(r)
  BY AboutIs DEF Uses, Victim
<1>2. ~(q \in Open /\ u \in About(q))
  BY <1>1 DEF Alone
<1> QED
  BY <1>2, UsesAbout

\* A user whom the step is not about.
LEMMA Elsewhere ==
  ASSUME NEW of, Base(of), Base(of)', NEW r \in AccReqs, NEW pc, NEW w, Moves(r, pc, w),
         expired' = expired, NEW u \in Users, UserOk(u), Alone(u)', users'[u] = users[u],
         version'[u] = version[u], \A t \in Tokens : of[t] = u => gen'[t] = gen[t],
         \A t \in Tokens : (session'[t] = u <=> session[t] = u) /\ (cache'[t] = u => cache[t] = u),
         ~Uses(r, acall'[r], u), ~(acall[r].pc \in {"revoke", "revokerows"} /\ Victim(r) = u)
  PROVE  UserOk(u)'
<1>1. u # Nobody
  BY AccountsAssumption
<1>2. Mid(u) => Mid(u)'
  <2> SUFFICES ASSUME NEW c \in AccReqs, acall[c].pc \in {"revoke", "revokerows"}, Victim(c) = u
               PROVE  Mid(u)'
    BY DEF Mid
  <2>1. c # r
    OBVIOUS
  <2> QED
    BY <2>1 DEF Mid, Moves, Victim
<1>3. ASSUME ~Mid(u)', NEW t \in Tokens PROVE Sound(t, u)'
  <2>1. Sound(t, u)
    BY <1>2, <1>3 DEF UserOk
  <2>2. session[t] = u \/ cache[t] = u => of[t] = u
    BY <1>1 DEF Base, Owners
  <2> QED
    BY <1>1, <2>1, <2>2 DEF Sound
<1>4. \A n \in DOMAIN users'[u] : users'[u][n].gen = version'[u]
  BY DEF UserOk
<1>5. ASSUME NEW q \in AccReqs PROVE Relies(q, u)'
  <2>1. CASE q = r
    BY <2>1, UnusedThen
  <2>2. CASE q # r
    <3>1. Relies(q, u) /\ acall'[q] = acall[q] /\ Place(q, acall[q].pc, acall[q].user)
      BY <2>2 DEF UserOk, Moves, Base
    <3>2. (q.op = "login" => q \in Tokens) /\ (q.op # "login" => q.tok \in Tokens)
      BY AccountsAssumption
    <3>3. q.op = "login" => of[q] = q.user
      BY DEF Base, Owners
    <3>4. q.op # "login" /\ acall[q].user = u => of[q.tok] = u
      BY <1>1 DEF Base, Owners
    <3>5. acall[q].pc \in {"keep", "delete", "revoke", "revokerows"} => q.op # "login"
      BY <3>1 DEF Place
    <3>6. acall[q].pc \in {"purge", "insert", "cache"} => q.op = "login"
      BY <3>1 DEF Place
    <3>7. Victim(q)' = Victim(q)
      BY <3>1 DEF Victim
    <3> QED
      BY <1>1, <3>1, <3>2, <3>3, <3>4, <3>5, <3>6, <3>7 DEF Relies, Spared
  <2> QED
    BY <2>1, <2>2
<1> QED
  BY <1>3, <1>4, <1>5 DEF UserOk

\* What is left to show of a step.
LEMMA LoudStep ==
  ASSUME NEW of, AccInv(of), Base(of)', NEW bad, Watch(bad),
         \A u \in Users : UserOk(u) /\ clean[u] /\ Alone(u)' /\ u \notin bad => UserOk(u)'
  PROVE  AccInv(of)'
<1>1. ASSUME NEW u \in Users, clean'[u] PROVE UserOk(u)'
  <2>1. clean[u] /\ u \notin bad /\ Alone(u)'
    BY <1>1, WatchIs DEF AccInv, Base
  <2>2. UserOk(u)
    BY <2>1 DEF AccInv
  <2> HIDE DEF UserOk, Base, Watch
  <2> QED
    BY <2>1, <2>2
<1> QED
  BY <1>1 DEF AccInv

\* An entry for the cache.
LEMMA CacheGrows ==
  ASSUME NEW of, AccInv(of), NEW r \in AccReqs, NEW pc \in {"in", "done"}, To(r, pc), Watch({}),
         NEW t \in Tokens, NEW v \in Users, cache' = [cache EXCEPT ![t] = v], of[t] = v,
         UNCHANGED <<users, session, expired, gen, version>>,
         \/ pc = "in" /\ acall[r].pc = "keep" /\ r.op # "login" /\ t = r.tok /\ v = acall[r].user
         \/ pc = "done" /\ acall[r].pc = "cache" /\ r.op = "login" /\ t = r /\ v = r.user
  PROVE  AccInv(of)'
<1>1. /\ Base(of) /\ AccTypes /\ Owners(of) /\ Place(r, acall[r].pc, acall[r].user)
      /\ \A q \in AccReqs : Fresh(q) /\ Place(q, acall[q].pc, acall[q].user)
  BY DEF AccInv, Base
<1>2. /\ cache \in [Tokens -> Users \cup {Nobody}] /\ session \in [Tokens -> Users \cup {Nobody}]
      /\ gen \in [Tokens -> Nat] /\ version \in [Users -> Nat]
      /\ users \in [Users -> Seq([pw : Passwords, gen : Nat])]
  BY <1>1 DEF AccTypes
<1>3. Moves(r, pc, acall[r].user) /\ pc \notin Unopened
  BY <1>1, ToIs DEF Pcs, Unopened
<1>4. /\ cache' \in [Tokens -> Users \cup {Nobody}] /\ cache'[t] = v
      /\ \A s \in Tokens : s # t => cache'[s] = cache[s]
  BY <1>2
<1>5. AccTypes'
  <2> DEFINE w == acall[r].user
  <2>1. /\ expired' = expired /\ users' \in [Users -> Seq([pw : Passwords, gen : Nat])]
        /\ gen' \in [Tokens -> Nat] /\ version' \in [Users -> Nat]
        /\ session' \in [Tokens -> Users \cup {Nobody}] /\ Moves(r, pc, w)
    BY <1>2, <1>3
  <2> HIDE DEF w, Moves, Watch, AccTypes
  <2> QED
    BY <1>1, <1>4, <2>1, TypesStep
<1>6. v # Nobody
  BY AccountsAssumption
<1>7. Place(r, pc, acall[r].user)
  BY <1>1, <1>6 DEF Place
<1>8. r.op = "login" \/ acall[r].user \in {Nobody, of[r.tok]}
  BY <1>1 DEF Owners
<1>9. ASSUME NEW q \in AccReqs, q.op = "login", acall'[q].pc \in Unopened
      PROVE  /\ acall[q].pc \in Unopened /\ cache'[q] = cache[q]
             /\ r.op # "login" /\ r.tok = q => acall[r].user = Nobody
  <2>1. q # r /\ acall[q].pc \in Unopened /\ q \in Tokens
    BY <1>3, <1>9, AccountsAssumption DEF Moves
  <2>2. \A p \in AccReqs : p.op # "login" /\ p.tok = q => acall[p].user = Nobody
    BY <1>1, <1>9, <2>1 DEF Fresh
  <2>3. q # t
    BY <1>6, <2>1, <2>2
  <2> QED
    BY <1>4, <2>1, <2>2, <2>3
<1>10. \A s \in Tokens : cache'[s] # cache[s] => cache'[s] \in {Nobody, of[s]}
  BY <1>4
<1>11. Base(of)'
  <2>1. expired' = expired /\ session' = session
    OBVIOUS
  <2>2. \A q \in AccReqs : q.op = "login" => q \in Tokens
    BY AccountsAssumption
  <2>3. \A q \in AccReqs : q.op = "login" /\ acall'[q].pc \in Unopened =>
            /\ acall[q].pc \in Unopened
            /\ session'[q] # session[q] => session'[q] = Nobody
            /\ cache'[q] # cache[q] => cache'[q] = Nobody
            /\ r.op # "login" /\ r.tok = q => acall[r].user = Nobody
    BY <1>9, <2>1
  <2>4. \A s \in Tokens : /\ session'[s] # session[s] => session'[s] \in {Nobody, of[s]}
                          /\ cache'[s] # cache[s] => cache'[s] \in {Nobody, of[s]}
    BY <1>10, <2>1
  <2>5. Base(of) /\ cache' \in [Tokens -> Users \cup {Nobody}]
    BY <1>1, <1>4
  <2> DEFINE w == acall[r].user
  <2>6. /\ Moves(r, pc, w) /\ Place(r, pc, w)
        /\ r.op = "login" \/ w \in {Nobody, of[r.tok]}
    BY <1>3, <1>7, <1>8
  <2>7. \A q \in AccReqs : q.op = "login" /\ acall'[q].pc \in Unopened =>
            /\ acall[q].pc \in Unopened
            /\ session'[q] # session[q] => session'[q] = Nobody
            /\ cache'[q] # cache[q] => cache'[q] = Nobody
            /\ r.op # "login" /\ r.tok = q => w = Nobody
    BY <2>3
  <2> HIDE DEF Base, Moves, Place, Unopened, Watch, To, w
  <2> QED
    BY <1>5, <2>1, <2>4, <2>5, <2>6, <2>7, BaseStep
<1>12. ASSUME NEW u \in Users, UserOk(u), Alone(u)' PROVE UserOk(u)'
  <2>1. acall'[r].pc = pc /\ \A q \in AccReqs : q # r => acall'[q] = acall[q]
    BY <1>3 DEF Moves
  <2>2. ~Uses(r, acall'[r], u)
    BY <2>1 DEF Uses
  <2>3. CASE u # v
    <3>1. \A s \in Tokens : (session'[s] = u <=> session[s] = u) /\ (cache'[s] = u => cache[s] = u)
      BY <1>4, <2>3
    <3> HIDE DEF Base, Moves, Uses, UserOk, Alone, Watch, To
    <3> QED
      BY <1>1, <1>3, <1>11, <1>12, <2>2, <3>1, Elsewhere
  <2>4. CASE u = v
    <3>1. r \in Open /\ u \in About(r)
      BY <1>1, <2>4, AboutIs
    <3>2. \A q \in AccReqs : q # r /\ q \in Open /\ u \in About(q) => ~Changing(q)
      BY <1>12, <3>1 DEF UserOk, Alone
    <3>3. ~Mid(u)
      <4>1. ASSUME NEW c \in AccReqs, acall[c].pc \in {"revoke", "revokerows"}, Victim(c) = u PROVE FALSE
        BY <1>1, <3>2, <4>1, AboutIs
      <4> QED
        BY <4>1 DEF Mid
    <3>4. \A s \in Tokens : Sound(s, u)
      BY <1>12, <3>3 DEF UserOk
    <3>5. Relies(r, u)
      BY <1>12 DEF UserOk
    <3>6. t \notin expired => session[t] = u
      BY <2>4, <3>5 DEF Relies
    <3>7. \A s \in Tokens : Sound(s, u)'
      BY <1>4, <2>4, <3>4, <3>6 DEF Sound
    <3>8. ASSUME NEW q \in AccReqs PROVE Relies(q, u)'
      <4>1. CASE q = r
        BY <2>2, <4>1, UnusedThen
      <4>2. CASE q # r
        <5>1. Relies(q, u) /\ acall'[q] = acall[q]
          BY <1>12, <2>1, <4>2 DEF UserOk
        <5>2. /\ ~(acall[q].pc = "delete" /\ acall[q].user = u)
              /\ ~(acall[q].pc \in {"revoke", "revokerows"} /\ Victim(q) = u)
          BY <1>1, <3>2, <4>2, AboutIs
        <5> QED
          BY <5>1, <5>2 DEF Relies, Victim
      <4> QED
        BY <4>1, <4>2
    <3> QED
      BY <1>12, <3>7, <3>8 DEF UserOk
  <2> QED
    BY <2>3, <2>4
<1> HIDE DEF Base, UserOk, Watch, To
<1> QED
  BY <1>11, <1>12, LoudStep

LEMMA KeepSessionKeeps ==
  ASSUME NEW of, AccInv(of), NEW r \in AccReqs, KeepSession(r)
  PROVE  AccInv(of)'
<1>1. /\ Owners(of) /\ AccTypes /\ Place(r, acall[r].pc, acall[r].user) /\ acall[r].pc = "keep"
  BY DEF AccInv, Base, KeepSession, AccAt
<1>2. r.op # "login" /\ r.tok \in Tokens /\ acall[r].user # Nobody
  BY <1>1, AccountsAssumption DEF Place
<1>3. acall[r].user \in Users /\ of[r.tok] = acall[r].user
  BY <1>1, <1>2 DEF Owners, AccTypes
<1>4. /\ cache' = [cache EXCEPT ![r.tok] = acall[r].user] /\ To(r, "in") /\ Watch({})
      /\ UNCHANGED <<users, session, expired, gen, version>>
  BY DEF KeepSession, Unseen
<1> HIDE DEF AccInv, Watch, To
<1> QED
  BY <1>1, <1>2, <1>3, <1>4, CacheGrows

LEMMA CacheSessionKeeps ==
  ASSUME NEW of, AccInv(of), NEW r \in AccReqs, CacheSession(r)
  PROVE  AccInv(of)'
<1>1. /\ Owners(of) /\ Place(r, acall[r].pc, acall[r].user) /\ acall[r].pc = "cache"
  BY DEF AccInv, Base, CacheSession, AccAt
<1>2. r.op = "login" /\ r \in Tokens /\ r.user \in Users
  BY <1>1, AccountsAssumption DEF Place
<1>3. of[r] = r.user
  BY <1>1, <1>2 DEF Owners
<1>4. /\ cache' = [cache EXCEPT ![r] = r.user] /\ To(r, "done") /\ Watch({})
      /\ UNCHANGED <<users, session, expired, gen, version>>
  BY DEF CacheSession, Unseen
<1> HIDE DEF AccInv, Watch, To
<1> QED
  BY <1>1, <1>2, <1>3, <1>4, CacheGrows

\* Types and owners after a step that gives no token out.
LEMMA BaseTo ==
  ASSUME NEW of, Base(of), NEW r \in AccReqs, r.op # "login", NEW pc \in Pcs \ Unopened, To(r, pc),
         expired' = expired, cache' = cache, NEW bad, Watch(bad),
         users' \in [Users -> Seq([pw : Passwords, gen : Nat])],
         gen' \in [Tokens -> Nat], version' \in [Users -> Nat],
         session' \in [Tokens -> Users \cup {Nobody}],
         \A t \in Tokens : session'[t] # session[t] => session'[t] = Nobody,
         Place(r, pc, acall[r].user)
  PROVE  Base(of)' /\ Moves(r, pc, acall[r].user)
<1> PICK w : w = acall[r].user
  OBVIOUS
<1>1. AccTypes /\ Owners(of)
  BY DEF Base
<1>2. Moves(r, pc, w)
  BY <1>1, ToIs
<1>3. AccTypes' /\ expired \subseteq expired'
  BY <1>1, <1>2, TypesStep DEF AccTypes
<1>4. w \in {Nobody, of[r.tok]} /\ Place(r, pc, w)
  BY <1>1 DEF Owners
<1>5. \A t \in Tokens : /\ session'[t] # session[t] => session'[t] \in {Nobody, of[t]}
                        /\ cache'[t] # cache[t] => cache'[t] \in {Nobody, of[t]}
  BY <1>1
<1>6. ASSUME NEW q \in AccReqs, q.op = "login", acall'[q].pc \in Unopened
      PROVE  /\ acall[q].pc \in Unopened
             /\ session'[q] # session[q] => session'[q] = Nobody
             /\ cache'[q] # cache[q] => cache'[q] = Nobody
             /\ r.op # "login" /\ r.tok = q => w = Nobody
  <2>1. q # r /\ acall[q].pc \in Unopened /\ q \in Tokens
    BY <1>2, <1>6, AccountsAssumption DEF Moves
  <2>2. \A p \in AccReqs : p.op # "login" /\ p.tok = q => acall[p].user = Nobody
    BY <1>6, <2>1 DEF Base, Fresh
  <2> QED
    BY <2>1, <2>2
<1>7. \A q \in AccReqs : q.op = "login" /\ acall'[q].pc \in Unopened =>
            /\ acall[q].pc \in Unopened
            /\ session'[q] # session[q] => session'[q] = Nobody
            /\ cache'[q] # cache[q] => cache'[q] = Nobody
            /\ r.op # "login" /\ r.tok = q => w = Nobody
  BY <1>6
<1>8. r.op = "login" \/ w \in {Nobody, of[r.tok]}
  BY <1>4
<1>9. Base(of)
  OBVIOUS
<1> HIDE DEF Base, Moves, Place, Unopened, Watch, To
<1>10. Base(of)'
  BY <1>2, <1>3, <1>4, <1>5, <1>7, <1>8, <1>9, BaseStep
<1> QED
  BY <1>2, <1>10

LEMMA DeleteSessionKeeps ==
  ASSUME NEW of, AccInv(of), NEW r \in AccReqs, DeleteSession(r, TRUE)
  PROVE  AccInv(of)'
<1> DEFINE v == acall[r].user
<1>1. /\ Base(of) /\ AccTypes /\ Owners(of) /\ r.op = "logout" /\ acall[r].pc = "delete"
      /\ r.tok \in Tokens /\ \A q \in AccReqs : Place(q, acall[q].pc, acall[q].user)
  BY AccountsAssumption DEF AccInv, Base, DeleteSession, AccAt
<1>2. /\ expired' = expired /\ users' = users /\ version' = version /\ gen' = gen /\ cache' = cache
      /\ session' = [session EXCEPT ![r.tok] = Nobody] /\ Watch({}) /\ To(r, "done")
  BY DEF DeleteSession, Unseen
<1>3. /\ cache \in [Tokens -> Users \cup {Nobody}] /\ session \in [Tokens -> Users \cup {Nobody}]
      /\ gen \in [Tokens -> Nat] /\ version \in [Users -> Nat]
      /\ users \in [Users -> Seq([pw : Passwords, gen : Nat])]
  BY <1>1 DEF AccTypes
<1>4. "done" \in Pcs \ Unopened /\ Place(r, "done", v) /\ v \in Users /\ of[r.tok] = v
  BY <1>1 DEF Place, Pcs, Unopened, AccTypes, Owners
<1>5. /\ session' \in [Tokens -> Users \cup {Nobody}] /\ session'[r.tok] = Nobody
      /\ \A t \in Tokens : t # r.tok => session'[t] = session[t]
  BY <1>1, <1>2, <1>3
<1>6. Base(of)' /\ Moves(r, "done", v)
  <2>1. \A t \in Tokens : session'[t] # session[t] => session'[t] = Nobody
    BY <1>5
  <2> HIDE DEF Base, Moves, Place, Unopened, Watch, To
  <2> QED
    BY <1>1, <1>2, <1>3, <1>4, <1>5, <2>1, BaseTo
<1>7. /\ acall'[r].pc = "done" /\ \A q \in AccReqs : q # r => acall'[q] = acall[q]
      /\ \A u \in Users : ~Uses(r, acall'[r], u)
  BY <1>6 DEF Moves, Uses
<1>8. ASSUME NEW u \in Users, UserOk(u), Alone(u)' PROVE UserOk(u)'
  <2>1. CASE u # v
    <3>1. \A t \in Tokens : (session'[t] = u <=> session[t] = u) /\ (cache'[t] = u => cache[t] = u)
      <4>1. session[r.tok] # u /\ Nobody # u
        BY <1>1, <1>4, <2>1, AccountsAssumption DEF Owners
      <4> QED
        BY <1>2, <1>5, <4>1
    <3> HIDE DEF Base, Moves, Uses, UserOk, Alone, Watch, To
    <3> QED
      BY <1>1, <1>2, <1>6, <1>7, <1>8, <3>1, Elsewhere
  <2>2. CASE u = v
    <3>1. \A q \in AccReqs : q # r => ~Uses(q, acall[q], u)
      <4>1. Alone(u) /\ Uses(r, acall[r], u)
        BY <1>1, <1>8, <2>2 DEF UserOk, Uses
      <4> HIDE DEF Uses, Alone, Place
      <4> QED
        BY <1>1, <4>1, OneOnly
    <3>2. \A q \in AccReqs : Relies(q, u)'
      BY <1>7, <3>1, UnusedThen
    <3>3. ~Mid(u)
      BY <1>1, <3>1 DEF Mid, Uses, Victim
    <3>4. ASSUME NEW t \in Tokens PROVE Sound(t, u)'
      <4>1. Sound(t, u) /\ Relies(r, u)
        BY <1>8, <3>3 DEF UserOk
      <4>2. cache[r.tok] # u /\ u # Nobody
        BY <1>1, <2>2, <4>1, AccountsAssumption DEF Relies
      <4> QED
        BY <1>2, <1>5, <4>1, <4>2 DEF Sound
    <3> QED
      BY <1>2, <1>8, <3>2, <3>4 DEF UserOk
  <2> QED
    BY <2>1, <2>2
<1> HIDE DEF Base, UserOk, Watch, To, Alone
<1> QED
  BY <1>2, <1>6, <1>8, LoudStep

LEMMA RevokeRowsKeeps ==
  ASSUME NEW of, AccInv(of), NEW r \in AccReqs, RevokeRows(r, TRUE)
  PROVE  AccInv(of)'
<1> DEFINE v == Victim(r)
<1>1. /\ Base(of) /\ AccTypes /\ Owners(of) /\ r.op \in {"password", "removeuser"}
      /\ acall[r].pc = "revokerows" /\ acall[r].user # Nobody
      /\ r.tok \in Tokens /\ \A q \in AccReqs : Place(q, acall[q].pc, acall[q].user)
  BY AccountsAssumption DEF AccInv, Base, RevokeRows, AccAt, Place
<1>2. /\ expired' = expired /\ users' = users /\ version' = version /\ gen' = gen /\ cache' = cache
      /\ session' = [t \in Tokens |-> IF session[t] = v /\ t \notin Spared(r) THEN Nobody ELSE session[t]]
      /\ Watch({}) /\ To(r, "done")
  BY DEF RevokeRows, Unseen
<1>3. /\ cache \in [Tokens -> Users \cup {Nobody}] /\ session \in [Tokens -> Users \cup {Nobody}]
      /\ gen \in [Tokens -> Nat] /\ version \in [Users -> Nat]
      /\ users \in [Users -> Seq([pw : Passwords, gen : Nat])]
  BY <1>1 DEF AccTypes
<1>4. "done" \in Pcs \ Unopened /\ Place(r, "done", acall[r].user) /\ v \in Users
  BY <1>1, AccountsAssumption DEF Place, Pcs, Unopened, AccTypes, Victim
<1> HIDE DEF v
<1>5. /\ session' \in [Tokens -> Users \cup {Nobody}]
      /\ \A t \in Tokens : session[t] # v => session'[t] = session[t]
      /\ \A t \in Tokens : t \notin Spared(r) => session'[t] # v
      /\ \A t \in Tokens : t \in Spared(r) => session'[t] = session[t]
      /\ \A t \in Tokens : session'[t] # session[t] => session'[t] = Nobody
  BY <1>1, <1>2, <1>3, <1>4, AccountsAssumption
<1>6. Base(of)' /\ Moves(r, "done", acall[r].user)
  <2> HIDE DEF Base, Moves, Place, Unopened, Watch, To
  <2> QED
    BY <1>1, <1>2, <1>3, <1>4, <1>5, BaseTo
<1>7. /\ acall'[r].pc = "done" /\ \A q \in AccReqs : q # r => acall'[q] = acall[q]
      /\ \A u \in Users : ~Uses(r, acall'[r], u)
  BY <1>6 DEF Moves, Uses
<1>8. ASSUME NEW u \in Users, UserOk(u), Alone(u)' PROVE UserOk(u)'
  <2>1. CASE u # v
    <3>1. \A t \in Tokens : (session'[t] = u <=> session[t] = u) /\ (cache'[t] = u => cache[t] = u)
      <4>1. Nobody # u
        BY AccountsAssumption
      <4> QED
        BY <1>2, <1>5, <2>1, <4>1
    <3> HIDE DEF Base, Moves, Uses, UserOk, Alone, Watch, To
    <3> QED
      BY <1>1, <1>2, <1>6, <1>7, <1>8, <2>1, <3>1, Elsewhere DEF v
  <2>2. CASE u = v
    <3>1. \A q \in AccReqs : q # r => ~Uses(q, acall[q], u)
      <4>1. Alone(u) /\ Uses(r, acall[r], u)
        BY <1>1, <1>8, <2>2 DEF UserOk, Uses, v, Victim
      <4> HIDE DEF Uses, Alone, Place
      <4> QED
        BY <1>1, <4>1, OneOnly
    <3>2. \A q \in AccReqs : Relies(q, u)'
      BY <1>7, <3>1, UnusedThen
    <3>3. ASSUME NEW t \in Tokens PROVE Sound(t, u)'
      <4>1. Relies(r, u)
        BY <1>8 DEF UserOk
      <4>2. CASE t \notin Spared(r)
        <5>1. cache[t] # u
          BY <1>1, <2>2, <4>1, <4>2 DEF Relies, v
        <5> QED
          BY <1>2, <1>5, <2>2, <4>2, <5>1 DEF Sound
      <4>3. CASE t \in Spared(r)
        <5>1. r.op = "password" /\ t = r.tok /\ acall[r].user = u
          BY <2>2, <4>3 DEF Spared, v, Victim
        <5>2. /\ users[u] # <<>> /\ gen[t] = version[u]
              /\ t \notin expired /\ cache[t] = u => session[t] = u
          BY <1>1, <4>1, <5>1 DEF Relies
        <5> QED
          BY <1>2, <1>5, <4>3, <5>2 DEF Sound
      <4> QED
        BY <4>2, <4>3
    <3> QED
      BY <1>2, <1>8, <3>2, <3>3 DEF UserOk
  <2> QED
    BY <2>1, <2>2
<1> HIDE DEF Base, UserOk, Watch, To, Alone
<1> QED
  BY <1>2, <1>6, <1>8, LoudStep

LEMMA InsertSessionKeeps ==
  ASSUME NEW of, AccInv(of), NEW r \in AccReqs, InsertSession(r, TRUE)
  PROVE  AccInv(of)'
<1> DEFINE v == r.user
<1>1. /\ Base(of) /\ AccTypes /\ Owners(of) /\ acall[r].pc = "insert" /\ Fresh(r)
      /\ \A q \in AccReqs : Place(q, acall[q].pc, acall[q].user)
      /\ \A q \in AccReqs : Fresh(q)
  BY DEF AccInv, Base, InsertSession, AccAt
<1>2. /\ r.op = "login" /\ r \in Tokens /\ v \in Users /\ of[r] = v /\ v # Nobody
  BY <1>1, AccountsAssumption DEF Place, Owners
<1>3. /\ expired' = expired /\ users' = users /\ version' = version /\ gen' = gen /\ cache' = cache
      /\ session' = [session EXCEPT ![r] = v] /\ Watch({}) /\ To(r, "cache")
  BY DEF InsertSession, Unseen
<1>4. /\ cache \in [Tokens -> Users \cup {Nobody}] /\ session \in [Tokens -> Users \cup {Nobody}]
      /\ gen \in [Tokens -> Nat] /\ version \in [Users -> Nat]
      /\ users \in [Users -> Seq([pw : Passwords, gen : Nat])]
  BY <1>1 DEF AccTypes
<1>5. /\ session' \in [Tokens -> Users \cup {Nobody}] /\ session'[r] = v
      /\ \A t \in Tokens : t # r => session'[t] = session[t]
  BY <1>2, <1>3, <1>4
<1>6. /\ session[r] = Nobody /\ cache[r] = Nobody
      /\ \A q \in AccReqs : q.op # "login" /\ q.tok = r => acall[q].user = Nobody
  BY <1>1, <1>2 DEF Fresh, Unopened
<1> DEFINE w == acall[r].user
<1>7. "cache" \in Pcs /\ "cache" \notin Unopened /\ Place(r, "cache", w)
  BY <1>1, <1>2 DEF Place, Pcs, Unopened
<1>8. Moves(r, "cache", w)
  BY <1>1, <1>3, <1>7, ToIs
<1>9. /\ acall'[r].pc = "cache" /\ \A q \in AccReqs : q # r => acall'[q] = acall[q]
  BY <1>8 DEF Moves
<1>10. Base(of)'
  <2>1. AccTypes'
    <3> HIDE DEF w, Moves, Watch, AccTypes
    <3> QED
      BY <1>1, <1>3, <1>4, <1>5, <1>8, TypesStep
  <2>2. \A q \in AccReqs : q.op = "login" /\ acall'[q].pc \in Unopened =>
            /\ acall[q].pc \in Unopened
            /\ session'[q] # session[q] => session'[q] = Nobody
            /\ cache'[q] # cache[q] => cache'[q] = Nobody
            /\ r.op # "login" /\ r.tok = q => w = Nobody
    BY <1>2, <1>3, <1>5, <1>7, <1>9, AccountsAssumption
  <2>3. \A s \in Tokens : /\ session'[s] # session[s] => session'[s] \in {Nobody, of[s]}
                          /\ cache'[s] # cache[s] => cache'[s] \in {Nobody, of[s]}
    BY <1>2, <1>3, <1>5
  <2>4. r.op = "login" \/ w \in {Nobody, of[r.tok]}
    BY <1>2
  <2>5. expired \subseteq expired'
    BY <1>3
  <2> HIDE DEF Base, Moves, Place, Unopened, Watch, To, w, AccTypes, v
  <2> QED
    BY <1>1, <1>7, <1>8, <2>1, <2>2, <2>3, <2>4, <2>5, BaseStep
<1>11. ASSUME NEW u \in Users, UserOk(u), Alone(u)' PROVE UserOk(u)'
  <2>1. u # Nobody
    BY AccountsAssumption
  <2>2. CASE u # v
    <3>1. ~Uses(r, acall'[r], u) /\ ~(acall[r].pc \in {"revoke", "revokerows"} /\ Victim(r) = u)
      BY <1>1, <1>9, <2>2 DEF Uses
    <3>2. \A s \in Tokens : (session'[s] = u <=> session[s] = u) /\ (cache'[s] = u => cache[s] = u)
      BY <1>3, <1>5, <1>6, <2>1, <2>2
    <3> HIDE DEF Base, Moves, Uses, UserOk, Alone, Watch, To, w, v
    <3> QED
      BY <1>1, <1>3, <1>8, <1>10, <1>11, <3>1, <3>2, Elsewhere
  <2>3. CASE u = v
    <3>1. Relies(r, u)
      BY <1>11 DEF UserOk
    <3>2. users[u] # <<>> /\ gen[r] = version[u]
      BY <1>1, <2>3, <3>1 DEF Relies
    <3>3. Mid(u)' <=> Mid(u)
      BY <1>1, <1>9 DEF Mid, Victim
    <3>4. ASSUME ~Mid(u)', NEW s \in Tokens PROVE Sound(s, u)'
      <4>1. Sound(s, u)
        BY <1>11, <3>3, <3>4 DEF UserOk
      <4> QED
        BY <1>3, <1>5, <2>3, <3>2, <4>1 DEF Sound
    <3>5. ASSUME NEW q \in AccReqs PROVE Relies(q, u)'
      <4>1. CASE q = r
        BY <1>3, <1>5, <1>9, <2>3, <3>2, <4>1 DEF Relies
      <4>2. CASE q # r
        <5>1. Relies(q, u) /\ acall'[q] = acall[q] /\ Place(q, acall[q].pc, acall[q].user)
          BY <1>1, <1>9, <1>11, <4>2 DEF UserOk
        <5>2. q.op # "login" /\ acall[q].user # Nobody => q.tok # r
          BY <1>6
        <5>3. q.op = "login" => q \in Tokens
          BY AccountsAssumption
        <5>4. q.op # "login" => q.tok \in Tokens
          BY AccountsAssumption
        <5>5. acall[q].pc \in {"keep", "delete", "revoke", "revokerows"} =>
                q.op # "login" /\ acall[q].user # Nobody
          BY <5>1 DEF Place
        <5>6. acall[q].pc \in {"purge", "insert", "cache"} => q.op = "login"
          BY <5>1 DEF Place
        <5>7. q.op = "login" => session'[q] = session[q]
          BY <1>5, <4>2, <5>3
        <5>8. q.op # "login" /\ acall[q].user # Nobody => session'[q.tok] = session[q.tok]
          BY <1>5, <5>2, <5>4
        <5> QED
          BY <1>3, <5>1, <5>5, <5>6, <5>7, <5>8 DEF Relies, Victim, Spared
      <4> QED
        BY <4>1, <4>2
    <3> QED
      BY <1>3, <1>11, <3>4, <3>5 DEF UserOk
  <2> QED
    BY <2>2, <2>3
<1> HIDE DEF Base, UserOk, Watch, To, Alone
<1> QED
  BY <1>3, <1>10, <1>11, LoudStep

\* The rows of a user are replaced, and those of nobody else.
LEMMA RowsAt ==
  ASSUME users \in [Users -> Seq([pw : Passwords, gen : Nat])], NEW v \in Users,
         NEW l \in Seq([pw : Passwords, gen : Nat]), users' = [users EXCEPT ![v] = l]
  PROVE  /\ users' \in [Users -> Seq([pw : Passwords, gen : Nat])] /\ users'[v] = l
         /\ \A u \in Users : u # v => users'[u] = users[u]
<1> DEFINE R == Seq([pw : Passwords, gen : Nat])
<1>1. users \in [Users -> R] /\ l \in R
  OBVIOUS
<1> HIDE DEF R
<1>2. /\ users' \in [Users -> R] /\ users'[v] = l
      /\ \A u \in Users : u # v => users'[u] = users[u]
  BY <1>1
<1> QED
  BY <1>2 DEF R

\* A step by which r alone changes user v, and no session.
LEMMA ChangeUser ==
  ASSUME NEW of, AccInv(of), NEW r \in AccReqs, r.op # "login", NEW pc \in {"revoke", "done"}, To(r, pc),
         NEW v \in Users, acall[r].pc \in {"update", "unuser", "newuser"},
         acall[r].pc = "update" => v = acall[r].user, acall[r].pc # "update" => v = r.user,
         UNCHANGED <<session, cache, expired>>, Watch({}), Place(r, pc, acall[r].user),
         users' \in [Users -> Seq([pw : Passwords, gen : Nat])],
         gen' \in [Tokens -> Nat], version' \in [Users -> Nat],
         \A u \in Users : u # v => users'[u] = users[u] /\ version'[u] = version[u],
         \A t \in Tokens : gen'[t] # gen[t] => of[t] = v,
         pc = "revoke" => v = Victim(r),
         UserOk(v) => Relies(r, v)',
         UserOk(v) => \A n \in DOMAIN users'[v] : users'[v][n].gen = version'[v],
         UserOk(v) /\ pc = "done" => users[v] = <<>>
  PROVE  AccInv(of)'
<1>1. /\ Base(of) /\ AccTypes /\ \A q \in AccReqs : Place(q, acall[q].pc, acall[q].user)
  BY DEF AccInv, Base
<1>2. pc \in Pcs \ Unopened
  BY DEF Pcs, Unopened
<1>3. session \in [Tokens -> Users \cup {Nobody}]
  BY <1>1 DEF AccTypes
<1>4. Base(of)' /\ Moves(r, pc, acall[r].user)
  <2>1. session' \in [Tokens -> Users \cup {Nobody}]
        /\ \A t \in Tokens : session'[t] # session[t] => session'[t] = Nobody
    BY <1>3
  <2> HIDE DEF Base, Moves, Place, Unopened, Watch, To
  <2> QED
    BY <1>1, <1>2, <2>1, BaseTo
<1>5. /\ acall'[r].pc = pc /\ acall'[r].user = acall[r].user
      /\ \A q \in AccReqs : q # r => acall'[q] = acall[q]
  BY <1>4 DEF Moves
<1>6. ASSUME NEW u \in Users, UserOk(u), Alone(u)' PROVE UserOk(u)'
  <2>1. CASE u # v
    <3>1. ~Uses(r, acall'[r], u) /\ ~(acall[r].pc \in {"revoke", "revokerows"} /\ Victim(r) = u)
      BY <1>5, <2>1 DEF Uses, Victim
    <3>2. /\ users'[u] = users[u] /\ version'[u] = version[u]
          /\ \A t \in Tokens : of[t] = u => gen'[t] = gen[t]
          /\ \A t \in Tokens : (session'[t] = u <=> session[t] = u) /\ (cache'[t] = u => cache[t] = u)
      BY <2>1
    <3>3. expired' = expired
      OBVIOUS
    <3> HIDE DEF Base, Moves, Uses, UserOk, Alone, Watch, To, Place
    <3> QED
      BY <1>1, <1>4, <1>6, <3>1, <3>2, <3>3, Elsewhere
  <2>2. CASE u = v
    <3>1. \A q \in AccReqs : q # r => ~Uses(q, acall[q], u)
      <4>1. Alone(u) /\ (Uses(r, acall[r], u) \/ (acall[r].pc = "unuser" /\ r.user = u))
        BY <1>6, <2>2 DEF UserOk, Uses
      <4> HIDE DEF Uses, Alone, Place, Base
      <4> QED
        BY <1>1, <4>1, OneOnly
    <3>2. \A q \in AccReqs : Relies(q, u)'
      BY <1>5, <1>6, <2>2, <3>1, UnusedThen
    <3>3. ASSUME ~Mid(u)', NEW t \in Tokens PROVE Sound(t, u)'
      <4>1. pc = "done"
        BY <1>5, <2>2, <3>3 DEF Mid, Victim
      <4>2. ~Mid(u)
        BY <3>1 DEF Mid, Uses, Victim
      <4>3. Sound(t, u) /\ users[u] = <<>>
        BY <1>6, <2>2, <4>1, <4>2 DEF UserOk
      <4> QED
        BY <4>3 DEF Sound
    <3> QED
      BY <1>6, <2>2, <3>2, <3>3 DEF UserOk
  <2> QED
    BY <2>1, <2>2
<1> HIDE DEF Base, UserOk, Watch, To, Alone
<1> QED
  BY <1>4, <1>6, LoudStep

LEMMA UpdateUserKeeps ==
  ASSUME NEW of, AccInv(of), NEW r \in AccReqs, UpdateUser(r, TRUE)
  PROVE  AccInv(of)'
<1>0. PICK v : v = acall[r].user
  OBVIOUS
<1> DEFINE put == Row(r.new, version[v] + 1)
           l == [n \in DOMAIN users[v] |-> put]
<1>1. /\ AccTypes /\ Owners(of) /\ acall[r].pc = "update" /\ r.op = "password" /\ v # Nobody
      /\ Place(r, acall[r].pc, acall[r].user)
  BY <1>0 DEF AccInv, Base, UpdateUser, AccAt, Place
<1>2. r.tok \in Tokens /\ r.new \in Passwords /\ v \in Users /\ of[r.tok] = v
  BY <1>0, <1>1, AccountsAssumption DEF AccTypes, Owners
<1>3. /\ users' = [users EXCEPT ![v] = l] /\ version' = [version EXCEPT ![v] = @ + 1]
      /\ gen' = [gen EXCEPT ![r.tok] = version[v] + 1]
      /\ UNCHANGED <<session, cache, expired>> /\ Watch({}) /\ To(r, "revoke")
  BY <1>0 DEF UpdateUser
<1>4. /\ gen \in [Tokens -> Nat] /\ version \in [Users -> Nat]
      /\ users \in [Users -> Seq([pw : Passwords, gen : Nat])]
  BY <1>1 DEF AccTypes
<1>5. version[v] \in Nat /\ version[v] + 1 \in Nat
  BY <1>2, <1>4
<1>6. /\ version' \in [Users -> Nat] /\ version'[v] = version[v] + 1
      /\ \A u \in Users : u # v => version'[u] = version[u]
      /\ gen' \in [Tokens -> Nat] /\ gen'[r.tok] = version[v] + 1
      /\ \A t \in Tokens : t # r.tok => gen'[t] = gen[t]
  <2> DEFINE n == version[v] + 1
  <2>1. /\ version' = [version EXCEPT ![v] = n] /\ gen' = [gen EXCEPT ![r.tok] = n] /\ n \in Nat
    BY <1>3, <1>5
  <2> HIDE DEF n
  <2>2. /\ version' \in [Users -> Nat] /\ version'[v] = n
        /\ \A u \in Users : u # v => version'[u] = version[u]
        /\ gen' \in [Tokens -> Nat] /\ gen'[r.tok] = n
        /\ \A t \in Tokens : t # r.tok => gen'[t] = gen[t]
    BY <1>2, <1>4, <2>1
  <2> QED
    BY <2>2 DEF n
<1>7. /\ l \in Seq([pw : Passwords, gen : Nat]) /\ DOMAIN l = DOMAIN users[v]
      /\ \A n \in DOMAIN l : l[n].gen = version'[v]
      /\ l = <<>> => users[v] = <<>>
  <2> DEFINE R == [pw : Passwords, gen : Nat]
             old == users[v]
  <2>1. put \in R /\ put.gen = version'[v]
    BY <1>2, <1>5, <1>6 DEF Row
  <2>2. old \in Seq(R)
    BY <1>2, <1>4
  <2>3. l = [n \in DOMAIN old |-> put]
    OBVIOUS
  <2> HIDE DEF R, put, old, l
  <2>4. Len(old) \in Nat /\ DOMAIN old = 1 .. Len(old)
    BY <2>2
  <2>5. l \in [1 .. Len(old) -> R]
    BY <2>1, <2>3, <2>4
  <2>6. l \in Seq(R) /\ Len(l) = Len(old)
    BY <2>4, <2>5
  <2>7. l = <<>> => old = <<>>
    BY <2>2, <2>6
  <2>8. DOMAIN l = DOMAIN old /\ \A n \in DOMAIN l : l[n].gen = version'[v]
    BY <2>1, <2>3
  <2> QED
    BY <2>6, <2>7, <2>8 DEF R, old
<1> HIDE DEF l, put
<1>8. /\ users' \in [Users -> Seq([pw : Passwords, gen : Nat])] /\ users'[v] = l
      /\ \A u \in Users : u # v => users'[u] = users[u]
  <2> QED
    BY <1>2, <1>3, <1>4, <1>7, RowsAt
<1>9. Place(r, "revoke", acall[r].user) /\ "revoke" \in Pcs
  BY <1>1 DEF Place, Pcs
<1>10. Moves(r, "revoke", acall[r].user)
  BY <1>1, <1>3, <1>9, ToIs
<1>11. ASSUME UserOk(v) PROVE Relies(r, v)'
  <2>1. Relies(r, v) /\ Alone(v)
    BY <1>2, <1>11 DEF UserOk
  <2>2. users[v] # <<>>
    BY <1>0, <1>1, <2>1 DEF Relies
  <2>3. users'[v] # <<>>
    BY <1>7, <1>8, <2>2
  <2>4. ~Mid(v)
    <3>1. Uses(r, acall[r], v)
      BY <1>0, <1>1 DEF Uses
    <3>2. \A q \in AccReqs : Place(q, acall[q].pc, acall[q].user)
      BY DEF AccInv, Base
    <3>3. \A q \in AccReqs : q # r => ~Uses(q, acall[q], v)
      <4> HIDE DEF Uses, Alone, Place
      <4> QED
        BY <1>1, <1>2, <2>1, <3>1, <3>2, OneOnly
    <3> QED
      BY <1>1, <3>3 DEF Mid, Uses, Victim
  <2>5. Sound(r.tok, v)
    BY <1>2, <1>11, <2>4 DEF UserOk
  <2>6. r.tok \notin expired' /\ cache'[r.tok] = v => session'[r.tok] = v
    BY <1>3, <2>5 DEF Sound
  <2>7. gen'[r.tok] = version'[v]
    BY <1>6
  <2>8. acall'[r].pc = "revoke" /\ acall'[r].user = v
    BY <1>0, <1>10 DEF Moves
  <2> QED
    BY <2>3, <2>6, <2>7, <2>8 DEF Relies
<1>12. /\ UNCHANGED <<session, cache, expired>>
       /\ acall[r].pc = "update" => v = acall[r].user
       /\ acall[r].pc # "update" => v = r.user
       /\ v = Victim(r)
       /\ \A t \in Tokens : gen'[t] # gen[t] => of[t] = v
       /\ r.op # "login"
       /\ \A u \in Users : u # v => users'[u] = users[u] /\ version'[u] = version[u]
  BY <1>0, <1>1, <1>2, <1>3, <1>6, <1>7, <1>8 DEF Victim
<1>14. /\ UserOk(v) => Relies(r, v)'
       /\ UserOk(v) => \A n \in DOMAIN users'[v] : users'[v][n].gen = version'[v]
       /\ UserOk(v) /\ "revoke" = "done" => users[v] = <<>>
  BY <1>7, <1>8, <1>11
<1>13. /\ To(r, "revoke") /\ Watch({}) /\ acall[r].pc \in {"update", "unuser", "newuser"} /\ v \in Users
       /\ Place(r, "revoke", acall[r].user)
       /\ users' \in [Users -> Seq([pw : Passwords, gen : Nat])]
       /\ gen' \in [Tokens -> Nat] /\ version' \in [Users -> Nat]
  BY <1>1, <1>2, <1>3, <1>6, <1>8, <1>9
<1> HIDE DEF AccInv, Watch, To, Place, UserOk, Relies
<1> QED
  BY <1>12, <1>13, <1>14, ChangeUser

LEMMA DeleteUserKeeps ==
  ASSUME NEW of, AccInv(of), NEW r \in AccReqs, DeleteUser(r, TRUE)
  PROVE  AccInv(of)'
<1> DEFINE v == r.user
<1>1. /\ AccTypes /\ acall[r].pc = "unuser" /\ r.op = "removeuser" /\ v \in Users
      /\ Place(r, acall[r].pc, acall[r].user)
  BY AccountsAssumption DEF AccInv, Base, DeleteUser, AccAt, Place
<1>2. /\ users' = [users EXCEPT ![v] = <<>>] /\ version' = version /\ gen' = gen
      /\ UNCHANGED <<session, cache, expired>> /\ Watch({}) /\ To(r, "revoke")
  BY DEF DeleteUser, Unseen
<1>3. /\ gen \in [Tokens -> Nat] /\ version \in [Users -> Nat]
      /\ users \in [Users -> Seq([pw : Passwords, gen : Nat])]
      /\ <<>> \in Seq([pw : Passwords, gen : Nat])
  <2> DEFINE R == [pw : Passwords, gen : Nat]
  <2> HIDE DEF R
  <2>1. <<>> \in Seq(R)
    OBVIOUS
  <2> QED
    BY <1>1, <2>1 DEF R, AccTypes
<1>4. /\ users' \in [Users -> Seq([pw : Passwords, gen : Nat])] /\ users'[v] = <<>>
      /\ \A u \in Users : u # v => users'[u] = users[u]
  BY <1>1, <1>2, <1>3, RowsAt
<1>5. Place(r, "revoke", acall[r].user) /\ "revoke" \in Pcs
  BY <1>1 DEF Place, Pcs
<1>6. Moves(r, "revoke", acall[r].user)
  BY <1>1, <1>2, <1>5, ToIs
<1>7. Relies(r, v)'
  BY <1>1, <1>6 DEF Moves, Relies
<1>10. UserOk(v) => /\ Relies(r, v)'
                    /\ \A n \in DOMAIN users'[v] : users'[v][n].gen = version'[v]
                    /\ "revoke" = "done" => users[v] = <<>>
  BY <1>4, <1>7
<1>8. /\ \A u \in Users : u # v => users'[u] = users[u] /\ version'[u] = version[u]
      /\ gen' \in [Tokens -> Nat] /\ version' \in [Users -> Nat]
      /\ \A t \in Tokens : gen'[t] # gen[t] => of[t] = v
      /\ acall[r].pc = "update" => v = acall[r].user
      /\ acall[r].pc # "update" => v = r.user
      /\ v = Victim(r)
      /\ r.op # "login"
  BY <1>1, <1>2, <1>3, <1>4 DEF Victim
<1>9. /\ UNCHANGED <<session, cache, expired>>
      /\ To(r, "revoke") /\ Watch({}) /\ acall[r].pc \in {"update", "unuser", "newuser"} /\ v \in Users
  BY <1>1, <1>2
<1> HIDE DEF v, AccInv, Watch, To, Place, UserOk, Relies
<1> QED
  BY <1>4, <1>5, <1>8, <1>9, <1>10, ChangeUser

LEMMA InsertUserKeeps ==
  ASSUME NEW of, AccInv(of), NEW r \in AccReqs, InsertUser(r, TRUE)
  PROVE  AccInv(of)'
<1> DEFINE v == r.user
           put == Row(r.pw, version[v] + 1)
           l == Append(users[v], put)
<1>1. /\ AccTypes /\ Owners(of) /\ acall[r].pc = "newuser" /\ r.op = "adduser"
      /\ v \in Users /\ r.pw \in Passwords /\ Place(r, acall[r].pc, acall[r].user)
  BY AccountsAssumption DEF AccInv, Base, InsertUser, AccAt, Place
<1>2. /\ users' = [users EXCEPT ![v] = l] /\ version' = [version EXCEPT ![v] = @ + 1] /\ gen' = gen
      /\ UNCHANGED <<session, cache, expired>> /\ Watch({}) /\ To(r, "done")
  BY DEF InsertUser
<1>3. /\ gen \in [Tokens -> Nat] /\ version \in [Users -> Nat]
      /\ users \in [Users -> Seq([pw : Passwords, gen : Nat])]
  BY <1>1 DEF AccTypes
<1>4. /\ version' \in [Users -> Nat] /\ version'[v] = version[v] + 1 /\ version[v] + 1 \in Nat
      /\ \A u \in Users : u # v => version'[u] = version[u]
  BY <1>1, <1>2, <1>3
<1>5. l \in Seq([pw : Passwords, gen : Nat]) /\ (users[v] = <<>> => \A n \in DOMAIN l : l[n] = put)
  <2> DEFINE R == [pw : Passwords, gen : Nat]
             old == users[v]
  <2>1. put \in R
    BY <1>1, <1>4 DEF Row
  <2>2. old \in Seq(R)
    BY <1>1, <1>3
  <2> HIDE DEF R, put, old
  <2>3. /\ Append(old, put) \in Seq(R)
        /\ old = <<>> => \A n \in DOMAIN Append(old, put) : Append(old, put)[n] = put
    BY <2>1, <2>2
  <2> QED
    BY <2>3 DEF R, old
<1>6. put.gen = version'[v]
  BY <1>4 DEF Row
<1> HIDE DEF l, put
<1>7. /\ users' \in [Users -> Seq([pw : Passwords, gen : Nat])] /\ users'[v] = l
      /\ \A u \in Users : u # v => users'[u] = users[u]
  BY <1>1, <1>2, <1>3, <1>5, RowsAt
<1>8. Place(r, "done", acall[r].user) /\ "done" \in Pcs
  BY <1>1 DEF Place, Pcs
<1>9. Moves(r, "done", acall[r].user)
  BY <1>1, <1>2, <1>8, ToIs
<1>10. Relies(r, v)'
  BY <1>9 DEF Moves, Relies
<1>11. UserOk(v) => /\ Relies(r, v)'
                    /\ \A n \in DOMAIN users'[v] : users'[v][n].gen = version'[v]
                    /\ "done" = "done" => users[v] = <<>>
  <2> SUFFICES ASSUME UserOk(v)
               PROVE  /\ users[v] = <<>>
                      /\ \A n \in DOMAIN users'[v] : users'[v][n].gen = version'[v]
    BY <1>10
  <2>1. users[v] = <<>>
    BY <1>1 DEF UserOk, Relies
  <2> QED
    BY <1>5, <1>6, <1>7, <2>1
<1>12. /\ \A u \in Users : u # v => users'[u] = users[u] /\ version'[u] = version[u]
       /\ gen' \in [Tokens -> Nat]
       /\ \A t \in Tokens : gen'[t] # gen[t] => of[t] = v
       /\ acall[r].pc = "update" => v = acall[r].user
       /\ acall[r].pc # "update" => v = r.user
       /\ r.op # "login"
  BY <1>1, <1>2, <1>3, <1>4, <1>7
<1>13. /\ UNCHANGED <<session, cache, expired>>
       /\ To(r, "done") /\ Watch({}) /\ acall[r].pc \in {"update", "unuser", "newuser"} /\ v \in Users
  BY <1>1, <1>2
<1> HIDE DEF v, AccInv, Watch, To, Place, UserOk, Relies
<1> QED
  BY <1>4, <1>7, <1>8, <1>11, <1>12, <1>13, ChangeUser

-----------------------------------------------------------------------------
(* Time, and the process's end.                                            *)

\* A step of which the accounts see no more than that time has passed.
LEMMA ExpireKeeps ==
  ASSUME NEW of, AccInv(of), UNCHANGED <<users, session, cache, acall, gen, version, clean>>,
         expired \subseteq expired', expired' \in SUBSET Tokens
  PROVE  AccInv(of)'
<1>1. Base(of)
  BY DEF AccInv
<1>2. Base(of)'
  <2>1. AccTypes'
    BY <1>1 DEF Base, AccTypes
  <2>2. Owners(of)'
    BY <1>1 DEF Base, Owners
  <2>3. \A r \in AccReqs : Place(r, acall[r].pc, acall[r].user)'
    BY <1>1 DEF Base, Place
  <2>4. \A r \in AccReqs : Fresh(r)'
    BY <1>1 DEF Base, Fresh
  <2> QED
    BY <2>1, <2>2, <2>3, <2>4 DEF Base
<1>3. ASSUME NEW u \in Users, UserOk(u) PROVE UserOk(u)'
  <2>1. Alone(u)'
    BY <1>3 DEF UserOk, Alone, Open, About, Changing
  <2>2. Mid(u)' <=> Mid(u)
    BY DEF Mid, Victim
  <2>3. ASSUME ~Mid(u)', NEW t \in Tokens PROVE Sound(t, u)'
    BY <1>3, <2>2, <2>3 DEF UserOk, Sound
  <2>4. ASSUME NEW q \in AccReqs PROVE Relies(q, u)'
    <3>1. Relies(q, u)
      BY <1>3 DEF UserOk
    <3> QED
      BY <3>1 DEF Relies, Victim, Spared
  <2> QED
    BY <1>3, <2>1, <2>3, <2>4 DEF UserOk
<1> QED
  BY <1>2, <1>3 DEF AccInv

LEMMA AccRestartKeeps ==
  ASSUME NEW of, AccInv(of), AccRestart
  PROVE  AccInv(of)'
<1> DEFINE back == users[Admin] = <<>>
           l == <<Row(DefaultPw, version[Admin] + 1)>>
<1>1. /\ Base(of) /\ AccTypes /\ Owners(of) /\ Admin \in Users /\ DefaultPw \in Passwords
      /\ \A q \in AccReqs : Place(q, acall[q].pc, acall[q].user) /\ Fresh(q)
  BY AccountsAssumption DEF AccInv, Base
<1>2. /\ cache' = [t \in Tokens |-> Nobody]
      /\ acall' = [r \in AccReqs |-> IF acall[r].pc \in {"never", "due"} THEN acall[r]
                                     ELSE [acall[r] EXCEPT !.pc = "done"]]
      /\ users' = IF back THEN [users EXCEPT ![Admin] = l] ELSE users
      /\ version' = IF back THEN [version EXCEPT ![Admin] = @ + 1] ELSE version
      /\ clean' = [u \in Users |-> clean[u] /\ \A r \in Open : u \notin About(r)]
      /\ session' = session /\ expired' = expired /\ gen' = gen
  BY DEF AccRestart
<1>3. /\ acall \in [AccReqs -> [pc : Pcs, user : Users \cup {Nobody}]]
      /\ users \in [Users -> Seq([pw : Passwords, gen : Nat])] /\ version \in [Users -> Nat]
      /\ session \in [Tokens -> Users \cup {Nobody}] /\ gen \in [Tokens -> Nat]
      /\ expired \in SUBSET Tokens
  BY <1>1 DEF AccTypes
<1>4. /\ version' \in [Users -> Nat] /\ version[Admin] + 1 \in Nat
      /\ back => version'[Admin] = version[Admin] + 1
      /\ \A u \in Users : ~(back /\ u = Admin) => version'[u] = version[u]
  <2> DEFINE n == version[Admin] + 1
  <2>1. version' = (IF back THEN [version EXCEPT ![Admin] = n] ELSE version) /\ n \in Nat
    BY <1>1, <1>2, <1>3
  <2> HIDE DEF n, back
  <2> QED
    BY <1>1, <1>3, <2>1 DEF n
<1>5. l \in Seq([pw : Passwords, gen : Nat]) /\ \A n \in DOMAIN l : l[n].gen = version[Admin] + 1
  <2> DEFINE R == [pw : Passwords, gen : Nat]
             put == Row(DefaultPw, version[Admin] + 1)
  <2>1. put \in R /\ put.gen = version[Admin] + 1
    BY <1>1, <1>4 DEF Row
  <2> HIDE DEF R, put
  <2>2. <<put>> \in Seq(R) /\ \A n \in DOMAIN <<put>> : <<put>>[n] = put
    BY <2>1
  <2> QED
    BY <2>1, <2>2 DEF R, put
<1>6. /\ users' \in [Users -> Seq([pw : Passwords, gen : Nat])]
      /\ back => users'[Admin] = l
      /\ \A u \in Users : ~(back /\ u = Admin) => users'[u] = users[u]
  <2> HIDE DEF l
  <2>1. CASE back
    <3>1. users' = [users EXCEPT ![Admin] = l]
      BY <1>2, <2>1
    <3>2. /\ users' \in [Users -> Seq([pw : Passwords, gen : Nat])] /\ users'[Admin] = l
          /\ \A u \in Users : u # Admin => users'[u] = users[u]
      BY <1>1, <1>3, <1>5, <3>1, RowsAt
    <3> QED
      BY <2>1, <3>2
  <2>2. CASE ~back
    BY <1>2, <1>3, <2>2
  <2> QED
    BY <2>1, <2>2
<1> HIDE DEF l, back
<1>7. /\ acall' \in [AccReqs -> [pc : Pcs, user : Users \cup {Nobody}]]
      /\ \A r \in AccReqs : /\ acall[r].pc \in {"never", "due"} => acall'[r].pc = acall[r].pc
                            /\ acall[r].pc \notin {"never", "due"} => acall'[r].pc = "done"
                            /\ acall'[r].user = acall[r].user
  <2>1. "done" \in Pcs
    BY DEF Pcs
  <2> HIDE DEF Pcs
  <2> QED
    BY <1>2, <1>3, <2>1
<1>8. /\ cache' \in [Tokens -> Users \cup {Nobody}] /\ \A t \in Tokens : cache'[t] = Nobody
      /\ clean' \in [Users -> BOOLEAN]
      /\ \A u \in Users : clean'[u] => clean[u] /\ \A r \in Open : u \notin About(r)
  BY <1>2
<1>9. Base(of)'
  <2>1. AccTypes'
    BY <1>2, <1>3, <1>4, <1>6, <1>7, <1>8 DEF AccTypes
  <2>2. Owners(of)'
    BY <1>1, <1>2, <1>7, <1>8 DEF Owners
  <2>3. \A q \in AccReqs : Place(q, acall'[q].pc, acall'[q].user)
    BY <1>1, <1>7 DEF Place
  <2>4. \A q \in AccReqs : Place(q, acall[q].pc, acall[q].user)'
    BY <1>2, <2>3 DEF Place
  <2>5. ASSUME NEW q \in AccReqs PROVE Fresh(q)'
    <3> SUFFICES ASSUME q.op = "login", acall'[q].pc \in Unopened
                 PROVE  /\ session'[q] = Nobody /\ cache'[q] = Nobody
                        /\ \A p \in AccReqs : p.op # "login" /\ p.tok = q => acall'[p].user = Nobody
      BY DEF Fresh
    <3>1. acall[q].pc \in Unopened /\ q \in Tokens
      BY <1>7, AccountsAssumption DEF Unopened
    <3>2. Fresh(q)
      BY <1>1
    <3>3. /\ session[q] = Nobody /\ cache[q] = Nobody
          /\ \A p \in AccReqs : p.op # "login" /\ p.tok = q => acall[p].user = Nobody
      BY <3>1, <3>2 DEF Fresh
    <3> QED
      BY <1>2, <1>7, <1>8, <3>1, <3>3
  <2> QED
    BY <2>1, <2>2, <2>4, <2>5 DEF Base
<1>10. \A q \in AccReqs : acall'[q].pc \in {"never", "due", "done"}
  BY <1>7
<1>11. ASSUME NEW u \in Users, clean'[u] PROVE UserOk(u)'
  <2>1. clean[u] /\ UserOk(u) /\ \A r \in Open : u \notin About(r)
    BY <1>8, <1>11 DEF AccInv
  <2>2. ~Mid(u)
    <3>1. ASSUME NEW c \in AccReqs, acall[c].pc \in {"revoke", "revokerows"}, Victim(c) = u PROVE FALSE
      BY <1>1, <2>1, <3>1, AboutIs
    <3> QED
      BY <3>1 DEF Mid
  <2>3. Alone(u)'
    BY <1>10 DEF Alone, Open, Resting
  <2>4. ASSUME NEW t \in Tokens PROVE Sound(t, u)'
    <3>1. Sound(t, u)
      BY <2>1, <2>2 DEF UserOk
    <3>2. u # Nobody
      BY AccountsAssumption
    <3>3. t \notin expired /\ session[t] = u => ~(back /\ u = Admin)
      BY <3>1 DEF Sound, back
    <3> QED
      BY <1>2, <1>4, <1>6, <1>8, <3>1, <3>2, <3>3 DEF Sound
  <2>5. \A n \in DOMAIN users'[u] : users'[u][n].gen = version'[u]
    <3>1. CASE back /\ u = Admin
      BY <1>4, <1>5, <1>6, <3>1
    <3>2. CASE ~(back /\ u = Admin)
      BY <1>4, <1>6, <2>1, <3>2 DEF UserOk
    <3> QED
      BY <3>1, <3>2
  <2>6. ASSUME NEW q \in AccReqs PROVE Relies(q, u)'
    BY <1>10 DEF Relies
  <2> QED
    BY <2>3, <2>4, <2>5, <2>6 DEF UserOk
<1> QED
  BY <1>9, <1>11 DEF AccInv

-----------------------------------------------------------------------------
(* The invariant, and the property.                                        *)

LEMMA AccInvInitially ==
  ASSUME ApiInit
  PROVE  \E of : AccInv(of)
<1> PICK s \in Cases : AccInit(s.acc, s.open)
  BY DEF ApiInit
<1> DEFINE of == [t \in Tokens |-> IF t \in AccReqs /\ t.op = "login" THEN t.user ELSE s.open[t]]
<1>1. s.open \in [Tokens -> Users \cup {Nobody}] /\ \A r \in AccReqs : r.op = "login" => s.open[r] = Nobody
  BY ApiAssumption
<1>2. /\ \A r \in AccReqs : r.user \in Users
      /\ \A r \in AccReqs : r.op = "login" => r \in Tokens
      /\ \A r \in AccReqs : r.op # "login" => r.tok \in Tokens
      /\ Nobody \notin Users /\ DefaultPw \in Passwords
  BY AccountsAssumption
<1>3. /\ session = s.open /\ \A t \in Tokens : cache[t] = Nobody
      /\ cache \in [Tokens -> Users \cup {Nobody}] /\ expired = {}
      /\ gen = [t \in Tokens |-> 1] /\ version = [u \in Users |-> 1]
      /\ clean = [u \in Users |-> TRUE]
  BY DEF AccInit
<1>4. \A r \in AccReqs : acall[r].pc \in {"never", "due"} /\ acall[r].user = Nobody
  BY DEF AccInit, NotCalled
<1>5. acall \in [AccReqs -> [pc : Pcs, user : Users \cup {Nobody}]]
  BY DEF AccInit, NotCalled, Pcs
<1> DEFINE l == <<Row(DefaultPw, 1)>>
<1>6. /\ l \in Seq([pw : Passwords, gen : Nat]) /\ <<>> \in Seq([pw : Passwords, gen : Nat])
      /\ l # <<>> /\ \A n \in DOMAIN l : l[n].gen = 1
  <2> DEFINE R == [pw : Passwords, gen : Nat]
             put == Row(DefaultPw, 1)
  <2>1. put \in R /\ put.gen = 1
    BY <1>2 DEF Row
  <2> HIDE DEF R, put
  <2>2. <<put>> \in Seq(R) /\ <<>> \in Seq(R) /\ <<put>> # <<>>
        /\ \A n \in DOMAIN <<put>> : <<put>>[n] = put
    BY <2>1
  <2> QED
    BY <2>1, <2>2 DEF R, put
<1>7. users = [u \in Users |-> IF u = Admin \/ \E t \in Tokens : s.open[t] = u THEN l ELSE <<>>]
  BY DEF AccInit
<1> HIDE DEF l
<1>8. /\ users \in [Users -> Seq([pw : Passwords, gen : Nat])]
      /\ \A u \in Users : \A n \in DOMAIN users[u] : users[u][n].gen = 1
      /\ \A u \in Users, t \in Tokens : s.open[t] = u => users[u] # <<>>
  <2> DEFINE R == Seq([pw : Passwords, gen : Nat])
  <2>1. l \in R /\ <<>> \in R
    BY <1>6
  <2> HIDE DEF R
  <2>2. users \in [Users -> R] /\ \A u \in Users : users[u] = l \/ users[u] = <<>>
    BY <1>7, <2>1
  <2>3. \A u \in Users, t \in Tokens : s.open[t] = u => users[u] # <<>>
    BY <1>6, <1>7
  <2>4. \A u \in Users : \A n \in DOMAIN users[u] : users[u][n].gen = 1
    BY <1>6, <2>2
  <2> QED
    BY <2>2, <2>3, <2>4 DEF R
<1>9. /\ of \in [Tokens -> Users \cup {Nobody}]
      /\ \A r \in AccReqs : r.op = "login" => of[r] = r.user
      /\ \A t \in Tokens : s.open[t] \in {Nobody, of[t]}
  BY <1>1, <1>2
<1> HIDE DEF of
<1>10. AccTypes
  BY <1>1, <1>3, <1>5, <1>8 DEF AccTypes
<1>11. Owners(of)
  BY <1>3, <1>4, <1>9 DEF Owners
<1>12. ASSUME NEW r \in AccReqs PROVE Place(r, acall[r].pc, acall[r].user) /\ Fresh(r)
  BY <1>1, <1>2, <1>3, <1>4 DEF Place, Fresh
<1>13. ASSUME NEW u \in Users PROVE UserOk(u)
  <2>1. Alone(u)
    BY <1>4 DEF Alone, Open, Resting
  <2>2. ASSUME NEW t \in Tokens PROVE Sound(t, u)
    BY <1>2, <1>3, <1>8 DEF Sound
  <2>3. ASSUME NEW q \in AccReqs PROVE Relies(q, u)
    BY <1>4 DEF Relies
  <2> QED
    BY <1>3, <1>8, <2>1, <2>2, <2>3 DEF UserOk
<1> QED
  BY <1>10, <1>11, <1>12, <1>13 DEF AccInv, Base

\* Who owns a token is settled once.
LEMMA AccInvKept ==
  ASSUME NEW of, AccInv(of), [ApiNext]_apivars
  PROVE  AccInv(of)'
<1>1. expired \in SUBSET Tokens
  BY DEF AccInv, Base, AccTypes
<1>2. ASSUME UNCHANGED avars PROVE AccInv(of)'
  <2>1. UNCHANGED <<users, session, cache, acall, gen, version, clean>> /\ expired' = expired
    BY <1>2 DEF avars
  <2> HIDE DEF AccInv
  <2> QED
    BY <1>1, <2>1, ExpireKeeps
<1>3. CASE UNCHANGED apivars
  BY <1>2, <1>3 DEF apivars
<1>4. ASSUME NEW r \in AccReqs, Serve(r) PROVE AccInv(of)'
  <2>1. /\ r.op = "device" /\ acall[r].pc = "in" /\ To(r, "done") /\ Watch({})
        /\ UNCHANGED <<users, session, cache, expired, gen, version>>
    BY <1>4 DEF Serve, AccAt
  <2> HIDE DEF AccInv, Watch, To
  <2> QED
    BY <2>1, PlainKeeps
<1>5. ASSUME NEW r \in AccReqs, AccStep(r) PROVE AccInv(of)'
  <2>1. ASSUME NEW ok \in BOOLEAN,
               \/ InsertSession(r, ok) \/ DeleteSession(r, ok) \/ UpdateUser(r, ok)
               \/ DeleteUser(r, ok) \/ RevokeRows(r, ok) \/ InsertUser(r, ok)
        PROVE  AccInv(of)'
    <3>1. CASE ok = TRUE
      BY <2>1, <3>1, InsertSessionKeeps, DeleteSessionKeeps, UpdateUserKeeps, DeleteUserKeeps,
         RevokeRowsKeeps, InsertUserKeeps
    <3>2. CASE ok = FALSE
      BY <2>1, <3>2, PlainKeeps
    <3> QED
      BY <3>1, <3>2
  <2> QED
    BY <1>5, <2>1, ValidateKeeps, ReadSessionKeeps, KeepSessionKeeps, DropExpiredKeeps, VerifyKeeps,
       PurgeKeeps, CacheSessionKeeps, LogoutKeeps, RevokeCacheKeeps, PlainKeeps DEF AccStep
<1>6. ASSUME NEW t \in Timed, Expire(t) PROVE AccInv(of)'
  <2>1. /\ UNCHANGED <<users, session, cache, acall, gen, version, clean>>
        /\ expired \subseteq expired' /\ expired' \in SUBSET Tokens
    BY <1>1, <1>6, ApiAssumption DEF Expire
  <2> HIDE DEF AccInv
  <2> QED
    BY <2>1, ExpireKeeps
<1> QED
  BY <1>2, <1>3, <1>4, <1>5, <1>6, AccRestartKeeps DEF ApiNext, Restart

\* What the invariant says of a live token.
LEMMA AccInvCurrent ==
  ASSUME NEW of, AccInv(of)
  PROVE  SessionsCurrent
<1>1. Base(of) /\ Owners(of) /\ AccTypes
  BY DEF AccInv, Base
<1> SUFFICES ASSUME NEW t \in Tokens, Live(t), Settled(Owner(t))
             PROVE  /\ users[Owner(t)] # <<>> /\ gen[t] = version[Owner(t)]
                    /\ session[t] = Owner(t)
  BY DEF SessionsCurrent
<1>2. PICK u : u = Owner(t)
  OBVIOUS
<1>3. t \notin expired /\ u \in Users /\ (cache[t] = u \/ session[t] = u)
  BY <1>1, <1>2 DEF Live, Owner, AccTypes
<1>4. UserOk(u) /\ \A r \in Open : u \notin About(r)
  BY <1>2, <1>3 DEF Settled, AccInv
<1>5. ~Mid(u)
  <2>1. \A q \in AccReqs : Place(q, acall[q].pc, acall[q].user)
    BY <1>1 DEF Base
  <2>2. ASSUME NEW c \in AccReqs, acall[c].pc \in {"revoke", "revokerows"}, Victim(c) = u PROVE FALSE
    BY <1>3, <1>4, <2>1, <2>2, AboutIs
  <2> QED
    BY <2>2 DEF Mid
<1>6. Sound(t, u)
  BY <1>4, <1>5 DEF UserOk
<1> QED
  BY <1>2, <1>3, <1>6 DEF Sound

\* Whatever the requests and their order, restarts and failing statements included: once a
\* password change, a removal or a logout is through and overlapped nothing, no session it was to
\* end lets anybody in, neither by the cache nor by the table (auth.rs: revoke, revoke_user,
\* validate, create_session).
THEOREM SessionsCurrentAlways == ApiSpec => []SessionsCurrent
<1> DEFINE Inv == \E of : AccInv(of)
<1>1. ApiInit => Inv
  BY AccInvInitially
<1>2. Inv /\ [ApiNext]_apivars => Inv'
  <2> SUFFICES ASSUME NEW of, AccInv(of), [ApiNext]_apivars PROVE Inv'
    OBVIOUS
  <2>1. AccInv(of)'
    BY AccInvKept
  <2> QED
    BY <2>1
<1>3. Inv => SessionsCurrent
  BY AccInvCurrent
<1> HIDE DEF Inv
<1> QED
  BY <1>1, <1>2, <1>3, PTL DEF ApiSpec

-----------------------------------------------------------------------------
(* The archive: the oldest of some segments. *)

Segs == [id : Recs, rec : Recs]

LEMMA Assumed ==
  /\ \A r \in Recs : r \in Nat /\ r # 0 /\ PathOf[r] \in Paths /\ SizeOf[r] \in Nat
  /\ None \notin Nat /\ None \notin [rec : Recs, born : Nat]
<1>1. Recs \subseteq Nat \ {0} /\ PathOf \in [Recs -> Paths] /\ SizeOf \in [Recs -> Nat]
      /\ None \notin Nat /\ None \notin [rec : Recs, born : Nat]
  BY ArchiveAssumption DEF ArchiveAssumption
<1> QED
  BY <1>1

\* Some segment is the oldest.
LEMMA OldestIn ==
  ASSUME NEW S, S \subseteq Segs, S # {}
  PROVE  Oldest(S) \in S
<1> DEFINE T == {s.rec : s \in S}
           R == OpToRel(<, Nat)
<1>1. T \subseteq Nat /\ T # {}
  BY Assumed DEF Segs
<1>2. IsWellFoundedOn(R, Nat)
  BY NatLessThanWellFounded
<1>3. PICK x \in T : \A y \in T : ~(<<y, x>> \in R)
  <2> HIDE DEF T, R
  <2> QED
    BY <1>1, <1>2, WFMin
<1>4. x \in Nat /\ \A y \in T : ~(y < x)
  BY <1>1, <1>3 DEF OpToRel
<1>5. PICK s \in S : s.rec = x
  BY <1>3
<1>6. \A t \in S : s.rec <= t.rec
  <2> TAKE t \in S
  <2>1. t.rec \in T
    OBVIOUS
  <2>2. t.rec \in Nat /\ ~(t.rec < x)
    BY <1>1, <1>4, <2>1
  <2> QED
    BY <1>4, <1>5, <2>2
<1> QED
  BY <1>6 DEF Oldest

LEMMA FirstIn ==
  ASSUME NEW S, S # {}
  PROVE  First(S) \in S
BY DEF First

-----------------------------------------------------------------------------
(* The recordings: files, rows and who removes them. *)

HookPcs    == {"never", "due", "copy", "probe", "upsert", "done", "failed"}
CleanerPcs == {"sleep", "age", "agerow", "list", "prune", "prunerow"}

TableTypes ==
  /\ file \in [Paths -> Recs \cup {0}]
  /\ row \in [Recs -> [rec : Recs, born : Nat] \cup {None}]

HookTypes == hook \in [Recs -> [pc : HookPcs, now : Nat]] /\ clock \in Nat

CleanerTypes ==
  /\ DOMAIN cleaner = {"pc", "cfg", "todo", "total"}
  /\ cleaner.pc \in CleanerPcs /\ cleaner.todo \in SUBSET Segs

CallTypes ==
  DOMAIN call = Requests /\ \A q \in Requests : DOMAIN call[q] = {"pc", "todo", "len", "range"}

ArcTypes == TableTypes /\ HookTypes /\ CleanerTypes /\ CallTypes

LEMMA TypesStay ==
  /\ UNCHANGED <<file, row>> /\ TableTypes => TableTypes'
  /\ UNCHANGED <<hook, clock>> /\ HookTypes => HookTypes'
  /\ UNCHANGED cleaner /\ CleanerTypes => CleanerTypes'
  /\ UNCHANGED call /\ CallTypes => CallTypes'
<1>1. UNCHANGED <<file, row>> /\ TableTypes => TableTypes'
  BY DEF TableTypes
<1>2. UNCHANGED <<hook, clock>> /\ HookTypes => HookTypes'
  BY DEF HookTypes
<1>3. UNCHANGED cleaner /\ CleanerTypes => CleanerTypes'
  BY DEF CleanerTypes
<1>4. UNCHANGED call /\ CallTypes => CallTypes'
  BY DEF CallTypes
<1> QED
  BY <1>1, <1>2, <1>3, <1>4

\* The hook of recording r has begun.
Started(r) == hook[r].pc \notin {"never", "due"}
Through(r) == hook[r].pc = "done"

\* A row may go without stranding a file: its own is gone, or known to be left.
Cleared(id) ==
  /\ Through(id)
  /\ file[PathOf[id]] = 0 \/ PathOf[id] \in left \/ Rerecorded(PathOf[id])

\* What holds of a file: it is of a recording of its path, whose hook wrote it.
FilesOwn == \A p \in Paths : file[p] # 0 => PathOf[file[p]] = p /\ Started(file[p])

\* What holds of a row: a hook went through that entered it, and one that wrote it last.
RowsOwn == \A id \in Recs : row[id] # None =>
             PathOf[row[id].rec] = PathOf[id] /\ Through(id) /\ Through(row[id].rec)

\* What the cleanup worker relies on between a file and its row, whatever the API and the
\* hooks do meanwhile.
CleanerRelies ==
  /\ \A s \in cleaner.todo : Through(s.id)
  /\ cleaner.pc \in {"agerow", "prunerow"} =>
       cleaner.todo # {} /\ Cleared(Oldest(cleaner.todo).id)

\* What a delete relies on there.
CallRelies(q) ==
  /\ call[q].pc \in {"del", "delrow"} => call[q].todo \in Seq(Recs)
  /\ call[q].pc = "delrow" => call[q].todo # <<>> /\ Cleared(Head(call[q].todo))

ArcInv ==
  /\ ArcTypes /\ FilesOwn /\ RowsOwn /\ NothingStranded /\ CleanerRelies
  /\ \A q \in Requests : CallRelies(q)

(* What a step may do to the hooks, the files and the rows. *)

HookMoves ==
  \A r \in Recs :
    /\ Started(r) => Started(r)'
    /\ Through(r) => Through(r)'
    /\ Through(r)' => Through(r) \/ (\E id \in Recs : row'[id] # None /\ PathOf[id] = PathOf[r])

FileMoves ==
  \A p \in Paths :
    \/ file'[p] = file[p]
    \/ file'[p] = 0
    \/ \E r \in Recs : /\ hook[r].pc = "copy" /\ hook'[r].pc = "probe"
                       /\ PathOf[r] = p /\ file'[p] = r

RowMoves ==
  \A id \in Recs :
    \/ row'[id] = row[id]
    \/ row'[id] = None /\ (Cleared(id) \/ PathOf[id] \in left' \/ file[PathOf[id]] = 0)
    \/ /\ row'[id] # None /\ Through(id)'
       /\ PathOf[row'[id].rec] = PathOf[id] /\ (Through(row[id].rec))'

ArcMoves == HookMoves /\ FileMoves /\ RowMoves /\ left \subseteq left'

LEMMA RerecordedStays ==
  ASSUME HookMoves, NEW p, Rerecorded(p)
  PROVE  Rerecorded(p)'
BY DEF HookMoves, Rerecorded, Started

\* A row that may go may go ever after.
LEMMA ClearedStays ==
  ASSUME ArcMoves, NEW id \in Recs, Cleared(id)
  PROVE  Cleared(id)'
<1> DEFINE p == PathOf[id]
<1>1. p \in Paths
  BY Assumed
<1>2. Through(id)'
  BY DEF ArcMoves, HookMoves, Cleared
<1>3. CASE Rerecorded(p)
  BY <1>2, <1>3, RerecordedStays DEF ArcMoves, Cleared
<1>4. CASE PathOf[id] \in left
  BY <1>2, <1>4 DEF ArcMoves, Cleared
<1>5. CASE file[p] = 0 /\ file'[p] # 0
  <2>1. PICK r \in Recs : hook[r].pc = "copy" /\ hook'[r].pc = "probe" /\ PathOf[r] = p
    BY <1>1, <1>5 DEF ArcMoves, FileMoves
  <2>2. r # id /\ hook[id].pc = "done"
    BY <2>1 DEF Cleared, Through
  <2>3. Rerecorded(p)
    BY <2>1, <2>2 DEF Rerecorded
  <2> QED
    BY <1>3, <2>3
<1> QED
  BY <1>2, <1>3, <1>4, <1>5 DEF Cleared

\* A step that moves as it may keeps files and rows in order.
LEMMA OwnMoves ==
  ASSUME ArcTypes, ArcTypes', FilesOwn, RowsOwn, ArcMoves
  PROVE  FilesOwn' /\ RowsOwn'
<1>1. ASSUME NEW p \in Paths, file'[p] # 0
      PROVE  PathOf[file'[p]] = p /\ (Started(file[p]))'
  <2>1. CASE file'[p] = file[p]
    <3>1. file[p] \in Recs
      BY <1>1, <2>1 DEF ArcTypes, TableTypes
    <3> QED
      BY <1>1, <2>1, <3>1 DEF FilesOwn, ArcMoves, HookMoves, Started
  <2>2. CASE file'[p] # file[p]
    <3>1. PICK r \in Recs : hook'[r].pc = "probe" /\ PathOf[r] = p /\ file'[p] = r
      BY <1>1, <2>2 DEF ArcMoves, FileMoves
    <3> QED
      BY <3>1 DEF Started
  <2> QED
    BY <2>1, <2>2
<1>2. ASSUME NEW id \in Recs, row'[id] # None
      PROVE  PathOf[row'[id].rec] = PathOf[id] /\ Through(id)' /\ (Through(row[id].rec))'
  <2>1. CASE row'[id] = row[id]
    <3>1. row[id].rec \in Recs
      BY <1>2, <2>1 DEF ArcTypes, TableTypes
    <3> QED
      BY <1>2, <2>1, <3>1 DEF RowsOwn, ArcMoves, HookMoves, Through
  <2>2. CASE row'[id] # row[id]
    BY <1>2, <2>2 DEF ArcMoves, RowMoves
  <2> QED
    BY <2>1, <2>2
<1> QED
  BY <1>1, <1>2 DEF FilesOwn, RowsOwn

\* ... and strands no file.
LEMMA StrandedMoves ==
  ASSUME ArcTypes, ArcTypes', FilesOwn, NothingStranded, ArcMoves
  PROVE  NothingStranded'
<1> SUFFICES ASSUME NEW p \in Paths, file'[p] # 0, hook'[file'[p]].pc = "done",
                    ~Rerecorded(p)', p \notin left'
             PROVE  \E id \in Recs : row'[id] # None /\ PathOf[id] = p
  BY DEF NothingStranded, Rows
<1>0. PICK r \in Recs : r = file'[p]
  BY DEF ArcTypes, TableTypes
<1>1. Through(r)' /\ ~Rerecorded(p) /\ p \notin left
  BY <1>0, RerecordedStays DEF Through, ArcMoves
<1>2. file[p] = r
  <2>1. r # 0 /\ hook'[r].pc = "done"
    BY <1>0, Assumed
  <2> QED
    BY <1>0, <2>1 DEF ArcMoves, FileMoves
<1>3. PathOf[r] = p
  BY <1>0, <1>2, Assumed DEF FilesOwn
<1>4. CASE Through(r)
  <2>1. PICK id \in Rows : PathOf[id] = p
    BY <1>0, <1>1, <1>2, <1>4 DEF NothingStranded, Through
  <2>2. id \in Recs /\ row[id] # None
    BY DEF Rows
  <2>3. ~Cleared(id)
    BY <1>0, <1>1, <1>2, <2>1 DEF Cleared
  <2>4. row'[id] # None
    BY <1>0, <1>1, <1>2, <2>1, <2>2, <2>3 DEF ArcMoves, RowMoves
  <2> QED
    BY <2>1, <2>2, <2>4
<1>5. CASE ~Through(r)
  BY <1>1, <1>3, <1>5 DEF ArcMoves, HookMoves, Rows
<1> QED
  BY <1>4, <1>5

-----------------------------------------------------------------------------
(* Every step moves files, rows and hooks as it may. *)

\* The hook changes nothing but its own place.
LEMMA StillMoves ==
  ASSUME ArcTypes, UNCHANGED <<file, row, left>>, HookMoves
  PROVE  ArcMoves
BY DEF ArcMoves, FileMoves, RowMoves

LEMMA HooksStill ==
  ASSUME hook' = hook
  PROVE  HookMoves
BY DEF HookMoves, Started, Through

\* A file that is removed, or whose removal failed.
LEMMA RemoveFileMoves ==
  ASSUME ArcTypes, NEW id \in Recs, NEW ok \in BOOLEAN,
         RemoveFile(PathOf[id], ok), UNCHANGED <<row, hook>>
  PROVE  /\ TableTypes'
         /\ ArcMoves
         /\ Through(id) => Cleared(id)'
<1> DEFINE p == PathOf[id]
<1>1. p \in Paths
  BY Assumed
<1>2. TableTypes' /\ FileMoves /\ left \subseteq left'
  BY <1>1 DEF ArcTypes, TableTypes, FileMoves, RemoveFile
<1>3. file'[p] = 0 \/ p \in left'
  BY <1>1 DEF ArcTypes, TableTypes, RemoveFile
<1>4. HookMoves
  BY HooksStill
<1>5. RowMoves
  BY DEF RowMoves
<1> QED
  BY <1>2, <1>3, <1>4, <1>5 DEF ArcMoves, Cleared, Through

\* A row that is deleted after its file, or whose deletion failed.
LEMMA DeleteRowMoves ==
  ASSUME ArcTypes, NEW id \in Recs, NEW ok \in BOOLEAN, Cleared(id),
         DeleteRow(id, ok), UNCHANGED <<file, hook, left>>
  PROVE  /\ TableTypes'
         /\ ArcMoves
<1>1. TableTypes' /\ RowMoves
  BY DEF ArcTypes, TableTypes, RowMoves, DeleteRow
<1>2. HookMoves
  BY HooksStill
<1> QED
  BY <1>1, <1>2 DEF ArcMoves, FileMoves

LEMMA RecordTsMoves ==
  ASSUME ArcTypes, NEW r \in Recs, RecordTs(r)
  PROVE  ArcTypes' /\ ArcMoves
<1>1. ArcTypes'
  <2>1. HookTypes'
    BY DEF ArcTypes, HookTypes, RecordTs, HookPcs, bounds
  <2> QED
    BY <2>1, TypesStay DEF ArcTypes, RecordTs, tables
<1>2. HookMoves
  BY DEF ArcTypes, HookTypes, RecordTs, HookMoves, Started, Through
<1> QED
  BY <1>1, <1>2, StillMoves DEF RecordTs, tables, seen

LEMMA ArchiveFileMoves ==
  ASSUME ArcTypes, NEW r \in Recs, NEW ok \in BOOLEAN, ArchiveFile(r, ok)
  PROVE  ArcTypes' /\ ArcMoves
<1>1. ArcTypes'
  <2>1. HookTypes'
    BY DEF ArcTypes, HookTypes, ArchiveFile, HookTo, HookPcs
  <2>2. TableTypes'
    BY Assumed DEF ArcTypes, TableTypes, ArchiveFile
  <2> QED
    BY <2>1, <2>2, TypesStay DEF ArcTypes, ArchiveFile
<1>2. HookMoves
  BY DEF ArcTypes, HookTypes, ArchiveFile, HookTo, HookMoves, Started, Through
<1>3. FileMoves
  BY Assumed DEF ArcTypes, TableTypes, HookTypes, ArchiveFile, HookTo, FileMoves
<1> QED
  BY <1>1, <1>2, <1>3 DEF ArchiveFile, ArcMoves, RowMoves, seen

LEMMA ProbeMoves ==
  ASSUME ArcTypes, NEW r \in Recs, NEW ok \in BOOLEAN, Probe(r, ok)
  PROVE  ArcTypes' /\ ArcMoves
<1>1. ArcTypes'
  <2>1. HookTypes'
    BY DEF ArcTypes, HookTypes, Probe, HookTo, HookPcs
  <2> QED
    BY <2>1, TypesStay DEF ArcTypes, Probe, tables
<1>2. HookMoves
  BY DEF ArcTypes, HookTypes, Probe, HookTo, HookMoves, Started, Through
<1> QED
  BY <1>1, <1>2, StillMoves DEF Probe, tables, seen

\* The row of a recording is entered, or the row of its path is written anew.
LEMMA UpsertMoves ==
  ASSUME ArcTypes, RowsOwn, NEW r \in Recs, NEW ok \in BOOLEAN, Upsert(r, ok)
  PROVE  ArcTypes' /\ ArcMoves
<1> DEFINE same == {id \in Rows : PathOf[id] = PathOf[r]}
           RowSet == [rec : Recs, born : Nat]
<1>1. CASE ~ok
  <2>1. ArcTypes'
    <3>1. HookTypes'
      BY <1>1 DEF ArcTypes, HookTypes, Upsert, HookTo, HookPcs
    <3> QED
      BY <1>1, <3>1, TypesStay DEF ArcTypes, Upsert
  <2>2. HookMoves
    BY <1>1 DEF ArcTypes, HookTypes, Upsert, HookTo, HookMoves, Started, Through
  <2> QED
    BY <1>1, <2>1, <2>2, StillMoves DEF Upsert
<1>2. CASE ok
  <2>1. /\ HookTypes'
        /\ \A i \in Recs : hook'[i] = IF i = r THEN [hook[r] EXCEPT !.pc = "done"] ELSE hook[i]
        /\ Through(r)'
    BY <1>2 DEF ArcTypes, HookTypes, Upsert, HookTo, HookPcs, Through
  <2>2. /\ row' \in [Recs -> RowSet \cup {None}]
        /\ \A id \in Recs :
             \/ row'[id] = row[id]
             \/ row'[id] \in RowSet /\ row'[id].rec = r /\ PathOf[id] = PathOf[r]
                /\ (row[id] # None \/ id = r)
        /\ \E id \in Recs : row'[id] # None /\ PathOf[id] = PathOf[r]
    <3>1. row' = RowFor(r) /\ hook[r].now \in Nat
      BY <1>2 DEF Upsert, ArcTypes, HookTypes
    <3>2. CASE same = {}
      <4>1. row' = [row EXCEPT ![r] = [rec |-> r, born |-> hook[r].now]]
        BY <3>1, <3>2 DEF RowFor
      <4>2. [rec |-> r, born |-> hook[r].now] \in RowSet
        BY <3>1
      <4> QED
        BY <4>1, <4>2, Assumed DEF ArcTypes, TableTypes
    <3>3. CASE same # {}
      <4>1. row' = [id \in Recs |-> IF id \in same THEN [row[id] EXCEPT !.rec = r] ELSE row[id]]
        BY <3>1, <3>3 DEF RowFor
      <4>2. \A id \in same : row[id] \in RowSet /\ id \in Recs /\ PathOf[id] = PathOf[r]
                             /\ row[id] # None
        BY DEF ArcTypes, TableTypes, Rows
      <4>3. \A id \in same : [row[id] EXCEPT !.rec = r] \in RowSet
                             /\ [row[id] EXCEPT !.rec = r].rec = r
        BY <4>2
      <4>4. row \in [Recs -> RowSet \cup {None}]
        BY DEF ArcTypes, TableTypes
      <4>5. PICK i \in same : TRUE
        BY <3>3
      <4> HIDE DEF same
      <4>6. \A id \in Recs : row'[id] = IF id \in same THEN [row[id] EXCEPT !.rec = r] ELSE row[id]
        BY <4>1
      <4>7. row' \in [Recs -> RowSet \cup {None}]
        <5> DEFINE e(id) == IF id \in same THEN [row[id] EXCEPT !.rec = r] ELSE row[id]
        <5>1. \A id \in Recs : e(id) \in RowSet \cup {None}
          BY <4>3, <4>4
        <5>2. row' = [id \in Recs |-> e(id)]
          BY <4>1
        <5> HIDE DEF e, RowSet
        <5> QED
          BY <5>1, <5>2
      <4>8. None \notin RowSet
        BY Assumed
      <4>9. \A id \in same : row'[id] \in RowSet /\ row'[id].rec = r
        BY <4>2, <4>3, <4>6
      <4>10. row'[i] # None /\ i \in Recs /\ PathOf[i] = PathOf[r]
        BY <4>2, <4>8, <4>9
      <4>11. \A id \in Recs : id \notin same => row'[id] = row[id]
        BY <4>6
      <4> HIDE DEF RowSet
      <4>12. \A id \in Recs :
               \/ row'[id] = row[id]
               \/ row'[id] \in RowSet /\ row'[id].rec = r /\ PathOf[id] = PathOf[r]
                  /\ (row[id] # None \/ id = r)
        BY <4>2, <4>9, <4>11
      <4> QED
        BY <4>7, <4>10, <4>12
    <3> QED
      BY <3>2, <3>3
  <2>3. ArcTypes'
    <3>1. TableTypes'
      BY <2>2 DEF ArcTypes, TableTypes, Upsert
    <3> QED
      BY <2>1, <3>1, TypesStay DEF ArcTypes, Upsert
  <2>4. HookMoves
    BY <2>1, <2>2 DEF HookMoves, Started, Through
  <2>5. RowMoves
    <3>1. None \notin RowSet
      BY Assumed
    <3> SUFFICES ASSUME NEW id \in Recs, row'[id] # row[id]
                 PROVE  /\ row'[id] # None /\ Through(id)'
                        /\ PathOf[row'[id].rec] = PathOf[id] /\ (Through(row[id].rec))'
      BY DEF RowMoves
    <3>2. row'[id] \in RowSet /\ row'[id].rec = r /\ PathOf[id] = PathOf[r]
          /\ (row[id] # None \/ id = r)
      BY <2>2
    <3>3. Through(id)'
      BY <2>1, <2>4, <3>2 DEF RowsOwn, HookMoves
    <3> QED
      BY <2>1, <3>1, <3>2, <3>3 DEF Through
  <2> QED
    BY <2>3, <2>4, <2>5 DEF ArcMoves, FileMoves, Upsert
<1> QED
  BY <1>1, <1>2

-----------------------------------------------------------------------------
(* What the cleanup worker and the deletes rely on outlasts every step. *)

\* The cleanup worker's, while others take their steps.
LEMMA CleanerStays ==
  ASSUME ArcTypes, CleanerRelies, ArcMoves, UNCHANGED cleaner
  PROVE  CleanerRelies'
<1>1. \A s \in cleaner.todo : s.id \in Recs
  BY DEF ArcTypes, CleanerTypes, Segs
<1>2. \A s \in cleaner.todo : Through(s.id)'
  BY <1>1 DEF ArcMoves, HookMoves, CleanerRelies
<1>3. ASSUME cleaner.pc \in {"agerow", "prunerow"}
      PROVE  cleaner.todo # {} /\ Cleared(Oldest(cleaner.todo).id)'
  <2>1. cleaner.todo # {} /\ Cleared(Oldest(cleaner.todo).id)
    BY <1>3 DEF CleanerRelies
  <2>2. Oldest(cleaner.todo) \in cleaner.todo
    BY <2>1, OldestIn DEF ArcTypes, CleanerTypes
  <2>3. PICK id \in Recs : id = Oldest(cleaner.todo).id
    BY <1>1, <2>2
  <2>4. Cleared(id)'
    BY <2>1, <2>3, ClearedStays
  <2>5. id = Oldest(cleaner'.todo).id
    BY <2>3
  <2> QED
    BY <2>1, <2>4, <2>5 DEF Cleared, Through, Rerecorded
<1> QED
  BY <1>2, <1>3 DEF CleanerRelies, Cleared, Through, Rerecorded

\* A call's, while others take theirs.
LEMMA CallStays ==
  ASSUME ArcMoves, NEW q \in Requests, CallRelies(q), call'[q] = call[q]
  PROVE  CallRelies(q)'
<1>1. CASE call[q].pc = "delrow"
  <2>1. PICK todo \in Seq(Recs) : todo = call[q].todo
    BY <1>1 DEF CallRelies
  <2>2. todo # <<>> /\ Cleared(Head(todo))
    BY <1>1, <2>1 DEF CallRelies
  <2> DEFINE id == Head(todo)
  <2>3. id \in Recs
    BY <2>1, <2>2
  <2>4. Cleared(id)'
    BY <2>2, <2>3, ClearedStays
  <2>5. call'[q].todo = todo
    BY <2>1
  <2> QED
    BY <2>1, <2>2, <2>4, <2>5 DEF CallRelies, Cleared, Through, Rerecorded
<1>2. CASE call[q].pc # "delrow"
  BY <1>2 DEF CallRelies
<1> QED
  BY <1>1, <1>2

LEMMA CallsStay ==
  ASSUME ArcMoves, \A q \in Requests : CallRelies(q), UNCHANGED call
  PROVE  \A q \in Requests : CallRelies(q)'
BY CallStays

\* The types of the calls, after a step of one.
LEMMA StepTypes ==
  ASSUME CallTypes, NEW q \in Requests
  PROVE  /\ End(q) => CallTypes' /\ call'[q] = Done
                      /\ \A x \in Requests \ {q} : call'[x] = call[x]
         /\ \A pc, todo : Go(q, pc, todo) =>
              /\ CallTypes' /\ call'[q].pc = pc /\ call'[q].todo = todo
              /\ \A x \in Requests \ {q} : call'[x] = call[x]
<1>1. ASSUME End(q)
      PROVE  CallTypes' /\ call'[q] = Done /\ \A x \in Requests \ {q} : call'[x] = call[x]
  BY <1>1 DEF CallTypes, End, Done
<1>2. ASSUME NEW pc, NEW todo, Go(q, pc, todo)
      PROVE  /\ CallTypes' /\ call'[q].pc = pc /\ call'[q].todo = todo
             /\ \A x \in Requests \ {q} : call'[x] = call[x]
  BY <1>2 DEF CallTypes, Go
<1> QED
  BY <1>1, <1>2

\* A call at another place relies on nothing.
LEMMA RestRelies ==
  ASSUME NEW q \in Requests, call[q].pc \notin {"del", "delrow"}
  PROVE  CallRelies(q)
BY DEF CallRelies

\* After a step of call q, that leaves the cleanup worker alone.
LEMMA AfterCall ==
  ASSUME ArcInv, ArcMoves, NEW q \in Requests, UNCHANGED <<cleaner, hook, clock>>,
         TableTypes', CallTypes', CallRelies(q)',
         \A x \in Requests \ {q} : call'[x] = call[x]
  PROVE  ArcInv'
<1>1. ArcTypes'
  BY TypesStay DEF ArcInv, ArcTypes
<1>2. FilesOwn' /\ RowsOwn'
  BY <1>1, OwnMoves DEF ArcInv
<1>3. NothingStranded'
  BY <1>1, StrandedMoves DEF ArcInv
<1>4. CleanerRelies'
  BY CleanerStays DEF ArcInv
<1>5. ASSUME NEW x \in Requests
      PROVE  CallRelies(x)'
  BY CallStays DEF ArcInv
<1> QED
  BY <1>1, <1>2, <1>3, <1>4, <1>5 DEF ArcInv

\* After a step of the cleanup worker.
LEMMA AfterCleaner ==
  ASSUME ArcInv, ArcMoves, UNCHANGED <<call, hook, clock>>,
         TableTypes', CleanerTypes', CleanerRelies'
  PROVE  ArcInv'
<1>1. ArcTypes'
  BY TypesStay DEF ArcInv, ArcTypes
<1>2. FilesOwn' /\ RowsOwn'
  BY <1>1, OwnMoves DEF ArcInv
<1>3. NothingStranded'
  BY <1>1, StrandedMoves DEF ArcInv
<1>4. \A q \in Requests : CallRelies(q)'
  BY CallsStay DEF ArcInv
<1> QED
  BY <1>1, <1>2, <1>3, <1>4 DEF ArcInv

\* After a step of a hook.
LEMMA AfterHook ==
  ASSUME ArcInv, ArcMoves, ArcTypes', UNCHANGED <<call, cleaner>>
  PROVE  ArcInv'
<1>1. FilesOwn' /\ RowsOwn'
  BY OwnMoves DEF ArcInv
<1>2. NothingStranded'
  BY StrandedMoves DEF ArcInv
<1>3. CleanerRelies'
  BY CleanerStays DEF ArcInv
<1>4. \A q \in Requests : CallRelies(q)'
  BY CallsStay DEF ArcInv
<1> QED
  BY <1>1, <1>2, <1>3, <1>4 DEF ArcInv

\* Nothing of it all is changed but the calls.
LEMMA TablesStill ==
  ASSUME ArcTypes, UNCHANGED <<file, row, hook, left>>
  PROVE  ArcMoves
BY StillMoves, HooksStill

-----------------------------------------------------------------------------
(* The steps, one by one. *)

LEMMA HookKeeps ==
  ASSUME ArcInv, NEW r \in Recs, Hook(r)
  PROVE  ArcInv'
<1> USE DEF ArcInv
<1>1. CASE RecordTs(r)
  BY <1>1, RecordTsMoves, AfterHook DEF RecordTs
<1>2. ASSUME NEW ok \in BOOLEAN, ArchiveFile(r, ok)
      PROVE  ArcInv'
  BY <1>2, ArchiveFileMoves, AfterHook DEF ArchiveFile
<1>3. ASSUME NEW ok \in BOOLEAN, Probe(r, ok)
      PROVE  ArcInv'
  BY <1>3, ProbeMoves, AfterHook DEF Probe
<1>4. ASSUME NEW ok \in BOOLEAN, Upsert(r, ok)
      PROVE  ArcInv'
  BY <1>4, UpsertMoves, AfterHook DEF Upsert
<1> QED
  BY <1>1, <1>2, <1>3, <1>4 DEF Hook

\* The rows that the cleanup worker reads are of hooks that are through.
LEMMA SegsOfRows ==
  ASSUME ArcTypes, RowsOwn, NEW S, S \subseteq Rows
  PROVE  /\ {Seg(id) : id \in S} \in SUBSET Segs
         /\ \A s \in {Seg(id) : id \in S} : Through(s.id)
BY DEF ArcTypes, TableTypes, RowsOwn, Rows, Seg, Segs

LEMMA CleanStartKeeps ==
  ASSUME ArcInv, NEW ok \in BOOLEAN, CleanStart(ok)
  PROVE  ArcInv'
<1> DEFINE some == {Seg(id) : id \in Expired(policy.age)}
<1>1. Expired(policy.age) \subseteq Rows
  BY DEF Expired
<1>2. some \in SUBSET Segs /\ \A s \in some : Through(s.id)
  BY <1>1, SegsOfRows DEF ArcInv
<1>3. \/ cleaner' = Sleeping
      \/ cleaner' = [Sleeping EXCEPT !.pc = "age", !.cfg = policy, !.todo = {}]
      \/ cleaner' = [Sleeping EXCEPT !.pc = "age", !.cfg = policy, !.todo = some]
  BY DEF CleanStart
<1>4. ArcMoves /\ UNCHANGED <<call, hook, clock, file, row>>
  BY TablesStill DEF ArcInv, CleanStart, tables, seen
<1>5. TableTypes'
  BY <1>4, TypesStay DEF ArcInv, ArcTypes
<1> HIDE DEF some
<1>6. /\ CleanerTypes' /\ cleaner'.todo \subseteq some
      /\ cleaner'.pc \in {"sleep", "age"}
  <2>1. CASE cleaner' = Sleeping
    BY <2>1 DEF CleanerTypes, Sleeping, CleanerPcs
  <2>2. ASSUME NEW y, y \subseteq some, y \subseteq Segs,
               cleaner' = [Sleeping EXCEPT !.pc = "age", !.cfg = policy, !.todo = y]
        PROVE  CleanerTypes' /\ cleaner'.todo = y /\ cleaner'.pc = "age"
    BY <2>2 DEF CleanerTypes, Sleeping, CleanerPcs
  <2>3. CASE cleaner' = [Sleeping EXCEPT !.pc = "age", !.cfg = policy, !.todo = {}]
    BY <2>3 DEF CleanerTypes, Sleeping, CleanerPcs
  <2>4. CASE cleaner' = [Sleeping EXCEPT !.pc = "age", !.cfg = policy, !.todo = some]
    BY <1>2, <2>2, <2>4
  <2> QED
    BY <1>3, <2>1, <2>3, <2>4 DEF Sleeping
<1>7. CleanerRelies'
  BY <1>2, <1>4, <1>6 DEF CleanerRelies, Through
<1> QED
  BY <1>4, <1>5, <1>6, <1>7, AfterCleaner

LEMMA CleanFileKeeps ==
  ASSUME ArcInv, NEW ok \in BOOLEAN, CleanFile(ok)
  PROVE  ArcInv'
<1>1. Oldest(cleaner.todo) \in cleaner.todo /\ Oldest(cleaner.todo) \in Segs
  BY OldestIn DEF CleanFile, ArcInv, ArcTypes, CleanerTypes
<1>2. PICK id \in Recs : id = Oldest(cleaner.todo).id
  BY <1>1 DEF Segs
<1>3. Through(id)
  BY <1>1, <1>2 DEF ArcInv, CleanerRelies
<1>4. RemoveFile(PathOf[id], ok) /\ UNCHANGED <<row, hook, call, clock>>
  BY <1>2 DEF CleanFile
<1>5. TableTypes' /\ ArcMoves /\ Cleared(id)'
  BY <1>3, <1>4, RemoveFileMoves DEF ArcInv
<1>6. /\ CleanerTypes' /\ cleaner'.todo = cleaner.todo /\ cleaner.todo # {}
  BY DEF CleanFile, ArcInv, ArcTypes, CleanerTypes, CleanerPcs
<1>7. \A s \in cleaner.todo : Through(s.id)'
  BY <1>4 DEF ArcInv, CleanerRelies, Through
<1>8. id = Oldest(cleaner'.todo).id
  BY <1>2, <1>6
<1>9. CleanerRelies'
  BY <1>5, <1>6, <1>7, <1>8 DEF CleanerRelies, Cleared, Through, Rerecorded
<1> QED
  BY <1>4, <1>5, <1>6, <1>9, AfterCleaner

LEMMA CleanRowKeeps ==
  ASSUME ArcInv, NEW ok \in BOOLEAN, CleanRow(ok)
  PROVE  ArcInv'
<1>1. cleaner.todo # {} /\ Cleared(Oldest(cleaner.todo).id)
  BY DEF CleanRow, ArcInv, CleanerRelies
<1>2. Oldest(cleaner.todo) \in Segs
  BY <1>1, OldestIn DEF ArcInv, ArcTypes, CleanerTypes
<1>3. PICK id \in Recs : id = Oldest(cleaner.todo).id
  BY <1>2 DEF Segs
<1>4. DeleteRow(id, ok) /\ UNCHANGED <<file, hook, left, call, clock>>
  BY <1>3 DEF CleanRow, seen
<1>5. TableTypes' /\ ArcMoves
  BY <1>1, <1>3, <1>4, DeleteRowMoves DEF ArcInv
<1>6. CleanerTypes' /\ cleaner'.todo \subseteq cleaner.todo
      /\ cleaner'.pc \in {"age", "prune"}
  BY DEF CleanRow, ArcInv, ArcTypes, CleanerTypes, CleanerPcs
<1>7. CleanerRelies'
  BY <1>4, <1>6 DEF ArcInv, CleanerRelies, Through
<1> QED
  BY <1>4, <1>5, <1>6, <1>7, AfterCleaner

\* The cleanup worker goes on without a file or a row.
LEMMA CleanGoesKeeps ==
  ASSUME ArcInv, NEW ok \in BOOLEAN,
         CleanTotal(ok) \/ CleanList(ok) \/ CleanEnd
  PROVE  ArcInv'
<1> DEFINE all == {Seg(id) : id \in Rows}
<1>1. all \in SUBSET Segs /\ \A s \in all : Through(s.id)
  BY SegsOfRows DEF ArcInv
<1>2. ArcMoves /\ UNCHANGED <<call, hook, clock, file, row>>
  BY TablesStill DEF ArcInv, CleanTotal, CleanList, CleanEnd, tables, seen, bounds
<1>3. \/ cleaner' = Sleeping
      \/ cleaner.todo = {} /\ cleaner' = [cleaner EXCEPT !.pc = "list", !.total = Bytes]
      \/ cleaner' = [cleaner EXCEPT !.pc = "prune", !.todo = all]
  BY DEF CleanTotal, CleanList, CleanEnd
<1>4. TableTypes'
  BY <1>2, TypesStay DEF ArcInv, ArcTypes
<1> HIDE DEF all
<1>5. CleanerTypes' /\ cleaner'.pc \in {"sleep", "list", "prune"}
      /\ (cleaner'.todo \subseteq all \/ cleaner'.todo = {})
  <2>1. CASE cleaner' = Sleeping
    BY <2>1 DEF CleanerTypes, Sleeping, CleanerPcs
  <2>2. CASE cleaner.todo = {} /\ cleaner' = [cleaner EXCEPT !.pc = "list", !.total = Bytes]
    BY <2>2 DEF ArcInv, ArcTypes, CleanerTypes, CleanerPcs
  <2>3. CASE cleaner' = [cleaner EXCEPT !.pc = "prune", !.todo = all]
    BY <1>1, <2>3 DEF ArcInv, ArcTypes, CleanerTypes, CleanerPcs
  <2> QED
    BY <1>3, <2>1, <2>2, <2>3
<1>6. CleanerRelies'
  BY <1>1, <1>2, <1>5 DEF CleanerRelies, Through
<1> QED
  BY <1>2, <1>4, <1>5, <1>6, AfterCleaner

\* The calls that leave files, rows and hooks alone.
LEMMA QuietKeeps ==
  ASSUME ArcInv, UNCHANGED <<file, row, hook, clock, cleaner, left>>,
         NEW q \in Requests,
         \/ End(q)
         \/ \E pc, todo : Go(q, pc, todo) /\ pc \notin {"del", "delrow"}
  PROVE  ArcInv'
<1>1. ArcMoves /\ TableTypes'
  BY TablesStill, TypesStay DEF ArcInv, ArcTypes
<1>2. CallTypes' /\ call'[q].pc \notin {"del", "delrow"}
      /\ \A x \in Requests \ {q} : call'[x] = call[x]
  <2>1. CASE End(q)
    BY <2>1, StepTypes DEF ArcInv, ArcTypes, Done
  <2>2. CASE ~End(q)
    BY <2>2, StepTypes DEF ArcInv, ArcTypes
  <2> QED
    BY <2>1, <2>2
<1>3. CallRelies(q)'
  BY <1>2 DEF CallRelies
<1> QED
  BY <1>1, <1>2, <1>3, AfterCall

LEMMA DelFileKeeps ==
  ASSUME ArcInv, NEW q \in Requests, NEW ok \in BOOLEAN, DelFile(q, ok)
  PROVE  ArcInv'
<1>1. PICK todo \in Seq(Recs) : todo = IF At(q, "due") THEN q.ids ELSE call[q].todo
  <2>1. q.ids \in Seq(Recs)
    BY ArchiveAssumption DEF ArchiveAssumption
  <2>2. At(q, "del") => call[q].todo \in Seq(Recs)
    BY DEF ArcInv, CallRelies, At
  <2> QED
    BY <2>1, <2>2 DEF DelFile
<1>2. UNCHANGED <<cleaner, hook, clock, row>>
  BY DEF DelFile
<1>3. CASE todo = <<>>
  <2>1. End(q) /\ UNCHANGED <<file, left>>
    BY <1>1, <1>3 DEF DelFile
  <2> QED
    BY <1>2, <2>1, QuietKeeps
<1>4. CASE todo # <<>> /\ row[Head(todo)] = None
  <2>1. Go(q, "del", Tail(todo)) /\ UNCHANGED <<file, left>>
    BY <1>1, <1>4 DEF DelFile
  <2>2. ArcMoves /\ TableTypes'
    BY <1>2, <2>1, TablesStill, TypesStay DEF ArcInv, ArcTypes
  <2>3. Tail(todo) \in Seq(Recs)
    BY <1>4
  <2>4. CallTypes' /\ call'[q].pc = "del" /\ call'[q].todo = Tail(todo)
        /\ \A x \in Requests \ {q} : call'[x] = call[x]
    BY <2>1, StepTypes DEF ArcInv, ArcTypes
  <2>5. CallRelies(q)'
    BY <2>3, <2>4 DEF CallRelies
  <2> QED
    BY <1>2, <2>2, <2>4, <2>5, AfterCall
<1>5. CASE todo # <<>> /\ row[Head(todo)] # None
  <2>1. Go(q, "delrow", todo) /\ RemoveFile(PathOf[Head(todo)], ok)
    BY <1>1, <1>5 DEF DelFile
  <2>2. PICK id \in Recs : id = Head(todo)
    <3>1. todo \in Seq(Recs)
      BY <1>1
    <3>2. Head(todo) \in Recs
      BY <1>5, <3>1
    <3> QED
      BY <3>2
  <2>3. Through(id) /\ RemoveFile(PathOf[id], ok)
    BY <1>5, <2>1, <2>2 DEF ArcInv, RowsOwn
  <2>4. ArcMoves /\ TableTypes' /\ Cleared(id)'
    BY <1>2, <2>3, RemoveFileMoves DEF ArcInv
  <2>5. CallTypes' /\ call'[q].pc = "delrow" /\ call'[q].todo = todo
        /\ \A x \in Requests \ {q} : call'[x] = call[x]
    BY <2>1, StepTypes DEF ArcInv, ArcTypes
  <2>6. CallRelies(q)'
    BY <1>1, <1>5, <2>2, <2>4, <2>5 DEF CallRelies, Cleared, Through, Rerecorded
  <2> QED
    BY <1>2, <2>4, <2>5, <2>6, AfterCall
<1> QED
  BY <1>3, <1>4, <1>5

LEMMA DelRowKeeps ==
  ASSUME ArcInv, NEW q \in Requests, NEW ok \in BOOLEAN, DelRow(q, ok)
  PROVE  ArcInv'
<1>0. call[q].todo \in Seq(Recs)
  BY DEF DelRow, At, ArcInv, CallRelies
<1> PICK todo \in Seq(Recs) : todo = call[q].todo
  BY <1>0
<1>1. todo # <<>> /\ Cleared(Head(todo))
  BY DEF DelRow, At, ArcInv, CallRelies
<1>2. DeleteRow(Head(todo), ok) /\ UNCHANGED <<file, hook, left, cleaner, clock>>
  BY DEF DelRow
<1>3. End(q) \/ Go(q, "del", Tail(todo))
  BY DEF DelRow
<1>4. Head(todo) \in Recs /\ Tail(todo) \in Seq(Recs)
  BY <1>1
<1>5. TableTypes' /\ ArcMoves
  <2> DEFINE id == Head(todo)
  <2>1. id \in Recs /\ Cleared(id) /\ DeleteRow(id, ok)
    BY <1>1, <1>2, <1>4
  <2> HIDE DEF id
  <2> QED
    BY <1>2, <2>1, DeleteRowMoves DEF ArcInv
<1>6. CallTypes' /\ call'[q].pc # "delrow" /\ (call'[q].pc = "del" => call'[q].todo = Tail(todo))
      /\ \A x \in Requests \ {q} : call'[x] = call[x]
  <2>1. CASE End(q)
    BY <2>1, StepTypes DEF ArcInv, ArcTypes, Done
  <2>2. CASE Go(q, "del", Tail(todo))
    <3>1. CallTypes' /\ call'[q].pc = "del" /\ call'[q].todo = Tail(todo)
          /\ \A x \in Requests \ {q} : call'[x] = call[x]
      BY <2>2, StepTypes DEF ArcInv, ArcTypes
    <3> QED
      BY <3>1
  <2> QED
    BY <1>3, <2>1, <2>2
<1>7. CallRelies(q)'
  BY <1>4, <1>6 DEF CallRelies
<1> QED
  BY <1>2, <1>5, <1>6, <1>7, AfterCall

\* A file of a wipe: any path may be named, and a path that is none names no file.
LEMMA WipeFileKeeps ==
  ASSUME ArcInv, NEW q \in Requests, NEW ok \in BOOLEAN, WipeFile(q, ok)
  PROVE  ArcInv'
<1> DEFINE p == PathOf[Head(call[q].todo)]
<1>1. RemoveFile(p, ok) /\ UNCHANGED <<cleaner, hook, clock, row>>
      /\ Go(q, "wipe", Tail(call[q].todo))
  BY DEF WipeFile
<1> HIDE DEF p
<1>2. TableTypes' /\ FileMoves /\ left \subseteq left'
  BY <1>1 DEF ArcInv, ArcTypes, TableTypes, FileMoves, RemoveFile
<1>3. ArcMoves
  BY <1>1, <1>2, HooksStill DEF ArcMoves, RowMoves
<1>4. CallTypes' /\ call'[q].pc = "wipe" /\ \A x \in Requests \ {q} : call'[x] = call[x]
  BY <1>1, StepTypes DEF ArcInv, ArcTypes
<1>5. CallRelies(q)'
  BY <1>4 DEF CallRelies
<1> QED
  BY <1>1, <1>2, <1>3, <1>4, <1>5, AfterCall

LEMMA WipeRowsKeeps ==
  ASSUME ArcInv, NEW q \in Requests, NEW ok \in BOOLEAN, WipeRows(q, ok)
  PROVE  ArcInv'
<1>1. End(q) /\ UNCHANGED <<file, hook, cleaner, clock>>
  BY DEF WipeRows
<1>2. CASE ~ok
  <2>1. UNCHANGED <<row, left>>
    BY <1>2 DEF WipeRows
  <2> QED
    BY <1>1, <2>1, QuietKeeps
<1>3. CASE ok
  <2>1. row' = [id \in Recs |-> None]
        /\ left' = left \cup {PathOf[id] : id \in {i \in Rows : file[PathOf[i]] # 0}}
    BY <1>3 DEF WipeRows
  <2>2. TableTypes'
    BY <1>1, <2>1 DEF ArcInv, ArcTypes, TableTypes
  <2>3. RowMoves
    BY <2>1 DEF RowMoves, Rows
  <2>4. ArcMoves
    BY <1>1, <2>1, <2>3, HooksStill DEF ArcMoves, FileMoves
  <2>5. CallTypes' /\ call'[q].pc = "done" /\ \A x \in Requests \ {q} : call'[x] = call[x]
    BY <1>1, StepTypes DEF ArcInv, ArcTypes, Done
  <2>6. CallRelies(q)'
    BY <2>5 DEF CallRelies
  <2> QED
    BY <1>1, <2>2, <2>4, <2>5, <2>6, AfterCall
<1> QED
  BY <1>2, <1>3

\* Playback reads and answers.
LEMMA PlayKeeps ==
  ASSUME ArcInv, NEW q \in Requests,
         PlayRead(q) \/ \E from, till \in Ranges \cup {None} : PlayOpen(q, from, till)
  PROVE  ArcInv'
<1>1. UNCHANGED <<file, row, hook, clock, cleaner, left>>
  BY DEF PlayRead, PlayOpen, tables, bounds, seen
<1>2. CASE End(q)
  BY <1>1, <1>2, QuietKeeps
<1>3. CASE ~End(q)
  <2>1. CallTypes' /\ call'[q].pc \notin {"del", "delrow"}
        /\ \A x \in Requests \ {q} : call'[x] = call[x]
    <3>1. CASE PlayRead(q)
      <4>1. call' = [call EXCEPT ![q].pc = "206"]
        BY <1>3, <3>1 DEF PlayRead
      <4> QED
        BY <4>1 DEF ArcInv, ArcTypes, CallTypes
    <3>2. ASSUME NEW from \in Ranges \cup {None}, NEW till \in Ranges \cup {None},
                 PlayOpen(q, from, till)
          PROVE  CallTypes' /\ call'[q].pc \notin {"del", "delrow"}
                 /\ \A x \in Requests \ {q} : call'[x] = call[x]
      <4> DEFINE len   == SizeOf[file[PathOf[q.ids[1]]]]
                 range == ParseRange(from, till, len)
                 c     == [pc |-> IF range = <<>> THEN "416" ELSE "read",
                           todo |-> range, len |-> len, range |-> <<from, till>>]
      <4>1. call' = [call EXCEPT ![q] = c]
        BY <1>3, <3>2 DEF PlayOpen
      <4>2. DOMAIN c = {"pc", "todo", "len", "range"} /\ c.pc \in {"416", "read"}
        OBVIOUS
      <4> HIDE DEF c
      <4>3. /\ DOMAIN call' = Requests /\ call'[q] = c
            /\ \A x \in Requests \ {q} : call'[x] = call[x]
        BY <4>1 DEF ArcInv, ArcTypes, CallTypes
      <4> QED
        BY <4>2, <4>3 DEF ArcInv, ArcTypes, CallTypes
    <3> QED
      BY <3>1, <3>2
  <2>2. CallRelies(q)'
    BY <2>1 DEF CallRelies
  <2>3. ArcMoves /\ TableTypes'
    BY <1>1, TablesStill, TypesStay DEF ArcInv, ArcTypes
  <2> QED
    BY <1>1, <2>1, <2>2, <2>3, AfterCall
<1> QED
  BY <1>2, <1>3

LEMMA CallKeeps ==
  ASSUME ArcInv, NEW q \in Requests, Call(q)
  PROVE  ArcInv'
<1>1. ASSUME NEW ok \in BOOLEAN,
             PutTarget(q, ok) \/ DropTarget(q, ok) \/ DropJobs(q, ok) \/ SaveCleanup(q, ok)
      PROVE  ArcInv'
  <2>1. UNCHANGED <<file, row, hook, clock, cleaner, left>>
    BY <1>1 DEF PutTarget, DropTarget, DropJobs, SaveCleanup, seen
  <2>2. End(q) \/ Go(q, "jobs", <<>>)
    BY <1>1 DEF PutTarget, DropTarget, DropJobs, SaveCleanup
  <2> QED
    BY <2>1, <2>2, QuietKeeps
<1>2. CASE WipeList(q) \/ GetTarget(q)
  <2>1. UNCHANGED <<file, row, hook, clock, cleaner, left>>
    BY <1>2 DEF WipeList, GetTarget, tables, bounds, seen
  <2>2. End(q) \/ Go(q, "put", <<>>) \/ Go(q, "wipe", SetToSeq(Rows))
    BY <1>2 DEF WipeList, GetTarget
  <2> QED
    BY <2>1, <2>2, QuietKeeps
<1> QED
  BY <1>1, <1>2, DelFileKeeps, DelRowKeeps, WipeFileKeeps, WipeRowsKeeps, PlayKeeps DEF Call

LEMMA CrashKeeps ==
  ASSUME ArcInv, Crash
  PROVE  ArcInv'
<1>1. UNCHANGED <<file, row, left, clock>>
  BY DEF Crash, tables, seen
<1>2. HookTypes' /\ HookMoves
  BY DEF Crash, ArcInv, ArcTypes, HookTypes, HookMoves, Started, Through, HookPcs
<1>3. ArcMoves /\ TableTypes'
  BY <1>1, <1>2, StillMoves, TypesStay DEF ArcInv, ArcTypes
<1>4. CleanerTypes' /\ CleanerRelies'
  BY DEF Crash, CleanerTypes, CleanerRelies, Sleeping, CleanerPcs
<1>5. CallTypes' /\ \A q \in Requests : call'[q].pc \notin {"del", "delrow"}
  BY DEF Crash, ArcInv, ArcTypes, CallTypes, Done
<1>6. \A q \in Requests : CallRelies(q)'
  BY <1>5 DEF CallRelies
<1>7. ArcTypes'
  BY <1>2, <1>3, <1>4, <1>5 DEF ArcTypes
<1>8. FilesOwn' /\ RowsOwn' /\ NothingStranded'
  BY <1>3, <1>7, OwnMoves, StrandedMoves DEF ArcInv
<1> QED
  BY <1>4, <1>6, <1>7, <1>8 DEF ArcInv

\* The worker, the clock and what only the bounds see.
LEMMA OthersKeep ==
  ASSUME ArcInv, UNCHANGED <<file, row, hook, cleaner, call, left>>,
         clock' \in Nat
  PROVE  ArcInv'
<1>1. ArcMoves /\ TableTypes' /\ CleanerTypes' /\ CallTypes'
  BY TablesStill, TypesStay DEF ArcInv, ArcTypes
<1>2. HookTypes'
  BY DEF ArcInv, ArcTypes, HookTypes
<1>3. ArcTypes'
  BY <1>1, <1>2 DEF ArcTypes
<1> QED
  BY <1>1, <1>3, AfterHook

LEMMA ArcInvStep ==
  ASSUME ArcInv, [Next]_vars
  PROVE  ArcInv'
<1>0. clock \in Nat
  BY DEF ArcInv, ArcTypes, HookTypes
<1>1. CASE UNCHANGED vars
  BY <1>0, <1>1, OthersKeep DEF vars, tables, bounds, seen
<1>2. CASE Worker
  BY <1>0, <1>2, OthersKeep
  DEF Worker, WorkerAlone, GetJob, Sweep, SweepTarget, Upload, RecordJob, tables, bounds, seen
<1>3. CASE Pass
  BY <1>0, <1>3, OthersKeep DEF Pass, tables, seen
<1>4. CASE Cleaner
  BY <1>4, CleanStartKeeps, CleanFileKeeps, CleanRowKeeps, CleanGoesKeeps DEF Cleaner
<1> QED
  BY <1>1, <1>2, <1>3, <1>4, HookKeeps, CallKeeps, CrashKeeps DEF Next

LEMMA ArcInvInit ==
  ASSUME Init
  PROVE  ArcInv
<1> PICK s \in Scenarios :
      /\ file = [p \in Paths |-> 0] /\ row = [id \in Recs |-> None]
      /\ hook = [r \in Recs |-> [pc |-> IF r \in s.recs THEN "due" ELSE "never", now |-> 0]]
      /\ cleaner = Sleeping /\ clock = 0
      /\ call = [q \in Requests |-> IF q \in s.reqs THEN ToCome ELSE Never]
  BY DEF Init
<1>1. TableTypes /\ HookTypes /\ CleanerTypes
  BY DEF TableTypes, HookTypes, HookPcs, CleanerTypes, CleanerPcs, Sleeping
<1>2. CallTypes /\ \A q \in Requests : call[q].pc \in {"due", "never"}
  BY DEF CallTypes, ToCome, Never, Done
<1>3. FilesOwn /\ RowsOwn /\ NothingStranded
  BY Assumed DEF FilesOwn, RowsOwn, NothingStranded
<1>4. CleanerRelies /\ \A q \in Requests : CallRelies(q)
  BY <1>2 DEF CleanerRelies, CallRelies, Sleeping
<1> QED
  BY <1>1, <1>2, <1>3, <1>4 DEF ArcInv, ArcTypes

\* No recording is lost to sight: whatever cleanup, deletes, wipes, hooks and restarts do
\* between one another's steps, a file whose hook is through has a row, unless its removal
\* failed, a wipe took a row it had not listed, or its path was recorded twice.
THEOREM NothingStrandedAlways == Spec => []NothingStranded
<1>1. Init => ArcInv
  BY ArcInvInit
<1>2. ArcInv /\ [Next]_vars => ArcInv'
  BY ArcInvStep
<1>3. ArcInv => NothingStranded
  BY DEF ArcInv
<1> QED
  BY <1>1, <1>2, <1>3, PTL DEF Spec

-----------------------------------------------------------------------------
(* The bytes of the table: sums over finite sets, in any order. *)

\* A set of subsets of a finite set has a smallest one.
LEMMA LeastSet ==
  ASSUME NEW F, IsFiniteSet(F), NEW T, T \subseteq SUBSET F, T # {}
  PROVE  \E x \in T : \A y \in T : ~ (y \subseteq x /\ y # x)
<1> DEFINE R == StrictSubsetOrdering(F)
<1>1. T \subseteq FiniteSubsetsOf(F)
  BY FS_Subset DEF FiniteSubsetsOf
<1>2. IsWellFoundedOn(R, FiniteSubsetsOf(F))
  BY FS_StrictSubsetOrderingWellFounded
<1>3. PICK x \in T : \A y \in T : ~ (<<y, x>> \in R)
  <2> HIDE DEF R
  <2> QED
    BY <1>1, <1>2, WFMin
<1>4. ASSUME NEW y \in T, y \subseteq x, y # x PROVE FALSE
  <2>1. x \in SUBSET F /\ y \in SUBSET F
    OBVIOUS
  <2>2. <<y, x>> \in R
    BY <1>4, <2>1 DEF StrictSubsetOrdering
  <2> QED
    BY <1>3, <2>2
<1> QED
  BY <1>4

Pick(s) == CHOOSE x \in s : TRUE

LEMMA PickIn ==
  ASSUME NEW s, s # {}
  PROVE  Pick(s) \in s
BY DEF Pick

\* The function by which FoldSet adds the weights w of the members of S.
Sums(g, w, S) ==
  g = [s \in SUBSET S |-> IF s = {} THEN 0 ELSE g[s \ {Pick(s)}] + w[Pick(s)]]

Total(w, S) == (CHOOSE g : Sums(g, w, S))[S]

LEMMA SumsAt ==
  ASSUME NEW g, NEW w, NEW S, Sums(g, w, S), NEW s \in SUBSET S
  PROVE  g[s] = IF s = {} THEN 0 ELSE g[s \ {Pick(s)}] + w[Pick(s)]
<1> DEFINE F(h, u) == IF u = {} THEN 0 ELSE h[u \ {Pick(u)}] + w[Pick(u)]
<1>1. g = [u \in SUBSET S |-> F(g, u)]
  BY DEF Sums
<1> HIDE DEF F
<1>2. g[s] = F(g, s)
  BY <1>1
<1> QED
  BY <1>2 DEF F

\* What it is for a set depends on the weights in that set only.
LEMMA SumsAgree ==
  ASSUME NEW S, IsFiniteSet(S), NEW T, NEW g, NEW h, NEW w, NEW v,
         Sums(g, w, S), Sums(h, v, T),
         NEW s \in SUBSET S, s \in SUBSET T, \A i \in s : w[i] = v[i]
  PROVE  g[s] = h[s]
<1> DEFINE X == {u \in SUBSET S : u \in SUBSET T /\ (\A i \in u : w[i] = v[i]) /\ g[u] # h[u]}
<1>1. ASSUME X # {} PROVE FALSE
  <2>1. X \subseteq SUBSET S
    OBVIOUS
  <2>2. PICK x \in X : \A y \in X : ~ (y \subseteq x /\ y # x)
    <3> HIDE DEF X
    <3> QED
      BY <1>1, <2>1, LeastSet
  <2>3. x \in SUBSET S /\ x \in SUBSET T /\ (\A i \in x : w[i] = v[i]) /\ g[x] # h[x]
    BY <2>2 DEF X
  <2> HIDE DEF X
  <2>4. g[x] = IF x = {} THEN 0 ELSE g[x \ {Pick(x)}] + w[Pick(x)]
    BY <2>3, SumsAt
  <2>9. h[x] = IF x = {} THEN 0 ELSE h[x \ {Pick(x)}] + v[Pick(x)]
    BY <2>3, SumsAt
  <2>5. x # {} /\ Pick(x) \in x
    BY <2>3, <2>4, <2>9, PickIn
  <2>6. x \ {Pick(x)} \subseteq x /\ x \ {Pick(x)} # x
    BY <2>5
  <2>7. x \ {Pick(x)} \notin X
    BY <2>2, <2>6
  <2>8. g[x \ {Pick(x)}] = h[x \ {Pick(x)}]
    BY <2>3, <2>7 DEF X
  <2> QED
    BY <2>3, <2>4, <2>5, <2>8, <2>9
<1> QED
  BY <1>1

LEMMA SumsExist ==
  ASSUME NEW S, IsFiniteSet(S), NEW w
  PROVE  \E g : Sums(g, w, S)
<1> DEFINE X == {s \in SUBSET S : ~ \E g : Sums(g, w, s)}
<1>1. ASSUME X # {} PROVE FALSE
  <2>1. X \subseteq SUBSET S
    OBVIOUS
  <2>2. PICK x \in X : \A y \in X : ~ (y \subseteq x /\ y # x)
    <3> HIDE DEF X
    <3> QED
      BY <1>1, <2>1, LeastSet
  <2>3. ASSUME NEW y, y \subseteq x, y # x
        PROVE  Sums(CHOOSE g : Sums(g, w, y), w, y) /\ IsFiniteSet(y)
    <3>1. y \in SUBSET S /\ y \notin X
      BY <2>2, <2>3
    <3>2. \E g : Sums(g, w, y)
      BY <3>1
    <3> QED
      BY <3>1, <3>2, FS_Subset
  <2> DEFINE f == [s \in SUBSET x |->
                     IF s = {} THEN 0 ELSE Total(w, s \ {Pick(s)}) + w[Pick(s)]]
  <2>4. ASSUME NEW s \in SUBSET x, s # {}
        PROVE  f[s \ {Pick(s)}] = Total(w, s \ {Pick(s)})
    <3> DEFINE u == s \ {Pick(s)}
               h == CHOOSE g : Sums(g, w, u)
    <3>1. u \in SUBSET x /\ u # x
      BY <2>4, PickIn
    <3>2. Sums(h, w, u) /\ IsFiniteSet(u) /\ Total(w, u) = h[u]
      BY <2>3, <3>1 DEF Total
    <3>3. CASE u = {}
      <4>1. h[u] = 0
        BY <3>2, <3>3, SumsAt
      <4>2. f[u] = 0
        BY <3>1, <3>3
      <4> QED
        BY <3>2, <4>1, <4>2
    <3>4. CASE u # {}
      <4> DEFINE z == u \ {Pick(u)}
                 k == CHOOSE g : Sums(g, w, z)
      <4>1. z \in SUBSET u /\ z # x /\ z \subseteq x
        BY <3>1, <3>4, PickIn
      <4>2. Sums(k, w, z) /\ Total(w, z) = k[z]
        BY <2>3, <4>1 DEF Total
      <4>3. h[u] = h[z] + w[Pick(u)]
        <5>1. u \in SUBSET u
          OBVIOUS
        <5> HIDE DEF h, k, u
        <5> QED
          BY <3>2, <3>4, <5>1, SumsAt
      <4>4. h[z] = k[z]
        <5> HIDE DEF h, k, z, u
        <5> QED
          BY <3>2, <4>1, <4>2, SumsAgree
      <4>5. f[u] = Total(w, z) + w[Pick(u)]
        BY <3>1, <3>4
      <4> QED
        BY <3>2, <4>2, <4>3, <4>4, <4>5
    <3> QED
      BY <3>3, <3>4
  <2>5. f = [s \in SUBSET x |-> IF s = {} THEN 0 ELSE f[s \ {Pick(s)}] + w[Pick(s)]]
    <3> DEFINE e(s) == IF s = {} THEN 0 ELSE f[s \ {Pick(s)}] + w[Pick(s)]
    <3>1. \A s \in SUBSET x : f[s] = e(s)
      BY <2>4
    <3>2. f = [s \in SUBSET x |-> f[s]]
      OBVIOUS
    <3> HIDE DEF f, e
    <3>3. f = [s \in SUBSET x |-> e(s)]
      BY <3>1, <3>2
    <3> QED
      BY <3>3 DEF e
  <2>6. Sums(f, w, x)
    <3> HIDE DEF f
    <3> QED
      BY <2>5 DEF Sums
  <2> QED
    BY <2>2, <2>6
<1>2. S \in SUBSET S /\ S \notin X
  BY <1>1
<1> QED
  BY <1>2

LEMMA TotalSums ==
  ASSUME NEW S, IsFiniteSet(S), NEW w
  PROVE  \E g : Sums(g, w, S) /\ Total(w, S) = g[S]
<1>1. Sums(CHOOSE g : Sums(g, w, S), w, S)
  BY SumsExist
<1> QED
  BY <1>1 DEF Total

LEMMA TotalStep ==
  ASSUME NEW S, IsFiniteSet(S), NEW w
  PROVE  /\ S = {} => Total(w, S) = 0
         /\ S # {} => /\ IsFiniteSet(S \ {Pick(S)}) /\ Pick(S) \in S
                      /\ Total(w, S) = Total(w, S \ {Pick(S)}) + w[Pick(S)]
<1> DEFINE u == S \ {Pick(S)}
<1>1. PICK g : Sums(g, w, S) /\ Total(w, S) = g[S]
  BY TotalSums
<1>2. IsFiniteSet(u) /\ u \in SUBSET S
  BY FS_Subset
<1>3. PICK h : Sums(h, w, u) /\ Total(w, u) = h[u]
  BY <1>2, TotalSums
<1>4. g[S] = IF S = {} THEN 0 ELSE g[u] + w[Pick(S)]
  BY <1>1, SumsAt
<1>5. h[u] = g[u]
  <2> HIDE DEF u
  <2> QED
    BY <1>1, <1>2, <1>3, SumsAgree
<1> QED
  BY <1>1, <1>2, <1>3, <1>4, <1>5, PickIn

\* Sums of numbers are numbers.
LEMMA TotalType ==
  ASSUME NEW S, IsFiniteSet(S), NEW w, \A i \in S : w[i] \in Nat
  PROVE  Total(w, S) \in Nat
<1> DEFINE X == {s \in SUBSET S : Total(w, s) \notin Nat}
<1>1. ASSUME X # {} PROVE FALSE
  <2>1. X \subseteq SUBSET S
    OBVIOUS
  <2>2. PICK x \in X : \A y \in X : ~ (y \subseteq x /\ y # x)
    <3> HIDE DEF X
    <3> QED
      BY <1>1, <2>1, LeastSet
  <2>3. IsFiniteSet(x) /\ x \in SUBSET S /\ Total(w, x) \notin Nat
    BY <2>2, FS_Subset
  <2>4. x # {}
    BY <2>3, TotalStep
  <2>5. Pick(x) \in x /\ Total(w, x) = Total(w, x \ {Pick(x)}) + w[Pick(x)]
    BY <2>3, <2>4, TotalStep
  <2>6. x \ {Pick(x)} \in SUBSET S /\ x \ {Pick(x)} \notin X
    BY <2>2, <2>3, <2>5
  <2>7. Total(w, x \ {Pick(x)}) \in Nat /\ w[Pick(x)] \in Nat
    BY <2>3, <2>5, <2>6
  <2> QED
    BY <2>3, <2>5, <2>7
<1>2. S \in SUBSET S /\ S \notin X
  BY <1>1
<1> QED
  BY <1>2

\* A sum of two weights is compared with another member by member.
LEMMA TotalsCompare ==
  ASSUME NEW S, IsFiniteSet(S), NEW a, NEW b, NEW c, NEW d,
         \A i \in S : a[i] \in Nat /\ b[i] \in Nat /\ c[i] \in Nat /\ d[i] \in Nat,
         \A i \in S : a[i] + b[i] <= c[i] + d[i]
  PROVE  Total(a, S) + Total(b, S) <= Total(c, S) + Total(d, S)
<1> DEFINE Ok(s) == Total(a, s) + Total(b, s) <= Total(c, s) + Total(d, s)
           X == {s \in SUBSET S : ~ Ok(s)}
<1>1. ASSUME X # {} PROVE FALSE
  <2>1. X \subseteq SUBSET S
    OBVIOUS
  <2>2. PICK x \in X : \A y \in X : ~ (y \subseteq x /\ y # x)
    <3> HIDE DEF X
    <3> QED
      BY <1>1, <2>1, LeastSet
  <2>3. IsFiniteSet(x) /\ x \in SUBSET S /\ ~ Ok(x)
    BY <2>2, FS_Subset
  <2>4. x # {}
    <3>1. x = {} => Total(a, x) = 0 /\ Total(b, x) = 0 /\ Total(c, x) = 0 /\ Total(d, x) = 0
      BY <2>3, TotalStep
    <3> QED
      BY <2>3, <3>1
  <2> DEFINE y == x \ {Pick(x)}
             p == Pick(x)
  <2>5. IsFiniteSet(y) /\ p \in x
    BY <2>3, <2>4, TotalStep
  <2>6. y \in SUBSET S /\ y \notin X
    BY <2>2, <2>3, <2>5
  <2>7. Ok(y)
    BY <2>6
  <2>8. /\ Total(a, x) = Total(a, y) + a[p] /\ Total(b, x) = Total(b, y) + b[p]
        /\ Total(c, x) = Total(c, y) + c[p] /\ Total(d, x) = Total(d, y) + d[p]
    BY <2>3, <2>4, TotalStep
  <2>9. \A i \in y : a[i] \in Nat /\ b[i] \in Nat /\ c[i] \in Nat /\ d[i] \in Nat
    BY <2>6
  <2>10. a[p] \in Nat /\ b[p] \in Nat /\ c[p] \in Nat /\ d[p] \in Nat
         /\ a[p] + b[p] <= c[p] + d[p]
    BY <2>3, <2>5
  <2> HIDE DEF y, p, X
  <2>11. Total(a, y) \in Nat /\ Total(b, y) \in Nat
    BY <2>5, <2>9, TotalType
  <2>12. Total(c, y) \in Nat /\ Total(d, y) \in Nat
    BY <2>5, <2>9, TotalType
  <2> QED
    BY <2>3, <2>7, <2>8, <2>10, <2>11, <2>12
<1>2. S \in SUBSET S /\ S \notin X
  BY <1>1
<1> QED
  BY <1>2

\* The order does not matter: any member can be the last.
LEMMA TotalTake ==
  ASSUME NEW S, IsFiniteSet(S), NEW w, \A i \in S : w[i] \in Nat
  PROVE  \A e \in S : Total(w, S) = Total(w, S \ {e}) + w[e]
<1> DEFINE Ok(s, e) == Total(w, s) = Total(w, s \ {e}) + w[e]
           X == {s \in SUBSET S : \E e \in s : ~ Ok(s, e)}
<1>1. ASSUME X # {} PROVE FALSE
  <2>1. X \subseteq SUBSET S
    OBVIOUS
  <2>2. PICK x \in X : \A y \in X : ~ (y \subseteq x /\ y # x)
    <3> HIDE DEF X
    <3> QED
      BY <1>1, <2>1, LeastSet
  <2>3. PICK e \in x : ~ Ok(x, e)
    BY <2>2
  <2>4. IsFiniteSet(x) /\ x \in SUBSET S /\ e \in x
    BY <2>2, FS_Subset
  <2> DEFINE p == Pick(x)
             y == x \ {p}
             z == x \ {e}
             u == x \ {p, e}
  <2>5. p \in x /\ Total(w, x) = Total(w, y) + w[p]
    BY <2>4, TotalStep
  <2>6. p # e
    BY <2>3, <2>5
  <2>7. y \in SUBSET S /\ y \notin X /\ e \in y /\ y \ {e} = u
    BY <2>2, <2>4, <2>5, <2>6
  <2>8. Total(w, y) = Total(w, u) + w[e]
    BY <2>7
  <2>9. z \in SUBSET S /\ z \notin X /\ p \in z /\ z \ {p} = u
    BY <2>2, <2>4, <2>5, <2>6
  <2>10. Total(w, z) = Total(w, u) + w[p]
    BY <2>9
  <2>11. IsFiniteSet(u) /\ (\A i \in u : w[i] \in Nat) /\ w[p] \in Nat /\ w[e] \in Nat
    BY <2>4, <2>5, FS_Subset
  <2>12. Total(w, x) # Total(w, z) + w[e]
    BY <2>3
  <2> HIDE DEF p, y, z, u, X
  <2>13. Total(w, u) \in Nat
    BY <2>11, TotalType
  <2> QED
    BY <2>5, <2>8, <2>10, <2>11, <2>12, <2>13
<1>2. S \in SUBSET S /\ S \notin X
  BY <1>1
<1> QED
  BY <1>2

\* Members of no weight do not count.
LEMMA TotalZeros ==
  ASSUME NEW T, IsFiniteSet(T), NEW w, \A i \in T : w[i] \in Nat,
         NEW S \in SUBSET T, \A i \in T \ S : w[i] = 0
  PROVE  Total(w, S) = Total(w, T)
<1> DEFINE X == {s \in SUBSET T : S \subseteq s /\ Total(w, s) # Total(w, S)}
<1>1. ASSUME X # {} PROVE FALSE
  <2>1. X \subseteq SUBSET T
    OBVIOUS
  <2>2. PICK x \in X : \A y \in X : ~ (y \subseteq x /\ y # x)
    <3> HIDE DEF X
    <3> QED
      BY <1>1, <2>1, LeastSet
  <2>3. IsFiniteSet(x) /\ x \in SUBSET T /\ S \subseteq x /\ Total(w, x) # Total(w, S)
    BY <2>2, FS_Subset
  <2>4. PICK e \in x : e \notin S
    BY <2>3
  <2> DEFINE y == x \ {e}
  <2>5. y \in SUBSET T /\ y \notin X /\ S \subseteq y /\ w[e] = 0
    BY <2>2, <2>3, <2>4
  <2>6. Total(w, y) = Total(w, S)
    BY <2>5
  <2>7. IsFiniteSet(y) /\ (\A i \in y : w[i] \in Nat) /\ (\A i \in x : w[i] \in Nat)
    BY <2>3, <2>5, FS_Subset
  <2> HIDE DEF X
  <2>8. Total(w, x) = Total(w, y) + w[e]
    BY <2>3, <2>4, <2>7, TotalTake
  <2> HIDE DEF y
  <2>9. Total(w, y) \in Nat
    BY <2>7, TotalType
  <2> QED
    BY <2>3, <2>5, <2>6, <2>8, <2>9
<1>2. T \in SUBSET T /\ T \notin X
  BY <1>1
<1> QED
  BY <1>2

\* The weights of the rows of table t; their sum, as Bytes and Lost take it.
Weights(t) == [id \in Recs |-> IF t[id] = None THEN 0 ELSE SizeOf[t[id].rec]]

TableSum(t) ==
  FoldSet(LAMBDA id, n : n + SizeOf[t[id].rec], 0, {id \in Recs : t[id] # None})

LEMMA BytesIs == Bytes = TableSum(row)
BY DEF Bytes, TableSum, Rows

LEMMA LostIs ==
  ASSUME NEW t, NEW u
  PROVE  Lost(t, u) = IF TableSum(u) < TableSum(t) THEN TableSum(t) - TableSum(u) ELSE 0
BY DEF Lost, TableSum

LEMMA TableSumIs ==
  ASSUME IsFiniteSet(Recs), NEW t,
         \A id \in Recs : t[id] # None => SizeOf[t[id].rec] \in Nat
  PROVE  TableSum(t) = Total(Weights(t), Recs) /\ TableSum(t) \in Nat
<1> DEFINE S == {id \in Recs : t[id] # None}
           w == Weights(t)
           P(g) == g = [s \in SUBSET S |->
                          IF s = {} THEN 0 ELSE g[s \ {Pick(s)}] + SizeOf[t[Pick(s)].rec]]
           G == CHOOSE g : P(g)
<1>1. TableSum(t) = G[S]
  BY Zenon DEF TableSum, FoldSet, MapThenFoldSet, Pick
<1>2. \A g : P(g) <=> Sums(g, w, S)
  <2> TAKE g
  <2>1. \A s \in SUBSET S : s # {} => w[Pick(s)] = SizeOf[t[Pick(s)].rec]
    BY PickIn DEF Weights
  <2> DEFINE a(s) == IF s = {} THEN 0 ELSE g[s \ {Pick(s)}] + SizeOf[t[Pick(s)].rec]
             b(s) == IF s = {} THEN 0 ELSE g[s \ {Pick(s)}] + w[Pick(s)]
  <2>2. \A s \in SUBSET S : a(s) = b(s)
    BY <2>1
  <2> HIDE DEF a, b, S, w
  <2>3. [s \in SUBSET S |-> a(s)] = [s \in SUBSET S |-> b(s)]
    BY <2>2
  <2> QED
    BY <2>3 DEF a, b, Sums
<1>3. IsFiniteSet(S) /\ S \in SUBSET Recs
  BY FS_Subset
<1>4. \A i \in Recs : w[i] \in Nat
  BY DEF Weights
<1>5. \A i \in Recs \ S : w[i] = 0
  BY DEF Weights
<1> HIDE DEF S, w, P
<1>6. PICK g : Sums(g, w, S) /\ Total(w, S) = g[S]
  BY <1>3, TotalSums
<1>7. P(G)
  <2>1. P(g)
    BY <1>2, <1>6
  <2> QED
    BY <2>1
<1> HIDE DEF G
<1>8. Sums(G, w, S)
  BY <1>2, <1>7
<1>9. G[S] = g[S]
  BY <1>3, <1>6, <1>8, SumsAgree
<1>10. Total(w, S) = Total(w, Recs)
  BY <1>3, <1>4, <1>5, TotalZeros
<1>11. Total(w, Recs) \in Nat
  BY <1>4, TotalType
<1> QED
  BY <1>1, <1>6, <1>9, <1>10, <1>11 DEF w

-----------------------------------------------------------------------------
(* The cleanup worker: what it takes is due. *)

PolicyOk ==
  /\ policy \in Policy
  /\ cleaner.pc # "sleep" => cleaner.cfg \in Policy

\* A row keeps the time its hook entered it with.
BornOk == \A id \in Recs : row[id] # None => row[id].born = hook[id].now

OneRow == \A id, jd \in Recs :
            row[id] # None /\ row[jd] # None /\ PathOf[id] = PathOf[jd] => id = jd

AgeOk == cleaner.pc \in {"age", "agerow"} =>
           \A s \in cleaner.todo : hook[s.id].now + 2 * cleaner.cfg.age <= clock

CutOk ==
  /\ cleaner.total \in Nat /\ others \in Nat
  /\ cleaner.pc = "list" => cleaner.todo = {}
  /\ cleaner.pc = "prunerow" => cleaner.total > cleaner.cfg.cap

\* What the worker still counts on: for every row c bytes, no more than the row has now, and
\* no more than the worker takes off its total with it.
Budget(c) ==
  /\ \A id \in Recs : c[id] <= Weights(row)[id]
  /\ \A s \in cleaner.todo : c[s.id] <= SizeOf[s.rec]
  /\ cleaner.total <= Total(c, Recs) + others

\* Its total is covered, though a recording that replaces a listed one may be larger or
\* smaller: "no more than the rows have" alone is not kept when a row that grew is taken.
BudgetOk == cleaner.pc \in {"list", "prune", "prunerow"} => \E c \in [Recs -> Nat] : Budget(c)

DueInv == PolicyOk /\ BornOk /\ OneRow /\ AgeOk /\ CutOk /\ BudgetOk

Table == [Recs -> [rec : Recs, born : Nat] \cup {None}]

\* What a table weighs.
LEMMA TableWeighs ==
  ASSUME NEW t, t \in Table
  PROVE  /\ \A id \in Recs : /\ Weights(t)[id] \in Nat
                             /\ t[id] = None => Weights(t)[id] = 0
                             /\ t[id] # None => Weights(t)[id] = SizeOf[t[id].rec]
         /\ TableSum(t) = Total(Weights(t), Recs) /\ TableSum(t) \in Nat
<1>1. \A id \in Recs : t[id] # None => SizeOf[t[id].rec] \in Nat
  BY Assumed DEF Table
<1>2. IsFiniteSet(Recs)
  BY ArchiveAssumption DEF ArchiveAssumption
<1>3. TableSum(t) = Total(Weights(t), Recs) /\ TableSum(t) \in Nat
  BY <1>1, <1>2, TableSumIs
<1> QED
  BY <1>1, <1>3 DEF Weights

\* One sum is below another when every weight is.
LEMMA TotalGrows ==
  ASSUME NEW a \in [Recs -> Nat], NEW b, \A i \in Recs : b[i] \in Nat /\ a[i] <= b[i]
  PROVE  Total(a, Recs) <= Total(b, Recs) /\ Total(a, Recs) \in Nat /\ Total(b, Recs) \in Nat
<1>1. IsFiniteSet(Recs)
  BY ArchiveAssumption DEF ArchiveAssumption
<1>2. Total(a, Recs) \in Nat
  BY <1>1, TotalType
<1>3. Total(b, Recs) \in Nat
  BY <1>1, TotalType
<1>4. \A i \in Recs : /\ a[i] \in Nat /\ b[i] \in Nat
                      /\ a[i] + a[i] <= b[i] + b[i]
  OBVIOUS
<1>5. Total(a, Recs) + Total(a, Recs) <= Total(b, Recs) + Total(b, Recs)
  BY <1>1, <1>4, TotalsCompare
<1> QED
  BY <1>2, <1>3, <1>5

\* Where a covered total is covered by the rows, whatever the worker has in hand.
LEMMA BudgetBytes ==
  ASSUME ArcInv, CutOk, NEW c \in [Recs -> Nat], Budget(c)
  PROVE  cleaner.total <= Bytes + others /\ Bytes \in Nat
<1>1. row \in Table
  BY DEF ArcInv, ArcTypes, TableTypes, Table
<1>2. /\ \A id \in Recs : Weights(row)[id] \in Nat
      /\ Bytes = Total(Weights(row), Recs) /\ Bytes \in Nat
  BY <1>1, TableWeighs, BytesIs
<1>3. Total(c, Recs) <= Bytes /\ Total(c, Recs) \in Nat
  BY <1>2, TotalGrows DEF Budget
<1> QED
  BY <1>2, <1>3 DEF Budget, CutOk

\* A row that is there was entered by a hook that is through, a listed one too.
LEMMA RowThrough ==
  ASSUME ArcInv
  PROVE  /\ \A id \in Recs : row[id] # None => Through(id)
         /\ \A s \in cleaner.todo : Through(s.id) /\ s.id \in Recs /\ s.rec \in Recs
                                    /\ SizeOf[s.rec] \in Nat
<1>1. \A s \in cleaner.todo : s.id \in Recs /\ s.rec \in Recs
  BY DEF ArcInv, ArcTypes, CleanerTypes, Segs
<1> QED
  BY <1>1, Assumed DEF ArcInv, RowsOwn, CleanerRelies

\* The time of a hook that is through stays.
NowStays == \A r \in Recs : Through(r) => hook'[r].now = hook[r].now

\* The steps that leave rows and worker alone.
LEMMA DueStays ==
  ASSUME ArcInv, DueInv, NowStays, UNCHANGED <<row, cleaner, others>>,
         policy' \in Policy, clock' \in Nat, clock <= clock'
  PROVE  DueInv'
<1> USE RowThrough
<1>1. PolicyOk' /\ OneRow' /\ CutOk'
  BY DEF DueInv, PolicyOk, OneRow, CutOk
<1>2. BornOk'
  BY DEF DueInv, BornOk, NowStays
<1>3. AgeOk'
  <2> SUFFICES ASSUME cleaner.pc \in {"age", "agerow"}, NEW s \in cleaner.todo
               PROVE  hook'[s.id].now + 2 * cleaner.cfg.age <= clock'
    BY DEF AgeOk
  <2>1. hook[s.id].now + 2 * cleaner.cfg.age <= clock /\ hook'[s.id].now = hook[s.id].now
    BY DEF DueInv, AgeOk, NowStays
  <2>2. hook[s.id].now \in Nat /\ clock \in Nat /\ cleaner.cfg.age \in Nat
    BY DEF DueInv, PolicyOk, Policy, ArcInv, ArcTypes, HookTypes
  <2> QED
    BY <2>1, <2>2
<1>4. BudgetOk'
  BY DEF DueInv, BudgetOk, Budget
<1> QED
  BY <1>1, <1>2, <1>3, <1>4 DEF DueInv

Lighter(m, n) == IF m < n THEN m ELSE n

\* The steps that change the rows beside the worker: what they take off is counted in others.
LEMMA RowsChange ==
  ASSUME ArcInv, ArcTypes', DueInv, NowStays, UNCHANGED <<cleaner, policy, clock>>,
         others' = others + Lost(row, row'), BornOk', OneRow',
         \/ \A id \in Recs : Weights(row)[id] <= Weights(row')[id]
         \/ \A id \in Recs : Weights(row')[id] <= Weights(row)[id]
  PROVE  DueInv'
<1> USE RowThrough
<1>1. row \in Table /\ row' \in Table
  BY DEF ArcInv, ArcTypes, TableTypes, Table
<1>2. /\ \A id \in Recs : Weights(row)[id] \in Nat
      /\ TableSum(row) = Total(Weights(row), Recs) /\ TableSum(row) \in Nat
  BY <1>1, TableWeighs
<1>3. /\ \A id \in Recs : Weights(row')[id] \in Nat
      /\ TableSum(row') = Total(Weights(row'), Recs) /\ TableSum(row') \in Nat
  BY <1>1, TableWeighs
<1>4. Lost(row, row') = IF TableSum(row') < TableSum(row) THEN TableSum(row) - TableSum(row')
                        ELSE 0
  BY LostIs
<1>5. others \in Nat /\ others' \in Nat
  BY <1>2, <1>3, <1>4 DEF DueInv, CutOk
<1>6. PolicyOk' /\ CutOk'
  BY <1>5 DEF DueInv, PolicyOk, CutOk
<1>7. AgeOk'
  BY DEF DueInv, AgeOk, NowStays
<1>8. BudgetOk'
  <2> SUFFICES ASSUME cleaner.pc \in {"list", "prune", "prunerow"}
               PROVE  \E c \in [Recs -> Nat] : Budget(c)'
    BY DEF BudgetOk
  <2>1. PICK c \in [Recs -> Nat] : Budget(c)
    BY DEF DueInv, BudgetOk
  <2> DEFINE d == [id \in Recs |-> Lighter(c[id], Weights(row')[id])]
  <2>2. \A id \in Recs : /\ d[id] \in Nat /\ d[id] <= c[id] /\ d[id] <= Weights(row')[id]
                         /\ c[id] \in Nat /\ c[id] <= Weights(row)[id]
                         /\ (d[id] = c[id] \/ d[id] = Weights(row')[id])
    BY <1>3, <2>1 DEF Lighter, Budget
  <2>3. d \in [Recs -> Nat]
    BY <2>2
  <2>4. IsFiniteSet(Recs)
    BY ArchiveAssumption DEF ArchiveAssumption
  <2> HIDE DEF d
  <2>5. Total(d, Recs) \in Nat /\ Total(c, Recs) \in Nat
    BY <2>2, <2>4, TotalType
  <2>6. cleaner.total \in Nat /\ cleaner.total <= Total(c, Recs) + others
    BY <2>1 DEF Budget, DueInv, CutOk
  <2>7. cleaner.total <= Total(d, Recs) + others'
    <3>1. CASE \A id \in Recs : Weights(row)[id] <= Weights(row')[id]
      <4>1. \A id \in Recs : c[id] <= d[id]
        BY <1>2, <1>3, <2>2, <3>1
      <4>2. Total(c, Recs) <= Total(d, Recs)
        BY <2>2, <4>1, TotalGrows
      <4> QED
        BY <1>2, <1>3, <1>4, <1>5, <2>5, <2>6, <4>2
    <3>2. CASE \A id \in Recs : Weights(row')[id] <= Weights(row)[id]
      <4> DEFINE W == Weights(row)
                 V == Weights(row')
      <4>1. \A id \in Recs : /\ c[id] \in Nat /\ V[id] \in Nat /\ d[id] \in Nat /\ W[id] \in Nat
                             /\ c[id] + V[id] <= d[id] + W[id]
        BY <1>2, <1>3, <2>2, <3>2
      <4>2. TableSum(row) = Total(W, Recs) /\ TableSum(row') = Total(V, Recs)
        BY <1>2, <1>3
      <4> HIDE DEF W, V
      <4>3. Total(c, Recs) + Total(V, Recs) <= Total(d, Recs) + Total(W, Recs)
        BY <2>4, <4>1, TotalsCompare
      <4>4. PICK m \in Nat, n \in Nat : m = TableSum(row) /\ n = TableSum(row')
        BY <1>2, <1>3
      <4>5. Total(c, Recs) + n <= Total(d, Recs) + m
        BY <4>2, <4>3, <4>4
      <4>6. others' = others + (IF n < m THEN m - n ELSE 0)
        BY <1>4, <4>4
      <4> QED
        BY <1>5, <2>5, <2>6, <4>5, <4>6
    <3> QED
      BY <3>1, <3>2
  <2>8. \A s \in cleaner.todo : d[s.id] <= SizeOf[s.rec]
    <3> SUFFICES ASSUME NEW s \in cleaner.todo PROVE d[s.id] <= SizeOf[s.rec]
      OBVIOUS
    <3>1. c[s.id] <= SizeOf[s.rec] /\ s.id \in Recs /\ SizeOf[s.rec] \in Nat
      BY <2>1 DEF Budget
    <3>2. d[s.id] <= c[s.id] /\ d[s.id] \in Nat /\ c[s.id] \in Nat
      BY <2>2, <3>1
    <3> QED
      BY <3>1, <3>2
  <2>9. PICK e \in [Recs -> Nat] : e = d
    BY <2>3
  <2>10. Budget(e)'
    BY <2>2, <2>7, <2>8, <2>9 DEF Budget
  <2> QED
    BY <2>10
<1> QED
  BY <1>6, <1>7, <1>8 DEF DueInv

\* A hook's step but for the entering of its row.
LEMMA HookDue ==
  ASSUME ArcInv, DueInv, NEW r \in Recs, NEW ok \in BOOLEAN,
         RecordTs(r) \/ ArchiveFile(r, ok) \/ Probe(r, ok)
  PROVE  DueInv'
<1>1. hook[r].pc \in {"due", "copy", "probe"} /\ UNCHANGED <<row, cleaner, others, policy, clock>>
  BY DEF RecordTs, ArchiveFile, Probe, tables, bounds, seen
<1>2. NowStays
  BY DEF RecordTs, ArchiveFile, Probe, HookTo, NowStays, Through, ArcInv, ArcTypes, HookTypes
<1>3. clock \in Nat /\ policy \in Policy
  BY DEF ArcInv, ArcTypes, HookTypes, DueInv, PolicyOk
<1> QED
  BY <1>1, <1>2, <1>3, DueStays

\* The row is entered or written anew.
LEMMA UpsertDue ==
  ASSUME ArcInv, DueInv, NEW r \in Recs, NEW ok \in BOOLEAN, Upsert(r, ok)
  PROVE  DueInv'
<1> DEFINE same == {id \in Rows : PathOf[id] = PathOf[r]}
<1>1. hook[r].pc = "upsert" /\ UNCHANGED <<cleaner, policy, clock>>
      /\ others' = others + Lost(row, row')
  BY DEF Upsert
<1>2. \A i \in Recs : hook'[i].now = hook[i].now
  BY DEF Upsert, HookTo, ArcInv, ArcTypes, HookTypes
<1>3. ArcTypes' /\ NowStays
  BY <1>2, UpsertMoves DEF ArcInv, NowStays
<1>4. row[r] = None
  BY <1>1, RowThrough DEF Through
<1>5. row \in Table /\ row' \in Table
  BY <1>3 DEF ArcInv, ArcTypes, TableTypes, Table
<1>6. \E x \in Recs : /\ \A id \in Recs \ {x} : row'[id] = row[id]
                      /\ PathOf[x] = PathOf[r]
                      /\ row'[x] = row[x] \/ row'[x].born = hook[x].now
                      /\ \A id \in Recs \ {x} : row[id] # None => PathOf[id] # PathOf[r]
                         \/ UNCHANGED row
  <2>1. CASE ~ok
    BY <2>1 DEF Upsert
  <2>2. CASE ok /\ same = {}
    <3>1. row' = [row EXCEPT ![r] = [rec |-> r, born |-> hook[r].now]]
      BY <2>2 DEF Upsert, RowFor
    <3>2. \A id \in Recs : row[id] # None => PathOf[id] # PathOf[r]
      BY <2>2 DEF Rows
    <3> QED
      BY <1>5, <3>1, <3>2 DEF Table
  <2>3. CASE ok /\ same # {}
    <3>1. row' = [id \in Recs |-> IF id \in same THEN [row[id] EXCEPT !.rec = r] ELSE row[id]]
      BY <2>3 DEF Upsert, RowFor
    <3>2. PICK x \in same : TRUE
      BY <2>3
    <3>3. x \in Recs /\ row[x] # None /\ PathOf[x] = PathOf[r]
      BY <3>2 DEF Rows
    <3>4. \A id \in Recs \ {x} : row[id] # None => PathOf[id] # PathOf[r]
      BY <3>3 DEF DueInv, OneRow
    <3>5. \A id \in Recs \ {x} : id \notin same
      BY <3>4 DEF Rows
    <3>6. row'[x] = [row[x] EXCEPT !.rec = r] /\ row[x] \in [rec : Recs, born : Nat]
      BY <1>5, <3>1, <3>2, <3>3 DEF Table
    <3>7. row'[x].born = row[x].born /\ row[x].born = hook[x].now
      BY <3>3, <3>6 DEF DueInv, BornOk
    <3> HIDE DEF same
    <3>8. \A id \in Recs \ {x} : row'[id] = row[id]
      BY <3>1, <3>5
    <3> QED
      BY <3>3, <3>4, <3>7, <3>8
  <2> QED
    BY <2>1, <2>2, <2>3
<1>7. PICK x \in Recs : /\ \A id \in Recs \ {x} : row'[id] = row[id]
                        /\ PathOf[x] = PathOf[r]
                        /\ row'[x] = row[x] \/ row'[x].born = hook[x].now
                        /\ \A id \in Recs \ {x} : row[id] # None => PathOf[id] # PathOf[r]
                           \/ UNCHANGED row
  BY <1>6
<1> HIDE DEF same
<1>8. BornOk'
  BY <1>2, <1>7 DEF DueInv, BornOk
<1>9. OneRow'
  BY <1>7 DEF DueInv, OneRow
<1>10. \/ \A id \in Recs : Weights(row)[id] <= Weights(row')[id]
       \/ \A id \in Recs : Weights(row')[id] <= Weights(row)[id]
  <2>1. \A id \in Recs : Weights(row)[id] \in Nat
    BY <1>5, TableWeighs
  <2>2. \A id \in Recs : Weights(row')[id] \in Nat
    BY <1>5, TableWeighs
  <2>3. \A id \in Recs \ {x} : Weights(row')[id] = Weights(row)[id]
    BY <1>7 DEF Weights
  <2> QED
    BY <2>1, <2>2, <2>3
<1> QED
  BY <1>1, <1>3, <1>8, <1>9, <1>10, RowsChange

\* Rows that go weigh nothing any more.
LEMMA RowsGo ==
  ASSUME ArcInv, ArcTypes', DueInv, UNCHANGED <<cleaner, policy, clock, hook>>,
         others' = others + Lost(row, row'),
         \A id \in Recs : row'[id] = row[id] \/ row'[id] = None
  PROVE  DueInv'
<1>1. row \in Table /\ row' \in Table
  BY DEF ArcInv, ArcTypes, TableTypes, Table
<1>2. BornOk' /\ OneRow' /\ NowStays
  BY DEF DueInv, BornOk, OneRow, NowStays
<1>3. \A id \in Recs : Weights(row)[id] \in Nat
  BY <1>1, TableWeighs
<1>4. \A id \in Recs : Weights(row')[id] <= Weights(row)[id]
  BY <1>3 DEF Weights
<1> QED
  BY <1>2, <1>4, RowsChange

LEMMA CallDue ==
  ASSUME ArcInv, ArcTypes', DueInv, NEW q \in Requests, Call(q)
  PROVE  DueInv'
<1>0. clock \in Nat /\ policy \in Policy
  BY DEF ArcInv, ArcTypes, HookTypes, DueInv, PolicyOk
<1>1. CASE \E ok \in BOOLEAN : DelRow(q, ok)
  <2> PICK ok \in BOOLEAN : DelRow(q, ok)
    BY <1>1
  <2>1. UNCHANGED <<cleaner, policy, clock, hook>> /\ others' = others + Lost(row, row')
    BY DEF DelRow
  <2>2. \A id \in Recs : row'[id] = row[id] \/ row'[id] = None
    BY DEF DelRow, DeleteRow, ArcInv, ArcTypes, TableTypes
  <2> QED
    BY <2>1, <2>2, RowsGo
<1>2. CASE \E ok \in BOOLEAN : WipeRows(q, ok)
  <2> PICK ok \in BOOLEAN : WipeRows(q, ok)
    BY <1>2
  <2>1. UNCHANGED <<cleaner, policy, clock, hook>> /\ others' = others + Lost(row, row')
    BY DEF WipeRows
  <2>2. \A id \in Recs : row'[id] = row[id] \/ row'[id] = None
    BY DEF WipeRows
  <2> QED
    BY <2>1, <2>2, RowsGo
<1>3. CASE \E ok \in BOOLEAN : DelFile(q, ok) \/ WipeFile(q, ok) \/ PutTarget(q, ok)
                               \/ DropTarget(q, ok) \/ DropJobs(q, ok)
  <2>1. UNCHANGED <<row, cleaner, others, policy, clock, hook>>
    BY <1>3 DEF DelFile, WipeFile, PutTarget, DropTarget, DropJobs, seen
  <2> QED
    BY <1>0, <2>1, DueStays DEF NowStays
<1>4. CASE \E ok \in BOOLEAN : SaveCleanup(q, ok)
  <2>1. UNCHANGED <<row, cleaner, others, clock, hook>> /\ policy' \in {policy, q.policy}
    BY <1>4 DEF SaveCleanup, seen
  <2>2. q.policy \in Policy
    BY ArchiveAssumption DEF ArchiveAssumption
  <2> QED
    BY <1>0, <2>1, <2>2, DueStays DEF NowStays
<1>5. CASE WipeList(q) \/ GetTarget(q) \/ PlayRead(q)
           \/ \E from, till \in Ranges \cup {None} : PlayOpen(q, from, till)
  <2>1. UNCHANGED <<row, cleaner, others, policy, clock, hook>>
    BY <1>5 DEF WipeList, GetTarget, PlayRead, PlayOpen, tables, bounds, seen
  <2> QED
    BY <1>0, <2>1, DueStays DEF NowStays
<1> QED
  BY <1>1, <1>2, <1>3, <1>4, <1>5 DEF Call

\* A day is two half days.
LEMMA DayIs ==
  ASSUME NEW t \in Nat
  PROVE  Day(t) \in Nat /\ 2 * Day(t) <= t /\ t <= 2 * Day(t) + 1
BY DEF Day

\* What is listed as expired is as old as the policy says.
LEMMA ExpiredDue ==
  ASSUME ArcInv, DueInv, NEW age \in Nat, NEW id \in Expired(age)
  PROVE  hook[id].now + 2 * age <= clock
<1>1. id \in Recs /\ row[id] # None /\ Day(row[id].born) + age < Day(clock)
  BY DEF Expired, Rows
<1>2. row[id].born = hook[id].now /\ hook[id].now \in Nat /\ clock \in Nat
  BY <1>1 DEF DueInv, BornOk, ArcInv, ArcTypes, HookTypes
<1>3. PICK a \in Nat, b \in Nat : a = hook[id].now /\ b = clock
  BY <1>2
<1>4. PICK m \in Nat, n \in Nat : m = Day(a) /\ n = Day(b)
  BY DayIs
<1>5. m + age < n /\ a <= 2 * m + 1 /\ 2 * n <= b
  BY <1>1, <1>2, <1>3, <1>4, DayIs
<1>6. a + 2 * age <= b
  BY <1>5
<1> QED
  BY <1>3, <1>6

LEMMA CleanStartDue ==
  ASSUME ArcInv, DueInv, NEW ok \in BOOLEAN, CleanStart(ok)
  PROVE  DueInv'
<1> DEFINE some == {Seg(id) : id \in Expired(policy.age)}
<1>1. UNCHANGED <<row, hook, clock, policy, others>>
  BY DEF CleanStart, tables, seen
<1>2. policy \in Policy /\ policy.age \in Nat
  BY DEF DueInv, PolicyOk, Policy
<1>3. \/ cleaner' = Sleeping
      \/ \E y \in SUBSET some :
           cleaner' = [Sleeping EXCEPT !.pc = "age", !.cfg = policy, !.todo = y]
  BY DEF CleanStart
<1>4. \A s \in some : hook[s.id].now + 2 * policy.age <= clock
  BY <1>2, ExpiredDue DEF Seg
<1> HIDE DEF some
<1>5. /\ cleaner'.pc \in {"sleep", "age"} /\ cleaner'.total = 0
      /\ cleaner'.pc = "age" => cleaner'.cfg = policy /\ cleaner'.todo \subseteq some
  <2>1. CASE cleaner' = Sleeping
    BY <2>1 DEF Sleeping
  <2>2. ASSUME NEW y \in SUBSET some,
               cleaner' = [Sleeping EXCEPT !.pc = "age", !.cfg = policy, !.todo = y]
        PROVE  /\ cleaner'.pc = "age" /\ cleaner'.total = 0
               /\ cleaner'.cfg = policy /\ cleaner'.todo = y
    BY <2>2 DEF Sleeping
  <2> QED
    BY <1>3, <2>1, <2>2
<1>6. PolicyOk' /\ BornOk' /\ OneRow'
  BY <1>1, <1>2, <1>5 DEF DueInv, PolicyOk, BornOk, OneRow
<1>7. AgeOk'
  BY <1>1, <1>4, <1>5 DEF AgeOk
<1>8. CutOk' /\ BudgetOk'
  BY <1>1, <1>5 DEF DueInv, CutOk, BudgetOk
<1> QED
  BY <1>6, <1>7, <1>8 DEF DueInv

LEMMA CleanFileDue ==
  ASSUME ArcInv, DueInv, NEW ok \in BOOLEAN, CleanFile(ok)
  PROVE  DueInv'
<1>1. UNCHANGED <<row, hook, clock, policy, others>>
  BY DEF CleanFile
<1>2. /\ cleaner'.cfg = cleaner.cfg /\ cleaner'.todo = cleaner.todo
      /\ cleaner'.total = cleaner.total
      /\ \/ cleaner.pc = "age" /\ cleaner'.pc = "agerow"
         \/ cleaner.pc = "prune" /\ cleaner'.pc = "prunerow" /\ cleaner.total > cleaner.cfg.cap
  BY DEF CleanFile, ArcInv, ArcTypes, CleanerTypes
<1>3. PolicyOk' /\ BornOk' /\ OneRow' /\ AgeOk' /\ CutOk'
  BY <1>1, <1>2 DEF DueInv, PolicyOk, BornOk, OneRow, AgeOk, CutOk
<1>4. BudgetOk'
  BY <1>1, <1>2 DEF DueInv, BudgetOk, Budget
<1> QED
  BY <1>3, <1>4 DEF DueInv

\* The row is taken and its bytes are off the total, whether it was deleted or not.
LEMMA CleanRowDue ==
  ASSUME ArcInv, DueInv, NEW ok \in BOOLEAN, CleanRow(ok)
  PROVE  DueInv'
<1> DEFINE s == Oldest(cleaner.todo)
<1>1. UNCHANGED <<hook, clock, policy, others>> /\ cleaner.pc \in {"agerow", "prunerow"}
  BY DEF CleanRow, seen
<1>2. s \in cleaner.todo
  BY <1>1, OldestIn DEF ArcInv, ArcTypes, CleanerTypes, CleanerRelies
<1>3. s.id \in Recs /\ SizeOf[s.rec] \in Nat
  BY <1>2, RowThrough
<1>4. /\ cleaner'.cfg = cleaner.cfg /\ cleaner'.todo = cleaner.todo \ {s}
      /\ \/ cleaner.pc = "agerow" /\ cleaner'.pc = "age" /\ cleaner'.total = cleaner.total
         \/ cleaner.pc = "prunerow" /\ cleaner'.pc = "prune" /\ cleaner'.total = Rest(s)
  BY DEF CleanRow, ArcInv, ArcTypes, CleanerTypes
<1>5. /\ row' \in Table
      /\ \A id \in Recs : row'[id] = row[id] \/ (row'[id] = None /\ id = s.id)
  <2>1. PICK i \in Recs : i = s.id
    BY <1>3
  <2>2. row' = [row EXCEPT ![i] = None] \/ row' = row
    BY <2>1 DEF CleanRow, DeleteRow
  <2> HIDE DEF s
  <2>3. row \in [Recs -> [rec : Recs, born : Nat] \cup {None}]
    BY DEF ArcInv, ArcTypes, TableTypes
  <2>4. row' \in [Recs -> [rec : Recs, born : Nat] \cup {None}]
    BY <2>2, <2>3
  <2>5. \A id \in Recs : row'[id] = row[id] \/ (row'[id] = None /\ id = i)
    <3>1. CASE row' = row
      BY <3>1
    <3>2. CASE row' = [row EXCEPT ![i] = None]
      <4> DEFINE X == [rec : Recs, born : Nat] \cup {None}
      <4>1. row \in [Recs -> X]
        BY <2>3
      <4> HIDE DEF X
      <4> QED
        BY <3>2, <4>1
    <3> QED
      BY <2>2, <3>1, <3>2
  <2> QED
    BY <2>1, <2>4, <2>5 DEF Table
<1>6. cleaner'.total \in Nat
  BY <1>3, <1>4 DEF DueInv, CutOk, Rest
<1> HIDE DEF s
<1>7. PolicyOk' /\ BornOk' /\ OneRow' /\ CutOk'
  BY <1>1, <1>4, <1>5, <1>6 DEF DueInv, PolicyOk, BornOk, OneRow, CutOk
<1>8. AgeOk'
  BY <1>1, <1>4 DEF DueInv, AgeOk
<1>9. ASSUME cleaner.pc = "prunerow"
      PROVE  \E c \in [Recs -> Nat] : Budget(c)'
  <2>1. PICK c \in [Recs -> Nat] : Budget(c)
    BY <1>9 DEF DueInv, BudgetOk
  <2>2. PICK d \in [Recs -> Nat] : d = [c EXCEPT ![s.id] = 0]
    OBVIOUS
  <2>3. \A id \in Recs : /\ d[id] \in Nat /\ c[id] \in Nat /\ d[id] <= c[id]
                         /\ d[id] = IF id = s.id THEN 0 ELSE c[id]
    BY <2>2
  <2>4. row \in Table /\ row' \in Table
    BY <1>5 DEF ArcInv, ArcTypes, TableTypes, Table
  <2>5. \A id \in Recs : Weights(row)[id] \in Nat
    BY <2>4, TableWeighs
  <2>6. \A id \in Recs : Weights(row')[id] \in Nat
    BY <2>4, TableWeighs
  <2>7. \A id \in Recs : d[id] <= Weights(row')[id]
    <3> TAKE id \in Recs
    <3>1. CASE id = s.id
      BY <2>3, <2>6, <3>1
    <3>2. CASE id # s.id
      <4>1. Weights(row')[id] = Weights(row)[id]
        BY <1>5, <3>2 DEF Weights
      <4> QED
        BY <2>1, <2>3, <3>2, <4>1 DEF Budget
    <3> QED
      BY <3>1, <3>2
  <2>8. \A e \in cleaner'.todo : d[e.id] <= SizeOf[e.rec]
    <3> TAKE e \in cleaner'.todo
    <3>1. c[e.id] <= SizeOf[e.rec] /\ e.id \in Recs /\ SizeOf[e.rec] \in Nat
      BY <1>4, <2>1, RowThrough DEF Budget
    <3>2. d[e.id] <= c[e.id] /\ d[e.id] \in Nat /\ c[e.id] \in Nat
      BY <2>3, <3>1
    <3> QED
      BY <3>1, <3>2
  <2>9. IsFiniteSet(Recs) /\ IsFiniteSet(Recs \ {s.id})
    BY FS_Subset, ArchiveAssumption DEF ArchiveAssumption
  <2> DEFINE R == Recs \ {s.id}
  <2>10. Total(c, Recs) = Total(c, R) + c[s.id] /\ Total(c, R) \in Nat
    <3>1. \A e \in Recs : Total(c, Recs) = Total(c, Recs \ {e}) + c[e]
      BY <2>3, <2>9, TotalTake
    <3>2. Total(c, Recs \ {s.id}) \in Nat
      BY <2>3, <2>9, TotalType
    <3> QED
      BY <1>3, <3>1, <3>2
  <2>11. Total(d, Recs) = Total(d, R) + d[s.id] /\ Total(d, R) \in Nat
    <3>1. \A e \in Recs : Total(d, Recs) = Total(d, Recs \ {e}) + d[e]
      BY <2>3, <2>9, TotalTake
    <3>2. Total(d, Recs \ {s.id}) \in Nat
      BY <2>3, <2>9, TotalType
    <3> QED
      BY <1>3, <3>1, <3>2
  <2>12. Total(d, R) = Total(c, R)
    <3>1. PICK g : Sums(g, d, R) /\ Total(d, R) = g[R]
      BY <2>9, TotalSums
    <3>2. PICK h : Sums(h, c, R) /\ Total(c, R) = h[R]
      BY <2>9, TotalSums
    <3>3. \A i \in R : d[i] = c[i]
      BY <2>3
    <3> HIDE DEF R
    <3> QED
      BY <2>9, <3>1, <3>2, <3>3, SumsAgree DEF R
  <2>13. /\ cleaner.total <= Total(c, Recs) + others /\ c[s.id] <= SizeOf[s.rec]
         /\ cleaner.total \in Nat /\ others \in Nat /\ c[s.id] \in Nat
    BY <1>2, <1>3, <2>1, <2>3 DEF Budget, DueInv, CutOk
  <2>14. cleaner'.total <= Total(d, Recs) + others
    <3>1. d[s.id] = 0
      BY <1>3, <2>3
    <3>2. cleaner'.total = IF SizeOf[s.rec] > cleaner.total THEN 0
                           ELSE cleaner.total - SizeOf[s.rec]
      BY <1>4, <1>9 DEF Rest
    <3> HIDE DEF R
    <3> QED
      BY <1>3, <2>10, <2>11, <2>12, <2>13, <3>1, <3>2
  <2>15. Budget(d)'
    BY <1>1, <2>7, <2>8, <2>14 DEF Budget
  <2> QED
    BY <2>15
<1>10. BudgetOk'
  BY <1>4, <1>9 DEF BudgetOk
<1> QED
  BY <1>7, <1>8, <1>10 DEF DueInv

\* The total is read: it is what the rows have.
LEMMA CleanTotalDue ==
  ASSUME ArcInv, DueInv, NEW ok \in BOOLEAN, CleanTotal(ok)
  PROVE  DueInv'
<1>1. UNCHANGED <<row, hook, clock, policy>> /\ others' = 0 /\ cleaner.pc = "age"
      /\ cleaner.todo = {}
  BY DEF CleanTotal, tables
<1>2. row \in Table
  BY DEF ArcInv, ArcTypes, TableTypes, Table
<1>3. /\ \A id \in Recs : Weights(row)[id] \in Nat
      /\ Bytes = Total(Weights(row), Recs) /\ Bytes \in Nat
  BY <1>2, TableWeighs, BytesIs
<1>4. \/ /\ cleaner'.pc = "sleep" /\ cleaner'.total = 0
      \/ /\ cleaner'.pc = "list" /\ cleaner'.total = Bytes /\ cleaner'.todo = {}
         /\ cleaner'.cfg = cleaner.cfg
  BY <1>1 DEF CleanTotal, Sleeping, ArcInv, ArcTypes, CleanerTypes
<1>5. PolicyOk' /\ BornOk' /\ OneRow' /\ AgeOk' /\ CutOk'
  BY <1>1, <1>3, <1>4 DEF DueInv, PolicyOk, BornOk, OneRow, AgeOk, CutOk
<1>6. BudgetOk'
  <2> SUFFICES ASSUME cleaner'.pc = "list"
               PROVE  \E c \in [Recs -> Nat] : Budget(c)'
    BY <1>4 DEF BudgetOk
  <2>1. Weights(row) \in [Recs -> Nat]
    BY <1>3 DEF Weights
  <2>2. PICK c \in [Recs -> Nat] : c = Weights(row)
    BY <2>1
  <2>3. \A id \in Recs : c[id] <= Weights(row)[id]
    BY <1>3, <2>2
  <2>4. cleaner'.total <= Total(c, Recs) + others'
    BY <1>1, <1>3, <1>4, <2>2
  <2>5. Budget(c)'
    BY <1>1, <1>4, <2>3, <2>4 DEF Budget
  <2> QED
    BY <2>5
<1> QED
  BY <1>5, <1>6 DEF DueInv

\* The list is read: every row, with the bytes it has.
LEMMA CleanListDue ==
  ASSUME ArcInv, DueInv, NEW ok \in BOOLEAN, CleanList(ok)
  PROVE  DueInv'
<1> DEFINE all == {Seg(id) : id \in Rows}
<1>1. UNCHANGED <<row, hook, clock, policy, others>> /\ cleaner.pc = "list"
  BY DEF CleanList, tables, seen
<1>2. \/ cleaner'.pc = "sleep" /\ cleaner'.total = 0
      \/ /\ cleaner'.pc = "prune" /\ cleaner'.total = cleaner.total /\ cleaner'.todo = all
         /\ cleaner'.cfg = cleaner.cfg
  BY DEF CleanList, Sleeping, ArcInv, ArcTypes, CleanerTypes
<1>3. PolicyOk' /\ BornOk' /\ OneRow' /\ AgeOk' /\ CutOk'
  BY <1>1, <1>2 DEF DueInv, PolicyOk, BornOk, OneRow, AgeOk, CutOk
<1>4. PICK c \in [Recs -> Nat] : Budget(c)
  BY <1>1 DEF DueInv, BudgetOk
<1>5. \A e \in all : c[e.id] <= SizeOf[e.rec]
  BY <1>4 DEF Budget, Weights, Rows, Seg
<1> HIDE DEF all
<1>6. BudgetOk'
  BY <1>1, <1>2, <1>4, <1>5 DEF BudgetOk, Budget
<1> QED
  BY <1>3, <1>6 DEF DueInv

\* The worker goes to sleep, or its process ends.
LEMMA SleepDue ==
  ASSUME ArcInv, DueInv, CleanEnd \/ Crash
  PROVE  DueInv'
<1>1. /\ UNCHANGED <<row, clock, policy, others>> /\ cleaner'.pc = "sleep" /\ cleaner'.total = 0
  BY DEF CleanEnd, Crash, tables, bounds, seen, Sleeping
<1>2. \A r \in Recs : hook'[r].now = hook[r].now
  BY DEF CleanEnd, Crash, ArcInv, ArcTypes, HookTypes
<1>3. PolicyOk' /\ BornOk' /\ OneRow' /\ AgeOk' /\ CutOk' /\ BudgetOk'
  BY <1>1, <1>2 DEF DueInv, PolicyOk, BornOk, OneRow, AgeOk, CutOk, BudgetOk
<1> QED
  BY <1>3 DEF DueInv

LEMMA DueInvStep ==
  ASSUME ArcInv, DueInv, [Next]_vars
  PROVE  DueInv'
<1>0. clock \in Nat /\ policy \in Policy
  BY DEF ArcInv, ArcTypes, HookTypes, DueInv, PolicyOk
<1>1. CASE UNCHANGED vars
  BY <1>0, <1>1, DueStays DEF NowStays, vars, tables, bounds, seen
<1>2. CASE Worker
  <2>1. UNCHANGED <<row, cleaner, others, policy, clock, hook>>
    BY <1>2 DEF Worker, WorkerAlone, GetJob, Sweep, SweepTarget, Upload, RecordJob, tables, bounds, seen
  <2> QED
    BY <1>0, <2>1, DueStays DEF NowStays
<1>3. CASE Pass
  <2>1. UNCHANGED <<row, cleaner, others, policy, hook>> /\ clock' = clock + 1
    BY <1>3 DEF Pass, tables, seen
  <2> QED
    BY <1>0, <2>1, DueStays DEF NowStays
<1>4. CASE Cleaner
  BY <1>4, CleanStartDue, CleanFileDue, CleanRowDue, CleanTotalDue, CleanListDue, SleepDue
  DEF Cleaner
<1>5. ASSUME NEW r \in Recs, Hook(r)
      PROVE  DueInv'
  <2>1. TRUE \in BOOLEAN
    OBVIOUS
  <2> QED
    BY <1>5, <2>1, HookDue, UpsertDue DEF Hook
<1>6. ASSUME NEW q \in Requests, Call(q)
      PROVE  DueInv'
  <2>1. ArcTypes'
    BY <1>6, CallKeeps DEF ArcInv
  <2> QED
    BY <1>6, <2>1, CallDue
<1> QED
  BY <1>1, <1>2, <1>3, <1>4, <1>5, <1>6, SleepDue DEF Next

LEMMA DueInvInit ==
  ASSUME Init
  PROVE  DueInv
<1> PICK s \in Scenarios :
      /\ row = [id \in Recs |-> None] /\ policy = s.policy
      /\ cleaner = Sleeping /\ others = 0
  BY DEF Init
<1>1. s.policy \in Policy
  BY ArchiveAssumption DEF ArchiveAssumption
<1>2. cleaner.pc = "sleep" /\ cleaner.total = 0
  BY DEF Sleeping
<1> QED
  BY <1>1, <1>2 DEF DueInv, PolicyOk, BornOk, OneRow, AgeOk, CutOk, BudgetOk

\* What the worker takes is due when it takes it.
LEMMA TakenIsDue ==
  ASSUME ArcInv, DueInv, NEW ok \in BOOLEAN, CleanRow(ok),
         NEW id \in Rows, row'[id] = None
  PROVE  \/ cleaner.pc = "agerow" /\ hook[id].now + 2 * cleaner.cfg.age <= clock
         \/ cleaner.pc = "prunerow" /\ Bytes + others > cleaner.cfg.cap
<1> DEFINE s == Oldest(cleaner.todo)
<1>1. cleaner.pc \in {"agerow", "prunerow"} /\ id \in Recs /\ row[id] # None
  BY DEF CleanRow, Rows
<1>2. s \in cleaner.todo
  BY <1>1, OldestIn DEF ArcInv, ArcTypes, CleanerTypes, CleanerRelies
<1>3. id = s.id
  BY <1>1 DEF CleanRow, DeleteRow, ArcInv, ArcTypes, TableTypes
<1>4. CASE cleaner.pc = "agerow"
  BY <1>2, <1>3, <1>4 DEF DueInv, AgeOk
<1>5. CASE cleaner.pc = "prunerow"
  <2>1. PICK c \in [Recs -> Nat] : Budget(c)
    BY <1>5 DEF DueInv, BudgetOk
  <2>2. cleaner.total <= Bytes + others /\ Bytes \in Nat
    BY <2>1, BudgetBytes DEF DueInv
  <2>3. /\ cleaner.total \in Nat /\ others \in Nat /\ cleaner.cfg.cap \in Nat
        /\ cleaner.total > cleaner.cfg.cap
    BY <1>5 DEF DueInv, CutOk, PolicyOk, Policy
  <2> QED
    BY <1>5, <2>2, <2>3
<1> QED
  BY <1>1, <1>4, <1>5

\* For any recordings, sizes and policies, with any calls, hooks, faults and restarts between
\* the worker's steps: a row the cleanup worker takes is older than the policy's days, or the
\* rows, with what others deleted since the total was read, are above the cap (cleanup.rs).
THEOREM RemovedWhenDueAlways == Spec => RemovedWhenDue
<1> DEFINE Due ==
      \A id \in Rows :
        row'[id] = None /\ cleaner' # cleaner /\ crashes' = crashes /\ ~Rerecorded(PathOf[id]) =>
          \/ cleaner.pc = "agerow" /\ hook[id].now + 2 * cleaner.cfg.age <= clock
          \/ cleaner.pc = "prunerow" /\ Bytes + others > cleaner.cfg.cap
<1>1. Init => ArcInv /\ DueInv
  BY ArcInvInit, DueInvInit
<1>2. ArcInv /\ DueInv /\ [Next]_vars => ArcInv' /\ DueInv'
  BY ArcInvStep, DueInvStep
<1>3. ArcInv /\ DueInv /\ [Next]_vars => [Due]_vars
  <2> SUFFICES ASSUME ArcInv, DueInv, Next,
                      NEW id \in Rows, row'[id] = None, cleaner' # cleaner
               PROVE  \/ cleaner.pc = "agerow" /\ hook[id].now + 2 * cleaner.cfg.age <= clock
                      \/ cleaner.pc = "prunerow" /\ Bytes + others > cleaner.cfg.cap
    OBVIOUS
  <2>1. row[id] # None /\ row' # row
    BY DEF Rows
  <2>2. \E ok \in BOOLEAN : CleanRow(ok)
    <3>1. ~ \E r \in Recs : Hook(r)
      BY DEF Hook, RecordTs, ArchiveFile, Probe, Upsert
    <3>2. ~ \E q \in Requests : Call(q)
      BY DEF Call, DelFile, DelRow, WipeFile, WipeRows, PutTarget, DropTarget, DropJobs,
             SaveCleanup, WipeList, GetTarget, PlayRead, PlayOpen
    <3>3. ~ Worker /\ ~ Pass /\ ~ Crash
      BY <2>1 DEF Worker, WorkerAlone, GetJob, Sweep, SweepTarget, Upload, RecordJob, Pass, Crash, tables
    <3>4. Cleaner
      BY <3>1, <3>2, <3>3 DEF Next
    <3>5. \A ok \in BOOLEAN : ~ CleanStart(ok) /\ ~ CleanFile(ok) /\ ~ CleanTotal(ok)
                              /\ ~ CleanList(ok) /\ ~ CleanEnd
      BY <2>1 DEF CleanStart, CleanFile, CleanTotal, CleanList, CleanEnd, tables
    <3> QED
      BY <3>4, <3>5 DEF Cleaner
  <2> QED
    BY <2>2, TakenIsDue
<1> QED
  BY <1>1, <1>2, <1>3, PTL DEF Spec, RemovedWhenDue

-----------------------------------------------------------------------------
(* The transport worker: what it marks done, some destination holds. *)

WorkTargets == [id : Targets, dest : Dests \cup {None}]
Jobs        == [st : {"none", "done", "failed"}, attempts : Nat]

WorkTypes ==
  /\ stored \in [Dests -> [Paths -> Recs \cup {0}]]
  /\ job \in [Recs \X Targets -> Jobs]
  /\ target \in [Targets -> Target \cup {None}]
  /\ worker \in [pc : {"tick", "target", "upload", "send", "record"}, targets : SUBSET WorkTargets,
                 segs : SUBSET Segs, ok : BOOLEAN, attempts : Nat]

\* Some destination holds what is at the path of row id.
Copied(id) == \E d \in Dests : stored[d][PathOf[id]] # 0

\* What a destination holds at a path is a recording of that path.
StoredOwn == \A d \in Dests, p \in Paths :
               stored[d][p] # 0 => PathOf[stored[d][p]] = p /\ Started(stored[d][p])

JobsCopied == \A id \in Recs, t \in Targets : job[<<id, t>>].st = "done" => Copied(id)

\* What the worker relies on: the target it serves has a destination, and a segment that it
\* is about to mark done was copied.
WorkerRelies ==
  /\ worker.pc \in {"upload", "send", "record"} =>
       worker.targets # {} /\ worker.segs # {} /\ First(worker.targets).dest \in Dests
  /\ worker.pc = "target" => worker.targets # {}
  /\ worker.pc = "record" /\ worker.ok => Copied(Oldest(worker.segs).id)

DoneInv == WorkTypes /\ StoredOwn /\ JobsCopied /\ WorkerRelies

\* The copies only grow, and so does what is known of the hooks.
LEMMA StillDone ==
  ASSUME DoneInv, HookMoves, UNCHANGED <<stored, job, worker>>,
         target' \in [Targets -> Target \cup {None}]
  PROVE  DoneInv'
<1>1. WorkTypes'
  BY DEF DoneInv, WorkTypes
<1>2. StoredOwn'
  BY DEF DoneInv, WorkTypes, StoredOwn, HookMoves
<1>3. JobsCopied' /\ WorkerRelies'
  BY DEF DoneInv, JobsCopied, WorkerRelies, Copied
<1> QED
  BY <1>1, <1>2, <1>3 DEF DoneInv

LEMMA WorkHeads ==
  ASSUME DoneInv, worker.pc \in {"upload", "send", "record"}
  PROVE  /\ Oldest(worker.segs) \in worker.segs /\ Oldest(worker.segs) \in Segs
         /\ First(worker.targets) \in worker.targets /\ First(worker.targets) \in WorkTargets
BY OldestIn, FirstIn DEF DoneInv, WorkTypes, WorkerRelies

\* The worker goes on, without a copy or a mark.
LEMMA WorkerGoesKeeps ==
  ASSUME ArcInv, DoneInv, NEW ok \in BOOLEAN,
         GetJob(ok) \/ Sweep(ok) \/ SweepTarget(ok)
  PROVE  DoneInv'
<1>1. UNCHANGED <<stored, job, target, hook>>
  BY DEF GetJob, Sweep, SweepTarget, tables
<1>2. worker' \in [pc : {"tick", "target", "upload", "send", "record"}, targets : SUBSET WorkTargets,
                   segs : SUBSET Segs, ok : BOOLEAN, attempts : Nat] /\ WorkerRelies'
  <2>0. CASE worker' = Ticking
    BY <2>0 DEF Ticking, WorkerRelies
  <2>1. CASE GetJob(ok) /\ worker' # Ticking
    <3>1. worker.pc = "upload"
      BY <2>1 DEF GetJob
    <3>2. PICK n \in Nat : n = job[<<Oldest(worker.segs).id, First(worker.targets).id>>].attempts + 1
      BY <3>1, WorkHeads DEF DoneInv, WorkTypes, Jobs, Segs, WorkTargets
    <3>3. worker' = [worker EXCEPT !.pc = "send", !.attempts = n]
      BY <2>1, <3>2 DEF GetJob
    <3> QED
      BY <3>1, <3>3 DEF DoneInv, WorkTypes, WorkerRelies
  <2>2. CASE Sweep(ok) /\ worker' # Ticking
    <3> DEFINE on   == {t \in Targets : target[t] # None /\ target[t].on}
               list == {[id |-> t, dest |-> target[t].dest] : t \in on}
    <3>1. on # {} /\ worker' = [Ticking EXCEPT !.pc = "target", !.targets = list]
      BY <2>2 DEF Sweep
    <3>2. \A t \in on : t \in Targets /\ target[t].dest \in Dests \cup {None}
      BY DEF DoneInv, WorkTypes, Target
    <3>3. PICK x \in on : TRUE
      BY <3>1
    <3> HIDE DEF on
    <3>4. list # {}
      <4>1. [id |-> x, dest |-> target[x].dest] \in list
        BY <3>3
      <4> HIDE DEF list
      <4> QED
        BY <4>1
    <3>5. list \in SUBSET WorkTargets
      BY <3>2 DEF WorkTargets
    <3> HIDE DEF list
    <3> QED
      BY <3>1, <3>4, <3>5 DEF Ticking, WorkerRelies
  <2>3. CASE SweepTarget(ok) /\ worker' # Ticking
    <3> DEFINE t    == First(worker.targets)
               todo == IF t.dest = None THEN {} ELSE FirstOf({Seg(id) : id \in Needing(t.id)})
               next == worker.targets \ {t}
    <3>1. \/ todo # {} /\ worker' = [worker EXCEPT !.pc = "upload", !.segs = todo]
          \/ next # {} /\ worker' = [worker EXCEPT !.targets = next]
      BY <2>3 DEF SweepTarget
    <3>2. worker.pc = "target" /\ worker.targets # {}
      BY <2>3 DEF SweepTarget, DoneInv, WorkerRelies
    <3>3. t \in WorkTargets
      BY <3>2, FirstIn DEF DoneInv, WorkTypes
    <3>4. todo \in SUBSET Segs
      <4>1. Needing(t.id) \subseteq Rows
        BY DEF Needing
      <4>2. {Seg(id) : id \in Needing(t.id)} \in SUBSET Segs
        BY <4>1, SegsOfRows DEF ArcInv
      <4> QED
        BY <4>2 DEF FirstOf
    <3>5. todo # {} => t.dest \in Dests
      BY <3>3 DEF WorkTargets
    <3> HIDE DEF todo
    <3>6. CASE todo # {} /\ worker' = [worker EXCEPT !.pc = "upload", !.segs = todo]
      <4>1. /\ worker' \in [pc : {"tick", "target", "upload", "send", "record"}, segs : SUBSET Segs,
                            targets : SUBSET WorkTargets, ok : BOOLEAN, attempts : Nat]
            /\ worker'.pc = "upload" /\ worker'.segs = todo /\ worker'.targets = worker.targets
        BY <3>4, <3>6 DEF DoneInv, WorkTypes
      <4> QED
        BY <3>2, <3>5, <3>6, <4>1 DEF WorkerRelies
    <3>7. CASE next # {} /\ worker' = [worker EXCEPT !.targets = next]
      BY <3>2, <3>7 DEF DoneInv, WorkTypes, WorkerRelies
    <3> QED
      BY <3>1, <3>6, <3>7
  <2> QED
    BY <2>0, <2>1, <2>2, <2>3
<1>3. WorkTypes'
  BY <1>1, <1>2 DEF DoneInv, WorkTypes
<1>4. StoredOwn' /\ JobsCopied'
  BY <1>1 DEF DoneInv, StoredOwn, JobsCopied, Copied, Started
<1> QED
  BY <1>2, <1>3, <1>4 DEF DoneInv

\* The file goes to the destination, if it is there.
LEMMA UploadKeeps ==
  ASSUME ArcInv, DoneInv, NEW ok \in BOOLEAN, Upload(ok)
  PROVE  DoneInv'
<1>1. PICK s \in Segs : s = Oldest(worker.segs)
  BY WorkHeads DEF Upload
<1>2. PICK t \in WorkTargets : t = First(worker.targets) /\ t.dest \in Dests
  BY WorkHeads DEF Upload, DoneInv, WorkerRelies
<1>3. PICK p \in Paths : p = PathOf[s.id]
  BY Assumed DEF Segs
<1>4. PICK sent \in BOOLEAN : sent = (ok /\ file[p] # 0)
  OBVIOUS
<1>5. /\ stored' = IF sent THEN [stored EXCEPT ![t.dest][p] = file[p]] ELSE stored
      /\ worker' = [worker EXCEPT !.pc = "record", !.ok = sent]
      /\ UNCHANGED <<job, target, hook>>
  BY <1>1, <1>2, <1>3, <1>4 DEF Upload
<1>6. file[p] \in Recs \cup {0} /\ (file[p] # 0 => PathOf[file[p]] = p /\ Started(file[p]))
  BY DEF ArcInv, ArcTypes, TableTypes, FilesOwn
<1>8. /\ worker' \in [pc : {"tick", "target", "upload", "send", "record"}, targets : SUBSET WorkTargets,
                      segs : SUBSET Segs, ok : BOOLEAN, attempts : Nat]
      /\ worker'.targets = worker.targets /\ worker'.segs = worker.segs
      /\ worker'.pc = "record" /\ worker'.ok = sent
  BY <1>5 DEF DoneInv, WorkTypes
<1>9. /\ stored' \in [Dests -> [Paths -> Recs \cup {0}]]
      /\ \A d \in Dests, x \in Paths :
           stored'[d][x] = IF sent /\ d = t.dest /\ x = p THEN file[p] ELSE stored[d][x]
  BY <1>2, <1>5, <1>6 DEF DoneInv, WorkTypes
<1>10. WorkTypes'
  BY <1>5, <1>8, <1>9 DEF DoneInv, WorkTypes
<1>11. StoredOwn'
  BY <1>5, <1>6, <1>9 DEF DoneInv, StoredOwn, Started
<1>12. \A id \in Recs : Copied(id) => Copied(id)'
  <2>1. \A id \in Recs : PathOf[id] \in Paths
    BY Assumed
  <2> QED
    BY <1>4, <1>9, <2>1 DEF Copied
<1>13. JobsCopied'
  BY <1>5, <1>12 DEF DoneInv, JobsCopied
<1>14. sent => Copied(s.id)'
  BY <1>2, <1>3, <1>4, <1>9 DEF Copied
<1>15. WorkerRelies'
  BY <1>1, <1>2, <1>8, <1>14 DEF Upload, DoneInv, WorkerRelies, Copied
<1> QED
  BY <1>10, <1>11, <1>13, <1>15 DEF DoneInv

\* The outcome is entered.
LEMMA RecordJobKeeps ==
  ASSUME DoneInv, NEW ok \in BOOLEAN, RecordJob(ok)
  PROVE  DoneInv'
<1>1. PICK s \in Segs : s = Oldest(worker.segs)
  BY WorkHeads DEF RecordJob
<1>2. PICK t \in WorkTargets : t = First(worker.targets)
  BY WorkHeads DEF RecordJob
<1>3. UNCHANGED <<stored, target, hook>>
  BY DEF RecordJob
<1>4. PICK j \in Jobs : j = [st |-> Status(worker.ok), attempts |-> worker.attempts]
  BY DEF Jobs, Status, DoneInv, WorkTypes
<1>5. job' = IF ok THEN [job EXCEPT ![<<s.id, t.id>>] = j] ELSE job
  BY <1>1, <1>2, <1>4 DEF RecordJob
<1>6. j.st = "done" => Copied(s.id)
  BY <1>1, <1>4 DEF RecordJob, Status, DoneInv, WorkerRelies
<1>7. /\ job' \in [Recs \X Targets -> Jobs]
      /\ \A id \in Recs, x \in Targets :
           job'[<<id, x>>] = IF ok /\ id = s.id /\ x = t.id THEN j ELSE job[<<id, x>>]
  BY <1>5 DEF DoneInv, WorkTypes, Segs, WorkTargets
<1>8. JobsCopied'
  BY <1>3, <1>6, <1>7 DEF DoneInv, JobsCopied, Copied
<1>9. worker' \in [pc : {"tick", "target", "upload", "send", "record"}, targets : SUBSET WorkTargets,
                   segs : SUBSET Segs, ok : BOOLEAN, attempts : Nat] /\ WorkerRelies'
  <2> DEFINE segs == worker.segs \ {s}
             next == worker.targets \ {t}
  <2>1. \/ worker' = Ticking
        \/ segs # {} /\ worker' = [worker EXCEPT !.pc = "upload", !.segs = segs]
        \/ next # {} /\ worker' = [Ticking EXCEPT !.pc = "target", !.targets = next]
    BY <1>1, <1>2 DEF RecordJob
  <2>2. CASE worker' = Ticking
    BY <2>2 DEF Ticking, WorkerRelies
  <2>3. CASE segs # {} /\ worker' = [worker EXCEPT !.pc = "upload", !.segs = segs]
    <3>1. worker' \in [pc : {"tick", "target", "upload", "send", "record"}, segs : SUBSET Segs,
                       targets : SUBSET WorkTargets, ok : BOOLEAN, attempts : Nat]
          /\ worker'.pc = "upload" /\ worker'.segs = segs /\ worker'.targets = worker.targets
      BY <2>3 DEF DoneInv, WorkTypes
    <3> QED
      BY <2>3, <3>1 DEF RecordJob, DoneInv, WorkerRelies
  <2>4. CASE next # {} /\ worker' = [Ticking EXCEPT !.pc = "target", !.targets = next]
    <3>1. next \in SUBSET WorkTargets
      BY DEF DoneInv, WorkTypes
    <3> HIDE DEF next
    <3> QED
      BY <2>4, <3>1 DEF Ticking, WorkerRelies
  <2> QED
    BY <2>1, <2>2, <2>3, <2>4
<1>10. WorkTypes'
  BY <1>3, <1>7, <1>9 DEF DoneInv, WorkTypes
<1>11. StoredOwn'
  BY <1>3 DEF DoneInv, StoredOwn, Started
<1> QED
  BY <1>8, <1>9, <1>10, <1>11 DEF DoneInv

\* The calls write targets and jobs, but mark none done.
LEMMA CallKeepsDone ==
  ASSUME DoneInv, HookMoves, NEW q \in Requests, Call(q)
  PROVE  DoneInv'
<1>1. UNCHANGED <<stored, worker>>
  BY DEF Call, DelFile, DelRow, WipeList, WipeFile, WipeRows, PutTarget, GetTarget, DropTarget,
         DropJobs, SaveCleanup, PlayOpen, PlayRead, tables
<1>2. \/ UNCHANGED <<job, target>>
      \/ \E ok \in BOOLEAN : PutTarget(q, ok) \/ DropTarget(q, ok) \/ DropJobs(q, ok)
  BY DEF Call, DelFile, DelRow, WipeList, WipeFile, WipeRows, GetTarget, SaveCleanup, PlayOpen,
         PlayRead, tables
<1>3. CASE UNCHANGED <<job, target>>
  BY <1>1, <1>3, StillDone DEF DoneInv, WorkTypes
<1>4. ASSUME NEW ok \in BOOLEAN, PutTarget(q, ok) \/ DropTarget(q, ok)
      PROVE  DoneInv'
  <2>1. UNCHANGED job
    BY <1>4 DEF PutTarget, DropTarget
  <2>2. target' \in [Targets -> Target \cup {None}]
    <3>1. q.to \in Target \cup {None} /\ target \in [Targets -> Target \cup {None}]
      BY ArchiveAssumption DEF ArchiveAssumption, DoneInv, WorkTypes
    <3>2. \/ target' = target
          \/ target' = [target EXCEPT ![q.target] = q.to]
          \/ target' = [target EXCEPT ![q.target] = None]
      BY <1>4 DEF PutTarget, DropTarget
    <3> QED
      BY <3>1, <3>2
  <2> QED
    BY <1>1, <2>1, <2>2, StillDone
<1>5. ASSUME NEW ok \in BOOLEAN, DropJobs(q, ok)
      PROVE  DoneInv'
  <2>1. UNCHANGED <<target, hook>>
    BY <1>5 DEF DropJobs
  <2>2. job' \in [Recs \X Targets -> Jobs]
        /\ \A id \in Recs, t \in Targets : job'[<<id, t>>] \in {NoJob, job[<<id, t>>]}
    <3>1. job' = job \/ job' = [x \in Recs \X Targets |-> IF x[2] = q.target THEN NoJob ELSE job[x]]
      BY <1>5 DEF DropJobs
    <3>2. NoJob \in Jobs
      BY DEF NoJob, Jobs
    <3>3. job \in [Recs \X Targets -> Jobs]
      BY DEF DoneInv, WorkTypes
    <3> HIDE DEF NoJob, Jobs
    <3>4. CASE job' = job
      BY <3>3, <3>4
    <3>5. CASE job' = [x \in Recs \X Targets |-> IF x[2] = q.target THEN NoJob ELSE job[x]]
      <4> DEFINE e(x) == IF x[2] = q.target THEN NoJob ELSE job[x]
      <4>1. \A x \in Recs \X Targets : e(x) \in Jobs /\ e(x) \in {NoJob, job[x]}
        BY <3>2, <3>3
      <4>2. job' = [x \in Recs \X Targets |-> e(x)]
        BY <3>5
      <4> HIDE DEF e
      <4> QED
        BY <4>1, <4>2
    <3> QED
      BY <3>1, <3>4, <3>5
  <2>3. JobsCopied'
    BY <1>1, <2>2 DEF DoneInv, JobsCopied, Copied, NoJob
  <2>4. WorkTypes'
    BY <1>1, <2>1, <2>2 DEF DoneInv, WorkTypes
  <2>5. StoredOwn' /\ WorkerRelies'
    BY <1>1, <2>1 DEF DoneInv, StoredOwn, WorkerRelies, Copied, Started
  <2> QED
    BY <2>3, <2>4, <2>5 DEF DoneInv
<1> QED
  BY <1>2, <1>3, <1>4, <1>5

\* A step that leaves the worker's tables alone.
LEMMA OthersKeepDone ==
  ASSUME DoneInv, HookMoves, UNCHANGED <<stored, job, target, worker>>
  PROVE  DoneInv'
BY StillDone DEF DoneInv, WorkTypes

LEMMA CrashKeepsDone ==
  ASSUME DoneInv, HookMoves, Crash
  PROVE  DoneInv'
<1>1. UNCHANGED <<stored, job, target>> /\ worker' = Ticking
  BY DEF Crash, tables
<1>2. WorkTypes' /\ WorkerRelies'
  BY <1>1 DEF DoneInv, WorkTypes, WorkerRelies, Ticking
<1>3. StoredOwn'
  BY <1>1 DEF DoneInv, WorkTypes, StoredOwn, HookMoves
<1>4. JobsCopied'
  BY <1>1 DEF DoneInv, JobsCopied, Copied
<1> QED
  BY <1>2, <1>3, <1>4 DEF DoneInv

\* No step of the hooks goes back.
LEMMA StepHooks ==
  ASSUME ArcInv, [Next]_vars
  PROVE  HookMoves
<1>1. CASE UNCHANGED hook
  BY <1>1, HooksStill
<1>2. ASSUME NEW r \in Recs, Hook(r)
      PROVE  HookMoves
  BY <1>2, RecordTsMoves, ArchiveFileMoves, ProbeMoves, UpsertMoves DEF Hook, ArcMoves, ArcInv
<1>3. CASE Crash
  BY <1>3 DEF Crash, ArcInv, ArcTypes, HookTypes, HookMoves, Started, Through
<1>4. UNCHANGED vars \/ Cleaner \/ Worker \/ (\E q \in Requests : Call(q)) \/ Pass => UNCHANGED hook
  <2>1. UNCHANGED vars \/ Pass => UNCHANGED hook
    BY DEF vars, Pass
  <2>2. Cleaner => UNCHANGED hook
    BY DEF Cleaner, CleanStart, CleanFile, CleanRow, CleanTotal, CleanList, CleanEnd
  <2>3. Worker => UNCHANGED hook
    BY DEF Worker, WorkerAlone, GetJob, Sweep, SweepTarget, Upload, RecordJob
  <2>4. ASSUME NEW q \in Requests, Call(q)
        PROVE  UNCHANGED hook
    BY <2>4 DEF Call, DelFile, DelRow, WipeList, WipeFile, WipeRows, PutTarget, GetTarget,
                DropTarget, DropJobs, SaveCleanup, PlayOpen, PlayRead
  <2> QED
    BY <2>1, <2>2, <2>3, <2>4
<1> QED
  BY <1>1, <1>2, <1>3, <1>4 DEF Next

LEMMA DoneInvStep ==
  ASSUME ArcInv, DoneInv, [Next]_vars
  PROVE  DoneInv'
<1>1. HookMoves
  BY StepHooks
<1>2. CASE UNCHANGED vars \/ Pass
  BY <1>1, <1>2, OthersKeepDone DEF vars, Pass, tables
<1>3. ASSUME NEW r \in Recs, Hook(r)
      PROVE  DoneInv'
  BY <1>1, <1>3, OthersKeepDone DEF Hook, RecordTs, ArchiveFile, Probe, Upsert, tables
<1>4. CASE Cleaner
  BY <1>1, <1>4, OthersKeepDone
  DEF Cleaner, CleanStart, CleanFile, CleanRow, CleanTotal, CleanList, CleanEnd, tables
<1>5. CASE Worker
  BY <1>5, WorkerGoesKeeps, UploadKeeps, RecordJobKeeps DEF Worker, WorkerAlone
<1>6. CASE \E q \in Requests : Call(q)
  BY <1>1, <1>6, CallKeepsDone
<1>7. CASE Crash
  BY <1>1, <1>7, CrashKeepsDone
<1> QED
  BY <1>2, <1>3, <1>4, <1>5, <1>6, <1>7 DEF Next

LEMMA DoneInvInit ==
  ASSUME Init
  PROVE  DoneInv
<1> PICK s \in Scenarios :
      /\ job = [x \in Recs \X Targets |-> NoJob] /\ target = s.target
      /\ stored = [d \in Dests |-> [p \in Paths |-> 0]] /\ worker = Ticking
  BY DEF Init
<1>1. target \in [Targets -> Target \cup {None}]
  BY ArchiveAssumption DEF ArchiveAssumption
<1>2. WorkTypes
  BY <1>1 DEF WorkTypes, Jobs, NoJob, Ticking
<1>3. StoredOwn /\ JobsCopied /\ WorkerRelies
  BY DEF StoredOwn, JobsCopied, WorkerRelies, NoJob, Ticking
<1> QED
  BY <1>2, <1>3 DEF DoneInv

\* Two recordings that both went to a path that was not recorded twice are one.
LEMMA DoneInvImplies ==
  ASSUME ArcInv, DoneInv
  PROVE  DoneIsCopied
<1> SUFFICES ASSUME NEW id \in Rows, NEW t \in Targets, job[<<id, t>>].st = "done",
                    ~Rerecorded(PathOf[id])
             PROVE  \E d \in Dests : stored[d][PathOf[id]] = row[id].rec
  BY DEF DoneIsCopied
<1>1. id \in Recs /\ row[id] # None
  BY DEF Rows
<1>2. PICK p \in Paths : p = PathOf[id]
  BY <1>1, Assumed
<1>3. PICK d \in Dests : stored[d][p] # 0
  BY <1>1, <1>2 DEF DoneInv, JobsCopied, Copied
<1>4. PICK r \in Recs : r = stored[d][p] /\ PathOf[r] = p /\ Started(r)
  <2>1. stored[d][p] \in Recs
    BY <1>3 DEF DoneInv, WorkTypes
  <2>2. PathOf[stored[d][p]] = p /\ Started(stored[d][p])
    BY <1>3 DEF DoneInv, StoredOwn
  <2> QED
    BY <2>1, <2>2
<1>5. PICK x \in Recs : x = row[id].rec /\ PathOf[x] = p /\ Through(x)
  BY <1>1, <1>2 DEF ArcInv, ArcTypes, TableTypes, RowsOwn
<1>6. r = x
  BY <1>2, <1>4, <1>5 DEF Rerecorded, Started, Through
<1> QED
  BY <1>2, <1>4, <1>5, <1>6

\* A job is marked done only when some destination holds the recording: not when the file was
\* deleted under the worker, nor after the target was edited or removed in mid-sweep.
THEOREM DoneIsCopiedAlways == Spec => []DoneIsCopied
<1>1. Init => ArcInv /\ DoneInv
  BY ArcInvInit, DoneInvInit
<1>2. (ArcInv /\ DoneInv) /\ [Next]_vars => (ArcInv /\ DoneInv)'
  BY ArcInvStep, DoneInvStep
<1>3. ArcInv /\ DoneInv => DoneIsCopied
  BY DoneInvImplies
<1> QED
  BY <1>1, <1>2, <1>3, PTL DEF Spec

-----------------------------------------------------------------------------
(* Playback: what is answered is what was asked for. *)

\* What a Range header may ask for.
Numbers == Ranges \cup {None}

\* parse_range_header, on numbers: the bytes that are asked for, or none.
LEMMA RangeIsAsked ==
  ASSUME NEW from \in Numbers, NEW till \in Numbers, NEW len \in Nat
  PROVE  LET range == ParseRange(from, till, len) IN
         /\ range = <<>> => AskedBytes(from, till, len) = {}
         /\ range # <<>> => AskedBytes(from, till, len) # {}
                            /\ range[1]..range[2] = AskedBytes(from, till, len)
<1> DEFINE asked == AskedBytes(from, till, len)
           range == ParseRange(from, till, len)
<1>0. None \notin Nat /\ (from = None \/ from \in Nat) /\ (till = None \/ till \in Nat)
  BY ArchiveAssumption DEF ArchiveAssumption, Numbers
<1>1. CASE from = None /\ till = None
  <2>1. asked = {} /\ range = <<>>
    BY <1>1 DEF AskedBytes, ParseRange
  <2> QED
    BY <2>1
<1>2. CASE len = 0
  <2>1. asked = {} /\ range = <<>>
    BY <1>2 DEF AskedBytes, ParseRange
  <2> QED
    BY <2>1
<1>3. CASE len # 0 /\ from = None /\ till # None
  <2>1. asked = {i \in 0..(len - 1) : i + till >= len} /\ till \in Nat
    BY <1>0, <1>3 DEF AskedBytes
  <2>2. CASE till = 0
    <3>1. asked = {}
      BY <2>1, <2>2
    <3>2. range = <<>>
      BY <1>3, <2>2 DEF ParseRange
    <3> QED
      BY <3>1, <3>2
  <2>3. CASE till # 0
    <3>1. range = <<IF till > len THEN 0 ELSE len - till, len - 1>>
      BY <1>3, <2>3 DEF ParseRange
    <3>2. PICK a \in Nat : a = IF till > len THEN 0 ELSE len - till
      <4>1. till \in Nat
        BY <2>1
      <4>2. (IF till > len THEN 0 ELSE len - till) \in Nat
        BY <4>1
      <4> QED
        BY <4>2
    <3>3. range = <<a, len - 1>> /\ range # <<>> /\ range[1] = a /\ range[2] = len - 1
      BY <3>1, <3>2
    <3>4. len - 1 \in asked /\ a..(len - 1) = asked
      BY <1>3, <2>1, <2>3, <3>2
    <3> QED
      BY <3>3, <3>4
  <2> QED
    BY <2>2, <2>3
<1>4. CASE len # 0 /\ from # None /\ till = None
  <2>1. asked = {i \in 0..(len - 1) : i >= from} /\ from \in Nat
    BY <1>0, <1>4 DEF AskedBytes
  <2>2. CASE from >= len
    <3>1. asked = {} /\ range = <<>>
      BY <1>4, <2>1, <2>2 DEF ParseRange
    <3> QED
      BY <3>1
  <2>3. CASE ~(from >= len)
    <3>1. range = <<from, len - 1>>
      BY <1>4, <2>3 DEF ParseRange
    <3>2. range # <<>> /\ range[1] = from /\ range[2] = len - 1
      BY <3>1
    <3>3. len - 1 \in asked /\ from..(len - 1) = asked
      BY <1>4, <2>1, <2>3
    <3> QED
      BY <3>2, <3>3
  <2> QED
    BY <2>2, <2>3
<1>5. CASE len # 0 /\ from # None /\ till # None
  <2>1. asked = {i \in 0..(len - 1) : from <= i /\ i <= till} /\ from \in Nat /\ till \in Nat
    BY <1>0, <1>5 DEF AskedBytes
  <2>2. CASE from > till \/ from >= len
    <3>1. asked = {}
      BY <2>1, <2>2
    <3>2. range = <<>>
      BY <1>5, <2>2 DEF ParseRange
    <3> QED
      BY <3>1, <3>2
  <2>3. CASE ~(from > till \/ from >= len)
    <3>1. range = <<from, IF till < len - 1 THEN till ELSE len - 1>>
      BY <1>5, <2>3 DEF ParseRange
    <3>2. PICK b \in Nat : b = IF till < len - 1 THEN till ELSE len - 1
      BY <1>5, <2>1
    <3>3. range # <<>> /\ range[1] = from /\ range[2] = b
      BY <3>1, <3>2
    <3>4. b \in asked /\ from..b = asked
      BY <1>5, <2>1, <2>3, <3>2
    <3> QED
      BY <3>3, <3>4
  <2> QED
    BY <2>2, <2>3
<1> QED
  BY <1>1, <1>2, <1>3, <1>4, <1>5

AnswerPcs == {"read", "206", "416"}

\* A call that plays keeps what it read of the range and of the file's length.
PlayInv ==
  /\ DOMAIN call = Requests
  /\ \A q \in Requests :
       /\ DOMAIN call[q] = {"pc", "todo", "len", "range"}
       /\ call[q].pc \in AnswerPcs =>
            /\ call[q].range[1] \in Numbers /\ call[q].range[2] \in Numbers /\ call[q].len \in Nat
            /\ call[q].todo = ParseRange(call[q].range[1], call[q].range[2], call[q].len)
            /\ call[q].pc = "416" <=> call[q].todo = <<>>

LEMMA PlayInvImplies ==
  ASSUME PlayInv
  PROVE  RangeServed
<1> SUFFICES ASSUME NEW q \in Requests
             PROVE  LET asked == AskedBytes(call[q].range[1], call[q].range[2], call[q].len) IN
                    /\ At(q, "206") => asked # {} /\ call[q].todo[1]..call[q].todo[2] = asked
                    /\ At(q, "416") => asked = {}
  BY DEF RangeServed
<1>1. CASE call[q].pc \in {"206", "416"}
  <2>1. PICK from \in Numbers, till \in Numbers, len \in Nat :
          from = call[q].range[1] /\ till = call[q].range[2] /\ len = call[q].len
    BY <1>1 DEF PlayInv, AnswerPcs
  <2>2. call[q].todo = ParseRange(from, till, len) /\ (call[q].pc = "416" <=> call[q].todo = <<>>)
    BY <1>1, <2>1 DEF PlayInv, AnswerPcs
  <2>3. /\ ParseRange(from, till, len) = <<>> => AskedBytes(from, till, len) = {}
        /\ ParseRange(from, till, len) # <<>> =>
             /\ AskedBytes(from, till, len) # {}
             /\ ParseRange(from, till, len)[1]..ParseRange(from, till, len)[2]
                  = AskedBytes(from, till, len)
    BY RangeIsAsked
  <2> QED
    BY <1>1, <2>1, <2>2, <2>3 DEF At
<1>2. CASE call[q].pc \notin {"206", "416"}
  BY <1>2 DEF At
<1> QED
  BY <1>1, <1>2

\* A step of a call that answers nothing.
LEMMA QuietPlay ==
  ASSUME PlayInv, NEW q \in Requests,
         \/ End(q)
         \/ \E pc, todo : Go(q, pc, todo) /\ pc \notin AnswerPcs
  PROVE  PlayInv'
<1>1. CASE End(q)
  <2>1. call'[q] = Done /\ DOMAIN call' = Requests /\ \A x \in Requests \ {q} : call'[x] = call[x]
    BY <1>1 DEF PlayInv, End
  <2>2. DOMAIN call'[q] = {"pc", "todo", "len", "range"} /\ call'[q].pc \notin AnswerPcs
    BY <2>1 DEF Done, AnswerPcs
  <2> QED
    BY <2>1, <2>2 DEF PlayInv
<1>2. ASSUME NEW pc, NEW todo, Go(q, pc, todo), pc \notin AnswerPcs
      PROVE  PlayInv'
  <2>1. /\ DOMAIN call' = Requests /\ \A x \in Requests \ {q} : call'[x] = call[x]
        /\ DOMAIN call'[q] = {"pc", "todo", "len", "range"} /\ call'[q].pc = pc
    BY <1>2 DEF PlayInv, Go
  <2> QED
    BY <1>2, <2>1 DEF PlayInv
<1> QED
  BY <1>1, <1>2

LEMMA PlayOpenKeeps ==
  ASSUME ArcTypes, PlayInv, NEW q \in Requests,
         NEW from \in Numbers, NEW till \in Numbers, PlayOpen(q, from, till)
  PROVE  PlayInv'
<1>1. CASE End(q)
  BY <1>1, QuietPlay
<1>2. CASE ~End(q)
  <2> DEFINE p == PathOf[q.ids[1]]
  <2>1. file[p] # 0 /\ row[q.ids[1]] # None
    BY <1>2 DEF PlayOpen
  <2>2. PICK len : len = SizeOf[file[p]]
    OBVIOUS
  <2>3. PICK range : range = ParseRange(from, till, len)
    OBVIOUS
  <2>4. call' = [call EXCEPT ![q] = [pc |-> IF range = <<>> THEN "416" ELSE "read",
                                    todo |-> range, len |-> len, range |-> <<from, till>>]]
    BY <1>2, <2>2, <2>3 DEF PlayOpen
  <2>5. len \in Nat
    <3>1. \A r \in Recs : SizeOf[r] \in Nat
      BY Assumed
    <3>2. p \in Paths
      <4>1. q.ids \in Seq(Recs) /\ q.ids # <<>>
        BY ArchiveAssumption DEF ArchiveAssumption, PlayOpen
      <4>2. q.ids[1] \in Recs
        BY <4>1
      <4> QED
        BY <4>2, Assumed
    <3>3. file[p] \in Recs
      BY <2>1, <3>2 DEF ArcTypes, TableTypes
    <3> QED
      BY <2>2, <3>1, <3>3
  <2>6. /\ DOMAIN call' = Requests /\ \A x \in Requests \ {q} : call'[x] = call[x]
        /\ call'[q] = [pc |-> IF range = <<>> THEN "416" ELSE "read",
                       todo |-> range, len |-> len, range |-> <<from, till>>]
    BY <2>4 DEF PlayInv
  <2>7. /\ DOMAIN call'[q] = {"pc", "todo", "len", "range"}
        /\ call'[q].pc = "416" <=> range = <<>>
        /\ call'[q].todo = range /\ call'[q].len = len
        /\ call'[q].range[1] = from /\ call'[q].range[2] = till
    BY <2>6
  <2> QED
    BY <2>3, <2>5, <2>6, <2>7 DEF PlayInv
<1> QED
  BY <1>1, <1>2

LEMMA PlayReadKeeps ==
  ASSUME PlayInv, NEW q \in Requests, PlayRead(q)
  PROVE  PlayInv'
<1>1. CASE End(q)
  BY <1>1, QuietPlay
<1>2. CASE ~End(q)
  <2>1. call' = [call EXCEPT ![q].pc = "206"] /\ call[q].pc = "read"
    BY <1>2 DEF PlayRead, At
  <2>2. /\ DOMAIN call' = Requests /\ \A x \in Requests \ {q} : call'[x] = call[x]
        /\ DOMAIN call'[q] = {"pc", "todo", "len", "range"} /\ call'[q].pc = "206"
        /\ call'[q].todo = call[q].todo /\ call'[q].len = call[q].len
        /\ call'[q].range = call[q].range
    BY <2>1 DEF PlayInv
  <2> QED
    BY <2>1, <2>2 DEF PlayInv, AnswerPcs
<1> QED
  BY <1>1, <1>2

LEMMA PlayInvStep ==
  ASSUME ArcInv, PlayInv, [Next]_vars
  PROVE  PlayInv'
<1>1. CASE UNCHANGED call
  BY <1>1 DEF PlayInv
<1>2. UNCHANGED vars \/ Cleaner \/ Worker \/ (\E r \in Recs : Hook(r)) \/ Pass => UNCHANGED call
  <2>1. UNCHANGED vars \/ Pass => UNCHANGED call
    BY DEF vars, Pass
  <2>2. Cleaner => UNCHANGED call
    BY DEF Cleaner, CleanStart, CleanFile, CleanRow, CleanTotal, CleanList, CleanEnd
  <2>3. Worker => UNCHANGED call
    BY DEF Worker, WorkerAlone, GetJob, Sweep, SweepTarget, Upload, RecordJob
  <2>4. ASSUME NEW r \in Recs, Hook(r)
        PROVE  UNCHANGED call
    BY <2>4 DEF Hook, RecordTs, ArchiveFile, Probe, Upsert
  <2> QED
    BY <2>1, <2>2, <2>3, <2>4
<1>3. CASE Crash
  <2>1. /\ DOMAIN call' = Requests
        /\ \A q \in Requests :
             call'[q] = IF call[q].pc \in {"never", "due", "416", "206"} THEN call[q] ELSE Done
    BY <1>3 DEF Crash
  <2>2. DOMAIN Done = {"pc", "todo", "len", "range"} /\ Done.pc \notin AnswerPcs
    BY DEF Done, AnswerPcs
  <2> QED
    BY <2>1, <2>2 DEF PlayInv
<1>4. ASSUME NEW q \in Requests, Call(q)
      PROVE  PlayInv'
  <2>1. ASSUME NEW from \in Ranges \cup {None}, NEW till \in Ranges \cup {None},
               PlayOpen(q, from, till)
        PROVE  PlayInv'
    BY <2>1, PlayOpenKeeps DEF Numbers, ArcInv
  <2>2. CASE PlayRead(q)
    BY <2>2, PlayReadKeeps
  <2>3. CASE \/ WipeList(q) \/ GetTarget(q)
             \/ \E ok \in BOOLEAN : DelFile(q, ok) \/ DelRow(q, ok) \/ WipeFile(q, ok)
                                   \/ WipeRows(q, ok) \/ PutTarget(q, ok) \/ DropTarget(q, ok)
                                   \/ DropJobs(q, ok) \/ SaveCleanup(q, ok)
    <3>1. \/ End(q)
          \/ \E pc, todo : Go(q, pc, todo) /\ pc \in {"del", "delrow", "wipe", "put", "jobs"}
      BY <2>3 DEF WipeList, GetTarget, DelFile, DelRow, WipeFile, WipeRows, PutTarget, DropTarget,
                  DropJobs, SaveCleanup
    <3>2. End(q) \/ \E pc, todo : Go(q, pc, todo) /\ pc \notin AnswerPcs
      BY <3>1 DEF AnswerPcs
    <3> QED
      BY <3>2, QuietPlay
  <2> QED
    BY <1>4, <2>1, <2>2, <2>3 DEF Call
<1> QED
  BY <1>1, <1>2, <1>3, <1>4 DEF Next

LEMMA PlayInvInit ==
  ASSUME Init
  PROVE  PlayInv
<1> PICK s \in Scenarios : call = [q \in Requests |-> IF q \in s.reqs THEN ToCome ELSE Never]
  BY DEF Init
<1>1. /\ DOMAIN ToCome = {"pc", "todo", "len", "range"} /\ ToCome.pc = "due"
      /\ DOMAIN Never = {"pc", "todo", "len", "range"} /\ Never.pc = "never"
  BY DEF ToCome, Never, Done
<1> QED
  BY <1>1 DEF PlayInv, AnswerPcs

\* 206 carries exactly the bytes asked for, at least one, and 416 is answered only when there
\* are none, whatever happens to file and row between the look at its length and the read.
THEOREM RangeServedAlways == Spec => []RangeServed
<1>1. Init => ArcInv /\ PlayInv
  BY ArcInvInit, PlayInvInit
<1>2. (ArcInv /\ PlayInv) /\ [Next]_vars => (ArcInv /\ PlayInv)'
  BY ArcInvStep, PlayInvStep
<1>3. ArcInv /\ PlayInv => RangeServed
  BY PlayInvImplies
<1> QED
  BY <1>1, <1>2, <1>3, PTL DEF Spec

=============================================================================
