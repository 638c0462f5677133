------------------------------ MODULE MCMixer ------------------------------
(* Two buses over two devices.                                              *)
EXTENDS Mixer, TLC
CONSTANTS x, y, a, b, c1, c2, c3
In(s, v) == [src |-> s, volume |-> v]
Req(op, bus, is, m) == [op |-> op, bus |-> bus, inputs |-> is, muted |-> m]
MCRequests ==
  {Req("create", x, <<In(b, 100)>>, FALSE),
   Req("create", y, <<>>, FALSE), Req("remove", x, <<>>, FALSE),
   Req("add", x, <<In(a, 50)>>, FALSE), Req("take", x, <<In(a, 0)>>, FALSE),
   Req("volume", x, <<In(a, 50)>>, FALSE), Req("mute", x, <<In(a, 0)>>, TRUE)}
Bus(s, t) == (a :> s) @@ (b :> t)
Set(v, m) == [volume |-> v, muted |-> m]
OneBus == (x :> Bus(Set(100, TRUE), None)) @@ (y :> None)
MCStarts ==
  {[row |-> (x :> None) @@ (y :> None), calls |-> {c1, c2}],
   [row |-> OneBus, calls |-> {c1, c2}],
   [row |-> OneBus, calls |-> {c3, Halt}],
   [row |-> (x :> Bus(None, Set(50, TRUE))) @@ (y :> Bus(None, Set(100, FALSE))),
    calls |-> {Halt}],
   [row |-> (x :> Bus(None, None)) @@ (y :> Bus(None, Set(100, FALSE))), calls |-> {}],
   [row |-> (x :> Bus(Set(100, TRUE), Set(50, TRUE))) @@ (y :> Bus(None, Set(100, FALSE))),
    calls |-> {}]}
=============================================================================
