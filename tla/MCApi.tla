------------------------------- MODULE MCApi -------------------------------
(* Two devices' worth of edits on one id, and two users with a session or two. *)
EXTENDS Api, TLC
CONSTANTS d, root, ann, s0, s1, s2
Cfg(ty, v, ok) == [type |-> ty, val |-> v, ok |-> ok]
Net   == Cfg("net", 1, TRUE)
Net2  == Cfg("net", 2, TRUE)
Gb    == Cfg("gb28181", 1, TRUE)
GbBad == Cfg("gb28181", 2, FALSE)
Onv   == Cfg("onvif", 1, TRUE)
Odd   == Cfg("other", 1, FALSE)
MCCfgs == {Net, Net2, Gb, GbBad, Onv, Odd}
Dev(op, c) == [op |-> op, id |-> d, cfg |-> c]
AddNet == Dev("add", Net)   AddGb == Dev("add", Gb)    ToNet == Dev("update", Net2)
ToGb == Dev("update", Gb)   ToOnv == Dev("update", Onv) ToOdd == Dev("update", Odd)
ToBad == Dev("update", GbBad)  Rm == Dev("remove", Net)
AddPipe == Dev("pipe", Net2)   RmPipe == Dev("unpipe", Net2)
MCDevReqs == {AddNet, AddGb, ToNet, ToGb, ToOnv, ToOdd, ToBad, Rm, AddPipe, RmPipe}
Ask(op, t, u, o, n, x) == [op |-> op, tok |-> t, user |-> u, pw |-> o, new |-> n, dev |-> x]
Login(u, pw) == Ask("login", s0, u, pw, 1, Nobody)
LogAnn1 == Login(ann, 1)
LogAnn2 == Login(ann, 2)
Change  == Ask("password", s1, ann, 1, 2, Nobody)
Info1   == Ask("info", s1, ann, 1, 1, Nobody)
Info2   == Ask("info", s2, ann, 1, 1, Nobody)
Out     == Ask("logout", s2, ann, 1, 1, Nobody)
Kick    == Ask("removeuser", s0, ann, 1, 1, Nobody)
Hire    == Ask("adduser", s0, ann, 2, 1, Nobody)
ByAnn   == Ask("device", s1, ann, 1, 1, AddNet)
MCAccReqs == {LogAnn1, LogAnn2, Change, Info1, Info2, Out, Kick, Hire} \cup
             {Ask("device", s0, root, 1, 1, x) : x \in MCDevReqs} \cup {ByAnn}
Served(devs) == {Ask("device", s0, root, 1, 1, x) : x \in devs}
MCTokens == {s0, s1, s2, LogAnn1, LogAnn2}
Begun == [t \in MCTokens |-> IF t = s0 THEN root ELSE IF t \in {s1, s2} THEN ann ELSE Nobody]
Case(acc, devs, tab, n) ==
  [acc |-> acc \cup Served(devs), open |-> Begun, dev |-> devs \cup (IF ByAnn \in acc THEN {AddNet} ELSE {}),
   rows |-> d :> tab, restarts |-> n]
MCCases ==
  {Case({}, {AddNet, ToGb, Rm}, <<>>, 1), Case({}, {ToOnv, ToOdd, ToNet}, <<Gb>>, 0),
   Case({}, {ToGb, ToBad, ToNet}, <<Onv>>, 0), Case({}, {AddNet, AddGb}, <<>>, 1),
   Case({}, {AddPipe, RmPipe, Rm}, <<Onv>>, 0),
   Case({LogAnn1, LogAnn2, Change}, {}, <<>>, 1), Case({Change, Info2, Out}, {}, <<>>, 0),
   Case({LogAnn1, Kick, Hire}, {}, <<>>, 0), Case({LogAnn1, Info2, Kick}, {}, <<>>, 0),
   Case({Kick, ByAnn}, {Rm}, <<>>, 0)}
=============================================================================
