----------------------------- MODULE MCPrograms -----------------------------
(* Two programs over two sources.                                           *)
EXTENDS Programs, TLC
CONSTANTS p1, p2, a, b, c1, c2
Prog(s, r) == [sources |-> s, regions |-> r]
Both == Prog(<<a, b>>, <<a>>)
Req(op, id, prog, src) == [op |-> op, id |-> id, prog |-> prog, src |-> src, at |-> 1]
MCRequests ==
  {Req("create", p1, Both, Blank), Req("create", p2, Prog(<<b>>, <<>>), Blank),
   Req("create", p1, Prog(<<a>>, <<b>>), Blank),
   Req("remove", p1, NoProgram, Blank), Req("switch", p1, NoProgram, b),
   Req("relayout", p1, Prog(<<>>, <<b>>), Blank),
   Req("add", p1, NoProgram, b), Req("drop", p1, NoProgram, b), Req("drop", p1, NoProgram, a)}
Row(x, y) == (p1 :> x) @@ (p2 :> y)
MCStarts ==
  {[row |-> Row(None, None), calls |-> {c1, c2}],
   [row |-> Row(Both, None), calls |-> {c1, c2}],
   [row |-> Row(Both, Prog(<<b>>, <<b>>)), calls |-> {c1}]}
=============================================================================
