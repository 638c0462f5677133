----------------------------- MODULE MCArchive -----------------------------
(* Recordings 1 and 2 on paths of their own, 3 on the path of 1.            *)
EXTENDS Archive
CONSTANTS path1, path2, ftp, smb, dir1, dir2
MCPathOf == <<path1, path2, path1>>
MCSizeOf == <<2, 3, 1>>
Off  == [on |-> FALSE, age |-> 0, cap |-> 0]
Aged == [on |-> TRUE, age |-> 1, cap |-> 0]
Full == [on |-> TRUE, age |-> 1, cap |-> 3]
Req(op) == [op |-> op, ids |-> <<1>>, target |-> ftp, to |-> None, policy |-> Off]
Delete == [Req("delete") EXCEPT !.ids = <<1, 2>>]
Wipe   == Req("wipe")
Add    == [Req("add") EXCEPT !.target = smb, !.to = [on |-> TRUE, dest |-> dir1]]
Update == [Req("update") EXCEPT !.to = [on |-> TRUE, dest |-> dir2]]
Break  == [Req("update") EXCEPT !.to = [on |-> TRUE, dest |-> None]]
Drop   == Req("drop")
Save   == [Req("policy") EXCEPT !.policy = Full]
Play   == Req("play")
MCRequests == {Delete, Wipe, Add, Update, Break, Drop, Save, Play}
One == [x \in {ftp, smb} |-> IF x = ftp THEN [on |-> TRUE, dest |-> dir1] ELSE None]
NoTarget == [x \in {ftp, smb} |-> None]
Case(rs, reqs, pol, tg, h, f, c) ==
  [recs |-> rs, reqs |-> reqs, policy |-> pol, target |-> tg,
   time |-> h, faults |-> f, crashes |-> c]
MCScenarios ==
  {Case({1, 2}, {Delete}, Full, NoTarget, 0, 1, 0), Case({1, 2}, {Wipe}, Full, NoTarget, 0, 1, 0),
   Case({1, 3}, {Delete}, Aged, NoTarget, 4, 0, 0), Case({1, 2}, {Save}, Off, NoTarget, 4, 0, 1),
   Case({1, 2}, {Delete}, Off, One, 0, 1, 0), Case({1, 2}, {Drop, Update}, Off, One, 0, 0, 0),
   Case({1, 2}, {Drop}, Off, One, 0, 1, 0), Case({1, 2}, {Add, Break}, Off, One, 0, 0, 0),
   Case({1, 2}, {}, Full, One, 0, 0, 1), Case({1, 3}, {Play}, Aged, NoTarget, 4, 0, 0)}
=============================================================================
